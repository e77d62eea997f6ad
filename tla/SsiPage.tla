------------------------------- MODULE SsiPage -------------------------------
(***************************************************************************)
(* How httpd.c sends a page of the SD card to a browser, and puts an       *)
(* insert behind every tag <!--#name parameters--> of an SSI page.         *)
(*                                                                         *)
(* send_data is called with the request, whenever TCP reports that data    *)
(* was acknowledged (http_sent), and from the poll timer (http_poll).      *)
(* Each call reads at most one block of the file into a buffer, scans it   *)
(* with a state machine that survives from call to call, and hands what it *)
(* may to tcp_write; a tag may straddle two blocks and an insert two calls.*)
(* All of it runs in lwIP's tcpip thread, so a call is not interrupted;    *)
(* its steps are actions of their own here (pc tells which comes next)     *)
(* and no other action is enabled between them.                            *)
(*                                                                         *)
(* One connection is modelled, one byte is one token.  A parameter         *)
(* name=value is a single token, and so is the name of a tag.  tcp_write   *)
(* takes the data over as a copy or as a reference into the buffer.        *)
(***************************************************************************)
EXTENDS Naturals, Sequences, FiniteSets, SequencesExt

CONSTANTS
    Pages,          (* The files: sequences of parts, a part is a text and *)
                    (* the tag behind it, [text, name, params].            *)
    NoTag,          (* The name in a part without a tag.                   *)
    Tokens,         (* What a byte of a file may be.                       *)
    InsertLen,      (* The length of the text each tag is rendered to.     *)
    UNKNOWN_LEN,    (* The length of the text for a tag that is unknown.   *)
    BYTE,           (* Values of a u8_t.                                   *)
    WORD,           (* Values of a u32_t.                                  *)
    MAX_TAG_NAME_LEN,
    BufSizes,       (* What mem_malloc may grant: 2 mss, mss, ...          *)
    MAX_SEND,       (* 2 * pcb->mss                                        *)
    SND_BUF,        (* Room for unacknowledged data in the pcb.            *)
    MAX_RETRIES     (* Polls without an acknowledgement before an abort.   *)

LeadIn  == <<"<", "!", "-", "-", "#">>
LeadOut == <<"-", "-", ">">>

ASSUME SsiAssumption ==
    /\ ToSet(LeadIn) \cup ToSet(LeadOut) \cup {" "} \subseteq Tokens
    /\ \A p \in Pages :
         p \in Seq([text : Seq(Tokens), name : Tokens \cup {NoTag}, params : Seq(Tokens)])
    /\ \A name \in DOMAIN InsertLen : InsertLen[name] \in Nat
    /\ BYTE \in Nat \ {0} /\ Len(LeadIn) < BYTE
    /\ WORD \in Nat \ {0} /\ MAX_SEND < WORD
    /\ MAX_SEND \in Nat \ {0} /\ BufSizes \subseteq 1 .. MAX_SEND
    /\ SND_BUF \in Nat /\ SND_BUF >= 2 * MAX_SEND
    /\ MAX_RETRIES \in Nat \ {0}
    /\ UNKNOWN_LEN \in Nat \ {0} /\ MAX_TAG_NAME_LEN \in 1 .. BYTE - 1

VARIABLES
    page,         (* The page that was asked for.                          *)
    conn,         (* "closed", "open", or "aborted".                       *)
    tag_check,    (* It is an SSI page.                                    *)
    block_ends,   (* History: a tag of the page has ended with a block.    *)
    pos,          (* Bytes read from the file.                             *)
    buf,          (* The read buffer, <<>> before it is allocated.         *)
    file,         (* Offset in buf of the first unsent byte.               *)
    left,         (* Number of unsent bytes in buf.                        *)
    parsed,       (* Offset of the first unparsed byte.                    *)
    parse_left,   (* Number of unparsed bytes in buf.                      *)
    tag_end,      (* Offset behind the tag that is being dealt with.       *)
    tag_state, tag_index, tag_name,
    insert,       (* The rendered tag: its name, its parameters, its length*)
    ssi_params,   (* The parameters read since send_data was called.       *)
    freed,        (* They are freed, but the list still has them.          *)
    spoiled,      (* History: a parameter of the page found no memory, or a*)
                  (* tag was rendered from a list that was freed.          *)
    param_name,   (* The parameter being read, a local of send_data.       *)
    retries,
    pc,           (* The next step of send_data, "idle" between calls.     *)
    len, err,     (* Locals of send_data.                                  *)
    queue,        (* What TCP holds unacknowledged: for every byte, whether*)
                  (* it is a copy, a reference into buf, or a reference    *)
                  (* into a buffer that was reused or freed ("stale").     *)
    out           (* History: all bytes handed to tcp_write.               *)

fileVars  == <<page, pos, buf>>
connVars  == <<conn, tag_check, block_ends>>
sendVars  == <<file, left, queue, out>>
parseVars == <<parsed, parse_left>>
tagVars   == <<tag_end, tag_state, tag_index, tag_name, insert>>
paramVars == <<ssi_params, freed, spoiled, param_name>>
localVars == <<pc, len, err>>
vars == <<fileVars, connVars, sendVars, parseVars, tagVars, paramVars,
          retries, localVars>>

-----------------------------------------------------------------------------
(* Pages. *)

\* A tag as it is written: every parameter is preceded by a space.
TagText(part) ==
    IF part.name = NoTag THEN <<>>
    ELSE LeadIn \o <<part.name>>
           \o FlattenSeq([k \in DOMAIN part.params |-> <<" ", part.params[k]>>])
           \o LeadOut

Known(name) == Len(name) = 1 /\ name[1] \in DOMAIN InsertLen

\* get_tag_insert: an unknown tag is echoed with an error marker.
InsertLength(name) == IF Known(name) THEN InsertLen[name[1]] ELSE UNKNOWN_LEN

\* The bytes from .. to of a rendered tag.
InsertBytes(ins, from, to) ==
    [k \in 1 .. to - from + 1 |-> <<ins.name, ins.params, from + k - 1>>]

\* Tokens of a file as bytes of the stream to the browser.
Bytes(s) == [k \in DOMAIN s |-> <<s[k]>>]

PageText(p) == FlattenSeq([k \in DOMAIN p |-> p[k].text \o TagText(p[k])])

File == PageText(page)

\* What the browser should get: every tag is followed by its insert.
Rendered(part) ==
    IF part.name = NoTag THEN Bytes(part.text)
    ELSE Bytes(part.text \o TagText(part))
           \o InsertBytes([name |-> <<part.name>>, params |-> { <<q>> : q \in ToSet(part.params) }],
                          1, InsertLength(<<part.name>>))

Expected(p) == FlattenSeq([k \in DOMAIN p |-> Rendered(p[k])])

-----------------------------------------------------------------------------
(* TCP. *)

Room == SND_BUF - Len(queue)

\* How much a loop hands over that starts with n bytes and halves them while
\* tcp_write has no memory.  tcp_write has none for more than fits.
Lengths(n) ==
    { m \in 0 .. n : /\ m <= Room
                     /\ \/ m = n
                        \/ m > 1 /\ \E k \in 1 .. n : m = n \div (2 ^ k) }

Kinds(kind, n) == [k \in 1 .. n |-> kind]

\* The references into the buffer are no longer good.
Reused(q) == [k \in DOMAIN q |-> IF q[k] = "ref" THEN "stale" ELSE q[k]]

\* Mutant: left is counted down by what was to be sent.
SendFileAll(n, kind) ==
    \/ \E m \in Lengths(n) :
         /\ queue' = queue \o Kinds(kind, m)
         /\ out' = out \o Bytes(SubSeq(buf, file + 1, file + m))
         /\ file' = file + m
         /\ left' = (left + WORD - n) % WORD
         /\ len' = m
         /\ err' = "OK"
    \/ /\ n > 0
       /\ err' = "MEM"
       /\ len' = 0
       /\ UNCHANGED sendVars

\* tcp_write of n bytes from the file pointer on, at most.
SendFile(n, kind) ==
    \/ \E m \in Lengths(n) :
         /\ queue' = queue \o Kinds(kind, m)
         /\ out' = out \o Bytes(SubSeq(buf, file + 1, file + m))
         /\ file' = file + m
         /\ left' = (left + WORD - m) % WORD
         /\ len' = m
         /\ err' = "OK"
    \/ /\ n > 0
       /\ err' = "MEM"
       /\ len' = 0
       /\ UNCHANGED sendVars

AtMost(n, limit) == IF n > limit THEN limit ELSE n

\* What may be sent of n bytes.
Sendable(n) == AtMost(AtMost(n, Room), MAX_SEND)

-----------------------------------------------------------------------------
Init ==
    /\ page \in Pages
    /\ conn = "closed"
    /\ tag_check = FALSE
    /\ block_ends = FALSE
    /\ pos = 0
    /\ buf = <<>>
    /\ file = 0 /\ left = 0
    /\ parsed = 0 /\ parse_left = 0
    /\ tag_end = 0
    /\ tag_state = "NONE" /\ tag_index = 0 /\ tag_name = <<>>
    /\ insert = [name |-> <<>>, params |-> {}, len |-> 0]
    /\ ssi_params = <<>> /\ freed = FALSE /\ spoiled = FALSE /\ param_name = <<>>
    /\ retries = 0
    /\ pc = "idle" /\ len = 0 /\ err = "OK"
    /\ queue = <<>>
    /\ out = <<>>

\* What send_data starts with.
CallSendData ==
    /\ pc' = "read"
    /\ ssi_params' = <<>>
    /\ freed' = FALSE
    /\ param_name' = <<>>
    /\ err' = "OK"
    /\ len' = 0

-----------------------------------------------------------------------------
(* The callbacks. *)

\* http_recv with a GET for the page, on a new connection.
Request(p, ssi) ==
    /\ pc = "idle"
    /\ conn # "open"
    /\ queue = <<>>
    /\ page' = p
    /\ conn' = "open"
    /\ tag_check' = ssi
    /\ block_ends' = FALSE
    /\ pos' = 0
    /\ buf' = <<>>
    /\ file' = 0 /\ left' = 0
    /\ parsed' = 0 /\ parse_left' = 0
    /\ tag_end' = 0
    /\ tag_state' = "NONE" /\ tag_index' = 0
    /\ tag_name' = <<>>
    /\ insert' = [name |-> <<>>, params |-> {}, len |-> 0]
    /\ retries' = 0
    /\ queue' = <<>>
    /\ out' = <<>>
    /\ spoiled' = FALSE
    /\ CallSendData

\* TCP reports that the first n bytes are acknowledged; http_sent.
Acknowledge(n) ==
    /\ pc = "idle"
    /\ conn = "open"
    /\ n \in 1 .. Len(queue)
    /\ queue' = SubSeq(queue, n + 1, Len(queue))
    /\ retries' = 0
    /\ CallSendData
    /\ UNCHANGED <<fileVars, connVars, file, left, out, parseVars, tagVars, spoiled>>

\* The same after close_conn, which has taken the callbacks off.
AcknowledgeClosed(n) ==
    /\ pc = "idle"
    /\ conn = "closed"
    /\ n \in 1 .. Len(queue)
    /\ queue' = SubSeq(queue, n + 1, Len(queue))
    /\ UNCHANGED <<fileVars, connVars, file, left, out, parseVars, tagVars,
                   paramVars, retries, localVars>>

\* ++hs->retries
Tries == retries + 1

\* hs->retries == 4
Spent == Tries = MAX_RETRIES

\* http_poll.
Poll ==
    /\ pc = "idle"
    /\ conn = "open"
    /\ retries' = Tries
    /\ \/ /\ Spent
          /\ conn' = "aborted"
          /\ queue' = <<>>
          /\ UNCHANGED <<localVars, ssi_params, freed, param_name>>
       \/ /\ ~Spent
          /\ CallSendData
          /\ UNCHANGED <<conn, queue>>
    /\ UNCHANGED <<fileVars, tag_check, block_ends, file, left, out, parseVars, tagVars, spoiled>>

-----------------------------------------------------------------------------
(* send_data: the next block. *)

\* There is unsent data in the buffer, go on with it.
KeepBlock ==
    /\ pc = "read"
    /\ left # 0
    /\ pc' = IF tag_check THEN "pending" ELSE "plain"
    /\ UNCHANGED <<fileVars, connVars, sendVars, parseVars, tagVars,
                   paramVars, retries, len, err>>

\* mem_malloc grants no buffer: wait for the next call.
NoBuffer ==
    /\ pc = "read"
    /\ left = 0
    /\ buf = <<>>
    /\ pc' = "idle"
    /\ UNCHANGED <<fileVars, connVars, sendVars, parseVars, tagVars,
                   paramVars, retries, len, err>>

\* The buffer that is used: the one there is, or a new one.
Buffers ==
    IF buf # <<>> THEN {buf}
    ELSE { [k \in 1 .. n |-> "garbage"] : n \in BufSizes }

\* fs_read: a block of the file, over what the buffer held.
ReadBlock ==
    /\ pc = "read"
    /\ left = 0
    /\ pos < Len(File)
    /\ \E b \in Buffers :
         LET count == AtMost(Len(b), Len(File) - pos)
         IN  /\ buf' = [k \in DOMAIN b |-> IF k <= count THEN File[pos + k]
                                                         ELSE b[k]]
             /\ pos' = pos + count
             /\ left' = count
             /\ parse_left' = count
    /\ file' = 0
    /\ parsed' = 0
    /\ queue' = Reused(queue)
    /\ pc' = IF tag_check THEN "pending" ELSE "plain"
    /\ UNCHANGED <<page, connVars, out, tagVars, paramVars, retries, len,
                   err>>

\* fs_read has nothing more, or the card an error: close_conn.
EndOfFile ==
    /\ pc = "read"
    /\ left = 0
    /\ conn' = "closed"
    /\ queue' = Reused(queue)
    /\ pc' = "idle"
    /\ UNCHANGED <<fileVars, tag_check, block_ends, file, left, out, parseVars, tagVars,
                   paramVars, retries, len, err>>

(* send_data: a page without tags. *)

\* Mutant: the data are not copied.
SendPlainByReference ==
    /\ pc = "plain"
    /\ SendFile(Sendable(left), "ref")
    /\ pc' = "idle"
    /\ UNCHANGED <<fileVars, connVars, parseVars, tagVars, paramVars, retries>>

SendPlain ==
    /\ pc = "plain"
    /\ SendFile(Sendable(left), "copy")
    /\ pc' = "idle"
    /\ UNCHANGED <<fileVars, connVars, parseVars, tagVars, paramVars, retries>>

(* send_data: a page with tags. *)

\* First what was parsed, but not sent, by an earlier call.
NothingPending ==
    /\ pc = "pending"
    /\ parsed <= file
    /\ len' = Room
    /\ pc' = "parse"
    /\ UNCHANGED <<fileVars, connVars, sendVars, parseVars, tagVars,
                   paramVars, retries, err>>

SendPending ==
    /\ pc = "pending"
    /\ parsed > file
    /\ SendFile(Sendable(parsed - file), "ref")
    /\ pc' = IF Len(queue') = SND_BUF THEN "idle" ELSE "parse"
    /\ UNCHANGED <<fileVars, connVars, parseVars, tagVars, paramVars, retries>>

\* Then the rest of the block is parsed, in the state st of the parser.
Parsing(st) ==
    /\ pc = "parse"
    /\ parse_left > 0
    /\ err = "OK"
    /\ tag_state = st

char == buf[parsed + 1]

Advance ==
    /\ parsed' = parsed + 1
    /\ parse_left' = parse_left - 1

\* TAG_NONE
ScanText ==
    /\ Parsing("NONE")
    /\ IF char = LeadIn[1]
       THEN tag_state' = "LEADIN" /\ tag_index' = 1
       ELSE UNCHANGED <<tag_state, tag_index>>
    /\ Advance
    /\ UNCHANGED <<fileVars, connVars, sendVars, tag_end, tag_name, insert,
                   paramVars, retries, localVars>>

\* Mutant: the state does not change at the end of the lead-in.
EndLeadInStays ==
    /\ Parsing("LEADIN")
    /\ tag_index = Len(LeadIn)
    /\ UNCHANGED vars

\* TAG_LEADIN
EndLeadIn ==
    /\ Parsing("LEADIN")
    /\ tag_index = Len(LeadIn)
    /\ tag_state' = "FOUND"
    /\ tag_index' = 0
    /\ UNCHANGED <<fileVars, connVars, sendVars, parseVars, tag_end,
                   tag_name, insert, paramVars, retries, localVars>>

MatchLeadIn ==
    /\ Parsing("LEADIN")
    /\ tag_index < Len(LeadIn)
    /\ IF char = LeadIn[tag_index + 1]
       THEN tag_index' = tag_index + 1 /\ UNCHANGED tag_state
       ELSE tag_state' = "NONE" /\ UNCHANGED tag_index
    /\ Advance
    /\ UNCHANGED <<fileVars, connVars, sendVars, tag_end, tag_name, insert,
                   paramVars, retries, localVars>>

\* TAG_FOUND: a space; the parameters begin if the next byte says so, even if
\* that byte is not read yet.
NextBytes ==
    IF parsed + 1 < Len(buf) THEN {buf[parsed + 2]} ELSE {"-", " ", "garbage"}

EndName ==
    /\ Parsing("FOUND")
    /\ char = " "
    /\ \E c \in NextBytes :
         tag_state' = IF c \in {LeadOut[1], " "} THEN "FOUND" ELSE "PARAM"
    /\ Advance
    /\ UNCHANGED <<fileVars, connVars, sendVars, tag_end, tag_index,
                   tag_name, insert, paramVars, retries, localVars>>

\* TAG_FOUND: a byte of the name.
ReadName ==
    /\ Parsing("FOUND")
    /\ char \notin {" ", LeadOut[1]}
    /\ IF tag_index < MAX_TAG_NAME_LEN
       THEN /\ tag_name' = Append(SubSeq(tag_name, 1, tag_index), char)
            /\ tag_index' = tag_index + 1
            /\ UNCHANGED tag_state
       ELSE tag_state' = "NONE" /\ UNCHANGED <<tag_name, tag_index>>
    /\ Advance
    /\ UNCHANGED <<fileVars, connVars, sendVars, tag_end, insert, paramVars,
                   retries, localVars>>

\* SSIParamAdd: the parameter comes first, or its texts find no memory.
AddParam(p) ==
    \/ ssi_params' = <<p>> \o ssi_params /\ UNCHANGED spoiled
    \/ spoiled' = TRUE /\ UNCHANGED ssi_params

\* TAG_FOUND and TAG_PARAM: the lead-out begins.
BeginLeadOut ==
    /\ Parsing("FOUND") \/ Parsing("PARAM")
    /\ char = LeadOut[1]
    /\ IF tag_index = 0
       THEN tag_state' = "NONE" /\ UNCHANGED <<tag_index, tag_name, ssi_params, spoiled>>
       ELSE /\ tag_state' = "LEADOUT"
            /\ tag_index' = 1
            /\ tag_name' = SubSeq(tag_name, 1, tag_index)
            /\ IF tag_state = "PARAM" /\ param_name # <<>>
               THEN AddParam(param_name) ELSE UNCHANGED <<ssi_params, spoiled>>
    /\ Advance
    /\ UNCHANGED <<fileVars, connVars, sendVars, tag_end, insert, freed,
                   param_name, retries, localVars>>

\* TAG_PARAM: a byte of a parameter, or the space behind it.
ReadParam ==
    /\ Parsing("PARAM")
    /\ char # LeadOut[1]
    /\ IF char = " "
       THEN /\ param_name' = <<>>
            /\ IF param_name # <<>> THEN AddParam(param_name)
                                    ELSE UNCHANGED <<ssi_params, spoiled>>
       ELSE /\ param_name' = Append(param_name, char)
            /\ UNCHANGED <<ssi_params, spoiled>>
    /\ Advance
    /\ UNCHANGED <<fileVars, connVars, sendVars, tagVars, freed, retries,
                   localVars>>

\* TAG_LEADOUT
MatchLeadOut ==
    /\ Parsing("LEADOUT")
    /\ ~ (char = LeadOut[tag_index + 1] /\ tag_index = Len(LeadOut) - 1)
    /\ IF char = LeadOut[tag_index + 1]
       THEN tag_index' = tag_index + 1 /\ UNCHANGED tag_state
       ELSE tag_state' = "NONE" /\ UNCHANGED tag_index
    /\ Advance
    /\ UNCHANGED <<fileVars, connVars, sendVars, tag_end, tag_name, insert,
                   paramVars, retries, localVars>>

\* Mutant: the parameters are freed before the tag is rendered.
RenderTagFreed ==
    /\ insert' = [name |-> tag_name,
                  params |-> {},
                  len |-> InsertLength(tag_name) % BYTE]
    /\ freed' = IF Known(tag_name) THEN ssi_params # <<>> ELSE freed
    /\ spoiled' = (spoiled \/ (Known(tag_name) /\ freed))

\* get_tag_insert: the tag is rendered; its handler reads its parameters and frees
\* them, but leaves the list as it is.
RenderTag ==
    /\ insert' = [name |-> tag_name,
                  params |-> ToSet(ssi_params),
                  len |-> InsertLength(tag_name) % BYTE]
    /\ freed' = IF Known(tag_name) THEN ssi_params # <<>> ELSE freed
    /\ spoiled' = (spoiled \/ (Known(tag_name) /\ freed))

\* TAG_LEADOUT: the last byte of a tag.  The bytes up to here are sent.
EndTag ==
    /\ Parsing("LEADOUT")
    /\ char = LeadOut[tag_index + 1]
    /\ tag_index = Len(LeadOut) - 1
    /\ Advance
    /\ RenderTag
    /\ tag_index' = 0
    /\ tag_state' = "SENDING"
    /\ tag_end' = parsed + 1
    /\ block_ends' = (block_ends \/ parse_left = 1)
    /\ IF parsed + 1 > file
       THEN SendFile(AtMost(len, parsed + 1 - file), "ref")
       ELSE UNCHANGED <<sendVars, len, err>>
    /\ UNCHANGED <<fileVars, conn, tag_check, tag_name, ssi_params, param_name,
                   retries, pc>>

\* TAG_SENDING: bytes in front of the insert.
SendBeforeInsert ==
    /\ Parsing("SENDING")
    /\ tag_end > file
    /\ SendFile(AtMost(len, tag_end - file), "ref")
    /\ UNCHANGED <<fileVars, connVars, parseVars, tagVars, paramVars,
                   retries, pc>>

\* When TCP has taken bytes of the insert, the call ends.
InsertSent == pc' = "idle"

\* TAG_SENDING: bytes of the insert.
SendInsert ==
    /\ Parsing("SENDING")
    /\ tag_end <= file
    /\ tag_index < insert.len
    /\ LET n == AtMost(len, insert.len - tag_index)
       IN  \/ \E m \in Lengths(n) :
                /\ queue' = queue \o Kinds("copy", m)
                /\ out' = out \o InsertBytes(insert, tag_index + 1, tag_index + m)
                /\ tag_index' = tag_index + m
                /\ len' = m
                /\ InsertSent
                /\ UNCHANGED err
           \/ /\ n > 0
              /\ err' = "MEM"
              /\ len' = 0
              /\ UNCHANGED <<queue, out, tag_index, pc>>
    /\ UNCHANGED <<fileVars, connVars, file, left, parseVars, tag_end,
                   tag_state, tag_name, insert, paramVars, retries>>

\* TAG_SENDING: all of the insert is sent.
EndInsert ==
    /\ Parsing("SENDING")
    /\ tag_end <= file
    /\ tag_index >= insert.len
    /\ tag_index' = 0
    /\ tag_state' = "NONE"
    /\ UNCHANGED <<fileVars, connVars, sendVars, parseVars, tag_end,
                   tag_name, insert, paramVars, retries, localVars>>

\* Last, what was parsed is sent, unless it belongs to a tag.
EndParse ==
    /\ pc = "parse"
    /\ parse_left = 0 \/ err # "OK"
    /\ IF tag_state # "SENDING" /\ parsed > file
       THEN SendFile(Sendable(parsed - file), "ref")
       ELSE UNCHANGED <<sendVars, len, err>>
    /\ pc' = "idle"
    /\ UNCHANGED <<fileVars, connVars, parseVars, tagVars, paramVars, retries>>

-----------------------------------------------------------------------------
SendData ==
    \/ KeepBlock \/ NoBuffer \/ ReadBlock \/ EndOfFile
    \/ SendPlain
    \/ NothingPending \/ SendPending
    \/ ScanText
    \/ EndLeadIn \/ MatchLeadIn
    \/ EndName \/ ReadName \/ ReadParam
    \/ BeginLeadOut \/ MatchLeadOut \/ EndTag
    \/ SendBeforeInsert \/ SendInsert \/ EndInsert
    \/ EndParse

Next ==
    \/ \E p \in Pages, ssi \in BOOLEAN : Request(p, ssi)
    \/ \E n \in 1 .. SND_BUF : Acknowledge(n) \/ AcknowledgeClosed(n)
    \/ Poll
    \/ SendData

Spec == Init /\ [][Next]_vars

\* The poll timer runs, and send_data is not interrupted.  Nothing is assumed
\* of the browser.
FairSpec == Spec /\ WF_vars(Poll) /\ WF_vars(SendData)

-----------------------------------------------------------------------------
(* Properties. *)

TypeOK ==
    /\ page \in Pages
    /\ conn \in {"closed", "open", "aborted"}
    /\ tag_check \in BOOLEAN /\ block_ends \in BOOLEAN
    /\ pos \in 0 .. Len(File)
    /\ Len(buf) \in BufSizes \cup {0}
    /\ file \in 0 .. Len(buf) /\ parsed \in 0 .. Len(buf)
    /\ left \in 0 .. WORD - 1 /\ parse_left \in 0 .. Len(buf)
    /\ tag_end \in 0 .. MAX_SEND
    /\ tag_state \in {"NONE", "LEADIN", "FOUND", "PARAM", "LEADOUT", "SENDING"}
    /\ tag_index \in 0 .. BYTE - 1 /\ insert.len \in 0 .. BYTE - 1
    /\ freed \in BOOLEAN /\ spoiled \in BOOLEAN
    /\ retries \in 0 .. MAX_RETRIES
    /\ pc \in {"idle", "read", "plain", "pending", "parse"}
    /\ len \in 0 .. SND_BUF
    /\ err \in {"OK", "MEM"}
    /\ Len(queue) <= SND_BUF

\* Offset of part k of the page in the file.
Offset(k) == Len(PageText(SubSeq(page, 1, k - 1))) + Len(page[k].text)

\* Every insert is shorter than a u8_t can tell, no tag ends with a block or
\* with the file, none that has parameters straddles two blocks.
TagsFit ==
    /\ \A name \in DOMAIN InsertLen : InsertLen[name] < BYTE
    /\ \A k \in DOMAIN page :
         LET begin == Offset(k)
             end   == begin + Len(TagText(page[k]))
         IN  page[k].name # NoTag =>
                /\ buf # <<>> => end % Len(buf) # 0
                /\ end # Len(File)
                /\ page[k].params # <<>> /\ buf # <<>> =>
                      begin \div Len(buf) = (end - 1) \div Len(buf)

WhatIsAsked == IF tag_check THEN Expected(page) ELSE Bytes(File)

(***************************************************************************)
(* Whatever the order of acknowledgements and polls, however little TCP    *)
(* takes at a time and wherever the blocks of the file end: what is handed *)
(* over so far is the beginning of the page, every tag followed by the     *)
(* insert for this tag and these parameters - if the tags fit the blocks,  *)
(* each parameter found memory, and no tag was rendered behind another in  *)
(* one call of send_data, from a list that the first one has freed.        *)
(* The connection is closed only after all of it was handed over, unless   *)
(* reading the card failed.                                                *)
(***************************************************************************)
SendsPageInOrder ==
    TagsFit /\ ~spoiled => /\ IsPrefix(out, WhatIsAsked)
                           /\ conn = "closed" /\ pos = Len(File) => out = WhatIsAsked

(***************************************************************************)
(* The two pairs of pointer and counter agree, so that left never wraps    *)
(* and reaches 0 exactly at the end of the block, whatever is taken for a  *)
(* tag - as long as none ends with a block.  All of the counters stay      *)
(* within their types.                                                     *)
(***************************************************************************)
CountersAgree ==
    /\ TypeOK
    /\ tag_check /\ ~block_ends =>
          parsed >= file /\ parsed + parse_left = file + left

\* The bytes in front of an insert are sent with length 0, for ever.
Spinning == Parsing("SENDING") /\ tag_end > file /\ len = 0

(***************************************************************************)
(* A call of send_data comes to its end - unless the poll timer finds the  *)
(* send buffer full.                                                       *)
(***************************************************************************)
SendDataReturns == pc # "idle" ~> pc = "idle" \/ Spinning

(***************************************************************************)
(* What TCP still has to send of a page without tags does not change under *)
(* it when the next block is read, or the buffer freed: it was copied.     *)
(* (Of a page with tags only the inserts are.)                             *)
(***************************************************************************)
PlainDataIntact == tag_check \/ \A k \in DOMAIN queue : queue[k] # "stale"
=============================================================================
