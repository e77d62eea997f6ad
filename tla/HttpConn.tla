------------------------------ MODULE HttpConn ------------------------------
(***************************************************************************)
(* The web server's connections (httpd.c) on lwIP's TCP: accepting, the    *)
(* request, opening the file, and every way a connection can end, with the *)
(* memory, the files and the receive buffers that each step takes or gives *)
(* back.  How a page is cut into pieces and its tags filled is SsiPage;    *)
(* here send_data hands some part of a block to TCP.                       *)
(*                                                                         *)
(* All callbacks run in the tcpip thread, one after the other.  A segment  *)
(* can cause several: one for what it acknowledges, one for its data, one  *)
(* for the client's FIN.                                                   *)
(***************************************************************************)
EXTENDS Naturals, Sequences, FiniteSets, SequencesExt

CONSTANTS
    Conns,              (* TCP control blocks.                             *)
    States, Handles,    (* Memory for http_state and for open files.       *)
    Blocks,             (* The files on the card: the blocks each has.     *)
    Uris,               (* What is asked for: [kind, name].                *)
    DefaultFilenames,   (* g_psDefaultFilenames                            *)
    ErrorFilenames,     (* 404.html and 404.htm, as get_404_file tries them*)
    CgiPages,           (* What a CGI handler may return.                  *)
    SND_BUF,            (* Blocks TCP takes before they are acknowledged.  *)
    PBUF_POOL_SIZE,     (* Buffers for received segments.                  *)
    MAX_RETRIES,        (* Polls that end a connection.                    *)
    MAX_REQUESTS        (* Bounds the requests on each connection.         *)

ASSUME HttpConnAssumption ==
    /\ States \subseteq Nat \ {0} /\ Handles \subseteq Nat \ {0}
    /\ IsFiniteSet(States)
    /\ \A f \in DOMAIN Blocks : Blocks[f] \in Nat
    /\ DefaultFilenames \in Seq(STRING) \ {<<>>} /\ ErrorFilenames \in Seq(STRING)
    /\ \A u \in Uris : u.kind \in {"other", "nohttp", "root", "cgi", "file"}
    /\ SND_BUF \in Nat \ {0} /\ PBUF_POOL_SIZE \in Nat
    /\ MAX_RETRIES \in Nat \ {0} /\ MAX_REQUESTS \in [Conns -> Nat]

NULL == 0

VARIABLES
    pcb,      (* Of each control block:                                    *)
              (*   state     CLOSED when it is not in use                  *)
              (*   arg, recv, sent   what the callbacks are set to         *)
              (*   unacked   blocks in TCP's hands                         *)
              (*   requests  counted for MAX_REQUESTS                      *)
    hs,       (* The http_states: used, handle, buf, left, retries.        *)
    files,    (* Open files: used, name, pos.                              *)
    buffers,  (* Send buffers allocated.                                   *)
    misused,  (* Something was freed that was not allocated.               *)
    pbufs,    (* Receive buffers taken from the pool.                      *)
    card,     (* g_bFatFsEnabled                                           *)
    todo,     (* The callbacks left for the segment just received:         *)
              (* [conn, call, uri].                                        *)
    died,     (* The write through a NULL pointer stopped the processor.   *)
    served    (* History, of each connection's last request: what was      *)
              (* asked, the file opened, whether memory sufficed; and the  *)
              (* number of requests that opened no file.                   *)

vars == <<pcb, hs, files, buffers, misused, pbufs, card, todo, died, served>>

TcpStates == {"CLOSED", "ESTABLISHED", "CLOSE_WAIT", "FIN_WAIT", "LAST_ACK",
              "TIME_WAIT"}

NoPcb   == [state |-> "CLOSED", arg |-> NULL, recv |-> FALSE, sent |-> FALSE,
            unacked |-> 0, requests |-> 0]
NoState == [used |-> FALSE, handle |-> NULL, buf |-> FALSE, left |-> 0, retries |-> 0]
NoUri   == [kind |-> "none", name |-> "none"]
NoRequest == [uri |-> NoUri, path |-> <<>>, heap |-> TRUE, page |-> "none"]
NoFile  == [used |-> FALSE, name |-> "none", pos |-> 0]

\* What one step reads and changes.
World == [pcb |-> pcb, hs |-> hs, files |-> files, buffers |-> buffers, misused |-> misused]

Becomes(w) ==
    /\ pcb' = w.pcb /\ hs' = w.hs /\ files' = w.files
    /\ buffers' = w.buffers /\ misused' = w.misused

\* How memory and the card turn out in one callback, during which nobody else
\* allocates or frees: room in the heap for a state or a file, for a send
\* buffer, for the FIN, a block of the card that is read, and how much TCP takes.
Luck == [heap : BOOLEAN, buf : BOOLEAN, fin : BOOLEAN, read : BOOLEAN, taken : 0 .. 1]

-----------------------------------------------------------------------------
(* Files (lmi_fs.c). *)

FsClose(w, h) ==
    IF w.files[h].used THEN [w EXCEPT !.files[h] = NoFile]
    ELSE [w EXCEPT !.misused = TRUE]

\* A path is what was appended to the root folder.  Without a card there are
\* the files in ROM, whose names do not begin with that folder.
Exists(path) == card /\ Len(path) = 1 /\ path[1] \in DOMAIN Blocks

\* The handle that fs_open takes, or NULL.
FreeHandle(w) ==
    IF \E h \in Handles : ~w.files[h].used
    THEN CHOOSE h \in Handles : ~w.files[h].used ELSE NULL

\* Mutant: the path is not cleared before the second error page is tried.
ErrorPathsUncleared == << <<ErrorFilenames[1]>>, ErrorFilenames >>

\* The paths that get_404_file tries.
ErrorPaths == [k \in DOMAIN ErrorFilenames |-> <<ErrorFilenames[k]>>]

\* Those that http_recv tries first; for the root the names are appended to one
\* another.  The CGI handler returns page.
Paths(u, page) ==
    CASE u.kind = "root" -> [k \in DOMAIN DefaultFilenames |-> SubSeq(DefaultFilenames, 1, k)]
      [] u.kind = "cgi"  -> << <<page>> >>
      [] u.kind = "file" -> << <<u.name>> >>

\* The first of the paths that fs_open opens, <<>> if it opens none.
FirstOf(paths, heap) ==
    LET found == { k \in DOMAIN paths : heap /\ Exists(paths[k]) }
    IN IF found = {} THEN <<>>
       ELSE paths[CHOOSE k \in found : \A j \in found : k <= j]

-----------------------------------------------------------------------------
(* Closing. *)

\* Mutant: without the file.
FreeStateOnly(w, s) ==
    LET b == IF w.hs[s].buf THEN [w EXCEPT !.buffers = @ - 1] ELSE w
    IN IF w.hs[s].used THEN [b EXCEPT !.hs[s] = NoState] ELSE [b EXCEPT !.misused = TRUE]

\* The file, the buffer and the state itself.
FreeState(w, s) ==
    LET f == IF w.hs[s].handle # NULL THEN FsClose(w, w.hs[s].handle) ELSE w
        b == IF w.hs[s].buf THEN [f EXCEPT !.buffers = @ - 1] ELSE f
    IN IF w.hs[s].used THEN [b EXCEPT !.hs[s] = NoState] ELSE [b EXCEPT !.misused = TRUE]

\* conn_err, called by lwIP when the control block is gone.
ConnErr(w, s) == IF s = NULL THEN w ELSE FreeState(w, s)

\* tcp_abort, or any way lwIP removes a control block by itself.
Removed(w, c) == [ConnErr(w, w.pcb[c].arg) EXCEPT !.pcb[c] = NoPcb]

TcpClose(w, c, luck) ==
    IF ~luck.fin THEN w
    ELSE [w EXCEPT !.pcb[c].state = CASE @ = "ESTABLISHED" -> "FIN_WAIT"
                                      [] @ = "CLOSE_WAIT"  -> "LAST_ACK"
                                      [] OTHER             -> @]

\* close_conn
CloseConn(w, c, luck) ==
    LET s == w.pcb[c].arg
        freed == IF s = NULL THEN w ELSE FreeState(w, s)
    IN TcpClose([freed EXCEPT !.pcb[c].arg = NULL, !.pcb[c].sent = FALSE,
                              !.pcb[c].recv = FALSE], c, luck)

-----------------------------------------------------------------------------
(* Sending. *)

\* The next block of the file, into the buffer.
ReadBlock(w, c, luck) ==
    LET s == w.pcb[c].arg
        h == w.hs[s].handle
    IN IF luck.read /\ w.files[h].pos < Blocks[w.files[h].name]
       THEN [w EXCEPT !.files[h].pos = @ + 1, !.hs[s].left = 1]
       ELSE CloseConn([FsClose(w, h) EXCEPT !.hs[s].handle = NULL], c, luck)

\* Some of what is left goes to TCP, as its memory allows.
Write(w, c, luck) ==
    LET s == w.pcb[c].arg
        n == IF luck.taken <= w.hs[s].left /\ w.pcb[c].unacked + luck.taken <= SND_BUF
             THEN luck.taken ELSE 0
    IN [w EXCEPT !.hs[s].left = @ - n, !.pcb[c].unacked = @ + n]

\* send_data
SendData(w, c, luck) ==
    LET s == w.pcb[c].arg
        b == IF w.hs[s].buf \/ ~luck.buf THEN w
             ELSE [w EXCEPT !.hs[s].buf = TRUE, !.buffers = @ + 1]
        r == ReadBlock(b, c, luck)
    IN IF w.hs[s].left > 0 THEN Write(w, c, luck)
       ELSE IF ~b.hs[s].buf THEN w
       ELSE IF b.hs[s].handle = NULL THEN CloseConn(b, c, luck)
       ELSE IF r.pcb[c].arg = NULL THEN r
       ELSE Write(r, c, luck)

-----------------------------------------------------------------------------
(* The callbacks. *)

Calm == ~died /\ todo = <<>>

\* The callback is the next one of the segment.
Calls(c, call) ==
    ~died /\ todo # <<>> /\ Head(todo).conn = c /\ Head(todo).call = call

Return == todo' = Tail(todo)

\* http_accept; when it fails lwIP aborts the connection.
Accept(c) ==
    /\ Calm /\ pcb[c].state = "CLOSED"
    /\ \/ \E s \in States :
            /\ ~hs[s].used
            /\ \A t \in States : t < s => hs[t].used
            /\ Becomes([World EXCEPT
                   !.hs[s] = [NoState EXCEPT !.used = TRUE],
                   !.pcb[c] = [NoPcb EXCEPT !.state = "ESTABLISHED", !.arg = s, !.recv = TRUE]])
       \/ Becomes(Removed(World, c))
    /\ served' = [served EXCEPT !.last[c] = NoRequest]
    /\ UNCHANGED <<pbufs, card, todo, died>>

\* The callback, if there is a reason for it.
Callback(c, call, u, reason) ==
    IF reason THEN <<[conn |-> c, call |-> call, uri |-> u]>> ELSE <<>>

\* FIN_WAIT stands for lwIP's FIN_WAIT_1, FIN_WAIT_2 and CLOSING.
AfterFin(state) == IF state = "ESTABLISHED" THEN {"CLOSE_WAIT"} ELSE {"FIN_WAIT", "TIME_WAIT"}

\* Segments of a client: what they acknowledge, a request, the FIN.  The control
\* block's state is changed before the callbacks are called.
Segment(c) ==
    /\ Calm /\ pcb[c].state \in {"ESTABLISHED", "FIN_WAIT", "CLOSE_WAIT", "LAST_ACK"}
    /\ \E acked \in 0 .. pcb[c].unacked, data \in BOOLEAN, fin \in BOOLEAN,
          then \in AfterFin(pcb[c].state) :
         /\ data => pcb[c].requests < MAX_REQUESTS[c] /\ pbufs < PBUF_POOL_SIZE
         /\ data \/ fin => pcb[c].state \in {"ESTABLISHED", "FIN_WAIT"}
         /\ acked > 0 \/ data \/ fin
         /\ pcb' = [pcb EXCEPT ![c].unacked = @ - acked,
                               ![c].requests = IF data THEN @ + 1 ELSE @,
                               ![c].state = IF fin THEN then ELSE @]
         /\ pbufs' = IF data THEN pbufs + 1 ELSE pbufs
         /\ \E u \in Uris :
              todo' = Callback(c, "sent", NoUri, acked > 0) \o Callback(c, "recv", u, data)
                        \o Callback(c, "fin", NoUri, fin)
    /\ UNCHANGED <<hs, files, buffers, misused, card, died, served>>

\* The acknowledgement of the FIN, or a reset; retransmissions and waits that
\* last too long; a connection lwIP gives up for a new one.
RemovePcb(c) ==
    /\ Calm /\ pcb[c].state # "CLOSED"
    /\ Becomes(Removed(World, c))
    /\ UNCHANGED <<pbufs, card, todo, died, served>>

\* http_sent; it sets the callback again even if the connection was closed.
Sent(c) ==
    /\ Calls(c, "sent")
    /\ LET s == pcb[c].arg
       IN IF ~pcb[c].sent \/ s = NULL THEN Becomes(World)
          ELSE \E luck \in Luck :
                 Becomes([SendData([World EXCEPT !.hs[s].retries = 0], c, luck)
                             EXCEPT !.pcb[c].sent = TRUE])
    /\ Return
    /\ UNCHANGED <<pbufs, card, died, served>>

FreePbuf == pbufs' = pbufs - 1

\* Data that http_recv does not look at: without the callback lwIP frees it, and
\* while a file is sent the server does.
Ignores(c) == pcb[c].recv => hs[pcb[c].arg].handle # NULL

RecvIgnored(c) ==
    /\ Calls(c, "recv") /\ Ignores(c)
    /\ FreePbuf
    /\ Return
    /\ UNCHANGED <<pcb, hs, files, buffers, misused, card, died, served>>

Request == Head(todo).uri

Receives(c) == Calls(c, "recv") /\ ~Ignores(c)

\* No GET, or one whose end is not in the first buffer.
RecvInvalid(c) ==
    /\ Receives(c) /\ Request.kind \in {"other", "nohttp"}
    /\ \E luck \in Luck : Becomes(CloseConn(World, c, luck))
    /\ FreePbuf
    /\ Return
    /\ UNCHANGED <<card, died, served>>

\* The state is set up to send the file that was opened.
StartFile(w, c, path) ==
    LET s == w.pcb[c].arg
        h == FreeHandle(w)
    IN [w EXCEPT !.files[h] = [used |-> TRUE, name |-> path[1], pos |-> 0],
                 !.hs[s].handle = h, !.hs[s].left = 0, !.hs[s].retries = 0]

\* A GET: the file, or else the error page, and the first data of it.  Where
\* neither can be opened the buffer of the request is not freed.
RecvGet(c) ==
    /\ Receives(c) /\ Request.kind \notin {"other", "nohttp"}
    /\ \E luck \in Luck, page \in CgiPages :
         LET heap == luck.heap /\ FreeHandle(World) # NULL
             path == FirstOf(Paths(Request, page) \o ErrorPaths, heap)
             s    == pcb[c].arg
             begun == IF path # <<>> THEN StartFile(World, c, path)
                      ELSE [World EXCEPT !.hs[s].handle = NULL, !.hs[s].left = 0,
                                         !.hs[s].retries = 0]
         IN /\ Becomes(SendData([begun EXCEPT !.pcb[c].sent = TRUE], c, luck))
            /\ IF path # <<>> THEN FreePbuf ELSE UNCHANGED pbufs
            /\ served' = [last |-> [served.last EXCEPT ![c] =
                             [uri |-> Request, path |-> path, heap |-> heap, page |-> page]],
                          unopened |-> IF path = <<>> THEN served.unopened + 1
                                       ELSE served.unopened]
    /\ Return
    /\ UNCHANGED <<card, died>>

\* The client's end: http_recv without a buffer.
RecvFin(c) ==
    /\ Calls(c, "fin")
    /\ IF ~pcb[c].recv THEN Becomes(World)
       ELSE \E luck \in Luck : Becomes(CloseConn(World, c, luck))
    /\ Return
    /\ UNCHANGED <<pbufs, card, died, served>>

\* The poll timer's callback in all but the last states.
Polled(c) == Calm /\ pcb[c].state \in {"ESTABLISHED", "FIN_WAIT", "CLOSE_WAIT", "LAST_ACK"}

\* http_poll, when close_conn took the state but tcp_close had no memory.
PollUnclosed(c) ==
    /\ Polled(c) /\ pcb[c].arg = NULL /\ pcb[c].state = "ESTABLISHED"
    /\ Becomes(Removed(World, c))
    /\ UNCHANGED <<pbufs, card, todo, died, served>>

\* http_poll counts in a state that is not there, at an address in the flash
\* memory: the processor stops, or what it reads there is as good as any other.
PollNull(c) ==
    /\ Polled(c) /\ pcb[c].arg = NULL /\ pcb[c].state # "ESTABLISHED"
    /\ \/ died' = TRUE /\ Becomes(World)
       \/ died' = died /\ Becomes(Removed(World, c))
       \/ died' = died /\ Becomes(World)
    /\ UNCHANGED <<pbufs, card, todo, served>>

\* Mutant: a connection without a request is left alone.
PollSending(c) ==
    /\ Polled(c) /\ pcb[c].arg # NULL
    /\ LET s == pcb[c].arg
           w == [World EXCEPT !.hs[s].retries = @ + 1]
       IN IF hs[s].handle = NULL THEN Becomes(World)
          ELSE IF w.hs[s].retries = MAX_RETRIES THEN Becomes(Removed(w, c))
          ELSE \E luck \in Luck : Becomes(SendData(w, c, luck))
    /\ UNCHANGED <<pbufs, card, todo, died, served>>

\* http_poll
Poll(c) ==
    /\ Polled(c) /\ pcb[c].arg # NULL
    /\ LET s == pcb[c].arg
           w == [World EXCEPT !.hs[s].retries = @ + 1]
       IN IF w.hs[s].retries = MAX_RETRIES THEN Becomes(Removed(w, c))
          ELSE IF w.hs[s].handle = NULL THEN Becomes(w)
          ELSE \E luck \in Luck : Becomes(SendData(w, c, luck))
    /\ UNCHANGED <<pbufs, card, todo, died, served>>

-----------------------------------------------------------------------------
(* The specification. *)

\* fs_init finds a card or not.
Init ==
    /\ pcb = [c \in Conns |-> NoPcb]
    /\ hs = [s \in States |-> NoState]
    /\ files = [h \in Handles |-> NoFile]
    /\ buffers = 0 /\ misused = FALSE /\ pbufs = 0
    /\ card \in BOOLEAN
    /\ todo = <<>>
    /\ died = FALSE
    /\ served = [last |-> [c \in Conns |-> NoRequest], unopened |-> 0]

CallNext(c) == Sent(c) \/ RecvIgnored(c) \/ RecvInvalid(c) \/ RecvGet(c) \/ RecvFin(c)

PollTimer(c) == PollUnclosed(c) \/ PollNull(c) \/ Poll(c)

Next ==
    \E c \in Conns :
        \/ Accept(c)
        \/ Segment(c)
        \/ CallNext(c)
        \/ PollTimer(c)
        \/ RemovePcb(c)

\* lwIP's timers go on; they remove a control block whose FIN was sent and that
\* waits for the client too long.
TimeOut(c) == pcb[c].state \in {"FIN_WAIT", "LAST_ACK", "TIME_WAIT"} /\ RemovePcb(c)

Fairness ==
    \A c \in Conns : WF_vars(CallNext(c)) /\ SF_vars(PollTimer(c)) /\ SF_vars(TimeOut(c))

Spec == Init /\ [][Next]_vars /\ Fairness

-----------------------------------------------------------------------------
(* Properties. *)

TypeOK ==
    /\ \A c \in Conns : /\ pcb[c].state \in TcpStates /\ pcb[c].arg \in States \cup {NULL}
                        /\ pcb[c].unacked \in 0 .. SND_BUF
    /\ \A s \in States : /\ hs[s].handle \in Handles \cup {NULL}
                         /\ hs[s].left \in 0 .. 1 /\ hs[s].retries < MAX_RETRIES
    /\ \A h \in Handles : files[h].used => files[h].pos \in 0 .. Blocks[files[h].name]
    /\ pbufs \in 0 .. PBUF_POOL_SIZE

\* Whatever order segments, polls, resets and failures come in: each state that
\* is allocated is the argument of just one connection, each open file and each
\* buffer belongs to one state, and no callback can meet one that was freed.  The
\* only requests whose pbuf is not given back are those for which no file could
\* be opened, the error page neither (see README).
MemoryIsOwned ==
    /\ TypeOK /\ ~misused
    /\ \A s \in States :
         Cardinality({ c \in Conns : pcb[c].arg = s }) = IF hs[s].used THEN 1 ELSE 0
    /\ \A h \in Handles :
         Cardinality({ s \in States : hs[s].used /\ hs[s].handle = h })
           = IF files[h].used THEN 1 ELSE 0
    /\ buffers = Cardinality({ s \in States : hs[s].buf })
    /\ pbufs = served.unopened + Cardinality({ k \in DOMAIN todo : todo[k].call = "recv" })

Asked(request) ==
    CASE request.uri.kind = "root" -> ToSet(DefaultFilenames)
      [] request.uri.kind = "cgi"  -> {request.page}
      [] OTHER                     -> {request.uri.name}

\* What a connection sends is the file that its last request was for, or an error
\* page when that is not there, as long as there is memory for it; requests that
\* come while it sends change nothing.  Of the default files only the first one
\* is found (see README).
AnswersRequest ==
    \A c \in Conns :
        LET request == served.last[c]
            s == pcb[c].arg
            wanted == IF request.uri.kind = "root" THEN {DefaultFilenames[1]} ELSE Asked(request)
        IN (request.uri.kind # "none" /\ s # NULL) =>
             IF hs[s].handle = NULL
             THEN request.path = <<>> => \/ ~card \/ ~request.heap
                                         \/ ToSet(ErrorFilenames) \cap DOMAIN Blocks = {}
             ELSE /\ files[hs[s].handle].name \in Asked(request) \cup ToSet(ErrorFilenames)
                  /\ wanted \subseteq DOMAIN Blocks => files[hs[s].handle].name \in wanted

\* Every connection ends, however the client behaves, unless the write through
\* NULL stops the processor, or the FIN could not be sent to a client that had
\* closed its side: such a connection stays until lwIP needs the control block.
ConnectionEnds ==
    \A c \in Conns :
        pcb[c].state # "CLOSED" ~>
            \/ pcb[c].state = "CLOSED" \/ died
            \/ pcb[c].state = "CLOSE_WAIT" /\ pcb[c].arg = NULL
=============================================================================
