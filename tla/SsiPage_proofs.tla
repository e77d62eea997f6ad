---------------------------- MODULE SsiPage_proofs ----------------------------
(***************************************************************************)
(* The counters of send_data, and what TCP is given by reference, for all  *)
(* pages, inserts, sizes of buffers and widths of the counters.            *)
(*                                                                         *)
(* The two pairs of pointer and counter, file and left, parsed and         *)
(* parse_left, are moved by different steps.  What keeps them together is  *)
(* that nothing is sent that was not parsed: this needs that an insert is  *)
(* dealt with in the block its tag ends in (CountersFit).  Where it is not,*)
(* file runs ahead and left wraps, but both stay within the buffer.        *)
(***************************************************************************)
EXTENDS SsiPage, WellFoundedInduction, SequenceTheorems, TLAPS

-----------------------------------------------------------------------------
(* What FlattenSeq computes, step by step. *)

\* A set of numbers has a least one.
LEMMA LeastNumber ==
    ASSUME NEW T, T \subseteq Nat, T # {}
    PROVE  \E k \in T : \A j \in T : k <= j
<1> DEFINE R == OpToRel(<, Nat)
<1>1. IsWellFoundedOn(R, Nat)
  BY NatLessThanWellFounded, Zenon
<1>2. \A x, y \in Nat : <<y, x>> \in R <=> y < x
  BY DEF OpToRel
<1> HIDE DEF R
<1>3. PICK x \in T : \A y \in T : ~(<<y, x>> \in R)
  BY <1>1, WFMin
<1>4. \A y \in T : x \in Nat /\ y \in Nat /\ ~(y < x)
  BY <1>2, <1>3
<1> QED BY <1>4

\* What FlattenSeq does with the first n of seqs.
Flattens(f, seqs, n) ==
    f = [i \in 1 .. n |-> IF i = 1 THEN seqs[i] ELSE f[i - 1] \o seqs[i]]

\* The recursion of FlattenSeq has a solution, for as many sequences as there are.
LEMMA FlattenExists ==
    ASSUME NEW seqs, NEW n \in Nat
    PROVE  \E f : Flattens(f, seqs, n)
<1> DEFINE T == {m \in Nat : ~ \E f : Flattens(f, seqs, m)}
<1> SUFFICES ASSUME T # {} PROVE FALSE
  OBVIOUS
<1>1. PICK m \in T : \A j \in T : m <= j
  BY LeastNumber
<1>2. m # 0
  <2>1. Flattens([i \in 1 .. 0 |-> 0], seqs, 0)
    BY DEF Flattens
  <2> QED BY <2>1
<1>3. m - 1 \in Nat /\ m - 1 \notin T
  BY <1>1, <1>2
<1>4. PICK g : Flattens(g, seqs, m - 1)
  BY <1>3
<1> DEFINE h == [i \in 1 .. m |-> IF i = m THEN IF m = 1 THEN seqs[m] ELSE g[m - 1] \o seqs[m]
                                  ELSE g[i]]
<1>5. \A i \in 1 .. m :
         h[i] = IF i = 1 THEN seqs[i] ELSE h[i - 1] \o seqs[i]
  <2> TAKE i \in 1 .. m
  <2>1. CASE i = m
    BY <1>1, <1>2, <2>1
  <2>2. CASE i # m
    <3>1. i \in 1 .. m - 1 /\ (i # 1 => i - 1 \in 1 .. m - 1)
      BY <1>1, <1>2, <2>2
    <3>2. g[i] = IF i = 1 THEN seqs[i] ELSE g[i - 1] \o seqs[i]
      BY <1>4, <3>1 DEF Flattens
    <3>3. h[i] = g[i] /\ (i # 1 => h[i - 1] = g[i - 1])
      BY <2>2, <3>1, <1>1
    <3> HIDE DEF h
    <3> QED BY <3>2, <3>3
  <2> QED BY <2>1, <2>2
<1>6. h = [i \in 1 .. m |-> h[i]]
  OBVIOUS
<1> HIDE DEF h
<1>7. Flattens(h, seqs, m)
  BY <1>5, <1>6 DEF Flattens
<1> QED BY <1>1, <1>7

\* FlattenSeq appends one sequence after the other.
LEMMA FlattenSteps ==
    ASSUME NEW S, NEW seqs \in Seq(Seq(S))
    PROVE  \/ seqs = <<>> /\ FlattenSeq(seqs) = <<>>
           \/ /\ Len(seqs) \in Nat \ {0}
              /\ \E f \in [1 .. Len(seqs) -> Seq(S)] :
                    /\ f[1] = seqs[1]
                    /\ \A i \in 2 .. Len(seqs) : f[i] = f[i - 1] \o seqs[i]
                    /\ FlattenSeq(seqs) = f[Len(seqs)]
<1>1. Len(seqs) \in Nat /\ \A i \in 1 .. Len(seqs) : seqs[i] \in Seq(S)
  OBVIOUS
<1>2. CASE Len(seqs) = 0
  <2>1. seqs = <<>>
    BY <1>2
  <2> QED BY <1>2, <2>1 DEF FlattenSeq
<1>3. CASE Len(seqs) # 0
  <2> DEFINE n == Len(seqs)
             f == CHOOSE g : Flattens(g, seqs, n)
  <2>1. Flattens(f, seqs, n)
    BY <1>1, FlattenExists
  <2>2. FlattenSeq(seqs) = f[n]
    BY <1>3 DEF FlattenSeq, Flattens
  <2> HIDE DEF f
  <2>3. \A i \in 1 .. n : f[i] = IF i = 1 THEN seqs[i] ELSE f[i - 1] \o seqs[i]
    BY <2>1 DEF Flattens
  <2>4. \A i \in 1 .. n : f[i] \in Seq(S)
    <3> DEFINE T == {i \in 1 .. n : f[i] \notin Seq(S)}
    <3> SUFFICES ASSUME T # {} PROVE FALSE
      OBVIOUS
    <3>0. T \subseteq Nat
      BY <1>1
    <3>1. PICK i \in T : \A j \in T : i <= j
      <4> HIDE DEF T
      <4> QED BY <3>0, LeastNumber
    <3>2. i # 1
      BY <1>1, <2>3, <3>1
    <3>3. i - 1 \in 1 .. n /\ i - 1 \notin T
      BY <1>1, <3>1, <3>2
    <3>4. f[i - 1] \in Seq(S) /\ seqs[i] \in Seq(S)
      BY <1>1, <3>1, <3>3
    <3>5. f[i] = f[i - 1] \o seqs[i]
      BY <2>3, <3>1, <3>2
    <3>6. f[i] \in Seq(S)
      BY <3>4, <3>5, ConcatProperties
    <3> QED BY <3>1, <3>6
  <2>5. f \in [1 .. n -> Seq(S)]
    BY <2>1, <2>4 DEF Flattens
  <2>6. /\ f[1] = seqs[1]
        /\ \A i \in 2 .. n : f[i] = f[i - 1] \o seqs[i]
    <3>1. n \in Nat /\ 1 \in 1 .. n /\ \A i \in 2 .. n : i \in 1 .. n /\ i # 1
      BY <1>1, <1>3
    <3> HIDE DEF n
    <3> QED BY <2>3, <3>1
  <2> QED BY <1>1, <1>3, <2>2, <2>5, <2>6
<1> QED BY <1>2, <1>3

\* It makes a sequence of the same elements.
LEMMA FlattenType ==
    ASSUME NEW S, NEW seqs \in Seq(Seq(S))
    PROVE  FlattenSeq(seqs) \in Seq(S)
<1>1. CASE seqs = <<>> /\ FlattenSeq(seqs) = <<>>
  <2>1. <<>> \in Seq(S)
    OBVIOUS
  <2> QED BY <1>1, <2>1
<1>2. ASSUME Len(seqs) \in Nat \ {0}, NEW f \in [1 .. Len(seqs) -> Seq(S)],
             FlattenSeq(seqs) = f[Len(seqs)]
      PROVE  FlattenSeq(seqs) \in Seq(S)
  <2>1. Len(seqs) \in 1 .. Len(seqs)
    BY <1>2
  <2>2. f[Len(seqs)] \in Seq(S)
    BY <1>2, <2>1, Zenon
  <2> QED BY <1>2, <2>2, Zenon
<1>3. \/ seqs = <<>> /\ FlattenSeq(seqs) = <<>>
      \/ /\ Len(seqs) \in Nat \ {0}
         /\ \E f \in [1 .. Len(seqs) -> Seq(S)] : FlattenSeq(seqs) = f[Len(seqs)]
  BY FlattenSteps, Zenon
<1> QED BY <1>1, <1>2, <1>3, Zenon

-----------------------------------------------------------------------------

Handed == {"copy", "ref", "stale"}

Flags == /\ tag_check \in BOOLEAN /\ block_ends \in BOOLEAN /\ freed \in BOOLEAN
         /\ spoiled \in BOOLEAN

\* The connection, and where send_data is.
CallFits ==
    /\ conn \in {"closed", "open", "aborted"}
    /\ retries \in 0 .. MAX_RETRIES
    /\ conn = "open" => retries < MAX_RETRIES
    /\ pc \in {"idle", "read", "plain", "pending", "parse"}
    /\ IF tag_check THEN pc # "plain" ELSE pc \in {"idle", "read", "plain"}

BufferFits ==
    /\ page \in Pages
    /\ pos \in 0 .. Len(File)
    /\ buf \in Seq(Tokens \cup {"garbage"})
    /\ Len(buf) \in BufSizes \cup {0}

ParserFits ==
    /\ parsed \in Nat /\ parse_left \in Nat /\ parsed + parse_left <= Len(buf)
    /\ tag_end \in 0 .. Len(buf)
    /\ insert.len \in 0 .. BYTE - 1
    /\ \/ tag_state = "NONE" /\ tag_index \in 0 .. BYTE - 1
       \/ tag_state = "LEADIN" /\ tag_index \in 1 .. 5
       \/ tag_state \in {"FOUND", "PARAM"} /\ tag_index \in 0 .. MAX_TAG_NAME_LEN
       \/ tag_state = "LEADOUT" /\ tag_index \in 1 .. 2
       \/ tag_state = "SENDING" /\ tag_index \in 0 .. insert.len

SendFits ==
    /\ file \in 0 .. Len(buf) /\ left \in 0 .. WORD - 1
    /\ len \in 0 .. SND_BUF /\ err \in {"OK", "MEM"}
    /\ queue \in Seq(Handed) /\ Len(queue) <= SND_BUF

\* A page without tags is sent as copies.
PlainFits == ~tag_check => file + left <= Len(buf) /\ queue \in Seq({"copy"})

\* Of a page with tags only what was parsed is sent, and an insert in its block.
CountersFit ==
    tag_check /\ ~block_ends =>
        /\ parsed >= file /\ parsed + parse_left = file + left
        /\ tag_state = "SENDING" => tag_end <= parsed /\ parse_left > 0

IInv ==
    Flags /\ CallFits /\ BufferFits /\ ParserFits /\ SendFits /\ PlainFits /\ CountersFit

-----------------------------------------------------------------------------
(* Files. *)

\* The constants that the steps need.
LEMMA Constants ==
    /\ BYTE \in Nat /\ 5 < BYTE /\ WORD \in Nat /\ MAX_SEND \in Nat /\ MAX_SEND < WORD
    /\ BufSizes \subseteq 1 .. MAX_SEND /\ SND_BUF \in Nat /\ MAX_RETRIES \in Nat \ {0}
    /\ MAX_TAG_NAME_LEN \in Nat /\ MAX_TAG_NAME_LEN < BYTE
<1>1. Len(LeadIn) = 5 /\ Len(LeadOut) = 3
  BY DEF LeadIn, LeadOut
<1>2. /\ BYTE \in Nat \ {0} /\ Len(LeadIn) < BYTE
      /\ WORD \in Nat \ {0} /\ MAX_SEND < WORD
      /\ MAX_SEND \in Nat \ {0} /\ BufSizes \subseteq 1 .. MAX_SEND
      /\ SND_BUF \in Nat /\ MAX_RETRIES \in Nat \ {0} /\ MAX_TAG_NAME_LEN \in 1 .. BYTE - 1
  BY SsiAssumption, Zenon DEF SsiAssumption
<1> QED BY <1>1, <1>2

\* The text in front of a tag's name, and behind it.
LEMMA Leads == Len(LeadIn) = 5 /\ Len(LeadOut) = 3
BY DEF LeadIn, LeadOut

\* Short sequences.
LEMMA ShortSeqs ==
    ASSUME NEW S
    PROVE  /\ \A a \in S : <<a>> \in Seq(S)
           /\ \A a, b \in S : <<a, b>> \in Seq(S)
           /\ \A a, b, c, d \in Seq(S) : a \o b \o c \o d \in Seq(S)
OBVIOUS

\* The text of a tag consists of what a byte may be.
LEMMA TagTextType ==
    ASSUME NEW part \in [text : Seq(Tokens), name : Tokens \cup {NoTag}, params : Seq(Tokens)]
    PROVE  TagText(part) \in Seq(Tokens)
<1> DEFINE S == [k \in DOMAIN part.params |-> <<" ", part.params[k]>>]
<1>1. LeadIn \in Seq(Tokens) /\ LeadOut \in Seq(Tokens) /\ " " \in Tokens
  <2>1. ToSet(LeadIn) \cup ToSet(LeadOut) \cup {" "} \subseteq Tokens
    BY SsiAssumption DEF SsiAssumption
  <2>2. ToSet(LeadIn) = {LeadIn[k] : k \in 1 .. 5} /\ ToSet(LeadOut) = {LeadOut[k] : k \in 1 .. 3}
    BY DEF ToSet, LeadIn, LeadOut
  <2>3. \A k \in 1 .. 5 : LeadIn[k] \in Tokens
    BY <2>1, <2>2
  <2>4. \A k \in 1 .. 3 : LeadOut[k] \in Tokens
    BY <2>1, <2>2
  <2>5. LeadIn \in Seq(Tokens)
    <3>1. /\ LeadIn[1] \in Tokens /\ LeadIn[2] \in Tokens /\ LeadIn[3] \in Tokens
          /\ LeadIn[4] \in Tokens /\ LeadIn[5] \in Tokens
      BY <2>3
    <3>2. {"<", "!", "-", "#"} \subseteq Tokens
      BY <3>1 DEF LeadIn
    <3> QED BY <3>2 DEF LeadIn
  <2>6. LeadOut \in Seq(Tokens)
    <3>1. LeadOut[1] \in Tokens /\ LeadOut[2] \in Tokens /\ LeadOut[3] \in Tokens
      BY <2>4
    <3>2. {"-", ">"} \subseteq Tokens
      BY <3>1 DEF LeadOut
    <3> QED BY <3>2 DEF LeadOut
  <2> QED BY <2>1, <2>5, <2>6
<1>2. part.params \in Seq(Tokens) /\ part.name \in Tokens \cup {NoTag}
  OBVIOUS
<1>3. Len(part.params) \in Nat /\ DOMAIN part.params = 1 .. Len(part.params)
      /\ \A k \in DOMAIN part.params : <<" ", part.params[k]>> \in Seq(Tokens)
  <2>1. \A t \in Tokens : <<" ", t>> \in Seq(Tokens)
    BY <1>1, ShortSeqs, Zenon
  <2>2. /\ Len(part.params) \in Nat /\ DOMAIN part.params = 1 .. Len(part.params)
        /\ \A k \in DOMAIN part.params : part.params[k] \in Tokens
    BY <1>2
  <2> QED BY <2>1, <2>2, Zenon
<1>4. S \in Seq(Seq(Tokens))
  <2> DEFINE e(k) == <<" ", part.params[k]>>
  <2>1. \A k \in DOMAIN part.params : e(k) \in Seq(Tokens)
    BY <1>3, Zenon
  <2>3. Len(part.params) \in Nat /\ DOMAIN part.params = 1 .. Len(part.params)
    BY <1>3
  <2> HIDE DEF e
  <2>2. [k \in DOMAIN part.params |-> e(k)] \in Seq(Seq(Tokens))
    BY <2>1, <2>3
  <2> QED BY <2>2 DEF e
<1>5. FlattenSeq(S) \in Seq(Tokens)
  <2> HIDE DEF S
  <2> QED BY <1>4, FlattenType
<1>6. CASE part.name = NoTag
  BY <1>6 DEF TagText
<1>7. CASE part.name # NoTag
  <2>1. <<part.name>> \in Seq(Tokens)
    BY <1>2, <1>7
  <2>2. TagText(part) = LeadIn \o <<part.name>> \o FlattenSeq(S) \o LeadOut
    BY <1>7 DEF TagText
  <2> HIDE DEF S
  <2>3. LeadIn \o <<part.name>> \o FlattenSeq(S) \o LeadOut \in Seq(Tokens)
    BY <1>1, <1>5, <2>1, ShortSeqs, Zenon
  <2> QED BY <2>2, <2>3
<1> QED BY <1>6, <1>7

\* So does a file.
LEMMA FileType ==
    ASSUME page \in Pages
    PROVE  File \in Seq(Tokens) /\ Len(File) \in Nat
<1> DEFINE Parts == [text : Seq(Tokens), name : Tokens \cup {NoTag}, params : Seq(Tokens)]
           S == [k \in DOMAIN page |-> page[k].text \o TagText(page[k])]
<1>1. page \in Seq(Parts)
  BY SsiAssumption DEF SsiAssumption
<1>2. ASSUME NEW k \in DOMAIN page
      PROVE  page[k].text \o TagText(page[k]) \in Seq(Tokens)
  <2>1. page[k] \in Parts
    <3> HIDE DEF Parts
    <3> QED BY <1>1
  <2>2. page[k].text \in Seq(Tokens) /\ TagText(page[k]) \in Seq(Tokens)
    BY <2>1, TagTextType
  <2> QED BY <2>2
<1>3. S \in Seq(Seq(Tokens))
  <2> HIDE DEF Parts
  <2>1. Len(page) \in Nat /\ DOMAIN page = 1 .. Len(page)
    BY <1>1
  <2> QED BY <1>2, <2>1
<1>4. FlattenSeq(S) \in Seq(Tokens)
  <2> HIDE DEF S
  <2> QED BY <1>3, FlattenType
<1> QED BY <1>4 DEF File, PageText

-----------------------------------------------------------------------------
(* Sending. *)

\* The counter of the unsent bytes goes down, or wraps.
LEMMA CountDown ==
    ASSUME NEW w \in Nat \ {0}, NEW a \in 0 .. w - 1, NEW m \in Nat
    PROVE  /\ (a + w - m) % w \in 0 .. w - 1
           /\ m <= a => (a + w - m) % w = a - m
<1>1. (a + w - m) % w \in 0 .. w - 1
  OBVIOUS
<1>2. ASSUME m <= a PROVE (a + w - m) % w = a - m
  <2>1. a - m \in 0 .. w - 1
    BY <1>2
  <2>2. \A x \in 0 .. w - 1 : (x + w) % w = x
    OBVIOUS
  <2>3. a + w - m = (a - m) + w
    BY <1>2
  <2> QED BY <2>1, <2>2, <2>3
<1> QED BY <1>1, <1>2

\* What TCP takes goes to the end of its queue.
LEMMA QueueGrows ==
    ASSUME NEW q \in Seq(Handed), NEW kind \in Handed, NEW m \in Nat
    PROVE  /\ q \o Kinds(kind, m) \in Seq(Handed)
           /\ Len(q \o Kinds(kind, m)) = Len(q) + m
           /\ kind = "copy" /\ q \in Seq({"copy"}) => q \o Kinds(kind, m) \in Seq({"copy"})
<1>1. Kinds(kind, m) \in Seq(Handed) /\ Kinds(kind, m) \in Seq({kind}) /\ Len(Kinds(kind, m)) = m
  BY DEF Kinds
<1> QED BY <1>1

\* What is left shrinks by what is sent of the n bytes in front of the parser.
LEMMA Counting ==
    ASSUME file \in Nat, left \in Nat, parsed' \in Nat, parse_left' \in Nat,
           NEW n \in Nat, NEW m \in 0 .. n,
           file + n <= parsed', parsed' + parse_left' = file + left
    PROVE  m <= left /\ parsed' >= file + m /\ parsed' + parse_left' = (file + m) + (left - m)
<1>1. PICK p \in Nat, q \in Nat : p = parsed' /\ q = parse_left'
  OBVIOUS
<1>2. file + n <= p /\ p + q = file + left
  BY <1>1
<1>3. m <= left /\ p >= file + m /\ p + q = (file + m) + (left - m)
  BY <1>2
<1> QED BY <1>1, <1>3

\* tcp_write keeps both of file and left within the buffer.
LEMMA SendFileStep ==
    ASSUME SendFits, BufferFits, UNCHANGED buf, NEW n \in Nat, NEW kind \in {"copy", "ref"},
           SendFile(n, kind), file + n <= Len(buf)
    PROVE  /\ SendFits'
           /\ \E m \in 0 .. n : file' = file + m /\ (m <= left => left' = left - m)
           /\ kind = "copy" /\ queue \in Seq({"copy"}) => queue' \in Seq({"copy"})
<1>1. /\ file \in Nat /\ left \in 0 .. WORD - 1 /\ WORD \in Nat \ {0} /\ Len(buf) \in Nat
      /\ SND_BUF \in Nat /\ queue \in Seq(Handed) /\ Len(queue) \in Nat /\ Len(queue) <= SND_BUF
      /\ kind \in Handed
  BY Constants DEF SendFits, BufferFits, Handed
<1>2. ASSUME NEW m \in Lengths(n), queue' = queue \o Kinds(kind, m), file' = file + m,
             left' = (left + WORD - m) % WORD, len' = m, err' = "OK"
      PROVE  /\ SendFits'
             /\ \E j \in 0 .. n : file' = file + j /\ (j <= left => left' = left - j)
             /\ kind = "copy" /\ queue \in Seq({"copy"}) => queue' \in Seq({"copy"})
  <2>1. m \in 0 .. n /\ m \in Nat /\ m <= SND_BUF - Len(queue)
    BY <1>1, <1>2 DEF Lengths, Room
  <2>2. left' \in 0 .. WORD - 1 /\ (m <= left => left' = left - m)
    BY <1>1, <1>2, <2>1, CountDown
  <2>3. /\ queue' \in Seq(Handed) /\ Len(queue') = Len(queue) + m
        /\ kind = "copy" /\ queue \in Seq({"copy"}) => queue' \in Seq({"copy"})
    BY <1>1, <1>2, <2>1, QueueGrows
  <2>4. /\ file' \in 0 .. Len(buf') /\ len' \in 0 .. SND_BUF /\ Len(queue') <= SND_BUF
    BY <1>1, <1>2, <2>1, <2>3
  <2> QED BY <1>2, <2>1, <2>2, <2>3, <2>4 DEF SendFits
<1>3. CASE err' = "MEM" /\ len' = 0 /\ UNCHANGED sendVars
  <2>1. file' = file + 0 /\ left' = left - 0 /\ queue' = queue
    BY <1>1, <1>3 DEF sendVars
  <2> QED BY <1>1, <1>3, <2>1 DEF SendFits
<1> QED BY <1>2, <1>3 DEF SendFile

\* What may be sent is some of what there is.
LEMMA SendableType ==
    ASSUME SendFits, NEW n \in Nat
    PROVE  Sendable(n) \in 0 .. n
<1>1. Room \in Nat /\ MAX_SEND \in Nat
  BY Constants DEF SendFits, Room
<1> QED BY <1>1 DEF Sendable, AtMost

\* A step of a page with tags that sends up to n bytes, of those parsed.
LEMMA TagSend ==
    ASSUME IInv, tag_check, UNCHANGED <<fileVars, tag_check>>, Flags', CallFits', ParserFits',
           NEW n \in Nat,
           \/ SendFile(n, "ref") /\ file + n <= Len(buf)
           \/ UNCHANGED <<sendVars, len, err>> /\ n = 0,
           ~block_ends' =>
              /\ ~block_ends /\ file + n <= parsed'
              /\ parsed' + parse_left' = parsed + parse_left
              /\ tag_state' = "SENDING" => tag_end' <= parsed' /\ parse_left' > 0
    PROVE  IInv'
<1>1. SendFits /\ BufferFits /\ tag_check' /\ page' = page /\ pos' = pos /\ buf' = buf
  BY DEF IInv, fileVars
<1>2. BufferFits'
  BY <1>1 DEF BufferFits, File
<1>3. SendFits' /\ \E m \in 0 .. n : file' = file + m /\ (m <= left => left' = left - m)
  <2>1. CASE SendFile(n, "ref") /\ file + n <= Len(buf)
    BY <1>1, <2>1, SendFileStep
  <2>2. CASE UNCHANGED <<sendVars, len, err>> /\ n = 0
    <3>1. SendFits'
      BY <1>1, <2>2 DEF SendFits, sendVars
    <3>2. file' = file + 0 /\ left' = left - 0
      BY <1>1, <2>2 DEF SendFits, sendVars
    <3> QED BY <2>2, <3>1, <3>2
  <2> QED BY <2>1, <2>2
<1>4. PlainFits'
  BY <1>1 DEF PlainFits
<1>5. CountersFit'
  <2> SUFFICES ASSUME ~block_ends' PROVE CountersFit'
    BY DEF CountersFit
  <2>1. /\ ~block_ends /\ file + n <= parsed' /\ parsed' + parse_left' = parsed + parse_left
        /\ tag_state' = "SENDING" => tag_end' <= parsed' /\ parse_left' > 0
    OBVIOUS
  <2>2. parsed + parse_left = file + left
    BY <2>1 DEF IInv, CountersFit
  <2>3. PICK m \in 0 .. n : file' = file + m /\ (m <= left => left' = left - m)
    BY <1>3
  <2>4. /\ file \in Nat /\ left \in Nat /\ parsed' \in Nat /\ parse_left' \in Nat
        /\ parsed \in Nat /\ parse_left \in Nat
    BY DEF IInv, SendFits, ParserFits
  <2>5. file + n <= parsed' /\ parsed' + parse_left' = file + left
    BY <2>1, <2>2
  <2>8. n \in Nat /\ m \in 0 .. n
    BY <2>3
  <2>6. m <= left /\ parsed' >= file + m /\ parsed' + parse_left' = (file + m) + (left - m)
    BY <2>4, <2>5, <2>8, Counting, Zenon
  <2>7. parsed' >= file' /\ parsed' + parse_left' = file' + left'
    BY <2>3, <2>6
  <2> QED BY <2>1, <2>7 DEF CountersFit
<1> QED BY <1>2, <1>3, <1>4, <1>5 DEF IInv

-----------------------------------------------------------------------------
(* The callbacks. *)

\* Nothing is sent on a new connection yet.
LEMMA InitCounters == Init => IInv
<1> SUFFICES ASSUME Init PROVE IInv
  OBVIOUS
<1>0. /\ conn = "closed" /\ tag_check = FALSE /\ block_ends = FALSE /\ retries = 0
      /\ pc = "idle" /\ file = 0 /\ left = 0 /\ parsed = 0 /\ parse_left = 0 /\ tag_end = 0
      /\ tag_state = "NONE" /\ tag_index = 0 /\ freed = FALSE /\ spoiled = FALSE /\ len = 0 /\ err = "OK"
      /\ queue = <<>>
  BY Zenon DEF Init
<1>7. Flags
  BY <1>0, Zenon DEF Flags
<1>1. CallFits
  BY <1>0, Constants DEF CallFits
<1>2. BufferFits
  <2>1. page \in Pages /\ pos = 0 /\ buf = <<>>
    BY DEF Init
  <2>2. <<>> \in Seq(Tokens \cup {"garbage"}) /\ Len(<<>>) = 0
    OBVIOUS
  <2> QED BY <2>1, <2>2, FileType DEF BufferFits
<1>3. buf = <<>> /\ Len(<<>>) = 0 /\ insert.len = 0
  BY DEF Init
<1>4. ParserFits
  BY <1>0, <1>3, Constants DEF ParserFits
<1>5. SendFits
  BY <1>0, <1>3, Constants DEF SendFits
<1>6. PlainFits /\ CountersFit
  BY <1>0, <1>3 DEF PlainFits, CountersFit
<1> QED BY <1>7, <1>1, <1>2, <1>4, <1>5, <1>6 DEF IInv

\* A request starts from the same state.
LEMMA RequestStep ==
    ASSUME IInv, NEW p \in Pages, NEW ssi \in BOOLEAN, Request(p, ssi)
    PROVE  IInv'
<1>0. /\ conn' = "open" /\ tag_check' = ssi /\ block_ends' = FALSE /\ retries' = 0
      /\ pc' = "read" /\ file' = 0 /\ left' = 0 /\ parsed' = 0 /\ parse_left' = 0 /\ tag_end' = 0
      /\ tag_state' = "NONE" /\ tag_index' = 0 /\ freed' = FALSE /\ spoiled' = FALSE /\ len' = 0 /\ err' = "OK"
      /\ queue' = <<>>
  BY Zenon DEF Request, CallSendData
<1>7. Flags'
  BY <1>0, Zenon DEF Flags
<1>1. CallFits'
  BY <1>0, Constants DEF CallFits
<1>2. BufferFits'
  <2>1. page' \in Pages /\ pos' = 0 /\ buf' = <<>>
    BY DEF Request
  <2>2. <<>> \in Seq(Tokens \cup {"garbage"}) /\ Len(<<>>) = 0
    OBVIOUS
  <2>3. (page \in Pages => Len(File) \in Nat)'
    BY FileType, PTL
  <2> QED BY <2>1, <2>2, <2>3 DEF BufferFits
<1>3. buf' = <<>> /\ Len(<<>>) = 0 /\ insert'.len = 0
  BY DEF Request
<1>4. ParserFits'
  BY <1>0, <1>3, Constants DEF ParserFits
<1>5. SendFits'
  BY <1>0, <1>3, Constants DEF SendFits
<1>6. PlainFits' /\ CountersFit'
  BY <1>0, <1>3 DEF PlainFits, CountersFit
<1> QED BY <1>7, <1>1, <1>2, <1>4, <1>5, <1>6 DEF IInv

\* A buffer that is read over is given up by the queue of a page with tags.
LEMMA ReusedQueue ==
    ASSUME NEW q \in Seq(Handed)
    PROVE  /\ Reused(q) \in Seq(Handed) /\ Len(Reused(q)) = Len(q)
           /\ q \in Seq({"copy"}) => Reused(q) \in Seq({"copy"})
<1>1. Len(q) \in Nat /\ DOMAIN q = 1 .. Len(q) /\ \A k \in DOMAIN q : q[k] \in Handed
  OBVIOUS
<1>2. Reused(q) \in Seq(Handed) /\ Len(Reused(q)) = Len(q)
  BY <1>1 DEF Reused, Handed
<1>3. ASSUME q \in Seq({"copy"}) PROVE Reused(q) \in Seq({"copy"})
  <2>1. \A k \in DOMAIN q : q[k] = "copy"
    BY <1>3
  <2> QED BY <1>1, <2>1 DEF Reused
<1> QED BY <1>2, <1>3

\* The callbacks leave the page and the parser alone, and may shorten the queue;
\* so do the steps of send_data that send nothing.
LEMMA CallbackStep ==
    ASSUME IInv, CallFits',
           UNCHANGED <<fileVars, tag_check, block_ends, file, left, parseVars, tagVars>>,
           \/ UNCHANGED queue
           \/ queue' = <<>>
           \/ queue' = Reused(queue)
           \/ \E n \in 1 .. Len(queue) : queue' = SubSeq(queue, n + 1, Len(queue)),
           spoiled' = spoiled,
           \/ UNCHANGED <<len, err, freed>>
           \/ len' = Room /\ UNCHANGED <<err, freed>>
           \/ CallSendData
    PROVE  IInv'
<1>1. /\ page' = page /\ pos' = pos /\ buf' = buf /\ tag_check' = tag_check
      /\ block_ends' = block_ends /\ file' = file /\ left' = left /\ parsed' = parsed
      /\ parse_left' = parse_left /\ tag_end' = tag_end /\ tag_state' = tag_state
      /\ tag_index' = tag_index /\ insert' = insert
  BY DEF fileVars, parseVars, tagVars
<1>2. BufferFits'
  BY <1>1 DEF IInv, BufferFits, File
<1>3. len' \in 0 .. SND_BUF /\ err' \in {"OK", "MEM"}
  <2>1. len \in 0 .. SND_BUF /\ err \in {"OK", "MEM"} /\ 0 \in 0 .. SND_BUF
        /\ Room \in 0 .. SND_BUF
    BY Constants DEF IInv, SendFits, Room
  <2>2. \/ len' = len /\ err' = err
        \/ len' = Room /\ err' = err
        \/ len' = 0 /\ err' = "OK"
    BY DEF CallSendData
  <2> QED BY <2>1, <2>2
<1>8. Flags'
  BY <1>1, Zenon DEF IInv, Flags, CallSendData
<1>4. ParserFits'
  BY <1>1 DEF IInv, ParserFits
<1>5. /\ queue' \in Seq(Handed) /\ Len(queue') <= SND_BUF
      /\ queue \in Seq({"copy"}) => queue' \in Seq({"copy"})
  <2>1. queue \in Seq(Handed) /\ Len(queue) \in Nat /\ Len(queue) <= SND_BUF /\ SND_BUF \in Nat
    BY Constants DEF IInv, SendFits
  <2>2. CASE UNCHANGED queue
    BY <2>1, <2>2
  <2>3. CASE queue' = <<>>
    BY <2>1, <2>3
  <2>5. CASE queue' = Reused(queue)
    BY <2>1, <2>5, ReusedQueue
  <2>4. ASSUME NEW n \in 1 .. Len(queue), queue' = SubSeq(queue, n + 1, Len(queue))
        PROVE  /\ queue' \in Seq(Handed) /\ Len(queue') <= SND_BUF
               /\ queue \in Seq({"copy"}) => queue' \in Seq({"copy"})
    <3>1. Len(queue') = Len(queue) - n
      BY <2>1, <2>4
    <3>2. queue' \in Seq(Handed) /\ (queue \in Seq({"copy"}) => queue' \in Seq({"copy"}))
      BY <2>1, <2>4
    <3> QED BY <2>1, <3>1, <3>2
  <2> QED BY <2>2, <2>3, <2>4, <2>5
<1>6. SendFits'
  BY <1>1, <1>3, <1>5 DEF IInv, SendFits
<1>7. PlainFits' /\ CountersFit'
  BY <1>1, <1>5 DEF IInv, PlainFits, CountersFit
<1> QED BY <1>2, <1>4, <1>6, <1>7, <1>8 DEF IInv

\* Acknowledgements and the poll timer.
LEMMA AckStep ==
    ASSUME IInv, NEW n \in 1 .. SND_BUF, Acknowledge(n) \/ AcknowledgeClosed(n)
    PROVE  IInv'
<1>1. CallFits'
  BY Constants DEF IInv, CallFits, Acknowledge, AcknowledgeClosed, CallSendData, connVars, localVars
<1>2. /\ UNCHANGED <<fileVars, tag_check, block_ends, file, left, parseVars, tagVars>>
      /\ \E k \in 1 .. Len(queue) : queue' = SubSeq(queue, k + 1, Len(queue))
      /\ spoiled' = spoiled /\ (UNCHANGED <<len, err, freed>> \/ CallSendData)
  BY DEF Acknowledge, AcknowledgeClosed, connVars, localVars, paramVars
<1> QED BY <1>1, <1>2, CallbackStep

LEMMA PollStep ==
    ASSUME IInv, Poll
    PROVE  IInv'
<1>1. CallFits'
  <2>1. retries \in 0 .. MAX_RETRIES - 1 /\ MAX_RETRIES \in Nat
    BY Constants DEF IInv, CallFits, Poll
  <2>2. retries' = retries + 1 /\ UNCHANGED <<tag_check, block_ends>>
    BY DEF Poll, Tries
  <2>3. \/ conn' = "aborted" /\ UNCHANGED pc
        \/ retries + 1 # MAX_RETRIES /\ pc' = "read" /\ UNCHANGED conn
    BY DEF Poll, Spent, Tries, CallSendData, localVars
  <2> QED BY <2>1, <2>2, <2>3 DEF IInv, CallFits
<1>2. /\ UNCHANGED <<fileVars, tag_check, block_ends, file, left, parseVars, tagVars>>
      /\ UNCHANGED queue \/ queue' = <<>>
      /\ spoiled' = spoiled /\ (UNCHANGED <<len, err, freed>> \/ CallSendData)
  BY DEF Poll, localVars, paramVars
<1> QED BY <1>1, <1>2, CallbackStep

-----------------------------------------------------------------------------
(* The next block. *)

LEMMA ReadBlockStep ==
    ASSUME IInv, ReadBlock
    PROVE  IInv'
<1>1. /\ page \in Pages /\ pos \in 0 .. Len(File) /\ buf \in Seq(Tokens \cup {"garbage"})
      /\ Len(buf) \in BufSizes \cup {0} /\ File \in Seq(Tokens) /\ Len(File) \in Nat
      /\ pos < Len(File) /\ left = 0
  BY FileType DEF IInv, BufferFits, ReadBlock
<1>2. PICK b \in Buffers :
        LET count == AtMost(Len(b), Len(File) - pos)
        IN  /\ buf' = [k \in DOMAIN b |-> IF k <= count THEN File[pos + k] ELSE b[k]]
            /\ pos' = pos + count
            /\ left' = count
            /\ parse_left' = count
  BY DEF ReadBlock
<1>3. b \in Seq(Tokens \cup {"garbage"}) /\ Len(b) \in BufSizes /\ (Len(buf) # 0 => Len(b) = Len(buf))
  <2>1. CASE buf # <<>>
    <3>1. b = buf /\ Len(buf) # 0
      BY <1>1, <1>2, <2>1 DEF Buffers
    <3> QED BY <1>1, <3>1
  <2>2. CASE buf = <<>>
    <3>1. PICK n \in BufSizes : b = [k \in 1 .. n |-> "garbage"]
      BY <1>2, <2>2 DEF Buffers
    <3>2. n \in Nat
      BY Constants
    <3>3. b \in Seq(Tokens \cup {"garbage"}) /\ Len(b) = n
      BY <3>1, <3>2
    <3> QED BY <2>2, <3>3
  <2> QED BY <2>1, <2>2
<1> DEFINE count == AtMost(Len(b), Len(File) - pos)
<1>4. Len(b) \in Nat /\ Len(b) <= MAX_SEND /\ MAX_SEND < WORD /\ MAX_SEND \in Nat /\ WORD \in Nat
  BY <1>3, Constants
<1>5. count \in 0 .. Len(b) /\ pos + count <= Len(File) /\ pos + count \in Nat
  BY <1>1, <1>4 DEF AtMost
<1>6. /\ buf' = [k \in DOMAIN b |-> IF k <= count THEN File[pos + k] ELSE b[k]]
      /\ pos' = pos + count /\ left' = count /\ parse_left' = count
  BY <1>2
<1> HIDE DEF count
<1>7. /\ page' = page /\ file' = 0 /\ parsed' = 0 /\ queue' = Reused(queue)
      /\ conn' = conn /\ tag_check' = tag_check /\ block_ends' = block_ends /\ retries' = retries
      /\ tag_end' = tag_end /\ tag_state' = tag_state /\ tag_index' = tag_index
      /\ insert' = insert /\ freed' = freed /\ spoiled' = spoiled /\ len' = len /\ err' = err
      /\ pc' = IF tag_check THEN "pending" ELSE "plain"
  BY DEF ReadBlock, connVars, tagVars, paramVars
<1>8. buf' \in Seq(Tokens \cup {"garbage"}) /\ Len(buf') = Len(b)
  <2>1. DOMAIN b = 1 .. Len(b)
    BY <1>3
  <2>2. \A k \in DOMAIN b :
           (IF k <= count THEN File[pos + k] ELSE b[k]) \in Tokens \cup {"garbage"}
    <3> TAKE k \in DOMAIN b
    <3>1. CASE k <= count
      <4>1. pos + k \in 1 .. Len(File)
        BY <1>1, <1>4, <1>5, <2>1, <3>1
      <4> QED BY <1>1, <3>1, <4>1
    <3>2. CASE ~(k <= count)
      BY <1>3, <3>2
    <3> QED BY <3>1, <3>2
  <2> DEFINE e(k) == IF k <= count THEN File[pos + k] ELSE b[k]
  <2>3. buf' = [k \in 1 .. Len(b) |-> e(k)] /\ \A k \in 1 .. Len(b) : e(k) \in Tokens \cup {"garbage"}
    BY <1>6, <2>1, <2>2, Zenon
  <2> HIDE DEF e
  <2> QED BY <1>4, <2>3
<1>9. CallFits'
  BY <1>7 DEF IInv, CallFits
<1>15. Flags'
  BY <1>7, Zenon DEF IInv, Flags
<1>10. BufferFits'
  <2>1. File' = File
    BY <1>7 DEF File
  <2> QED BY <1>1, <1>3, <1>5, <1>6, <1>7, <1>8, <2>1 DEF BufferFits
<1>11. ParserFits'
  <2>1. tag_end' \in 0 .. Len(buf')
    BY <1>1, <1>3, <1>4, <1>7, <1>8 DEF IInv, ParserFits
  <2> QED BY <1>4, <1>5, <1>6, <1>7, <1>8, <2>1 DEF IInv, ParserFits
<1>12. SendFits'
  <2>1. /\ queue \in Seq(Handed) /\ Len(queue) <= SND_BUF
        /\ len \in 0 .. SND_BUF /\ err \in {"OK", "MEM"}
    BY DEF IInv, SendFits
  <2>2. file' \in 0 .. Len(buf') /\ left' \in 0 .. WORD - 1
    BY <1>4, <1>5, <1>6, <1>7, <1>8
  <2> QED BY <1>7, <2>1, <2>2, ReusedQueue DEF SendFits
<1>13. PlainFits'
  <2>1. queue \in Seq(Handed) /\ (~tag_check => queue \in Seq({"copy"}))
    BY DEF IInv, SendFits, PlainFits
  <2>2. ~tag_check => queue' \in Seq({"copy"})
    BY <1>7, <2>1, ReusedQueue
  <2>3. file' + left' <= Len(buf')
    BY <1>4, <1>5, <1>6, <1>7, <1>8
  <2> QED BY <1>7, <2>2, <2>3 DEF PlainFits
<1>14. CountersFit'
  <2> SUFFICES ASSUME tag_check, ~block_ends PROVE CountersFit'
    BY <1>7 DEF CountersFit
  <2>1. /\ parsed >= file /\ parsed + parse_left = file + left
        /\ tag_state = "SENDING" => parse_left > 0
        /\ parsed \in Nat /\ parse_left \in Nat /\ file \in Nat
    BY DEF IInv, CountersFit, ParserFits, SendFits
  <2>2. tag_state # "SENDING"
    BY <1>1, <2>1
  <2>3. parsed' >= file' /\ parsed' + parse_left' = file' + left'
    BY <1>4, <1>5, <1>6, <1>7
  <2> QED BY <1>7, <2>2, <2>3 DEF CountersFit
<1> QED BY <1>9, <1>10, <1>11, <1>12, <1>13, <1>14, <1>15 DEF IInv

\* send_data goes on with what there is, or gives up.
LEMMA StillStep ==
    ASSUME IInv, KeepBlock \/ NoBuffer \/ EndOfFile \/ NothingPending
    PROVE  IInv'
<1>1. CallFits'
  <2>1. UNCHANGED <<tag_check, retries>>
    BY DEF KeepBlock, NoBuffer, EndOfFile, NothingPending, connVars
  <2>2. \/ conn' = conn /\ pc' = IF tag_check THEN "pending" ELSE "plain"
        \/ conn' \in {conn, "closed"} /\ pc' = "idle"
        \/ conn' = conn /\ pc = "pending" /\ pc' = "parse"
    BY DEF KeepBlock, NoBuffer, EndOfFile, NothingPending, connVars
  <2> QED BY <2>1, <2>2 DEF IInv, CallFits
<1>2. /\ UNCHANGED <<fileVars, tag_check, block_ends, file, left, parseVars, tagVars>>
      /\ queue' = queue \/ queue' = Reused(queue)
      /\ spoiled' = spoiled
      /\ UNCHANGED <<len, err, freed>> \/ (len' = Room /\ UNCHANGED <<err, freed>>)
  BY DEF KeepBlock, NoBuffer, EndOfFile, NothingPending, connVars, sendVars, paramVars
<1> QED BY <1>1, <1>2, CallbackStep

-----------------------------------------------------------------------------
(* Sending what is in the buffer. *)

\* A page without tags: as many bytes are sent as the counter goes down.
LEMMA SendPlainStep ==
    ASSUME IInv, SendPlain
    PROVE  IInv'
<1>1. SendFits /\ BufferFits /\ PlainFits /\ ~tag_check /\ left \in Nat /\ file \in Nat
  BY Constants DEF IInv, SendFits, CallFits, SendPlain
<1>2. /\ page' = page /\ pos' = pos /\ buf' = buf /\ conn' = conn /\ tag_check' = tag_check
      /\ block_ends' = block_ends /\ parsed' = parsed /\ parse_left' = parse_left
      /\ tag_end' = tag_end /\ tag_state' = tag_state /\ tag_index' = tag_index
      /\ insert' = insert /\ freed' = freed /\ spoiled' = spoiled /\ retries' = retries /\ pc' = "idle"
      /\ SendFile(Sendable(left), "copy")
  BY DEF SendPlain, fileVars, connVars, parseVars, tagVars, paramVars
<1>3. Sendable(left) \in 0 .. left
  BY <1>1, SendableType
<1>4. file + left <= Len(buf) /\ Len(buf) \in Nat /\ queue \in Seq({"copy"})
  BY <1>1 DEF PlainFits, BufferFits
<1>5. /\ SendFits'
      /\ \E m \in 0 .. Sendable(left) : file' = file + m /\ (m <= left => left' = left - m)
      /\ queue' \in Seq({"copy"})
  <2>1. Sendable(left) \in Nat /\ file + Sendable(left) <= Len(buf)
    BY <1>1, <1>3, <1>4
  <2> HIDE DEF Sendable
  <2> QED BY <1>1, <1>2, <1>4, <2>1, SendFileStep
<1>6. PlainFits'
  <2>1. PICK m \in 0 .. Sendable(left) : file' = file + m /\ (m <= left => left' = left - m)
    BY <1>5
  <2>2. m <= left /\ m \in Nat
    BY <1>1, <1>3, <2>1
  <2>3. file' + left' <= Len(buf')
    BY <1>1, <1>2, <1>4, <2>1, <2>2
  <2> QED BY <1>5, <2>3 DEF PlainFits
<1>7. CallFits' /\ CountersFit'
  BY <1>1, <1>2 DEF IInv, CallFits, CountersFit
<1>8. BufferFits' /\ ParserFits'
  BY <1>2 DEF IInv, BufferFits, ParserFits, File
<1>9. Flags'
  BY <1>2, Zenon DEF IInv, Flags
<1> QED BY <1>5, <1>6, <1>7, <1>8, <1>9 DEF IInv

\* A page with tags: what was parsed is sent, from send_data's begin or its end.
LEMMA SendParsedStep ==
    ASSUME IInv, SendPending \/ EndParse
    PROVE  IInv'
<1>1. /\ tag_check /\ SendFits /\ BufferFits /\ ParserFits
      /\ parsed \in Nat /\ file \in Nat /\ Len(buf) \in Nat /\ parsed <= Len(buf)
  <2>1. tag_check
    BY DEF IInv, CallFits, SendPending, EndParse
  <2> QED BY <2>1, Constants DEF IInv, SendFits, BufferFits, ParserFits
<1>2. /\ UNCHANGED fileVars /\ conn' = conn /\ tag_check' = tag_check /\ block_ends' = block_ends
      /\ parsed' = parsed /\ parse_left' = parse_left /\ tag_end' = tag_end
      /\ tag_state' = tag_state /\ tag_index' = tag_index /\ insert' = insert
      /\ freed' = freed /\ spoiled' = spoiled /\ retries' = retries /\ buf' = buf
      /\ pc' \in {"idle", "parse"}
  BY DEF SendPending, EndParse, fileVars, connVars, parseVars, tagVars, paramVars
<1>3. Flags'
  BY <1>2, Zenon DEF IInv, Flags
<1>4. CallFits' /\ ParserFits'
  BY <1>1, <1>2 DEF IInv, CallFits, ParserFits
<1>5. ~block_ends => /\ file <= parsed
                     /\ tag_state = "SENDING" => tag_end <= parsed /\ parse_left > 0
  BY <1>1 DEF IInv, CountersFit
<1>6. CASE parsed > file /\ SendFile(Sendable(parsed - file), "ref")
  <2> DEFINE n == Sendable(parsed - file)
  <2>1. n \in 0 .. parsed - file
    BY <1>1, <1>6, SendableType
  <2> HIDE DEF n
  <2>2. n \in Nat /\ file + n <= Len(buf) /\ file + n <= parsed
    BY <1>1, <1>6, <2>1
  <2>3. SendFile(n, "ref")
    BY <1>6 DEF n
  <2>4. UNCHANGED <<fileVars, tag_check>>
    BY <1>2
  <2>5. ~block_ends' =>
              /\ ~block_ends /\ file + n <= parsed'
              /\ parsed' + parse_left' = parsed + parse_left
              /\ tag_state' = "SENDING" => tag_end' <= parsed' /\ parse_left' > 0
    BY <1>2, <1>5, <2>2
  <2> QED BY <1>1, <1>3, <1>4, <2>2, <2>3, <2>4, <2>5, TagSend
<1>7. CASE UNCHANGED <<sendVars, len, err>>
  <2>1. ~block_ends' =>
              /\ ~block_ends /\ file + 0 <= parsed'
              /\ parsed' + parse_left' = parsed + parse_left
              /\ tag_state' = "SENDING" => tag_end' <= parsed' /\ parse_left' > 0
    BY <1>1, <1>2, <1>5
  <2>2. UNCHANGED <<fileVars, tag_check>>
    BY <1>2
  <2> QED BY <1>1, <1>3, <1>4, <1>7, <2>1, <2>2, TagSend
<1> QED BY <1>6, <1>7 DEF SendPending, EndParse

-----------------------------------------------------------------------------
(* The parser. *)

\* A byte is parsed: the sum of the pointer and its counter stays.
LEMMA AdvanceSum ==
    ASSUME ParserFits, parse_left > 0, Advance
    PROVE  /\ parsed' = parsed + 1 /\ parsed' \in Nat /\ parse_left' \in Nat
           /\ parsed' + parse_left' = parsed + parse_left
<1>1. parsed \in Nat /\ parse_left \in Nat /\ parse_left > 0
  BY DEF ParserFits
<1>2. PICK a \in Nat, b \in Nat : a = parsed /\ b = parse_left /\ b > 0
  BY <1>1
<1>3. parsed' = a + 1 /\ parse_left' = b - 1
  BY <1>2 DEF Advance
<1>4. a + 1 \in Nat /\ b - 1 \in Nat /\ (a + 1) + (b - 1) = a + b
  BY <1>2
<1> QED BY <1>2, <1>3, <1>4

\* A step of the parser that sends nothing and leaves the inserts alone.
LEMMA ParserMoves ==
    ASSUME IInv, pc = "parse", parse_left > 0,
           Advance \/ UNCHANGED parseVars,
           UNCHANGED <<fileVars, connVars, sendVars, retries, freed, localVars, tag_end, insert>>,
           spoiled' \in BOOLEAN,
           \/ tag_state' = "NONE" /\ tag_index' \in 0 .. BYTE - 1
           \/ tag_state' = "LEADIN" /\ tag_index' \in 1 .. 5
           \/ tag_state' \in {"FOUND", "PARAM"} /\ tag_index' \in 0 .. MAX_TAG_NAME_LEN
           \/ tag_state' = "LEADOUT" /\ tag_index' \in 1 .. 2
    PROVE  IInv'
<1>1. /\ tag_check /\ ParserFits /\ parsed \in Nat /\ parse_left \in Nat /\ file \in Nat
      /\ Len(buf) \in Nat /\ parsed + parse_left <= Len(buf)
  BY Constants DEF IInv, CallFits, ParserFits, SendFits, BufferFits
<1>2. /\ UNCHANGED fileVars /\ conn' = conn /\ tag_check' = tag_check
      /\ block_ends' = block_ends /\ buf' = buf /\ freed' = freed /\ retries' = retries
      /\ pc' = pc /\ tag_end' = tag_end /\ insert' = insert
      /\ UNCHANGED <<sendVars, len, err>>
  BY DEF fileVars, connVars, localVars
<1>3. /\ parsed' \in Nat /\ parse_left' \in Nat /\ parsed' + parse_left' = parsed + parse_left
      /\ parsed' \in {parsed, parsed + 1}
  <2>1. CASE UNCHANGED parseVars
    BY <1>1, <2>1 DEF parseVars
  <2>2. CASE Advance /\ parse_left > 0
    BY <1>1, <2>2, AdvanceSum, Zenon
  <2> QED BY <2>1, <2>2
<1>4. Flags'
  BY <1>2, Zenon DEF IInv, Flags
<1>5. CallFits'
  BY <1>2 DEF IInv, CallFits
<1>6. ParserFits'
  <2>1. parsed' + parse_left' <= Len(buf')
    BY <1>1, <1>2, <1>3
  <2>2. tag_end' \in 0 .. Len(buf') /\ insert'.len \in 0 .. BYTE - 1
    BY <1>1, <1>2 DEF ParserFits
  <2> QED BY <1>3, <2>1, <2>2 DEF ParserFits
<1>7. ~block_ends' => /\ ~block_ends /\ file + 0 <= parsed'
                      /\ parsed' + parse_left' = parsed + parse_left
                      /\ tag_state' = "SENDING" => tag_end' <= parsed' /\ parse_left' > 0
  <2>1. ASSUME ~block_ends' PROVE ~block_ends /\ file + 0 <= parsed'
    <3>1. ~block_ends /\ file <= parsed
      BY <1>1, <1>2, <2>1 DEF IInv, CountersFit
    <3> QED BY <1>1, <1>3, <3>1
  <2>2. tag_state' # "SENDING"
    OBVIOUS
  <2> QED BY <1>3, <2>1, <2>2
<1>8. UNCHANGED <<fileVars, tag_check>>
  BY <1>2
<1> QED BY <1>1, <1>2, <1>4, <1>5, <1>6, <1>7, <1>8, TagSend

\* The text, the lead-in, the name, the parameters and the lead-out of a tag.
LEMMA ParserStep ==
    ASSUME IInv, \/ ScanText \/ EndLeadIn \/ MatchLeadIn \/ EndName \/ ReadName
                 \/ ReadParam \/ BeginLeadOut \/ MatchLeadOut
    PROVE  IInv'
<1>1. /\ pc = "parse" /\ parse_left > 0
      /\ Advance \/ UNCHANGED parseVars
      /\ UNCHANGED <<fileVars, connVars, sendVars, retries, freed, localVars, tag_end, insert>>
  BY DEF ScanText, EndLeadIn, MatchLeadIn, EndName, ReadName, ReadParam, BeginLeadOut,
         MatchLeadOut, Parsing, paramVars, tagVars
<1>2. /\ MAX_TAG_NAME_LEN \in Nat /\ MAX_TAG_NAME_LEN < BYTE /\ BYTE \in Nat /\ 5 < BYTE
      /\ \/ tag_state = "NONE" /\ tag_index \in 0 .. BYTE - 1
         \/ tag_state = "LEADIN" /\ tag_index \in 1 .. 5
         \/ tag_state \in {"FOUND", "PARAM"} /\ tag_index \in 0 .. MAX_TAG_NAME_LEN
         \/ tag_state = "LEADOUT" /\ tag_index \in 1 .. 2
         \/ tag_state = "SENDING"
  BY Constants DEF IInv, ParserFits
<1>3. \/ tag_state' = "NONE" /\ tag_index' \in 0 .. BYTE - 1
      \/ tag_state' = "LEADIN" /\ tag_index' \in 1 .. 5
      \/ tag_state' \in {"FOUND", "PARAM"} /\ tag_index' \in 0 .. MAX_TAG_NAME_LEN
      \/ tag_state' = "LEADOUT" /\ tag_index' \in 1 .. 2
  <2>1. CASE ScanText
    BY <1>2, <2>1 DEF ScanText, Parsing
  <2>2. CASE EndLeadIn
    BY <1>2, <2>2 DEF EndLeadIn, Parsing
  <2>3. CASE MatchLeadIn
    BY <1>2, <2>3, Leads DEF MatchLeadIn, Parsing
  <2>4. CASE EndName
    BY <1>2, <2>4 DEF EndName, Parsing
  <2>5. CASE ReadName
    <3>1. tag_state = "FOUND" /\ tag_index \in 0 .. MAX_TAG_NAME_LEN
      BY <1>2, <2>5 DEF ReadName, Parsing
    <3>2. \/ tag_index < MAX_TAG_NAME_LEN /\ tag_index' = tag_index + 1 /\ tag_state' = tag_state
          \/ tag_state' = "NONE" /\ tag_index' = tag_index
      BY <2>5, Zenon DEF ReadName
    <3> QED BY <1>2, <3>1, <3>2
  <2>6. CASE ReadParam
    BY <1>2, <2>6 DEF ReadParam, Parsing, tagVars
  <2>7. CASE BeginLeadOut
    BY <1>2, <2>7 DEF BeginLeadOut, Parsing
  <2>8. CASE MatchLeadOut
    BY <1>2, <2>8, Leads DEF MatchLeadOut, Parsing
  <2> QED BY <2>1, <2>2, <2>3, <2>4, <2>5, <2>6, <2>7, <2>8
<1>4. spoiled' \in BOOLEAN
  <2>1. spoiled' = spoiled \/ spoiled' = TRUE
    BY DEF ScanText, EndLeadIn, MatchLeadIn, EndName, ReadName, ReadParam, BeginLeadOut,
           MatchLeadOut, paramVars, AddParam
  <2> QED BY <2>1, Zenon DEF IInv, Flags
<1> QED BY <1>1, <1>3, <1>4, ParserMoves

-----------------------------------------------------------------------------
(* The inserts. *)

\* What is known of the block while a tag is dealt with.
LEMMA TagFacts ==
    ASSUME IInv, pc = "parse"
    PROVE  /\ tag_check /\ ParserFits /\ SendFits
           /\ parsed \in Nat /\ parse_left \in Nat /\ file \in Nat /\ tag_end \in Nat /\ len \in Nat
           /\ insert.len \in Nat /\ Len(buf) \in Nat
           /\ parsed + parse_left <= Len(buf) /\ tag_end <= Len(buf)
           /\ ~block_ends => file <= parsed /\ parsed + parse_left = file + left
           /\ ~block_ends /\ tag_state = "SENDING" => tag_end <= parsed /\ parse_left > 0
BY Constants DEF IInv, CallFits, ParserFits, SendFits, BufferFits, CountersFit

\* The length that is rendered is cut to the width of its counter.
LEMMA RenderedLength ==
    InsertLength(tag_name) % BYTE \in 0 .. BYTE - 1
<1>1. /\ BYTE \in Nat \ {0} /\ UNKNOWN_LEN \in Nat
      /\ \A name \in DOMAIN InsertLen : InsertLen[name] \in Nat
  BY SsiAssumption, Zenon DEF SsiAssumption
<1>2. InsertLength(tag_name) \in Nat
  BY <1>1 DEF InsertLength, Known
<1> QED BY <1>1, <1>2

\* The last byte of a tag.
LEMMA EndTagStep ==
    ASSUME IInv, EndTag
    PROVE  IInv'
<1>1. pc = "parse" /\ parse_left > 0 /\ Advance
  BY DEF EndTag, Parsing
<1>2. /\ UNCHANGED fileVars /\ conn' = conn /\ tag_check' = tag_check /\ buf' = buf
      /\ block_ends' = (block_ends \/ parse_left = 1)
      /\ freed' = IF Known(tag_name) THEN ssi_params # <<>> ELSE freed
      /\ spoiled' = (spoiled \/ (Known(tag_name) /\ freed))
      /\ tag_state' = "SENDING" /\ tag_index' = 0 /\ tag_end' = parsed + 1
      /\ insert' = [name |-> tag_name, params |-> ToSet(ssi_params),
                    len |-> InsertLength(tag_name) % BYTE]
      /\ retries' = retries /\ pc' = pc
  BY Zenon DEF EndTag, RenderTag, fileVars
<1>3. /\ tag_check /\ ParserFits /\ SendFits
      /\ parsed \in Nat /\ parse_left \in Nat /\ file \in Nat /\ len \in Nat /\ Len(buf) \in Nat
      /\ parsed + parse_left <= Len(buf)
      /\ ~block_ends => file <= parsed
  BY <1>1, TagFacts
<1>4. /\ parsed' = parsed + 1 /\ parsed' \in Nat /\ parse_left' \in Nat
      /\ parsed' + parse_left' = parsed + parse_left
  BY <1>1, <1>3, AdvanceSum, Zenon
<1>5. Flags'
  <2>1. tag_check' = tag_check /\ block_ends' = (block_ends \/ parse_left = 1)
        /\ freed' \in {ssi_params # <<>>, freed} /\ spoiled' \in {spoiled, TRUE, freed}
    BY <1>2, Zenon DEF IInv, Flags, Known
  <2> QED BY <2>1, Zenon DEF IInv, Flags
<1>6. CallFits'
  BY <1>2 DEF IInv, CallFits
<1>7. ParserFits'
  <2>1. parsed' + parse_left' <= Len(buf')
    BY <1>2, <1>3, <1>4
  <2>2. tag_end' \in 0 .. Len(buf')
    BY <1>1, <1>2, <1>3
  <2>3. insert'.len = InsertLength(tag_name) % BYTE
    BY <1>2
  <2>4. insert'.len \in 0 .. BYTE - 1 /\ BYTE \in Nat
    BY <2>3, RenderedLength, Constants
  <2>5. tag_state' = "SENDING" /\ tag_index' \in 0 .. insert'.len
    BY <1>2, <2>4
  <2> QED BY <1>4, <2>1, <2>2, <2>4, <2>5 DEF ParserFits
<1>8. ASSUME ~block_ends'
      PROVE  /\ ~block_ends /\ parsed' + parse_left' = parsed + parse_left
             /\ tag_end' <= parsed' /\ parse_left' > 0
  <2>1. ~block_ends /\ parse_left # 1
    BY <1>2, <1>8
  <2>2. PICK b \in Nat : b = parse_left /\ b > 0 /\ b # 1 /\ parse_left' = b - 1
    BY <1>1, <1>3, <2>1 DEF Advance
  <2>3. b - 1 > 0
    BY <2>2
  <2>4. tag_end' = parsed' /\ parsed + 1 <= parsed + 1
    BY <1>2, <1>3, <1>4
  <2> QED BY <1>2, <1>4, <2>1, <2>2, <2>3, <2>4
<1>9. UNCHANGED <<fileVars, tag_check>>
  BY <1>2
<1>10. CASE parsed + 1 > file /\ SendFile(AtMost(len, parsed + 1 - file), "ref")
  <2> DEFINE n == AtMost(len, parsed + 1 - file)
  <2>1. n \in Nat /\ file + n <= parsed + 1
    BY <1>3, <1>10 DEF AtMost
  <2>2. SendFile(n, "ref")
    BY <1>10
  <2> HIDE DEF n
  <2>3. file + n <= Len(buf) /\ file + n <= parsed'
    BY <1>1, <1>3, <1>4, <2>1
  <2> QED BY <1>3, <1>5, <1>6, <1>7, <1>8, <1>9, <2>1, <2>2, <2>3, TagSend, Zenon
<1>11. CASE ~(parsed + 1 > file) /\ UNCHANGED <<sendVars, len, err>>
  <2>1. ~block_ends' => file + 0 <= parsed'
    <3>1. ASSUME ~block_ends' PROVE file <= parsed
      BY <1>2, <1>3, <3>1
    <3> QED BY <1>3, <1>4, <3>1
  <2> QED BY <1>3, <1>5, <1>6, <1>7, <1>8, <1>9, <1>11, <2>1, TagSend
<1> QED BY <1>10, <1>11 DEF EndTag

\* Bytes in front of the insert.
LEMMA SendBeforeInsertStep ==
    ASSUME IInv, SendBeforeInsert
    PROVE  IInv'
<1>1. pc = "parse" /\ tag_state = "SENDING" /\ tag_end > file
  BY DEF SendBeforeInsert, Parsing
<1>2. /\ UNCHANGED fileVars /\ conn' = conn /\ tag_check' = tag_check
      /\ block_ends' = block_ends /\ buf' = buf /\ freed' = freed /\ spoiled' = spoiled /\ retries' = retries
      /\ pc' = pc /\ tag_end' = tag_end /\ insert' = insert /\ tag_state' = tag_state
      /\ tag_index' = tag_index /\ parsed' = parsed /\ parse_left' = parse_left
  BY DEF SendBeforeInsert, fileVars, connVars, parseVars, tagVars, paramVars
<1>3. /\ tag_check /\ file \in Nat /\ len \in Nat /\ tag_end \in Nat /\ parsed \in Nat
      /\ parse_left \in Nat /\ Len(buf) \in Nat /\ tag_end <= Len(buf)
      /\ ~block_ends => tag_end <= parsed /\ parse_left > 0
  BY <1>1, TagFacts
<1>4. Flags'
  BY <1>2, Zenon DEF IInv, Flags
<1>5. CallFits' /\ ParserFits'
  BY <1>2 DEF IInv, CallFits, ParserFits
<1> DEFINE n == AtMost(len, tag_end - file)
<1>6. n \in Nat /\ file + n <= tag_end
  BY <1>1, <1>3 DEF AtMost
<1>7. SendFile(n, "ref")
  BY DEF SendBeforeInsert
<1> HIDE DEF n
<1>8. file + n <= Len(buf) /\ (~block_ends => file + n <= parsed)
  BY <1>3, <1>6
<1>9. UNCHANGED <<fileVars, tag_check>>
  BY <1>2
<1>10. ~block_ends' => /\ ~block_ends /\ file + n <= parsed'
                       /\ parsed' + parse_left' = parsed + parse_left
                       /\ tag_state' = "SENDING" => tag_end' <= parsed' /\ parse_left' > 0
  BY <1>2, <1>3, <1>8
<1> QED BY <1>3, <1>4, <1>5, <1>6, <1>7, <1>8, <1>9, <1>10, TagSend

\* Bytes of the insert, copied.
LEMMA SendInsertStep ==
    ASSUME IInv, SendInsert
    PROVE  IInv'
<1>1. pc = "parse" /\ tag_state = "SENDING" /\ tag_index < insert.len
  BY DEF SendInsert, Parsing
<1>2. /\ page' = page /\ pos' = pos /\ buf' = buf /\ conn' = conn /\ tag_check' = tag_check
      /\ block_ends' = block_ends /\ file' = file /\ left' = left /\ parsed' = parsed
      /\ parse_left' = parse_left /\ tag_end' = tag_end /\ tag_state' = tag_state
      /\ insert' = insert /\ freed' = freed /\ spoiled' = spoiled /\ retries' = retries
  BY DEF SendInsert, fileVars, connVars, parseVars, paramVars
<1>3. /\ tag_check /\ len \in Nat /\ insert.len \in Nat /\ tag_index \in Nat
      /\ queue \in Seq(Handed) /\ Len(queue) \in Nat /\ Len(queue) <= SND_BUF /\ SND_BUF \in Nat
      /\ err \in {"OK", "MEM"} /\ len \in 0 .. SND_BUF
  <2>1. tag_index \in 0 .. insert.len
    BY <1>1 DEF IInv, ParserFits
  <2> QED BY <1>1, <2>1, TagFacts, Constants DEF SendFits
<1>4. /\ queue' \in Seq(Handed) /\ Len(queue') <= SND_BUF /\ len' \in 0 .. SND_BUF
      /\ err' \in {"OK", "MEM"} /\ tag_index' \in 0 .. insert.len /\ pc' \in {pc, "idle"}
  <2> DEFINE n == AtMost(len, insert.len - tag_index)
  <2>1. n \in Nat /\ tag_index + n <= insert.len
    BY <1>1, <1>3 DEF AtMost
  <2>2. \/ \E m \in Lengths(n) :
             /\ queue' = queue \o Kinds("copy", m) /\ tag_index' = tag_index + m /\ len' = m
             /\ err' = err /\ pc' = "idle"
        \/ /\ err' = "MEM" /\ len' = 0
           /\ queue' = queue /\ tag_index' = tag_index /\ pc' = pc
    BY DEF SendInsert, InsertSent
  <2> HIDE DEF n
  <2>3. ASSUME NEW m \in Lengths(n), queue' = queue \o Kinds("copy", m),
               tag_index' = tag_index + m, len' = m, err' = err, pc' = "idle"
        PROVE  /\ queue' \in Seq(Handed) /\ Len(queue') <= SND_BUF /\ len' \in 0 .. SND_BUF
               /\ err' \in {"OK", "MEM"} /\ tag_index' \in 0 .. insert.len /\ pc' \in {pc, "idle"}
    <3>1. m \in Nat /\ m <= n /\ m <= SND_BUF - Len(queue)
      BY <2>1, <2>3 DEF Lengths, Room
    <3>2. queue' \in Seq(Handed) /\ Len(queue') = Len(queue) + m
      BY <1>3, <2>3, <3>1, QueueGrows DEF Handed
    <3> QED BY <1>3, <2>1, <2>3, <3>1, <3>2
  <2>4. CASE /\ err' = "MEM" /\ len' = 0
             /\ queue' = queue /\ tag_index' = tag_index /\ pc' = pc
    BY <1>1, <1>3, <2>4
  <2> QED BY <2>2, <2>3, <2>4
<1>5. Flags'
  BY <1>2, Zenon DEF IInv, Flags
<1>6. CallFits' /\ SendFits'
  BY <1>2, <1>3, <1>4 DEF IInv, CallFits, SendFits
<1>7. BufferFits' /\ PlainFits' /\ CountersFit'
  BY <1>2, <1>3 DEF IInv, BufferFits, File, PlainFits, CountersFit
<1>8. ParserFits'
  BY <1>1, <1>2, <1>4 DEF IInv, ParserFits
<1> QED BY <1>5, <1>6, <1>7, <1>8 DEF IInv

\* The insert is sent.
LEMMA EndInsertStep ==
    ASSUME IInv, EndInsert
    PROVE  IInv'
<1>1. /\ pc = "parse" /\ parse_left > 0 /\ UNCHANGED parseVars
      /\ UNCHANGED <<fileVars, connVars, sendVars, retries, freed, localVars, tag_end, insert>>
      /\ spoiled' = spoiled /\ tag_state' = "NONE" /\ tag_index' = 0
  BY DEF EndInsert, Parsing, paramVars
<1>2. tag_index' \in 0 .. BYTE - 1
  BY <1>1, Constants
<1>3. spoiled' \in BOOLEAN
  BY <1>1, Zenon DEF IInv, Flags
<1> QED BY <1>1, <1>2, <1>3, ParserMoves

-----------------------------------------------------------------------------
(* The theorems. *)

LEMMA NextCounters == IInv /\ [Next]_vars => IInv'
<1> SUFFICES ASSUME IInv, [Next]_vars PROVE IInv'
  OBVIOUS
<1>1. CASE \E p \in Pages, ssi \in BOOLEAN : Request(p, ssi)
  BY <1>1, RequestStep
<1>2. CASE \E n \in 1 .. SND_BUF : Acknowledge(n) \/ AcknowledgeClosed(n)
  BY <1>2, AckStep
<1>3. CASE Poll
  BY <1>3, PollStep
<1>4. CASE SendData
  <2>1. CASE KeepBlock \/ NoBuffer \/ EndOfFile \/ NothingPending
    BY <2>1, StillStep
  <2>2. CASE ReadBlock
    BY <2>2, ReadBlockStep
  <2>3. CASE SendPlain
    BY <2>3, SendPlainStep
  <2>4. CASE SendPending \/ EndParse
    BY <2>4, SendParsedStep
  <2>5. CASE \/ ScanText \/ EndLeadIn \/ MatchLeadIn \/ EndName \/ ReadName
             \/ ReadParam \/ BeginLeadOut \/ MatchLeadOut
    BY <2>5, ParserStep
  <2>6. CASE EndTag
    BY <2>6, EndTagStep
  <2>7. CASE SendBeforeInsert
    BY <2>7, SendBeforeInsertStep
  <2>8. CASE SendInsert
    BY <2>8, SendInsertStep
  <2>9. CASE EndInsert
    BY <2>9, EndInsertStep
  <2> QED BY <1>4, <2>1, <2>2, <2>3, <2>4, <2>5, <2>6, <2>7, <2>8, <2>9 DEF SendData
<1>5. CASE UNCHANGED vars
  <2>1. /\ UNCHANGED <<fileVars, tag_check, block_ends, file, left, parseVars, tagVars>>
        /\ UNCHANGED queue /\ UNCHANGED <<len, err, freed, spoiled>>
        /\ UNCHANGED <<conn, retries, pc>>
    BY <1>5 DEF vars, connVars, sendVars, paramVars, localVars
  <2>2. CallFits'
    BY <2>1 DEF IInv, CallFits
  <2> QED BY <2>1, <2>2, CallbackStep
<1> QED BY <1>1, <1>2, <1>3, <1>4, <1>5 DEF Next

LEMMA CountersAlwaysFit == Spec => []IInv
BY InitCounters, NextCounters, PTL DEF Spec

(***************************************************************************)
(* The pairs of pointer and counter of send_data agree, and everything it  *)
(* counts stays within its buffer and its width - for all pages, inserts,  *)
(* buffers and widths, however the browser acknowledges.  The pairs agree  *)
(* until a tag of the page ends with a block: then file may run ahead.     *)
(***************************************************************************)
THEOREM CountersAlwaysAgree == Spec => []CountersAgree
<1>1. IInv => TypeOK
  <2> SUFFICES ASSUME IInv PROVE TypeOK
    OBVIOUS
  <2>1. tag_check \in BOOLEAN /\ block_ends \in BOOLEAN /\ freed \in BOOLEAN
        /\ spoiled \in BOOLEAN
    BY Zenon DEF IInv, Flags
  <2>2. /\ conn \in {"closed", "open", "aborted"}
        /\ retries \in 0 .. MAX_RETRIES
        /\ pc \in {"idle", "read", "plain", "pending", "parse"}
    BY Zenon DEF IInv, CallFits
  <2>3. page \in Pages /\ pos \in 0 .. Len(File) /\ Len(buf) \in BufSizes \cup {0}
    BY Zenon DEF IInv, BufferFits
  <2>4. /\ file \in 0 .. Len(buf) /\ left \in 0 .. WORD - 1 /\ len \in 0 .. SND_BUF
        /\ err \in {"OK", "MEM"} /\ Len(queue) <= SND_BUF
    BY Zenon DEF IInv, SendFits
  <2>5. Len(buf) \in Nat /\ Len(buf) <= MAX_SEND /\ MAX_SEND \in Nat
    BY <2>3, Constants
  <2>6. parsed \in 0 .. Len(buf) /\ parse_left \in 0 .. Len(buf) /\ tag_end \in 0 .. MAX_SEND
    BY <2>5 DEF IInv, ParserFits
  <2>7. /\ tag_state \in {"NONE", "LEADIN", "FOUND", "PARAM", "LEADOUT", "SENDING"}
        /\ tag_index \in 0 .. BYTE - 1 /\ insert.len \in 0 .. BYTE - 1
    BY Constants DEF IInv, ParserFits
  <2> QED BY <2>1, <2>2, <2>3, <2>4, <2>6, <2>7, Zenon DEF TypeOK
<1>2. IInv => CountersAgree
  BY <1>1 DEF IInv, CountersFit, CountersAgree
<1> QED BY <1>2, CountersAlwaysFit, PTL

(***************************************************************************)
(* What TCP holds of a page without tags was copied by tcp_write: whatever *)
(* fs_read puts over the buffer, or close_conn frees, does not change it.  *)
(***************************************************************************)
THEOREM PlainDataStaysIntact == Spec => []PlainDataIntact
<1>1. IInv => PlainDataIntact
  <2> SUFFICES ASSUME IInv, ~tag_check PROVE \A k \in DOMAIN queue : queue[k] # "stale"
    BY DEF PlainDataIntact
  <2>1. queue \in Seq({"copy"})
    BY DEF IInv, PlainFits
  <2>2. \A k \in DOMAIN queue : queue[k] = "copy"
    BY <2>1
  <2> QED BY <2>2
<1> QED BY <1>1, CountersAlwaysFit, PTL
=============================================================================
