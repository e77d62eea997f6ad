--------------------------- MODULE HttpConn_proofs ---------------------------
(***************************************************************************)
(* The web server's memory, files and receive buffers are owned, and what  *)
(* a connection sends is what its request was for, for any number of       *)
(* connections, states and files, any card and any limits.                 *)
(***************************************************************************)
EXTENDS HttpConn, FiniteSetTheorems, WellFoundedInduction, TLAPS

Pcb == [state : TcpStates, arg : States \cup {NULL}, recv : BOOLEAN, sent : BOOLEAN,
        unacked : 0 .. SND_BUF, requests : Nat]
HttpState == [used : BOOLEAN, handle : Handles \cup {NULL}, buf : BOOLEAN, left : 0 .. 1,
              retries : Nat]
OpenFile == [used : BOOLEAN, name : DOMAIN Blocks \cup {"none"}, pos : Nat]

Worlds == [pcb : [Conns -> Pcb], hs : [States -> HttpState], files : [Handles -> OpenFile],
           buffers : Nat, misused : BOOLEAN]

\* Each state in use belongs to one connection, each connection that can call
\* the server has one.
StatesOwned(p, h) ==
    /\ \A c \in Conns : /\ p[c].arg # NULL => h[p[c].arg].used
                        /\ p[c].recv => p[c].arg # NULL
                        /\ p[c].state = "CLOSED" => p[c].arg = NULL
    /\ \A c, d \in Conns : p[c].arg = p[d].arg /\ p[c].arg # NULL => c = d
    /\ \A s \in States : IF h[s].used THEN \E c \in Conns : p[c].arg = s
                                      ELSE h[s] = NoState

\* Each open file belongs to one state.
FilesOwned(h, f) ==
    /\ \A s \in States : h[s].handle # NULL => f[h[s].handle].used
    /\ \A s, t \in States : h[s].handle = h[t].handle /\ h[s].handle # NULL => s = t
    /\ \A i \in Handles :
           f[i].used => /\ \E s \in States : h[s].handle = i
                        /\ f[i].name \in DOMAIN Blocks /\ f[i].pos <= Blocks[f[i].name]

BuffersOwned(h, n) == n = Cardinality({ s \in States : h[s].buf })

Owned(w) ==
    /\ w \in Worlds /\ ~w.misused
    /\ StatesOwned(w.pcb, w.hs) /\ FilesOwned(w.hs, w.files) /\ BuffersOwned(w.hs, w.buffers)

\* No state has been polled too often.
Patient(w) == \A s \in States : w.hs[s].retries < MAX_RETRIES

\* Nothing changes from w to v for a connection but that it may lose its state.
KeepsConn(w, v, c) ==
    v.pcb[c].arg # NULL =>
        LET s == w.pcb[c].arg
            i == w.hs[s].handle
        IN /\ v.pcb[c].arg = s
           /\ v.hs[s].handle = i
           /\ i # NULL => v.files[i].name = w.files[i].name

Keeps(w, v) == \A c \in Conns : KeepsConn(w, v, c)

\* A connection loses its state, which is freed; nothing else changes but c's
\* control block.
Ends(w, v, c) ==
    /\ Owned(v) /\ Keeps(w, v)
    /\ \E q \in Pcb : q.arg = NULL /\ v.pcb = [w.pcb EXCEPT ![c] = q]
    /\ \A s \in States :
           v.hs[s].retries > 0 => w.pcb[c].arg # s /\ v.hs[s].retries = w.hs[s].retries

\* The step from w to v leaves every owner alone.
Adjusts(w, v) ==
    /\ \A c \in Conns : /\ v.pcb[c].arg = w.pcb[c].arg
                        /\ v.pcb[c].recv = w.pcb[c].recv
                        /\ v.pcb[c].state = "CLOSED" => w.pcb[c].state = "CLOSED"
    /\ \A s \in States : IF w.hs[s].used
                         THEN v.hs[s].used /\ v.hs[s].handle = w.hs[s].handle
                         ELSE v.hs[s] = w.hs[s]
    /\ \A i \in Handles : /\ v.files[i].used <=> w.files[i].used
                          /\ v.files[i].name = w.files[i].name
                          /\ v.files[i].used => v.files[i].pos <= Blocks[v.files[i].name]

\* What sending may do.
Sends(w, v) ==
    /\ Owned(v) /\ Keeps(w, v)
    /\ \A s \in States : v.hs[s].retries <= w.hs[s].retries

\* The callbacks of one segment, at most one of them with data.
Callbacks == [conn : Conns, call : {"sent", "recv", "fin"}, uri : Uris \cup {NoUri}]

TodoFits ==
    /\ todo \in Seq(Callbacks)
    /\ \A k \in DOMAIN todo : todo[k].call = "recv" => todo[k].uri \in Uris
    /\ \A j, k \in DOMAIN todo : todo[j].call = "recv" /\ todo[k].call = "recv" => j = k

DataIsWaiting == \E k \in DOMAIN todo : todo[k].call = "recv"

PbufsOwned ==
    /\ served.unopened \in Nat /\ pbufs \in 0 .. PBUF_POOL_SIZE
    /\ pbufs = served.unopened + (IF DataIsWaiting THEN 1 ELSE 0)

\* What FirstOf gives with a card or without one.
FirstFrom(paths, heap, incard) ==
    LET found == { k \in DOMAIN paths : heap /\ incard /\ Len(paths[k]) = 1
                                              /\ paths[k][1] \in DOMAIN Blocks }
    IN IF found = {} THEN <<>>
       ELSE paths[CHOOSE k \in found : \A j \in found : k <= j]

\* FirstOf asks for the card as it is now.
LEMMA FirstFromCard ==
    ASSUME NEW paths, NEW heap
    PROVE  FirstOf(paths, heap) = FirstFrom(paths, heap, card)
  BY DEF FirstOf, FirstFrom, Exists

\* What was noted of a request: the first of its paths that can be opened.
PathFits(r, incard) ==
    r.uri.kind # "none" =>
        /\ r.uri.kind \in {"root", "cgi", "file"}
        /\ r.path = FirstFrom(Paths(r.uri, r.page) \o ErrorPaths, r.heap, incard)

\* The connection's file is that of its last request.
HandleFits(r, p, h, f) ==
    p.arg # NULL =>
        LET i == h[p.arg].handle
        IN i # NULL => /\ r.uri.kind # "none" /\ r.path # <<>>
                       /\ f[i].name = r.path[1]

RequestsFit ==
    /\ served = [last |-> served.last, unopened |-> served.unopened]
    /\ served.last = [c \in Conns |-> served.last[c]]
    /\ \A c \in Conns : /\ PathFits(served.last[c], card)
                        /\ HandleFits(served.last[c], pcb[c], hs, files)

IInv == Owned(World) /\ Patient(World) /\ TodoFits /\ PbufsOwned /\ RequestsFit

-----------------------------------------------------------------------------
(* Buffers are counted. *)

\* The number of buffers taken is a number.
LEMMA IsCount ==
    ASSUME NEW h, NEW n, BuffersOwned(h, n)
    PROVE  n \in Nat
  <1> DEFINE B == { s \in States : h[s].buf }
  <1>1. IsFiniteSet(B)
    BY HttpConnAssumption, FS_Subset
  <1> QED BY <1>1, FS_CardinalityType DEF BuffersOwned

\* One state's buffer is taken or given back, and counted.
LEMMA Counted ==
    ASSUME NEW h \in [States -> HttpState], NEW s \in States, NEW r \in HttpState,
           NEW n, BuffersOwned(h, n)
    PROVE  BuffersOwned([h EXCEPT ![s] = r],
                        IF r.buf THEN IF h[s].buf THEN n ELSE n + 1
                                 ELSE IF h[s].buf THEN n - 1 ELSE n)
  <1> DEFINE B == { t \in States : h[t].buf }
             C == { t \in States : [h EXCEPT ![s] = r][t].buf }
  <1>1. IsFiniteSet(B) /\ Cardinality(B) \in Nat /\ n = Cardinality(B)
    BY HttpConnAssumption, FS_Subset, FS_CardinalityType DEF BuffersOwned
  <1>2. CASE r.buf
    <2>1. C = B \cup {s} /\ (s \in B <=> h[s].buf)
      BY <1>2
    <2> QED BY <1>1, <1>2, <2>1, FS_AddElement DEF BuffersOwned
  <1>3. CASE ~r.buf
    <2>1. C = B \ {s} /\ (s \in B <=> h[s].buf)
      BY <1>3
    <2> QED BY <1>1, <1>3, <2>1, FS_RemoveElement DEF BuffersOwned
  <1> QED BY <1>1, <1>2, <1>3 DEF HttpState

\* As long as no buffer is taken or given back, nothing is to be counted.
LEMMA SameBuffers ==
    ASSUME NEW h \in [States -> HttpState], NEW g \in [States -> HttpState], NEW n,
           \A s \in States : g[s].buf = h[s].buf, BuffersOwned(h, n)
    PROVE  BuffersOwned(g, n)
  <1>1. { s \in States : g[s].buf } = { s \in States : h[s].buf }
    OBVIOUS
  <1> QED BY <1>1 DEF BuffersOwned

-----------------------------------------------------------------------------
(* Closing. *)

\* A state that a connection owns is freed with all it owns.
LEMMA Freed ==
    ASSUME NEW w, Owned(w), NEW c \in Conns, w.pcb[c].arg # NULL
    PROVE  LET s == w.pcb[c].arg
               i == w.hs[s].handle
               v == FreeState(w, s)
           IN /\ v \in Worlds /\ ~v.misused /\ s \in States
              /\ v.pcb = w.pcb
              /\ v.hs = [w.hs EXCEPT ![s] = NoState]
              /\ v.files = IF i = NULL THEN w.files ELSE [w.files EXCEPT ![i] = NoFile]
              /\ BuffersOwned(v.hs, v.buffers)
  <1> DEFINE s == w.pcb[c].arg
             i == w.hs[s].handle
             f == IF i # NULL THEN FsClose(w, i) ELSE w
             b == IF w.hs[s].buf THEN [f EXCEPT !.buffers = @ - 1] ELSE f
             v == FreeState(w, s)
  <1>1. /\ w \in Worlds /\ ~w.misused /\ s \in States
        /\ w.hs[s] \in HttpState /\ w.hs[s].used
        /\ i # NULL => i \in Handles /\ w.files[i].used
    <2>1. /\ w.pcb[c] \in Pcb /\ w.hs \in [States -> HttpState]
          /\ w \in Worlds /\ ~w.misused
      BY DEF Owned, Worlds
    <2>2. s \in States
      BY <2>1 DEF Pcb
    <2>3. w.hs[s] \in HttpState /\ (i # NULL => i \in Handles)
      BY <2>1, <2>2 DEF HttpState
    <2>4. w.hs[s].used
      BY DEF Owned, StatesOwned
    <2>5. i # NULL => w.files[i].used
      BY <2>2, Zenon DEF Owned, FilesOwned
    <2> QED BY <2>1, <2>2, <2>3, <2>4, <2>5, Zenon
  <1>2. NoState \in HttpState /\ NoFile \in OpenFile /\ ~NoState.buf
    BY DEF NoState, NoFile, NULL, HttpState, OpenFile
  <1>3. /\ f \in Worlds /\ f.pcb = w.pcb /\ f.hs = w.hs /\ f.buffers = w.buffers
        /\ ~f.misused
        /\ f.files = IF i = NULL THEN w.files ELSE [w.files EXCEPT ![i] = NoFile]
    BY <1>1, <1>2, Zenon DEF FsClose, Worlds
  <1>4. LET n == IF w.hs[s].buf THEN w.buffers - 1 ELSE w.buffers
        IN n \in Nat /\ BuffersOwned([w.hs EXCEPT ![s] = NoState], n)
    <2>1. BuffersOwned(w.hs, w.buffers) /\ w.hs \in [States -> HttpState]
      BY <1>1, Zenon DEF Owned, Worlds
    <2>2. BuffersOwned([w.hs EXCEPT ![s] = NoState],
                       IF w.hs[s].buf THEN w.buffers - 1 ELSE w.buffers)
      <3>1. BuffersOwned([w.hs EXCEPT ![s] = NoState],
                         IF NoState.buf THEN IF w.hs[s].buf THEN w.buffers ELSE w.buffers + 1
                         ELSE IF w.hs[s].buf THEN w.buffers - 1 ELSE w.buffers)
        BY <1>1, <1>2, <2>1, Counted, Zenon
      <3> QED BY <1>2, <3>1, Zenon
    <2> QED BY <2>2, IsCount, Zenon
  <1>5. /\ b \in Worlds /\ b.pcb = w.pcb /\ b.hs = w.hs /\ b.files = f.files /\ ~b.misused
        /\ b.buffers = IF w.hs[s].buf THEN w.buffers - 1 ELSE w.buffers
    BY <1>3, <1>4, Zenon DEF Worlds
  <1>6. v = [b EXCEPT !.hs[s] = NoState]
    BY <1>1, Zenon DEF FreeState
  <1> HIDE DEF b, f, v
  <1>7. /\ v \in Worlds /\ v.pcb = b.pcb /\ v.hs = [b.hs EXCEPT ![s] = NoState]
        /\ v.files = b.files /\ v.buffers = b.buffers /\ v.misused = b.misused
    BY <1>1, <1>2, <1>5, <1>6, Zenon DEF Worlds
  <1>8. /\ v \in Worlds /\ ~v.misused /\ v.pcb = w.pcb
        /\ v.hs = [w.hs EXCEPT ![s] = NoState]
        /\ v.files = IF i = NULL THEN w.files ELSE [w.files EXCEPT ![i] = NoFile]
    BY <1>3, <1>5, <1>7, Zenon
  <1>9. BuffersOwned(v.hs, v.buffers)
    BY <1>4, <1>5, <1>7, <1>8, Zenon
  <1> QED BY <1>1, <1>8, <1>9, Zenon DEF v

\* The connection has lost its state: conn_err, and what close_conn and lwIP do
\* with the control block.
LEMMA Detached ==
    ASSUME NEW w, Owned(w), NEW c \in Conns,
           NEW q \in Pcb, q.arg = NULL, ~q.recv
    PROVE  Ends(w, [ConnErr(w, w.pcb[c].arg) EXCEPT !.pcb[c] = q], c)
  <1> DEFINE s == w.pcb[c].arg
             i == w.hs[s].handle
             u == ConnErr(w, s)
             v == [u EXCEPT !.pcb[c] = q]
  <1> SUFFICES Ends(w, v, c)
    OBVIOUS
  <1> HIDE DEF v
  <1>1. /\ w \in Worlds /\ ~w.misused
        /\ StatesOwned(w.pcb, w.hs) /\ FilesOwned(w.hs, w.files)
        /\ BuffersOwned(w.hs, w.buffers)
    BY DEF Owned
  <1>2. CASE s = NULL
    <2>1. u = w
      BY <1>2 DEF ConnErr
    <2>2. v \in Worlds /\ v.pcb = [w.pcb EXCEPT ![c] = q] /\ v.hs = w.hs
          /\ v.files = w.files /\ v.buffers = w.buffers /\ ~v.misused
      BY <1>1, <2>1 DEF Worlds, v
    <2>3. StatesOwned(v.pcb, v.hs)
      BY <1>1, <1>2, <2>2 DEF StatesOwned, Worlds
    <2>4. Keeps(w, v)
      BY <1>1, <1>2, <2>2 DEF Keeps, KeepsConn, Worlds
    <2>5. \A t \in States : t # NULL
      BY HttpConnAssumption DEF NULL
    <2>6. \A t \in States : v.hs[t].retries > 0 => s # t /\ v.hs[t].retries = w.hs[t].retries
      BY <1>2, <2>2, <2>5
    <2>7. Owned(v)
      BY <1>1, <2>2, <2>3 DEF Owned
    <2> QED BY <2>2, <2>4, <2>6, <2>7 DEF Ends
  <1>3. CASE s # NULL
    <2>1. u = FreeState(w, s)
      BY <1>3 DEF ConnErr
    <2> HIDE DEF u
    <2>2. /\ u \in Worlds /\ ~u.misused /\ s \in States
          /\ u.pcb = w.pcb
          /\ u.hs = [w.hs EXCEPT ![s] = NoState]
          /\ u.files = IF i = NULL THEN w.files ELSE [w.files EXCEPT ![i] = NoFile]
          /\ BuffersOwned(u.hs, u.buffers)
      BY <1>3, <2>1, Freed
    <2>3. v \in Worlds /\ v.pcb = [w.pcb EXCEPT ![c] = q] /\ v.hs = u.hs
          /\ v.files = u.files /\ v.buffers = u.buffers /\ ~v.misused
      BY <2>2, Zenon DEF Worlds, v
    <2>4. /\ w.pcb \in [Conns -> Pcb] /\ w.hs \in [States -> HttpState]
          /\ w.files \in [Handles -> OpenFile]
      BY <1>1 DEF Worlds
    <2>4a. \A d \in Conns : v.pcb[d] = IF d = c THEN q ELSE w.pcb[d]
      BY <2>3, <2>4, Zenon
    <2>4b. \A t \in States : v.hs[t] = IF t = s THEN NoState ELSE w.hs[t]
      BY <2>2, <2>3, <2>4, Zenon
    <2>4c. \A j \in Handles : v.files[j] = IF j = i THEN NoFile ELSE w.files[j]
      <3>1. CASE i = NULL
        <4>1. \A j \in Handles : j # i
          BY <3>1, HttpConnAssumption DEF NULL
        <4>2. v.files = w.files
          BY <2>2, <2>3, <3>1, Zenon
        <4> QED BY <4>1, <4>2, Zenon
      <3>2. CASE i # NULL
        <4>1. v.files = [w.files EXCEPT ![i] = NoFile]
          BY <2>2, <2>3, <3>2, Zenon
        <4> QED BY <2>4, <4>1, Zenon
      <3> QED BY <3>1, <3>2, Zenon
    <2>4d. \A d \in Conns : w.pcb[d].arg \in States \cup {NULL}
      BY <2>4 DEF Pcb
    <2>4e. \A t \in States : w.hs[t].handle \in Handles \cup {NULL}
      BY <2>4 DEF HttpState
    <2>4f. \A t \in States :
               w.hs[t].handle = w.hs[s].handle /\ w.hs[t].handle # NULL => t = s
      BY <1>1, <2>2, Zenon DEF FilesOwned
    <2>5. StatesOwned(v.pcb, v.hs)
      <3>1. \A d \in Conns : v.pcb[d] = IF d = c THEN q ELSE w.pcb[d]
        BY <2>4a, Zenon
      <3>2. \A t \in States : v.hs[t] = IF t = s THEN NoState ELSE w.hs[t]
        BY <2>4b, Zenon
      <3>3. \A d \in Conns \ {c} : w.pcb[d].arg # s
        BY <1>1, <1>3 DEF StatesOwned
      <3>4. /\ \A d \in Conns \ {c} : w.pcb[d].arg # NULL => w.pcb[d].arg \in States
            /\ ~NoState.used
        BY <2>4 DEF Pcb, NoState
      <3>5. \A d \in Conns : /\ v.pcb[d].arg # NULL => v.hs[v.pcb[d].arg].used
                             /\ v.pcb[d].recv => v.pcb[d].arg # NULL
                             /\ v.pcb[d].state = "CLOSED" => v.pcb[d].arg = NULL
        BY <1>1, <3>1, <3>2, <3>3, <3>4 DEF StatesOwned
      <3>6. \A d, e \in Conns : v.pcb[d].arg = v.pcb[e].arg /\ v.pcb[d].arg # NULL => d = e
        BY <1>1, <3>1 DEF StatesOwned
      <3>7. ASSUME NEW t \in States
            PROVE  IF v.hs[t].used THEN \E d \in Conns : v.pcb[d].arg = t
                                   ELSE v.hs[t] = NoState
        BY <1>1, <3>1, <3>2, <3>4 DEF StatesOwned
      <3> QED BY <3>5, <3>6, <3>7, Zenon DEF StatesOwned
    <2>6. NoState.handle = NULL /\ NoState.retries = 0 /\ ~NoFile.used
      BY Zenon DEF NoState, NoFile
    <2>7. FilesOwned(v.hs, v.files)
      <3>1. \A t \in States : v.hs[t] = IF t = s THEN NoState ELSE w.hs[t]
        BY <2>4b, Zenon
      <3>2. \A j \in Handles : v.files[j] = IF j = i THEN NoFile ELSE w.files[j]
        BY <2>4c, Zenon
      <3>3. \A t \in States \ {s} : w.hs[t].handle # NULL =>
                w.hs[t].handle \in Handles /\ w.hs[t].handle # i
        BY <2>4e, <2>4f, Zenon
      <3>4a. \A t \in States : v.hs[t].handle # NULL => v.files[v.hs[t].handle].used
        <4>1. \A t \in States : w.hs[t].handle # NULL => w.files[w.hs[t].handle].used
          BY <1>1, Zenon DEF FilesOwned
        <4> QED BY <2>6, <3>1, <3>2, <3>3, <4>1
      <3>4b. \A t, r \in States :
                 v.hs[t].handle = v.hs[r].handle /\ v.hs[t].handle # NULL => t = r
        <4>1. \A t, r \in States :
                  w.hs[t].handle = w.hs[r].handle /\ w.hs[t].handle # NULL => t = r
          BY <1>1, Zenon DEF FilesOwned
        <4> QED BY <2>6, <3>1, <4>1
      <3>5. ASSUME NEW j \in Handles, v.files[j].used
            PROVE  /\ \E t \in States : v.hs[t].handle = j
                   /\ v.files[j].name \in DOMAIN Blocks
                   /\ v.files[j].pos <= Blocks[v.files[j].name]
        BY <1>1, <2>6, <3>1, <3>2, <3>5 DEF FilesOwned
      <3> QED BY <3>4a, <3>4b, <3>5 DEF FilesOwned
    <2>8. Keeps(w, v)
      <3> SUFFICES ASSUME NEW d \in Conns, v.pcb[d].arg # NULL
                   PROVE  KeepsConn(w, v, d)
        BY Zenon DEF Keeps, KeepsConn
      <3>1. d # c /\ w.pcb[d].arg \in States \ {s} /\ v.pcb[d].arg = w.pcb[d].arg
        <4>1. d # c /\ v.pcb[d] = w.pcb[d]
          BY <2>4a, Zenon
        <4>2. \A e \in Conns : w.pcb[e].arg = w.pcb[c].arg /\ w.pcb[e].arg # NULL => e = c
          BY <1>1, Zenon DEF StatesOwned
        <4> QED BY <2>4d, <4>1, <4>2, Zenon
      <3>2. v.hs[w.pcb[d].arg] = w.hs[w.pcb[d].arg]
        BY <2>4b, <3>1, Zenon
      <3>3. w.hs[w.pcb[d].arg].handle # NULL =>
                w.hs[w.pcb[d].arg].handle \in Handles \ {i}
        BY <2>4e, <2>4f, <3>1, Zenon
      <3> DEFINE j == w.hs[w.pcb[d].arg].handle
      <3>4. j # NULL => v.files[j].name = w.files[j].name
        <4>1. j # NULL => j \in Handles \ {i}
          BY <3>3
        <4> HIDE DEF j
        <4> QED BY <2>4c, <4>1, Zenon
      <3> QED BY <3>1, <3>2, <3>4, Zenon DEF KeepsConn
    <2>9. \A t \in States : v.hs[t].retries > 0 => s # t /\ v.hs[t].retries = w.hs[t].retries
      BY <2>2, <2>3, <2>4, <2>6
    <2>10. Owned(v)
      BY <2>2, <2>3, <2>5, <2>7 DEF Owned
    <2> QED BY <2>3, <2>8, <2>9, <2>10 DEF Ends
  <1> QED BY <1>2, <1>3

\* The control block of a connection is removed, after conn_err.
LEMMA RemovedEnds ==
    ASSUME NEW w, Owned(w), NEW c \in Conns
    PROVE  Ends(w, Removed(w, c), c)
  <1>1. NoPcb \in Pcb /\ NoPcb.arg = NULL /\ ~NoPcb.recv
    BY HttpConnAssumption DEF NoPcb, Pcb, TcpStates
  <1>2. Removed(w, c) = [ConnErr(w, w.pcb[c].arg) EXCEPT !.pcb[c] = NoPcb]
    BY DEF Removed
  <1> HIDE DEF Removed
  <1>3. Ends(w, [ConnErr(w, w.pcb[c].arg) EXCEPT !.pcb[c] = NoPcb], c)
    BY <1>1, Detached, Zenon
  <1> QED BY <1>2, <1>3, Zenon

\* close_conn, with or without memory for the FIN.
LEMMA CloseEnds ==
    ASSUME NEW w, Owned(w), NEW c \in Conns, NEW luck \in Luck
    PROVE  Ends(w, CloseConn(w, c, luck), c)
  <1> DEFINE p == w.pcb[c]
             q == [p EXCEPT !.arg = NULL, !.sent = FALSE, !.recv = FALSE]
             next == CASE p.state = "ESTABLISHED" -> "FIN_WAIT"
                       [] p.state = "CLOSE_WAIT"  -> "LAST_ACK"
                       [] OTHER                   -> p.state
             r == [q EXCEPT !.state = next]
             u == ConnErr(w, p.arg)
             t == [u EXCEPT !.pcb[c] = q]
             v == CloseConn(w, c, luck)
  <1>1. p \in Pcb /\ w \in Worlds
    BY DEF Owned, Worlds
  <1>2. q \in Pcb /\ q.arg = NULL /\ ~q.recv /\ q.state = p.state
    BY <1>1 DEF Pcb
  <1>3. next \in TcpStates
    BY <1>1 DEF Pcb, TcpStates
  <1>4. r \in Pcb /\ r.arg = NULL /\ ~r.recv
    BY <1>2, <1>3 DEF Pcb
  <1>5. u \in Worlds /\ u.pcb = w.pcb
    BY <1>1, Freed DEF ConnErr
  <1>6. [u EXCEPT !.pcb[c].arg = NULL, !.pcb[c].sent = FALSE, !.pcb[c].recv = FALSE] = t
    BY <1>1, <1>5 DEF Worlds, Pcb
  <1>7. v = TcpClose(t, c, luck)
    BY <1>6 DEF CloseConn, ConnErr
  <1>8. CASE ~luck.fin
    <2>1. v = [u EXCEPT !.pcb[c] = q]
      BY <1>7, <1>8 DEF TcpClose
    <2> HIDE DEF v, q
    <2>2. Ends(w, [u EXCEPT !.pcb[c] = q], c)
      BY <1>2, Detached, Zenon
    <2> QED BY <2>1, <2>2, Zenon DEF v
  <1>9. CASE luck.fin
    <2>1. t.pcb[c] = q /\ t.pcb[c].state = p.state
      BY <1>1, <1>2, <1>5 DEF Worlds
    <2>2. v = [t EXCEPT !.pcb[c].state = next]
      BY <1>7, <1>9, <2>1 DEF TcpClose
    <2> HIDE DEF next, q, v, u
    <2>3. [t EXCEPT !.pcb[c].state = next] = [u EXCEPT !.pcb[c] = r]
      BY <1>5, <2>1 DEF Worlds
    <2> HIDE DEF r
    <2>4. Ends(w, [u EXCEPT !.pcb[c] = r], c)
      BY <1>4, Detached, Zenon DEF u
    <2> QED BY <2>2, <2>3, <2>4, Zenon DEF v
  <1> QED BY <1>8, <1>9

-----------------------------------------------------------------------------
(* Sending. *)

\* A connection that ends harms no other.
LEMMA EndsWell ==
    ASSUME NEW w, Owned(w), NEW c \in Conns, NEW v, Ends(w, v, c)
    PROVE  Sends(w, v)
  <1>1. w.hs \in [States -> HttpState] /\ v.hs \in [States -> HttpState]
    BY DEF Ends, Owned, Worlds
  <1> QED BY <1>1 DEF Ends, Sends, HttpState

\* A step that leaves every owner alone keeps what is owned.
LEMMA Adjusted ==
    ASSUME NEW w, Owned(w), NEW v \in Worlds, ~v.misused, Adjusts(w, v),
           BuffersOwned(v.hs, v.buffers)
    PROVE  Owned(v) /\ Keeps(w, v)
  <1>1. /\ \A c \in Conns : w.pcb[c].arg # NULL => w.pcb[c].arg \in States
        /\ \A s \in States : w.hs[s].handle # NULL => w.hs[s].handle \in Handles
    BY DEF Owned, Worlds, Pcb, HttpState
  <1>2. StatesOwned(w.pcb, w.hs) /\ FilesOwned(w.hs, w.files)
    BY DEF Owned
  <1>3. StatesOwned(v.pcb, v.hs)
    BY <1>1, <1>2 DEF StatesOwned, Adjusts
  <1>4. \A s \in States : v.hs[s].handle = w.hs[s].handle
    BY DEF Adjusts
  <1>5. FilesOwned(v.hs, v.files)
    BY <1>1, <1>2, <1>4 DEF FilesOwned, Adjusts
  <1>6. Keeps(w, v)
    <2> SUFFICES ASSUME NEW c \in Conns, v.pcb[c].arg # NULL
                 PROVE  KeepsConn(w, v, c)
      BY Zenon DEF Keeps, KeepsConn
    <2>1. v.pcb[c].arg = w.pcb[c].arg /\ w.pcb[c].arg \in States
      BY <1>1 DEF Adjusts
    <2>2. \A i \in Handles : v.files[i].name = w.files[i].name
      BY DEF Adjusts
    <2> QED BY <1>1, <1>4, <2>1, <2>2, Zenon DEF KeepsConn
  <1> QED BY <1>3, <1>5, <1>6 DEF Owned

\* What two steps keep, both together keep.
LEMMA KeepsOn ==
    ASSUME NEW w, NEW v, NEW x, Keeps(w, v), Keeps(v, x)
    PROVE  Keeps(w, x)
  <1> SUFFICES ASSUME NEW c \in Conns, KeepsConn(w, v, c), KeepsConn(v, x, c)
               PROVE  KeepsConn(w, x, c)
    BY DEF Keeps
  <1> QED BY Zenon DEF KeepsConn

\* One thing sent after another.
LEMMA SendsOn ==
    ASSUME NEW w, NEW v, NEW x, Owned(w), Owned(v), Sends(w, v), Sends(v, x)
    PROVE  Sends(w, x)
  <1>1. Owned(x) /\ Keeps(w, x)
    BY KeepsOn DEF Sends
  <1>2. \A s \in States : x.hs[s].retries <= v.hs[s].retries /\ v.hs[s].retries <= w.hs[s].retries
    BY DEF Sends
  <1>3. \A s \in States : /\ w.hs[s].retries \in Nat
                          /\ v.hs[s].retries \in Nat /\ x.hs[s].retries \in Nat
    BY <1>1 DEF Owned, Worlds, HttpState
  <1> QED BY <1>1, <1>2, <1>3 DEF Sends

\* tcp_write, with or without memory, from what is left of the buffer.
LEMMA WriteSends ==
    ASSUME NEW w, Owned(w), NEW c \in Conns, w.pcb[c].arg # NULL, NEW luck \in Luck
    PROVE  Sends(w, Write(w, c, luck))
  <1> DEFINE s == w.pcb[c].arg
             n == IF luck.taken <= w.hs[s].left /\ w.pcb[c].unacked + luck.taken <= SND_BUF
                  THEN luck.taken ELSE 0
             v == Write(w, c, luck)
  <1>1. /\ w \in Worlds /\ w.pcb \in [Conns -> Pcb] /\ w.hs \in [States -> HttpState]
        /\ ~w.misused /\ BuffersOwned(w.hs, w.buffers)
        /\ StatesOwned(w.pcb, w.hs) /\ FilesOwned(w.hs, w.files)
    BY DEF Owned, Worlds
  <1>2. s \in States /\ w.hs[s].used /\ w.hs[s] \in HttpState /\ w.pcb[c] \in Pcb
    BY <1>1 DEF StatesOwned, Pcb
  <1>3. /\ w.hs[s].left - n \in 0 .. 1
        /\ w.pcb[c].unacked + n \in 0 .. SND_BUF
    BY <1>2, HttpConnAssumption, SMTT(30) DEF Luck, HttpState, Pcb
  <1> DEFINE r == [w.hs[s] EXCEPT !.left = @ - n]
             p == [w.pcb[c] EXCEPT !.unacked = @ + n]
  <1>4. r \in HttpState /\ r.used /\ r.handle = w.hs[s].handle /\ r.buf = w.hs[s].buf
        /\ r.retries = w.hs[s].retries
    BY <1>2, <1>3 DEF HttpState
  <1>5. p \in Pcb /\ p.arg = s /\ p.recv = w.pcb[c].recv /\ p.state = w.pcb[c].state
    BY <1>2, <1>3 DEF Pcb
  <1>6. v = [w EXCEPT !.hs[s] = r, !.pcb[c] = p]
    BY <1>1, <1>2 DEF Write, Worlds
  <1> HIDE DEF r, p, v
  <1>7. /\ v \in Worlds /\ v.hs = [w.hs EXCEPT ![s] = r] /\ v.pcb = [w.pcb EXCEPT ![c] = p]
        /\ v.files = w.files /\ v.buffers = w.buffers /\ v.misused = w.misused
    BY <1>1, <1>2, <1>4, <1>5, <1>6 DEF Worlds
  <1>8. \A t \in States : v.hs[t].buf = w.hs[t].buf
    BY <1>1, <1>2, <1>4, <1>7
  <1>9. BuffersOwned(v.hs, v.buffers)
    BY <1>1, <1>7, <1>8, SameBuffers DEF Worlds
  <1>10. \A i \in Handles : w.files[i].used => w.files[i].pos <= Blocks[w.files[i].name]
    BY <1>1 DEF FilesOwned
  <1>11. Owned(v) /\ Keeps(w, v)
    <2>1. Adjusts(w, v)
      BY <1>1, <1>2, <1>4, <1>5, <1>7, <1>10 DEF Adjusts
    <2> QED BY <1>1, <1>7, <1>9, <2>1, Adjusted
  <1>12. \A t \in States : v.hs[t].retries <= w.hs[t].retries
    BY <1>1, <1>4, <1>7 DEF HttpState
  <1> QED BY <1>11, <1>12 DEF Sends, v

\* A buffer is taken for a state that has none.
LEMMA BufferTaken ==
    ASSUME NEW w, Owned(w), NEW s \in States, w.hs[s].used, ~w.hs[s].buf
    PROVE  LET v == [w EXCEPT !.hs[s].buf = TRUE, !.buffers = @ + 1]
           IN Sends(w, v) /\ v.pcb = w.pcb
  <1> DEFINE r == [w.hs[s] EXCEPT !.buf = TRUE]
             v == [w EXCEPT !.hs[s].buf = TRUE, !.buffers = @ + 1]
  <1>1. /\ w \in Worlds /\ w.hs \in [States -> HttpState] /\ w.buffers \in Nat
        /\ ~w.misused /\ BuffersOwned(w.hs, w.buffers) /\ FilesOwned(w.hs, w.files)
    BY DEF Owned, Worlds
  <1>2. w.hs[s] \in HttpState
    BY <1>1
  <1>3. r \in HttpState /\ r.used /\ r.handle = w.hs[s].handle /\ r.buf
        /\ r.retries = w.hs[s].retries
    BY <1>2 DEF HttpState
  <1>4. v = [w EXCEPT !.hs[s] = r, !.buffers = w.buffers + 1]
    BY <1>1 DEF Worlds
  <1> HIDE DEF r, v
  <1>5. /\ v \in Worlds /\ v.hs = [w.hs EXCEPT ![s] = r] /\ v.buffers = w.buffers + 1
        /\ v.pcb = w.pcb /\ v.files = w.files /\ v.misused = w.misused
    <2>1. w.buffers + 1 \in Nat /\ [w.hs EXCEPT ![s] = r] \in [States -> HttpState]
      BY <1>1, <1>3
    <2>2. v = [pcb |-> w.pcb, hs |-> [w.hs EXCEPT ![s] = r], files |-> w.files,
               buffers |-> w.buffers + 1, misused |-> w.misused]
      BY <1>1, <1>4 DEF Worlds
    <2>3. /\ w.pcb \in [Conns -> Pcb] /\ w.files \in [Handles -> OpenFile]
          /\ w.misused \in BOOLEAN
      BY <1>1 DEF Worlds
    <2> QED BY <2>1, <2>2, <2>3 DEF Worlds
  <1>6. BuffersOwned([w.hs EXCEPT ![s] = r], w.buffers + 1)
    BY <1>1, <1>3, Counted
  <1>7. \A i \in Handles : w.files[i].used => w.files[i].pos <= Blocks[w.files[i].name]
    BY <1>1 DEF FilesOwned
  <1>8. Owned(v) /\ Keeps(w, v)
    <2>1. Adjusts(w, v)
      BY <1>1, <1>3, <1>5, <1>7 DEF Adjusts
    <2> QED BY <1>1, <1>5, <1>6, <2>1, Adjusted
  <1>9. \A t \in States : v.hs[t].retries <= w.hs[t].retries
    BY <1>1, <1>3, <1>5 DEF HttpState
  <1> QED BY <1>5, <1>8, <1>9 DEF Sends, v

\* A file at its end, or one that cannot be read, is closed and with it the
\* connection.
LEMMA FileClosed ==
    ASSUME NEW w, Owned(w), NEW c \in Conns, w.pcb[c].arg # NULL,
           w.hs[w.pcb[c].arg].handle # NULL, NEW luck \in Luck
    PROVE  LET s == w.pcb[c].arg
               i == w.hs[s].handle
           IN Sends(w, CloseConn([FsClose(w, i) EXCEPT !.hs[s].handle = NULL], c, luck))
  <1> DEFINE s == w.pcb[c].arg
             i == w.hs[s].handle
             r == [w.hs[s] EXCEPT !.handle = NULL]
             v == [FsClose(w, i) EXCEPT !.hs[s].handle = NULL]
             x == CloseConn(v, c, luck)
  <1>1. /\ w \in Worlds /\ w.pcb \in [Conns -> Pcb] /\ w.hs \in [States -> HttpState]
        /\ w.files \in [Handles -> OpenFile]
        /\ ~w.misused /\ BuffersOwned(w.hs, w.buffers)
        /\ StatesOwned(w.pcb, w.hs) /\ FilesOwned(w.hs, w.files)
    BY DEF Owned, Worlds
  <1>2. s \in States /\ w.hs[s].used /\ w.hs[s] \in HttpState
    BY <1>1 DEF StatesOwned, Pcb
  <1>3. i \in Handles /\ w.files[i].used
    BY <1>1, <1>2, Zenon DEF FilesOwned, HttpState
  <1>4. r \in HttpState /\ r.used /\ r.handle = NULL /\ r.buf = w.hs[s].buf
        /\ r.retries = w.hs[s].retries
    BY <1>2 DEF HttpState, NULL
  <1>5. v = [w EXCEPT !.files[i] = NoFile, !.hs[s] = r]
    BY <1>1, <1>2, <1>3, Zenon DEF FsClose, Worlds
  <1> HIDE DEF r, s, i, v
  <1>6. NoFile \in OpenFile /\ ~NoFile.used
    BY DEF NoFile, OpenFile
  <1>7. /\ v \in Worlds /\ v.hs = [w.hs EXCEPT ![s] = r] /\ v.pcb = w.pcb
        /\ v.files = [w.files EXCEPT ![i] = NoFile]
        /\ v.buffers = w.buffers /\ v.misused = w.misused
    <2>1. /\ [w.hs EXCEPT ![s] = r] \in [States -> HttpState]
          /\ [w.files EXCEPT ![i] = NoFile] \in [Handles -> OpenFile]
      BY <1>1, <1>4, <1>6
    <2>2. v = [pcb |-> w.pcb, hs |-> [w.hs EXCEPT ![s] = r],
               files |-> [w.files EXCEPT ![i] = NoFile],
               buffers |-> w.buffers, misused |-> w.misused]
      BY <1>1, <1>5 DEF Worlds
    <2>3. w.buffers \in Nat /\ w.misused \in BOOLEAN
      BY <1>1 DEF Worlds
    <2> QED BY <1>1, <2>1, <2>2, <2>3 DEF Worlds
  <1>8. /\ \A t \in States : v.hs[t] = IF t = s THEN r ELSE w.hs[t]
        /\ \A j \in Handles : v.files[j] = IF j = i THEN NoFile ELSE w.files[j]
    BY <1>1, <1>7
  <1>9. StatesOwned(v.pcb, v.hs)
    <2>1. \A d \in Conns : w.pcb[d].arg # NULL => w.pcb[d].arg \in States
      BY <1>1 DEF Pcb
    <2>2. \A t \in States : /\ v.hs[t].used <=> w.hs[t].used
                            /\ ~w.hs[t].used => v.hs[t] = w.hs[t]
      BY <1>2, <1>4, <1>8
    <2> QED BY <1>1, <1>7, <2>1, <2>2 DEF StatesOwned
  <1>10. \A t \in States \ {s} : w.hs[t].handle # NULL =>
             w.hs[t].handle \in Handles /\ w.hs[t].handle # i
    BY <1>1, <1>2 DEF FilesOwned, HttpState, i
  <1>11. FilesOwned(v.hs, v.files)
    <2>1. /\ \A t \in States : v.hs[t].handle # NULL => v.files[v.hs[t].handle].used
          /\ \A t, u \in States :
                 v.hs[t].handle = v.hs[u].handle /\ v.hs[t].handle # NULL => t = u
      BY <1>1, <1>4, <1>8, <1>10 DEF FilesOwned
    <2>2. ASSUME NEW j \in Handles, v.files[j].used
          PROVE  /\ \E t \in States : v.hs[t].handle = j
                 /\ v.files[j].name \in DOMAIN Blocks
                 /\ v.files[j].pos <= Blocks[v.files[j].name]
      <3>1. j # i /\ v.files[j] = w.files[j]
        BY <1>6, <1>8, <2>2
      <3>2. PICK t \in States : w.hs[t].handle = j
        BY <1>1, <2>2, <3>1 DEF FilesOwned
      <3>3. v.hs[t].handle = j
        BY <1>8, <3>1, <3>2 DEF i
      <3> QED BY <1>1, <2>2, <3>1, <3>3 DEF FilesOwned
    <2> QED BY <2>1, <2>2 DEF FilesOwned
  <1>12. BuffersOwned(v.hs, v.buffers)
    BY <1>1, <1>4, <1>7, <1>8, SameBuffers DEF Worlds
  <1>13. Owned(v)
    BY <1>1, <1>7, <1>9, <1>11, <1>12 DEF Owned
  <1>14. Ends(v, x, c)
    BY <1>13, CloseEnds
  <1> HIDE DEF x
  <1>15. Owned(x) /\ Keeps(v, x) /\ x.pcb[c].arg = NULL
    BY <1>1, <1>7, <1>14 DEF Ends
  <1>16. Keeps(w, x)
    <2> SUFFICES ASSUME NEW d \in Conns, x.pcb[d].arg # NULL
                 PROVE  KeepsConn(w, x, d)
      BY Zenon DEF Keeps, KeepsConn
    <2> DEFINE t == w.pcb[d].arg
               j == w.hs[t].handle
    <2>1. d # c
      BY <1>15
    <2>2. /\ x.pcb[d].arg = t
          /\ x.hs[t].handle = v.hs[t].handle
          /\ v.hs[t].handle # NULL => x.files[v.hs[t].handle].name = v.files[v.hs[t].handle].name
      BY <1>7, <1>15, Zenon DEF Keeps, KeepsConn
    <2>3. t \in States \ {s}
      <3>1. t # NULL
        BY <2>2, Zenon
      <3>2. \A e \in Conns : w.pcb[e].arg \in States \cup {NULL}
        BY <1>1 DEF Pcb
      <3>3. \A e \in Conns : w.pcb[e].arg = w.pcb[c].arg /\ w.pcb[e].arg # NULL => e = c
        BY <1>1, Zenon DEF StatesOwned
      <3> QED BY <2>1, <3>1, <3>2, <3>3, Zenon DEF s
    <2>4. v.hs[t] = w.hs[t] /\ (j # NULL => v.files[j] = w.files[j])
      BY <1>8, <1>10, <2>3
    <2> QED BY <2>2, <2>4, Zenon DEF KeepsConn
  <1>17. \A t \in States : x.hs[t].retries <= w.hs[t].retries
    <2>1. \A t \in States : x.hs[t].retries <= v.hs[t].retries
      BY <1>13, <1>14, EndsWell DEF Sends
    <2> QED BY <1>4, <1>8, <2>1
  <1> QED BY <1>15, <1>16, <1>17, Zenon DEF Sends, x, v, s, i

\* fs_read's position stays within the file.
LEMMA NextBlock ==
    ASSUME NEW g \in OpenFile, NEW n \in Nat, g.pos < n
    PROVE  LET f == [g EXCEPT !.pos = @ + 1]
           IN f \in OpenFile /\ f.used = g.used /\ f.name = g.name /\ f.pos <= n
  BY DEF OpenFile

\* The part of send_data that takes a buffer and reads the next block, or closes
\* the file at its end.
LEMMA ReadBlockSends ==
    ASSUME NEW w, Owned(w), NEW c \in Conns, w.pcb[c].arg # NULL,
           w.hs[w.pcb[c].arg].handle # NULL, NEW luck \in Luck
    PROVE  Sends(w, ReadBlock(w, c, luck))
  <1> DEFINE s == w.pcb[c].arg
             i == w.hs[s].handle
             r == [w.hs[s] EXCEPT !.left = 1]
             f == [w.files[i] EXCEPT !.pos = @ + 1]
             v == ReadBlock(w, c, luck)
  <1>1. CASE ~(luck.read /\ w.files[i].pos < Blocks[w.files[i].name])
    <2>1. v = CloseConn([FsClose(w, i) EXCEPT !.hs[s].handle = NULL], c, luck)
      BY <1>1, Zenon DEF ReadBlock
    <2>2. Sends(w, CloseConn([FsClose(w, i) EXCEPT !.hs[s].handle = NULL], c, luck))
      BY FileClosed, Zenon
    <2> QED BY <2>1, <2>2, Zenon
  <1>2. CASE luck.read /\ w.files[i].pos < Blocks[w.files[i].name]
    <2>1. /\ w \in Worlds /\ w.pcb \in [Conns -> Pcb] /\ w.hs \in [States -> HttpState]
          /\ w.files \in [Handles -> OpenFile]
          /\ ~w.misused /\ BuffersOwned(w.hs, w.buffers)
          /\ StatesOwned(w.pcb, w.hs) /\ FilesOwned(w.hs, w.files)
      BY DEF Owned, Worlds
    <2>2. s \in States /\ w.hs[s].used /\ w.hs[s] \in HttpState
      BY <2>1 DEF StatesOwned, Pcb
    <2>3. i \in Handles /\ w.files[i].used /\ w.files[i] \in OpenFile
      BY <2>1, <2>2, Zenon DEF FilesOwned, HttpState
    <2>4. w.files[i].name \in DOMAIN Blocks
      BY <2>1, <2>3, Zenon DEF FilesOwned
    <2>5. Blocks[w.files[i].name] \in Nat
      BY <2>4, HttpConnAssumption
    <2>6. r \in HttpState /\ r.used /\ r.handle = i /\ r.buf = w.hs[s].buf
          /\ r.retries = w.hs[s].retries
      BY <2>2 DEF HttpState
    <2>7. f \in OpenFile /\ f.used /\ f.name = w.files[i].name /\ f.pos <= Blocks[f.name]
      <3>1. /\ f \in OpenFile /\ f.used = w.files[i].used /\ f.name = w.files[i].name
            /\ f.pos <= Blocks[w.files[i].name]
        <4> DEFINE g == w.files[i]
                   n == Blocks[g.name]
        <4>1. g \in OpenFile /\ n \in Nat /\ g.pos < n
          BY <1>2, <2>3, <2>5, Zenon
        <4> HIDE DEF g, n
        <4>2. LET x == [g EXCEPT !.pos = @ + 1]
              IN x \in OpenFile /\ x.used = g.used /\ x.name = g.name /\ x.pos <= n
          BY <4>1, NextBlock, Zenon
        <4> QED BY <4>2, Zenon DEF g, n
      <3> HIDE DEF f
      <3> QED BY <2>3, <3>1, Zenon
    <2>8. v = [w EXCEPT !.files[i] = f, !.hs[s] = r]
      BY <1>2, <2>1, <2>2, <2>3, Zenon DEF ReadBlock, Worlds
    <2> HIDE DEF r, f, v, s, i
    <2>9. /\ v \in Worlds /\ v.hs = [w.hs EXCEPT ![s] = r] /\ v.pcb = w.pcb
          /\ v.files = [w.files EXCEPT ![i] = f]
          /\ v.buffers = w.buffers /\ v.misused = w.misused
      BY <2>1, <2>2, <2>3, <2>6, <2>7, <2>8 DEF Worlds
    <2>10. /\ \A t \in States : v.hs[t] = IF t = s THEN r ELSE w.hs[t]
           /\ \A j \in Handles : v.files[j] = IF j = i THEN f ELSE w.files[j]
      BY <2>1, <2>9
    <2>11. BuffersOwned(v.hs, v.buffers)
      BY <2>1, <2>6, <2>9, <2>10, SameBuffers DEF Worlds
    <2>12. \A j \in Handles : w.files[j].used => w.files[j].pos <= Blocks[w.files[j].name]
      BY <2>1 DEF FilesOwned
    <2>13. Owned(v) /\ Keeps(w, v)
      <3>1. \A t \in States : IF w.hs[t].used
                             THEN v.hs[t].used /\ v.hs[t].handle = w.hs[t].handle
                             ELSE v.hs[t] = w.hs[t]
        BY <2>2, <2>6, <2>10 DEF i
      <3>2. \A j \in Handles : /\ v.files[j].used <=> w.files[j].used
                               /\ v.files[j].name = w.files[j].name
                               /\ v.files[j].used =>
                                      v.files[j].pos <= Blocks[v.files[j].name]
        <4> TAKE j \in Handles
        <4>1. CASE j = i
          <5>1. v.files[j] = f
            BY <2>10, <4>1
          <5> QED BY <2>3, <2>7, <4>1, <5>1
        <4>2. CASE j # i
          <5>1. v.files[j] = w.files[j]
            BY <2>10, <4>2
          <5> QED BY <2>12, <5>1
        <4> QED BY <4>1, <4>2
      <3>3. Adjusts(w, v)
        <4>1. \A d \in Conns : /\ v.pcb[d].arg = w.pcb[d].arg
                               /\ v.pcb[d].recv = w.pcb[d].recv
                               /\ v.pcb[d].state = "CLOSED" => w.pcb[d].state = "CLOSED"
          BY <2>9
        <4> QED BY <3>1, <3>2, <4>1 DEF Adjusts
      <3> QED BY <2>1, <2>9, <2>11, <3>3, Adjusted
    <2>14. \A t \in States : v.hs[t].retries <= w.hs[t].retries
      BY <2>1, <2>6, <2>10 DEF HttpState
    <2> QED BY <2>13, <2>14, Zenon DEF Sends, v
  <1> QED BY <1>1, <1>2, Zenon

\* send_data leaves the connection with what it had, or without a state.
LEMMA SendDataSends ==
    ASSUME NEW w, Owned(w), NEW c \in Conns, w.pcb[c].arg # NULL, NEW luck \in Luck
    PROVE  Sends(w, SendData(w, c, luck))
  <1> DEFINE s == w.pcb[c].arg
             b == IF w.hs[s].buf \/ ~luck.buf THEN w
                  ELSE [w EXCEPT !.hs[s].buf = TRUE, !.buffers = @ + 1]
             r == ReadBlock(b, c, luck)
             v == SendData(w, c, luck)
  <1>1. s \in States /\ w.hs[s].used
    BY DEF Owned, Worlds, StatesOwned, Pcb
  <1>2. Sends(w, w)
    BY DEF Sends, Keeps, KeepsConn, Owned, Worlds, HttpState
  <1>3. Sends(w, b) /\ b.pcb = w.pcb
    BY <1>1, <1>2, BufferTaken, Zenon
  <1>4. v = IF w.hs[s].left > 0 THEN Write(w, c, luck)
            ELSE IF ~b.hs[s].buf THEN w
            ELSE IF b.hs[s].handle = NULL THEN CloseConn(b, c, luck)
            ELSE IF r.pcb[c].arg = NULL THEN r
            ELSE Write(r, c, luck)
    BY SMTT(20) DEF SendData
  <1>5. Owned(b) /\ b.pcb[c].arg = s
    BY <1>3 DEF Sends
  <1> HIDE DEF b, v
  <1>6. Sends(w, CloseConn(b, c, luck))
    <2>1. Ends(b, CloseConn(b, c, luck), c)
      BY <1>5, CloseEnds
    <2>2. Sends(b, CloseConn(b, c, luck))
      BY <1>5, <2>1, EndsWell
    <2> QED BY <1>3, <1>5, <2>2, SendsOn
  <1>7. ASSUME b.hs[s].handle # NULL PROVE Sends(w, r)
    <2>1. Sends(b, r)
      BY <1>5, <1>7, ReadBlockSends
    <2> QED BY <1>3, <1>5, <2>1, SendsOn
  <1>8. ASSUME b.hs[s].handle # NULL, r.pcb[c].arg # NULL
        PROVE  Sends(w, Write(r, c, luck))
    <2>1. Owned(r) /\ Sends(w, r)
      BY <1>7, <1>8 DEF Sends
    <2> HIDE DEF r
    <2>2. Sends(r, Write(r, c, luck))
      BY <1>8, <2>1, WriteSends
    <2> QED BY <2>1, <2>2, SendsOn
  <1>9. Sends(w, Write(w, c, luck))
    BY WriteSends
  <1> QED BY <1>2, <1>4, <1>6, <1>7, <1>8, <1>9 DEF v

-----------------------------------------------------------------------------
(* What the steps have in common. *)

\* Becomes says what the world is after the step.
LEMMA WorldMoves ==
    ASSUME NEW v \in Worlds, Becomes(v)
    PROVE  World' = v
  BY DEF Becomes, World, Worlds

\* Doing nothing counts as sending.
LEMMA Stays ==
    ASSUME Owned(World)
    PROVE  Sends(World, World)
  <1>1. World.hs \in [States -> HttpState]
    BY DEF Owned, Worlds
  <1>2. \A s \in States : World.hs[s].retries <= World.hs[s].retries
    BY <1>1 DEF HttpState
  <1>3. Keeps(World, World)
    BY DEF Keeps, KeepsConn
  <1> QED BY <1>2, <1>3 DEF Sends

\* Sending polls no state.
LEMMA SendsPatiently ==
    ASSUME NEW w, Owned(w), Patient(w), NEW v, Sends(w, v)
    PROVE  Patient(v)
  <1>1. \A s \in States : w.hs[s].retries \in Nat /\ v.hs[s].retries \in Nat
    BY DEF Sends, Owned, Worlds, HttpState
  <1> QED BY <1>1, HttpConnAssumption DEF Sends, Patient

\* A connection's file stays that of its request.
LEMMA HandleStays ==
    ASSUME NEW w, NEW v, Keeps(w, v), NEW c \in Conns, NEW r,
           HandleFits(r, w.pcb[c], w.hs, w.files)
    PROVE  HandleFits(r, v.pcb[c], v.hs, v.files)
  <1> SUFFICES ASSUME v.pcb[c].arg # NULL
               PROVE  HandleFits(r, v.pcb[c], v.hs, v.files)
    BY DEF HandleFits
  <1>1. KeepsConn(w, v, c)
    BY DEF Keeps
  <1> QED BY <1>1, Zenon DEF HandleFits, KeepsConn

\* A step after which no request has another file.
LEMMA Moved ==
    ASSUME IInv, NEW v, Becomes(v), Owned(v), Patient(v), Keeps(World, v),
           UNCHANGED <<card, served>>
    PROVE  Owned(World)' /\ Patient(World)' /\ RequestsFit'
  <1>1. World' = v
    BY WorldMoves DEF Owned
  <1>2. Owned(World)' /\ Patient(World)'
    BY <1>1 DEF Owned, Patient
  <1>3. pcb' = v.pcb /\ hs' = v.hs /\ files' = v.files
    BY DEF Becomes
  <1>4. World.pcb = pcb /\ World.hs = hs /\ World.files = files
    BY DEF World
  <1>5. ASSUME NEW c \in Conns
        PROVE  /\ PathFits(served.last[c], card)'
               /\ HandleFits(served.last[c], pcb[c], hs, files)'
    <2>1. PathFits(served.last[c], card) /\ HandleFits(served.last[c], World.pcb[c], World.hs, World.files)
      BY <1>4 DEF IInv, RequestsFit
    <2>2. PathFits(served.last[c], card)'
      BY <2>1
    <2>3. HandleFits(served.last[c], v.pcb[c], v.hs, v.files)
      BY <2>1, HandleStays
    <2> QED BY <1>3, <2>2, <2>3 DEF HandleFits
  <1>6. served = [last |-> served.last, unopened |-> served.unopened]
        /\ served.last = [c \in Conns |-> served.last[c]]
    BY DEF IInv, RequestsFit
  <1> QED BY <1>2, <1>5, <1>6 DEF RequestsFit

\* The callbacks of a segment are made one by one.
LEMMA Returned ==
    ASSUME TodoFits, todo # <<>>, Return
    PROVE  /\ TodoFits'
           /\ Head(todo) \in Callbacks
           /\ IF Head(todo).call = "recv"
              THEN DataIsWaiting /\ ~DataIsWaiting' /\ Head(todo).uri \in Uris
              ELSE DataIsWaiting' <=> DataIsWaiting
  <1>1. /\ todo \in Seq(Callbacks) /\ Len(todo) \in Nat \ {0} /\ 1 \in DOMAIN todo
        /\ Head(todo) = todo[1] /\ Head(todo) \in Callbacks
    BY DEF TodoFits
  <1>2. /\ todo' \in Seq(Callbacks) /\ Len(todo') = Len(todo) - 1
        /\ \A k \in 1 .. Len(todo) - 1 : todo'[k] = todo[k + 1]
    BY <1>1 DEF Return
  <1>3. DOMAIN todo = 1 .. Len(todo) /\ DOMAIN todo' = 1 .. Len(todo) - 1
    BY <1>1, <1>2
  <1>4. \A k \in DOMAIN todo' : k + 1 \in DOMAIN todo /\ todo'[k] = todo[k + 1]
    BY <1>1, <1>2, <1>3
  <1>5. \A k \in DOMAIN todo : k # 1 => k - 1 \in DOMAIN todo' /\ todo'[k - 1] = todo[k]
    BY <1>1, <1>2, <1>3
  <1>6. TodoFits'
    <2>1. ASSUME NEW k \in DOMAIN todo', todo'[k].call = "recv"
          PROVE  todo'[k].uri \in Uris
      BY <1>4, <2>1 DEF TodoFits
    <2>2. ASSUME NEW j \in DOMAIN todo', NEW k \in DOMAIN todo',
                 todo'[j].call = "recv", todo'[k].call = "recv"
          PROVE  j = k
      <3>1. j + 1 = k + 1
        BY <1>4, <2>2 DEF TodoFits
      <3> QED BY <1>1, <1>3, <3>1
    <2> QED BY <1>2, <2>1, <2>2 DEF TodoFits
  <1>7. CASE Head(todo).call = "recv"
    <2>1. \A k \in DOMAIN todo' : k + 1 # 1 /\ todo'[k].call # "recv"
      BY <1>1, <1>3, <1>4, <1>7 DEF TodoFits
    <2> QED BY <1>1, <1>6, <1>7, <2>1 DEF TodoFits, DataIsWaiting
  <1>8. CASE Head(todo).call # "recv"
    BY <1>1, <1>4, <1>5, <1>6, <1>8 DEF DataIsWaiting
  <1> QED BY <1>7, <1>8

\* At most one callback of a kind.
AtMostOne(s, call, U) ==
    /\ s \in Seq(Callbacks) /\ Len(s) \in 0 .. 1
    /\ \A k \in 1 .. Len(s) : s[k].call = call /\ s[k].uri \in U

\* Callback's sequence has one callback or none.
LEMMA NoneOrOne ==
    ASSUME NEW call, NEW U
    PROVE  /\ AtMostOne(<<>>, call, U) /\ Len(<<>>) = 0
           /\ \A x \in Callbacks : x.call = call /\ x.uri \in U =>
                  AtMostOne(<<x>>, call, U) /\ Len(<<x>>) = 1
  BY DEF AtMostOne

\* The elements of two sequences, one after the other.
LEMMA Appended ==
    ASSUME NEW S, NEW s \in Seq(S), NEW t \in Seq(S)
    PROVE  /\ s \o t \in Seq(S) /\ Len(s \o t) = Len(s) + Len(t)
           /\ \A k \in 1 .. Len(s) + Len(t) :
                  (s \o t)[k] = IF k <= Len(s) THEN s[k] ELSE t[k - Len(s)]
  OBVIOUS

\* Three sequences of at most one callback, of which one may hold data.
LEMMA InOrder ==
    ASSUME NEW A, AtMostOne(A, "sent", {NoUri}), NEW D, AtMostOne(D, "recv", Uris),
           NEW F, AtMostOne(F, "fin", {NoUri}),
           NEW E, E = A \o D, todo' = E \o F
    PROVE  TodoFits' /\ (DataIsWaiting' <=> Len(D) = 1)
  <1>1. /\ A \in Seq(Callbacks) /\ D \in Seq(Callbacks) /\ F \in Seq(Callbacks)
        /\ Len(A) \in 0 .. 1 /\ Len(D) \in 0 .. 1 /\ Len(F) \in 0 .. 1
    BY DEF AtMostOne
  <1> DEFINE T == E \o F
  <1>2. /\ E \in Seq(Callbacks) /\ Len(E) = Len(A) + Len(D)
        /\ \A k \in 1 .. Len(A) + Len(D) :
               E[k] = IF k <= Len(A) THEN A[k] ELSE D[k - Len(A)]
    BY <1>1, Appended
  <1>3. todo' = T
    OBVIOUS
  <1>4. /\ T \in Seq(Callbacks) /\ Len(T) = Len(E) + Len(F)
        /\ \A k \in 1 .. Len(E) + Len(F) :
               T[k] = IF k <= Len(E) THEN E[k] ELSE F[k - Len(E)]
    BY <1>1, <1>2, Appended
  <1> HIDE DEF T
  <1>5. ASSUME NEW k \in 1 .. Len(T)
        PROVE  IF Len(D) = 1 /\ k = Len(A) + 1 THEN T[k].call = "recv" /\ T[k].uri \in Uris
                                               ELSE T[k].call # "recv"
    <2>1. CASE k > Len(E)
      <3>1. T[k] = F[k - Len(E)] /\ k - Len(E) \in 1 .. Len(F)
        BY <1>1, <1>2, <1>4, <2>1
      <3>2. T[k].call = "fin"
        BY <3>1 DEF AtMostOne
      <3>3. ~(Len(D) = 1 /\ k = Len(A) + 1)
        BY <1>1, <1>2, <2>1
      <3> QED BY <3>2, <3>3
    <2>2. CASE k <= Len(E) /\ k > Len(A)
      <3>1. T[k] = D[k - Len(A)] /\ k - Len(A) \in 1 .. Len(D)
        BY <1>1, <1>2, <1>4, <2>2
      <3>2. Len(D) = 1 /\ k = Len(A) + 1
        BY <1>1, <2>2, <3>1, SMTT(30)
      <3>3. T[k].call = "recv" /\ T[k].uri \in Uris
        BY <3>1 DEF AtMostOne
      <3> QED BY <3>2, <3>3
    <2>3. CASE k <= Len(A)
      <3>1. k \in 1 .. Len(A) /\ k \in 1 .. Len(A) + Len(D) /\ k <= Len(E)
        BY <1>1, <1>2, <2>3
      <3>2. E[k] = A[k]
        BY <1>2, <2>3, <3>1
      <3>3. T[k] = E[k]
        BY <1>1, <1>2, <1>4, <3>1
      <3>4. T[k].call = "sent"
        BY <3>1, <3>2, <3>3 DEF AtMostOne
      <3>5. ~(Len(D) = 1 /\ k = Len(A) + 1)
        BY <1>1, <2>3
      <3> QED BY <3>4, <3>5
    <2> QED BY <1>1, <1>2, <2>1, <2>2, <2>3
  <1>6. Len(D) = 1 => Len(A) + 1 \in 1 .. Len(T)
    BY <1>1, <1>2, <1>4
  <1>7. DOMAIN T = 1 .. Len(T)
    BY <1>4
  <1>8. /\ \A k \in DOMAIN T : T[k].call = "recv" => T[k].uri \in Uris
        /\ \A j, k \in DOMAIN T : T[j].call = "recv" /\ T[k].call = "recv" => j = k
        /\ (\E k \in DOMAIN T : T[k].call = "recv") <=> Len(D) = 1
    BY <1>5, <1>6, <1>7
  <1> QED BY <1>4, <1>3, <1>8 DEF TodoFits, DataIsWaiting

\* A segment's callbacks.
LEMMA Arrived ==
    ASSUME NEW c \in Conns, NEW u \in Uris, NEW a \in Nat, NEW d \in BOOLEAN,
           NEW f \in BOOLEAN,
           todo' = Callback(c, "sent", NoUri, a > 0) \o Callback(c, "recv", u, d)
                     \o Callback(c, "fin", NoUri, f)
    PROVE  TodoFits' /\ (DataIsWaiting' <=> d)
  <1> DEFINE A == Callback(c, "sent", NoUri, a > 0)
             D == Callback(c, "recv", u, d)
             F == Callback(c, "fin", NoUri, f)
             X == [conn |-> c, call |-> "sent", uri |-> NoUri]
             Y == [conn |-> c, call |-> "recv", uri |-> u]
             Z == [conn |-> c, call |-> "fin", uri |-> NoUri]
  <1>1. /\ X \in Callbacks /\ X.call = "sent" /\ X.uri \in {NoUri}
        /\ Y \in Callbacks /\ Y.call = "recv" /\ Y.uri \in Uris
        /\ Z \in Callbacks /\ Z.call = "fin" /\ Z.uri \in {NoUri}
    BY DEF Callbacks
  <1>2. /\ A = <<X>> \/ A = <<>>
        /\ IF d THEN D = <<Y>> ELSE D = <<>>
        /\ F = <<Z>> \/ F = <<>>
    BY DEF Callback
  <1>3. todo' = (A \o D) \o F
    OBVIOUS
  <1> HIDE DEF A, D, F, X, Y, Z
  <1>4. AtMostOne(A, "sent", {NoUri})
    BY <1>1, <1>2, NoneOrOne
  <1>5. AtMostOne(D, "recv", Uris) /\ (Len(D) = 1 <=> d)
    <2>1. CASE d
      BY <1>1, <1>2, <2>1, NoneOrOne
    <2>2. CASE ~d
      BY <1>2, <2>2, NoneOrOne
    <2> QED BY <2>1, <2>2
  <1>6. AtMostOne(F, "fin", {NoUri})
    BY <1>1, <1>2, NoneOrOne
  <1> QED BY <1>3, <1>4, <1>5, <1>6, InOrder

-----------------------------------------------------------------------------
(* The steps. *)

\* A step that sends, for the parts of the invariant it can disturb.
LEMMA Sending ==
    ASSUME IInv, NEW v, Sends(World, v), Becomes(v), UNCHANGED <<card, served>>
    PROVE  Owned(World)' /\ Patient(World)' /\ RequestsFit'
  <1>1. Owned(v) /\ Keeps(World, v)
    BY DEF Sends
  <1>2. Patient(v)
    BY SendsPatiently DEF IInv
  <1> QED BY <1>1, <1>2, Moved

\* A step that ends a connection, for the parts of the invariant it can disturb.
LEMMA Ending ==
    ASSUME IInv, NEW c \in Conns, NEW v, Ends(World, v, c), Becomes(v),
           UNCHANGED <<card, served>>
    PROVE  Owned(World)' /\ Patient(World)' /\ RequestsFit'
  <1>1. Sends(World, v)
    BY EndsWell DEF IInv
  <1> QED BY <1>1, Sending

\* A step outside of the callbacks, for the receive buffers.
LEMMA NoCallback ==
    ASSUME IInv, UNCHANGED <<pbufs, todo, served>>
    PROVE  TodoFits' /\ PbufsOwned'
  BY DEF IInv, TodoFits, PbufsOwned, DataIsWaiting

\* A callback without data, for the receive buffers.
LEMMA NoData ==
    ASSUME IInv, todo # <<>>, Head(todo).call # "recv", Return, UNCHANGED <<pbufs, served>>
    PROVE  TodoFits' /\ PbufsOwned'
  <1>1. TodoFits' /\ (DataIsWaiting' <=> DataIsWaiting)
    BY Returned DEF IInv
  <1> QED BY <1>1 DEF IInv, PbufsOwned

\* The buffer of a request is given back, or not when nothing could be opened.
LEMMA DataRead ==
    ASSUME IInv, todo # <<>>, Head(todo).call = "recv", Return,
           \/ FreePbuf /\ served'.unopened = served.unopened
           \/ pbufs' = pbufs /\ served'.unopened = served.unopened + 1
    PROVE  TodoFits' /\ PbufsOwned' /\ Head(todo).uri \in Uris
  <1>1. TodoFits' /\ DataIsWaiting /\ ~DataIsWaiting' /\ Head(todo).uri \in Uris
    BY Returned DEF IInv
  <1>2. served.unopened \in Nat /\ pbufs \in 0 .. PBUF_POOL_SIZE
        /\ pbufs = served.unopened + 1
    BY <1>1 DEF IInv, PbufsOwned
  <1>3. /\ served'.unopened \in Nat /\ pbufs' \in 0 .. PBUF_POOL_SIZE
        /\ pbufs' = served'.unopened
    <2>1. CASE FreePbuf /\ served'.unopened = served.unopened
      BY <1>2, <2>1, HttpConnAssumption DEF FreePbuf
    <2>2. CASE pbufs' = pbufs /\ served'.unopened = served.unopened + 1
      BY <1>2, <2>2, HttpConnAssumption
    <2> QED BY <2>1, <2>2
  <1>4. PbufsOwned'
    BY <1>1, <1>3 DEF PbufsOwned
  <1> QED BY <1>1, <1>4

\* lwIP gives the connection up.
LEMMA RemovePcbStep ==
    ASSUME IInv, NEW c \in Conns, RemovePcb(c)
    PROVE  IInv'
  <1>1. Ends(World, Removed(World, c), c)
    BY RemovedEnds DEF IInv
  <1>2. Becomes(Removed(World, c)) /\ UNCHANGED <<pbufs, card, todo, served>>
    BY DEF RemovePcb
  <1>3. Owned(World)' /\ Patient(World)' /\ RequestsFit'
    BY <1>1, <1>2, Ending
  <1> QED BY <1>2, <1>3, NoCallback DEF IInv

\* http_poll aborts the connection that close_conn could not close.
LEMMA PollUnclosedStep ==
    ASSUME IInv, NEW c \in Conns, PollUnclosed(c)
    PROVE  IInv'
  <1>1. Ends(World, Removed(World, c), c)
    BY RemovedEnds DEF IInv
  <1>2. Becomes(Removed(World, c)) /\ UNCHANGED <<pbufs, card, todo, served>>
    BY DEF PollUnclosed
  <1>3. Owned(World)' /\ Patient(World)' /\ RequestsFit'
    BY <1>1, <1>2, Ending
  <1> QED BY <1>2, <1>3, NoCallback DEF IInv

\* http_poll counts through NULL, whatever comes of it.
LEMMA PollNullStep ==
    ASSUME IInv, NEW c \in Conns, PollNull(c)
    PROVE  IInv'
  <1>1. Ends(World, Removed(World, c), c) /\ Sends(World, World)
    BY RemovedEnds, Stays DEF IInv
  <1>2. /\ Becomes(Removed(World, c)) \/ Becomes(World)
        /\ UNCHANGED <<pbufs, card, todo, served>>
    BY DEF PollNull
  <1>3. Owned(World)' /\ Patient(World)' /\ RequestsFit'
    BY <1>1, <1>2, Ending, Sending
  <1> QED BY <1>2, <1>3, NoCallback DEF IInv

\* http_recv drops the data of a connection that is being served.
LEMMA RecvIgnoredStep ==
    ASSUME IInv, NEW c \in Conns, RecvIgnored(c)
    PROVE  IInv'
  <1>1. Becomes(World)
    BY DEF RecvIgnored, Becomes, World
  <1>2. Owned(World)' /\ Patient(World)' /\ RequestsFit'
    BY <1>1, Stays, Sending DEF IInv, RecvIgnored
  <1> QED BY <1>2, DataRead DEF IInv, RecvIgnored, Calls

\* http_recv closes the connection of a request that is no GET.
LEMMA RecvInvalidStep ==
    ASSUME IInv, NEW c \in Conns, RecvInvalid(c)
    PROVE  IInv'
  <1>1. PICK luck \in Luck : Becomes(CloseConn(World, c, luck))
    BY DEF RecvInvalid
  <1>2. Ends(World, CloseConn(World, c, luck), c)
    BY CloseEnds DEF IInv
  <1>3. Owned(World)' /\ Patient(World)' /\ RequestsFit'
    BY <1>1, <1>2, Ending DEF RecvInvalid
  <1> QED BY <1>3, DataRead DEF IInv, RecvInvalid, Receives, Calls

\* http_recv closes the connection that the other side has closed.
LEMMA RecvFinStep ==
    ASSUME IInv, NEW c \in Conns, RecvFin(c)
    PROVE  IInv'
  <1>1. UNCHANGED <<pbufs, card, served>> /\ Return /\ todo # <<>> /\ Head(todo).call = "fin"
    BY DEF RecvFin, Calls
  <1>2. CASE Becomes(World)
    BY <1>1, <1>2, Stays, Sending, NoData DEF IInv
  <1>3. CASE \E luck \in Luck : Becomes(CloseConn(World, c, luck))
    <2>1. PICK luck \in Luck : Becomes(CloseConn(World, c, luck))
      BY <1>3
    <2>2. Ends(World, CloseConn(World, c, luck), c)
      BY CloseEnds DEF IInv
    <2>3. Owned(World)' /\ Patient(World)' /\ RequestsFit'
      BY <1>1, <2>1, <2>2, Ending
    <2> QED BY <1>1, <2>3, NoData DEF IInv
  <1> QED BY <1>2, <1>3 DEF RecvFin

\* A connection's state is counted on, or starts from another count.
LEMMA RetriesSet ==
    ASSUME NEW w, Owned(w), NEW s \in States, w.hs[s].used, NEW n \in Nat
    PROVE  LET v == [w EXCEPT !.hs[s].retries = n]
           IN /\ Owned(v) /\ Keeps(w, v) /\ v.pcb = w.pcb
              /\ v.hs[s] = [w.hs[s] EXCEPT !.retries = n]
              /\ \A t \in States : v.hs[t].retries = IF t = s THEN n ELSE w.hs[t].retries
  <1> DEFINE r == [w.hs[s] EXCEPT !.retries = n]
             v == [w EXCEPT !.hs[s].retries = n]
  <1>1. /\ w \in Worlds /\ w.hs \in [States -> HttpState] /\ w.hs[s] \in HttpState
        /\ ~w.misused /\ BuffersOwned(w.hs, w.buffers) /\ FilesOwned(w.hs, w.files)
    BY DEF Owned, Worlds
  <1>2. r \in HttpState /\ r.used /\ r.handle = w.hs[s].handle /\ r.buf = w.hs[s].buf
        /\ r.retries = n
    BY <1>1 DEF HttpState
  <1>3. v = [w EXCEPT !.hs = [w.hs EXCEPT ![s] = r]]
    BY <1>1 DEF Worlds
  <1>4. [w.hs EXCEPT ![s] = r] \in [States -> HttpState]
    BY <1>1, <1>2
  <1> HIDE DEF r, v
  <1>5. /\ v \in Worlds /\ v.hs = [w.hs EXCEPT ![s] = r] /\ v.pcb = w.pcb
        /\ v.files = w.files /\ v.buffers = w.buffers /\ v.misused = w.misused
    BY <1>1, <1>3, <1>4 DEF Worlds
  <1>6. \A t \in States : v.hs[t] = IF t = s THEN r ELSE w.hs[t]
    BY <1>1, <1>5
  <1>7. BuffersOwned(v.hs, v.buffers)
    BY <1>1, <1>2, <1>5, <1>6, SameBuffers DEF Worlds
  <1>8. \A i \in Handles : w.files[i].used => w.files[i].pos <= Blocks[w.files[i].name]
    BY <1>1 DEF FilesOwned
  <1>9. Adjusts(w, v)
    BY <1>2, <1>5, <1>6, <1>8 DEF Adjusts
  <1>10. Owned(v) /\ Keeps(w, v)
    BY <1>1, <1>5, <1>7, <1>9, Adjusted
  <1>11. \A t \in States : v.hs[t].retries = IF t = s THEN n ELSE w.hs[t].retries
    BY <1>2, <1>6
  <1> QED BY <1>5, <1>6, <1>10, <1>11 DEF r, v

\* The callback for what is acknowledged is set.
LEMMA SentSet ==
    ASSUME NEW w, Owned(w), NEW c \in Conns
    PROVE  LET v == [w EXCEPT !.pcb[c].sent = TRUE]
           IN Sends(w, v) /\ v.hs = w.hs /\ v.files = w.files /\ v.pcb[c].arg = w.pcb[c].arg
  <1> DEFINE p == [w.pcb[c] EXCEPT !.sent = TRUE]
             v == [w EXCEPT !.pcb[c].sent = TRUE]
  <1>1. /\ w \in Worlds /\ w.pcb \in [Conns -> Pcb] /\ w.pcb[c] \in Pcb
        /\ ~w.misused /\ BuffersOwned(w.hs, w.buffers) /\ FilesOwned(w.hs, w.files)
    BY DEF Owned, Worlds
  <1>2. p \in Pcb /\ p.arg = w.pcb[c].arg /\ p.recv = w.pcb[c].recv
        /\ p.state = w.pcb[c].state
    BY <1>1 DEF Pcb
  <1>3. v = [w EXCEPT !.pcb = [w.pcb EXCEPT ![c] = p]]
    BY <1>1 DEF Worlds
  <1>4. [w.pcb EXCEPT ![c] = p] \in [Conns -> Pcb]
    BY <1>1, <1>2
  <1> HIDE DEF p, v
  <1>5. /\ v \in Worlds /\ v.pcb = [w.pcb EXCEPT ![c] = p] /\ v.hs = w.hs
        /\ v.files = w.files /\ v.buffers = w.buffers /\ v.misused = w.misused
    BY <1>1, <1>3, <1>4 DEF Worlds
  <1>6. \A d \in Conns : v.pcb[d] = IF d = c THEN p ELSE w.pcb[d]
    BY <1>1, <1>5
  <1>7. \A i \in Handles : w.files[i].used => w.files[i].pos <= Blocks[w.files[i].name]
    BY <1>1 DEF FilesOwned
  <1>8. Adjusts(w, v)
    BY <1>2, <1>5, <1>6, <1>7 DEF Adjusts
  <1>9. Owned(v) /\ Keeps(w, v)
    BY <1>1, <1>5, <1>8, Adjusted
  <1>10. \A s \in States : v.hs[s].retries <= w.hs[s].retries
    BY <1>1, <1>5 DEF Worlds, HttpState
  <1> QED BY <1>2, <1>5, <1>6, <1>9, <1>10 DEF Sends, v

\* http_sent sends the next data.
LEMMA SentStep ==
    ASSUME IInv, NEW c \in Conns, Sent(c)
    PROVE  IInv'
  <1> DEFINE s == pcb[c].arg
             w == [World EXCEPT !.hs[s].retries = 0]
  <1>1. UNCHANGED <<pbufs, card, served>> /\ Return /\ todo # <<>> /\ Head(todo).call = "sent"
    BY DEF Sent, Calls
  <1>2. TodoFits' /\ PbufsOwned'
    BY <1>1, NoData
  <1>3. CASE Becomes(World)
    BY <1>1, <1>2, <1>3, Stays, Sending DEF IInv
  <1>4. ASSUME s # NULL, NEW luck \in Luck,
               Becomes([SendData(w, c, luck) EXCEPT !.pcb[c].sent = TRUE])
        PROVE  IInv'
    <2>1. World.pcb = pcb /\ World.hs = hs /\ World \in Worlds /\ Owned(World)
      BY DEF World, IInv, Owned
    <2>2. s \in States /\ hs[s].used
      BY <1>4, <2>1 DEF Owned, Worlds, StatesOwned, Pcb
    <2>3. /\ Owned(w) /\ Keeps(World, w) /\ w.pcb = pcb
          /\ \A t \in States : w.hs[t].retries = IF t = s THEN 0 ELSE World.hs[t].retries
      BY <2>1, <2>2, RetriesSet
    <2>4. \A t \in States : World.hs[t].retries \in Nat
      BY <2>1 DEF Worlds, HttpState
    <2> HIDE DEF w
    <2>5. Sends(World, w)
      BY <2>3, <2>4 DEF Sends
    <2> DEFINE x == SendData(w, c, luck)
               v == [x EXCEPT !.pcb[c].sent = TRUE]
    <2>6. Sends(w, x)
      BY <1>4, <2>3, SendDataSends
    <2>7. Owned(x) /\ Sends(World, x)
      BY <2>1, <2>3, <2>5, <2>6, SendsOn DEF Sends
    <2>8. Becomes(v)
      BY <1>4
    <2> HIDE DEF x
    <2>9. Sends(x, v)
      BY <2>7, SentSet
    <2> HIDE DEF v
    <2>10. Sends(World, v)
      BY <2>1, <2>7, <2>9, SendsOn
    <2>11. Owned(World)' /\ Patient(World)' /\ RequestsFit'
      BY <1>1, <2>8, <2>10, Sending
    <2> QED BY <1>2, <2>11 DEF IInv
  <1> QED BY <1>3, <1>4 DEF Sent

\* http_poll counts a retry, and sends again or closes after too many.
LEMMA PollStep ==
    ASSUME IInv, NEW c \in Conns, Poll(c)
    PROVE  IInv'
  <1> DEFINE s == pcb[c].arg
             w == [World EXCEPT !.hs[s].retries = @ + 1]
  <1>1. /\ s # NULL /\ UNCHANGED <<pbufs, card, todo, served>>
        /\ IF w.hs[s].retries = MAX_RETRIES THEN Becomes(Removed(w, c))
           ELSE IF w.hs[s].handle = NULL THEN Becomes(w)
           ELSE \E luck \in Luck : Becomes(SendData(w, c, luck))
    BY DEF Poll
  <1>2. World.pcb = pcb /\ World.hs = hs /\ World \in Worlds /\ Owned(World) /\ Patient(World)
    BY DEF World, IInv, Owned
  <1>3. s \in States /\ hs[s].used /\ \A t \in States : hs[t].retries \in Nat
    BY <1>1, <1>2 DEF Owned, Worlds, StatesOwned, Pcb, HttpState
  <1>4. w = [World EXCEPT !.hs[s].retries = hs[s].retries + 1]
    BY <1>2
  <1> DEFINE n == hs[s].retries + 1
             x == [World EXCEPT !.hs[s].retries = n]
  <1>5. n \in Nat /\ World.hs[s].used /\ w = x
    BY <1>2, <1>3, <1>4
  <1> HIDE DEF w, n
  <1>6. /\ Owned(x) /\ Keeps(World, x) /\ x.pcb = World.pcb
        /\ \A t \in States : x.hs[t].retries = IF t = s THEN n ELSE World.hs[t].retries
    BY <1>2, <1>3, <1>5, RetriesSet
  <1> HIDE DEF x
  <1>7. /\ Owned(w) /\ Keeps(World, w) /\ w.pcb = pcb
        /\ \A t \in States :
               w.hs[t].retries = IF t = s THEN hs[s].retries + 1 ELSE hs[t].retries
    BY <1>2, <1>5, <1>6 DEF n
  <1>8. \A t \in States : hs[t].retries < MAX_RETRIES
    BY <1>2 DEF Patient
  <1>9. CASE w.hs[s].retries = MAX_RETRIES
    <2> DEFINE v == Removed(w, c)
    <2>1. Ends(w, v, c) /\ Becomes(v)
      BY <1>1, <1>7, <1>9, RemovedEnds
    <2> HIDE DEF v
    <2>2. Owned(v) /\ Keeps(World, v)
      BY <1>7, <2>1, KeepsOn DEF Ends
    <2>3. \A t \in States : v.hs[t].retries \in Nat
      BY <2>2 DEF Owned, Worlds, HttpState
    <2>4. Patient(v)
      <3> SUFFICES ASSUME NEW t \in States PROVE v.hs[t].retries < MAX_RETRIES
        BY DEF Patient
      <3>1. CASE v.hs[t].retries > 0
        BY <1>7, <1>8, <2>1, <3>1 DEF Ends
      <3>2. CASE ~(v.hs[t].retries > 0)
        BY <2>3, <3>2, HttpConnAssumption
      <3> QED BY <3>1, <3>2
    <2>5. Owned(World)' /\ Patient(World)' /\ RequestsFit'
      BY <1>1, <2>1, <2>2, <2>4, Moved
    <2> QED BY <1>1, <2>5, NoCallback DEF IInv
  <1>10. CASE w.hs[s].retries # MAX_RETRIES
    <2>1. Patient(w)
      <3>1. hs[s].retries + 1 # MAX_RETRIES
        BY <1>3, <1>7, <1>10
      <3>2. \A t \in States : hs[t].retries + 1 # MAX_RETRIES => hs[t].retries + 1 < MAX_RETRIES
        <4>1. MAX_RETRIES \in Nat
          BY HttpConnAssumption
        <4>2. \A a, b \in Nat : a < b /\ a + 1 # b => a + 1 < b
          OBVIOUS
        <4> QED BY <1>3, <1>8, <4>1, <4>2
      <3> HIDE DEF s
      <3> QED BY <1>3, <1>7, <1>8, <3>1, <3>2 DEF Patient
    <2>2. CASE Becomes(w)
      BY <1>1, <1>7, <2>1, <2>2, Moved, NoCallback DEF IInv
    <2>3. ASSUME NEW luck \in Luck, Becomes(SendData(w, c, luck))
          PROVE  IInv'
      <3> DEFINE v == SendData(w, c, luck)
      <3>1. Sends(w, v) /\ Becomes(v)
        BY <1>1, <1>7, <2>3, SendDataSends
      <3> HIDE DEF v
      <3>2. Owned(v) /\ Keeps(World, v) /\ Patient(v)
        BY <1>7, <2>1, <3>1, KeepsOn, SendsPatiently DEF Sends
      <3> QED BY <1>1, <3>1, <3>2, Moved, NoCallback DEF IInv
    <2> QED BY <1>1, <1>10, <2>2, <2>3
  <1> QED BY <1>9, <1>10


-----------------------------------------------------------------------------
(* The paths that are tried. *)

\* A set of numbers has a least one.
LEMMA LeastElement ==
    ASSUME NEW T, T \subseteq Nat, T # {}
    PROVE  \E k \in T : \A j \in T : k <= j
  <1> DEFINE R == OpToRel(<, Nat)
  <1>1. IsWellFoundedOn(R, Nat)
    BY NatLessThanWellFounded, Zenon
  <1>2. \A x, y \in Nat : <<y, x>> \in R <=> y < x
    BY DEF OpToRel
  <1> HIDE DEF R
  <1>3. PICK x \in T : \A y \in T : ~(<<y, x>> \in R)
    BY <1>1, WFMin
  <1>4. \A y \in T : x \in Nat /\ y \in Nat /\ ~(y < x)
    BY <1>2, <1>3
  <1> QED BY <1>4

\* The first of the paths that there is, or none.
LEMMA FirstFound ==
    ASSUME NEW paths, DOMAIN paths \subseteq Nat, NEW heap
    PROVE  \/ /\ FirstOf(paths, heap) = <<>>
              /\ \A k \in DOMAIN paths : ~(heap /\ Exists(paths[k]))
           \/ \E k \in DOMAIN paths :
                  /\ FirstOf(paths, heap) = paths[k]
                  /\ heap /\ Exists(paths[k])
                  /\ \A j \in DOMAIN paths : Exists(paths[j]) => k <= j
  <1> DEFINE found == { k \in DOMAIN paths : heap /\ Exists(paths[k]) }
             least == CHOOSE k \in found : \A j \in found : k <= j
  <1>1. FirstOf(paths, heap) = IF found = {} THEN <<>> ELSE paths[least]
    BY DEF FirstOf
  <1>2. CASE found = {}
    BY <1>1, <1>2
  <1>3. CASE found # {}
    <2>1. \E k \in found : \A j \in found : k <= j
      BY <1>3, LeastElement
    <2>2. least \in found /\ \A j \in found : least <= j
      BY <2>1
    <2>3. \A k \in found : k \in DOMAIN paths /\ heap /\ Exists(paths[k])
      OBVIOUS
    <2>4. \A k \in DOMAIN paths : heap /\ Exists(paths[k]) => k \in found
      OBVIOUS
    <2> HIDE DEF found, least
    <2> QED BY <1>1, <1>3, <2>2, <2>3, <2>4
  <1> QED BY <1>2, <1>3

\* The sequence of the paths for a request.
LEMMA PathsTried ==
    ASSUME NEW u, u.kind \in {"root", "cgi", "file"}, NEW page
    PROVE  LET P == Paths(u, page)
               T == P \o ErrorPaths
           IN /\ Len(P) \in Nat \ {0}
              /\ DOMAIN T = 1 .. Len(P) + Len(ErrorFilenames)
              /\ \A k \in 1 .. Len(P) : T[k] = P[k]
              /\ \A k \in 1 .. Len(ErrorFilenames) : T[Len(P) + k] = <<ErrorFilenames[k]>>
              /\ u.kind = "root" => \A k \in 1 .. Len(P) :
                     /\ k \in 1 .. Len(DefaultFilenames)
                     /\ P[k] = SubSeq(DefaultFilenames, 1, k)
              /\ u.kind = "cgi"  => P = << <<page>> >>
              /\ u.kind = "file" => P = << <<u.name>> >>
  <1> DEFINE P == Paths(u, page)
             E == ErrorPaths
             S == { P[k] : k \in DOMAIN P } \cup { E[k] : k \in DOMAIN E }
             T == P \o E
  <1>1. /\ Len(DefaultFilenames) \in Nat \ {0} /\ Len(ErrorFilenames) \in Nat
        /\ DOMAIN DefaultFilenames = 1 .. Len(DefaultFilenames)
        /\ DOMAIN ErrorFilenames = 1 .. Len(ErrorFilenames)
    BY HttpConnAssumption
  <1>2. \E n \in Nat \ {0} :
            /\ P = [k \in 1 .. n |-> P[k]]
            /\ u.kind = "root" => n = Len(DefaultFilenames)
                    /\ \A k \in 1 .. n : P[k] = SubSeq(DefaultFilenames, 1, k)
            /\ u.kind = "cgi"  => P = << <<page>> >>
            /\ u.kind = "file" => P = << <<u.name>> >>
    <2>1. CASE u.kind = "root"
      <3>1. P = [k \in 1 .. Len(DefaultFilenames) |-> SubSeq(DefaultFilenames, 1, k)]
        BY <1>1, <2>1 DEF Paths
      <3> HIDE DEF P
      <3> QED BY <1>1, <2>1, <3>1, Zenon
    <2>2. CASE u.kind = "cgi"
      <3>1. P = << <<page>> >>
        BY <2>2 DEF Paths
      <3> HIDE DEF P
      <3> QED BY <2>2, <3>1
    <2>3. CASE u.kind = "file"
      <3>1. P = << <<u.name>> >>
        BY <2>3 DEF Paths
      <3> HIDE DEF P
      <3> QED BY <2>3, <3>1
    <2> QED BY <2>1, <2>2, <2>3
  <1>3. E = [k \in 1 .. Len(ErrorFilenames) |-> <<ErrorFilenames[k]>>]
    BY <1>1 DEF ErrorPaths
  <1> HIDE DEF P, E
  <1>4. PICK n \in Nat \ {0} :
            /\ P = [k \in 1 .. n |-> P[k]]
            /\ u.kind = "root" => n = Len(DefaultFilenames)
                    /\ \A k \in 1 .. n : P[k] = SubSeq(DefaultFilenames, 1, k)
            /\ u.kind = "cgi"  => P = << <<page>> >>
            /\ u.kind = "file" => P = << <<u.name>> >>
    BY <1>2
  <1>5. P \in Seq(S) /\ Len(P) = n /\ DOMAIN P = 1 .. n
    <2>1. DOMAIN P = 1 .. n
      BY <1>4
    <2>2. \A k \in 1 .. n : P[k] \in S
      BY <2>1
    <2>3. P \in [1 .. n -> S]
      BY <1>4, <2>2
    <2> HIDE DEF S
    <2> QED BY <2>1, <2>3
  <1>6. E \in Seq(S) /\ Len(E) = Len(ErrorFilenames)
    BY <1>1, <1>3
  <1> HIDE DEF S, T
  <1>7. /\ T \in Seq(S) /\ Len(T) = Len(P) + Len(E)
        /\ \A k \in 1 .. Len(P) + Len(E) :
               T[k] = IF k <= Len(P) THEN P[k] ELSE E[k - Len(P)]
    BY <1>5, <1>6, Appended DEF T
  <1>8. \A k \in 1 .. Len(P) : T[k] = P[k]
    BY <1>1, <1>5, <1>6, <1>7
  <1>9. \A k \in 1 .. Len(ErrorFilenames) : T[Len(P) + k] = <<ErrorFilenames[k]>>
    <2> SUFFICES ASSUME NEW k \in 1 .. Len(ErrorFilenames)
                 PROVE  T[Len(P) + k] = <<ErrorFilenames[k]>>
      OBVIOUS
    <2>1. /\ Len(P) + k \in 1 .. Len(P) + Len(E) /\ ~(Len(P) + k <= Len(P))
          /\ (Len(P) + k) - Len(P) = k
      BY <1>1, <1>4, <1>5, <1>6
    <2>2. E[k] = <<ErrorFilenames[k]>>
      BY <1>3
    <2> QED BY <1>7, <2>1, <2>2
  <1>10. DOMAIN T = 1 .. Len(P) + Len(ErrorFilenames)
    BY <1>6, <1>7
  <1> QED BY <1>1, <1>4, <1>5, <1>8, <1>9, <1>10 DEF P, E, T

-----------------------------------------------------------------------------
(* A request. *)

\* c's state is set up to send the file of that name, and nothing else changes.
Begins(w, v, c, name) ==
    LET s == w.pcb[c].arg
    IN /\ Owned(v) /\ v.pcb = w.pcb
       /\ v.files[v.hs[s].handle].name = name
       /\ v.hs[s].retries = 0
       /\ \A t \in States : t # s => v.hs[t] = w.hs[t]
       /\ \A i \in Handles : w.files[i].used => v.files[i] = w.files[i]

\* init_file of the file that was opened: c's state has it, no other state is
\* touched.
LEMMA FileBegun ==
    ASSUME NEW w, Owned(w), NEW c \in Conns, w.pcb[c].arg # NULL,
           w.hs[w.pcb[c].arg].handle = NULL, FreeHandle(w) # NULL,
           NEW path, path[1] \in DOMAIN Blocks
    PROVE  Begins(w, StartFile(w, c, path), c, path[1])
  <1> DEFINE s == w.pcb[c].arg
             n == FreeHandle(w)
             g == [used |-> TRUE, name |-> path[1], pos |-> 0]
             zero == 0
             r == [w.hs[s] EXCEPT !.handle = n, !.left = zero, !.retries = zero]
             v == StartFile(w, c, path)
  <1>1. /\ w \in Worlds /\ w.hs \in [States -> HttpState] /\ w.files \in [Handles -> OpenFile]
        /\ ~w.misused /\ BuffersOwned(w.hs, w.buffers)
        /\ StatesOwned(w.pcb, w.hs) /\ FilesOwned(w.hs, w.files)
    BY DEF Owned, Worlds
  <1>2. s \in States /\ w.hs[s].used /\ w.hs[s] \in HttpState /\ w.hs[s].handle = NULL
    BY <1>1 DEF Worlds, StatesOwned, Pcb
  <1>3. n \in Handles /\ ~w.files[n].used /\ n # NULL
    BY DEF FreeHandle
  <1>4. g \in OpenFile /\ g.used /\ g.name = path[1] /\ g.name \in DOMAIN Blocks
        /\ g.pos <= Blocks[g.name]
    BY HttpConnAssumption DEF OpenFile
  <1>5. zero \in 0 .. 1 /\ zero \in Nat /\ zero = 0
    OBVIOUS
  <1>6. v = [w EXCEPT !.files = [w.files EXCEPT ![n] = g], !.hs = [w.hs EXCEPT ![s] = r]]
    BY <1>1, <1>2, ZenonT(60) DEF StartFile, Worlds
  <1> HIDE DEF n, g, zero, v
  <1>7. r \in HttpState /\ r.used /\ r.handle = n /\ r.buf = w.hs[s].buf /\ r.retries = 0
    <2> DEFINE x == w.hs[s]
    <2>1. x \in HttpState /\ x.used /\ n \in Handles \cup {NULL}
      BY <1>2, <1>3
    <2> HIDE DEF x
    <2>2. LET y == [x EXCEPT !.handle = n, !.left = zero, !.retries = zero]
          IN y \in HttpState /\ y.used /\ y.buf = x.buf /\ y.handle = n /\ y.retries = zero
      BY <1>5, <2>1 DEF HttpState
    <2> QED BY <1>5, <2>2 DEF x
  <1>8. [w.files EXCEPT ![n] = g] \in [Handles -> OpenFile]
        /\ [w.hs EXCEPT ![s] = r] \in [States -> HttpState]
    BY <1>1, <1>4, <1>7
  <1> HIDE DEF r, s
  <1>9. /\ v \in Worlds /\ v.hs = [w.hs EXCEPT ![s] = r] /\ v.pcb = w.pcb
        /\ v.files = [w.files EXCEPT ![n] = g] /\ v.buffers = w.buffers /\ ~v.misused
    BY <1>1, <1>6, <1>8 DEF Worlds
  <1>10. /\ \A t \in States : v.hs[t] = IF t = s THEN r ELSE w.hs[t]
         /\ \A i \in Handles : v.files[i] = IF i = n THEN g ELSE w.files[i]
    BY <1>1, <1>9
  <1>11. BuffersOwned(v.hs, v.buffers)
    BY <1>1, <1>7, <1>9, <1>10, SameBuffers DEF Worlds
  <1>12. StatesOwned(v.pcb, v.hs)
    BY <1>1, <1>2, <1>7, <1>9, <1>10 DEF StatesOwned, Worlds, Pcb
  <1>13. FilesOwned(v.hs, v.files)
    <2>1. \A t \in States : w.hs[t].handle \in Handles \cup {NULL} /\ w.hs[t].handle # n
      BY <1>1, <1>3 DEF FilesOwned, HttpState
    <2>2. \A t \in States : v.hs[t].handle = IF t = s THEN n ELSE w.hs[t].handle
      BY <1>7, <1>10
    <2>3. \A t \in States : v.hs[t].handle # NULL => v.files[v.hs[t].handle].used
      BY <1>1, <1>3, <1>4, <1>10, <2>1, <2>2 DEF FilesOwned
    <2>4. \A t, u \in States : v.hs[t].handle = v.hs[u].handle /\ v.hs[t].handle # NULL => t = u
      BY <1>1, <2>1, <2>2 DEF FilesOwned
    <2>5. ASSUME NEW i \in Handles, v.files[i].used
          PROVE  /\ \E t \in States : v.hs[t].handle = i
                 /\ v.files[i].name \in DOMAIN Blocks
                 /\ v.files[i].pos <= Blocks[v.files[i].name]
      <3>1. CASE i = n
        BY <1>2, <1>4, <1>10, <2>2, <3>1
      <3>2. CASE i # n
        <4>1. w.files[i].used /\ v.files[i] = w.files[i]
          BY <1>10, <2>5, <3>2
        <4>2. PICK t \in States : w.hs[t].handle = i
          BY <1>1, <4>1 DEF FilesOwned
        <4>3. t # s
          BY <1>2, <4>2, HttpConnAssumption DEF NULL
        <4> QED BY <1>1, <2>2, <4>1, <4>2, <4>3 DEF FilesOwned
      <3> QED BY <3>1, <3>2
    <2> QED BY <2>3, <2>4, <2>5 DEF FilesOwned
  <1>14. Owned(v)
    BY <1>9, <1>11, <1>12, <1>13 DEF Owned
  <1>15. /\ v.hs[s].handle = n /\ v.files[n].name = path[1] /\ v.hs[s].retries = 0
         /\ \A i \in Handles : w.files[i].used => v.files[i] = w.files[i]
    BY <1>2, <1>3, <1>4, <1>7, <1>10
  <1> QED BY <1>9, <1>10, <1>14, <1>15 DEF Begins, s, v

\* init_file without a file.
LEMMA NothingBegun ==
    ASSUME NEW w, Owned(w), NEW s \in States, w.hs[s].used, w.hs[s].handle = NULL
    PROVE  LET v == [w EXCEPT !.hs[s].handle = NULL, !.hs[s].left = 0, !.hs[s].retries = 0]
           IN /\ Owned(v) /\ v.pcb = w.pcb /\ v.files = w.files
              /\ v.hs[s].handle = NULL /\ v.hs[s].retries = 0
              /\ \A t \in States : t # s => v.hs[t] = w.hs[t]
  <1> DEFINE zero == 0
             x == w.hs[s]
             r == [x EXCEPT !.handle = NULL, !.left = zero, !.retries = zero]
             v == [w EXCEPT !.hs[s].handle = NULL, !.hs[s].left = 0, !.hs[s].retries = 0]
  <1>1. /\ w \in Worlds /\ w.hs \in [States -> HttpState] /\ x \in HttpState
        /\ ~w.misused /\ BuffersOwned(w.hs, w.buffers) /\ FilesOwned(w.hs, w.files)
    BY DEF Owned, Worlds
  <1>2. zero \in 0 .. 1 /\ zero \in Nat /\ zero = 0 /\ x.used /\ x.handle = NULL
    OBVIOUS
  <1>3. v = [w EXCEPT !.hs = [w.hs EXCEPT ![s] = r]]
    BY <1>1 DEF Worlds
  <1> HIDE DEF zero, x, v
  <1>4. r \in HttpState /\ r.used /\ r.buf = x.buf /\ r.handle = NULL /\ r.retries = zero
    BY <1>1, <1>2 DEF HttpState
  <1>5. [w.hs EXCEPT ![s] = r] \in [States -> HttpState]
    BY <1>1, <1>4
  <1> HIDE DEF r
  <1>6. /\ v \in Worlds /\ v.hs = [w.hs EXCEPT ![s] = r] /\ v.pcb = w.pcb
        /\ v.files = w.files /\ v.buffers = w.buffers /\ ~v.misused
    BY <1>1, <1>3, <1>5 DEF Worlds
  <1>7. \A t \in States : v.hs[t] = IF t = s THEN r ELSE w.hs[t]
    BY <1>1, <1>6
  <1>8. BuffersOwned(v.hs, v.buffers)
    BY <1>1, <1>4, <1>6, <1>7, SameBuffers DEF Worlds, x
  <1>9. \A i \in Handles : w.files[i].used => w.files[i].pos <= Blocks[w.files[i].name]
    BY <1>1 DEF FilesOwned
  <1>10. Adjusts(w, v)
    BY <1>2, <1>4, <1>6, <1>7, <1>9 DEF Adjusts, x
  <1>11. Owned(v)
    BY <1>6, <1>8, <1>10, Adjusted
  <1> QED BY <1>2, <1>4, <1>6, <1>7, <1>11 DEF v

\* However the request was answered, the first data of it is sent.
LEMMA BegunSends ==
    ASSUME NEW w, Owned(w), NEW c \in Conns, w.pcb[c].arg # NULL, NEW luck \in Luck
    PROVE  Sends(w, SendData([w EXCEPT !.pcb[c].sent = TRUE], c, luck))
  <1> DEFINE v == [w EXCEPT !.pcb[c].sent = TRUE]
             x == SendData(v, c, luck)
  <1>1. Sends(w, v) /\ v.pcb[c].arg # NULL
    BY SentSet
  <1> HIDE DEF v
  <1>2. Owned(v)
    BY <1>1 DEF Sends
  <1>3. Sends(v, x)
    BY <1>1, <1>2, SendDataSends
  <1> HIDE DEF x
  <1>4. Sends(w, x)
    BY <1>1, <1>2, <1>3, SendsOn
  <1> QED BY <1>4 DEF v, x

\* Setting up c's state leaves the others alone.
LEMMA OthersKept ==
    ASSUME NEW w, Owned(w), NEW c \in Conns, NEW v, v.pcb = w.pcb,
           w.pcb[c].arg # NULL,
           \A t \in States : t # w.pcb[c].arg => v.hs[t] = w.hs[t],
           \A i \in Handles : w.files[i].used => v.files[i] = w.files[i],
           NEW d \in Conns, d # c, NEW r, HandleFits(r, w.pcb[d], w.hs, w.files)
    PROVE  HandleFits(r, v.pcb[d], v.hs, v.files)
  <1> SUFFICES ASSUME v.pcb[d].arg # NULL
               PROVE  HandleFits(r, v.pcb[d], v.hs, v.files)
    BY DEF HandleFits
  <1> DEFINE t == w.pcb[d].arg
             i == w.hs[t].handle
  <1>1. t \in States /\ t # w.pcb[c].arg /\ t # NULL
    BY DEF Owned, Worlds, StatesOwned, Pcb
  <1>2. v.pcb[d].arg = t /\ v.hs[t].handle = i
    BY <1>1
  <1>3. i # NULL => i \in Handles /\ v.files[i].name = w.files[i].name
    BY <1>1 DEF Owned, Worlds, FilesOwned, HttpState
  <1> HIDE DEF t, i
  <1> QED BY <1>1, <1>2, <1>3 DEF HandleFits, t, i

\* http_recv reads a request, opens its file or an error page, or neither, and
\* sends the first data.
LEMMA RecvGetStep ==
    ASSUME IInv, NEW c \in Conns, RecvGet(c)
    PROVE  IInv'
  <1>1. PICK luck \in Luck, page \in CgiPages :
         LET heap == luck.heap /\ FreeHandle(World) # NULL
             path == FirstOf(Paths(Request, page) \o ErrorPaths, heap)
             s    == pcb[c].arg
             begun == IF path # <<>> THEN StartFile(World, c, path)
                      ELSE [World EXCEPT !.hs[s].handle = NULL, !.hs[s].left = 0,
                                         !.hs[s].retries = 0]
         IN /\ Becomes(SendData([begun EXCEPT !.pcb[c].sent = TRUE], c, luck))
            /\ IF path # <<>> THEN FreePbuf ELSE UNCHANGED pbufs
            /\ served' = [last |-> [served.last EXCEPT ![c] =
                             [uri |-> Request, path |-> path, heap |-> heap, page |-> page]],
                          unopened |-> IF path = <<>> THEN served.unopened + 1
                                       ELSE served.unopened]
    BY DEF RecvGet
  <1> DEFINE s == pcb[c].arg
             heap == luck.heap /\ FreeHandle(World) # NULL
             tried == Paths(Request, page) \o ErrorPaths
             path == FirstOf(tried, heap)
             begun == IF path # <<>> THEN StartFile(World, c, path)
                      ELSE [World EXCEPT !.hs[s].handle = NULL, !.hs[s].left = 0,
                                         !.hs[s].retries = 0]
             v == SendData([begun EXCEPT !.pcb[c].sent = TRUE], c, luck)
             q == [uri |-> Request, path |-> path, heap |-> heap, page |-> page]
  <1>2. /\ Becomes(v) /\ card' = card /\ Return
        /\ IF path # <<>> THEN FreePbuf ELSE UNCHANGED pbufs
        /\ served'.last = [served.last EXCEPT ![c] = q]
        /\ served'.unopened = IF path = <<>> THEN served.unopened + 1 ELSE served.unopened
        /\ served' = [last |-> served'.last, unopened |-> served'.unopened]
    BY <1>1 DEF RecvGet
  <1>3. /\ todo # <<>> /\ Head(todo).call = "recv" /\ Request.kind \notin {"other", "nohttp"}
        /\ pcb[c].recv /\ hs[s].handle = NULL
    BY DEF RecvGet, Receives, Calls, Ignores
  <1>4. /\ World \in Worlds /\ Owned(World) /\ Patient(World)
        /\ World.pcb = pcb /\ World.hs = hs /\ World.files = files
    BY DEF IInv, Owned, World
  <1>5. s \in States /\ s # NULL /\ hs[s].used
    BY <1>3, <1>4 DEF Owned, Worlds, StatesOwned, Pcb
  <1>6. TodoFits' /\ PbufsOwned' /\ Request \in Uris
    BY <1>2, <1>3, DataRead DEF Request
  <1>7. Request.kind \in {"root", "cgi", "file"} /\ Request.kind # "none"
    BY <1>3, <1>6, HttpConnAssumption
  <1>8. path # <<>> => FreeHandle(World) # NULL /\ path[1] \in DOMAIN Blocks
    <2>1. DOMAIN tried \subseteq Nat
      BY <1>7, PathsTried, HttpConnAssumption
    <2> HIDE DEF tried
    <2> QED BY <2>1, FirstFound DEF Exists
  <1> HIDE DEF path, s
  <1>9. /\ Owned(begun) /\ begun.pcb = pcb /\ begun.hs[s].retries = 0
        /\ IF path # <<>> THEN begun.files[begun.hs[s].handle].name = path[1]
                          ELSE begun.hs[s].handle = NULL
        /\ \A t \in States : t # s => begun.hs[t] = hs[t]
        /\ \A i \in Handles : files[i].used => begun.files[i] = files[i]
    <2>1. CASE path # <<>>
      <3>1. begun = StartFile(World, c, path)
        BY <2>1
      <3>2. /\ World.pcb[c].arg # NULL /\ World.hs[World.pcb[c].arg].handle = NULL
            /\ FreeHandle(World) # NULL /\ path[1] \in DOMAIN Blocks /\ World.pcb[c].arg = s
        BY <1>3, <1>4, <1>5, <1>8, <2>1 DEF s
      <3> DEFINE x == StartFile(World, c, path)
      <3>3. Begins(World, x, c, path[1])
        BY <1>4, <3>2, FileBegun, Zenon
      <3>4. /\ Owned(x) /\ x.pcb = World.pcb
            /\ x.files[x.hs[s].handle].name = path[1] /\ x.hs[s].retries = 0
            /\ \A t \in States : t # s => x.hs[t] = World.hs[t]
            /\ \A i \in Handles : World.files[i].used => x.files[i] = World.files[i]
        BY <3>2, <3>3, Zenon DEF Begins
      <3> HIDE DEF begun, x
      <3>5. begun = x
        BY <3>1 DEF x
      <3> QED BY <1>4, <2>1, <3>4, <3>5
    <2>2. CASE path = <<>>
      <3>1. begun = [World EXCEPT !.hs[s].handle = NULL, !.hs[s].left = 0, !.hs[s].retries = 0]
        BY <2>2
      <3>2. World.hs[s].used /\ World.hs[s].handle = NULL
        BY <1>3, <1>4, <1>5 DEF s
      <3> DEFINE x == [World EXCEPT !.hs[s].handle = NULL, !.hs[s].left = 0,
                                   !.hs[s].retries = 0]
      <3>3. /\ Owned(x) /\ x.pcb = World.pcb /\ x.files = World.files
            /\ x.hs[s].handle = NULL /\ x.hs[s].retries = 0
            /\ \A t \in States : t # s => x.hs[t] = World.hs[t]
        BY <1>4, <1>5, <3>2, NothingBegun, Zenon
      <3>4. begun = x
        BY <3>1
      <3> HIDE DEF begun, x
      <3> QED BY <1>4, <2>2, <3>3, <3>4
    <2> QED BY <2>1, <2>2
  <1> HIDE DEF begun
  <1>10. Sends(begun, v)
    BY <1>5, <1>9, BegunSends DEF s
  <1> HIDE DEF v
  <1>11. Patient(begun)
    BY <1>4, <1>5, <1>9, HttpConnAssumption DEF Patient
  <1>12. Owned(v) /\ Keeps(begun, v) /\ Patient(v)
    BY <1>9, <1>10, <1>11, SendsPatiently DEF Sends
  <1>13. Owned(World)' /\ Patient(World)'
    <2>1. World' = v
      BY <1>2, <1>12, WorldMoves DEF Owned
    <2> QED BY <1>12, <2>1 DEF Owned, Patient
  <1>14. pcb' = v.pcb /\ hs' = v.hs /\ files' = v.files
    BY <1>2 DEF Becomes
  <1> DEFINE last == served.last
  <1>15. /\ last = [d \in Conns |-> last[d]]
         /\ \A d \in Conns : PathFits(last[d], card) /\ HandleFits(last[d], pcb[d], hs, files)
    BY DEF IInv, RequestsFit
  <1>16. /\ served'.last = [d \in Conns |-> served'.last[d]]
         /\ \A d \in Conns : served'.last[d] = IF d = c THEN q ELSE last[d]
    BY <1>2, <1>15
  <1> HIDE DEF last
  <1>17. HandleFits(q, begun.pcb[c], begun.hs, begun.files)
    BY <1>7, <1>9 DEF HandleFits, s
  <1>18. PathFits(q, card)
    <2>1. path = FirstFrom(Paths(Request, page) \o ErrorPaths, heap, card)
      BY FirstFromCard DEF path
    <2> HIDE DEF heap
    <2> QED BY <1>7, <2>1 DEF PathFits
  <1> HIDE DEF q
  <1>19. ASSUME NEW d \in Conns
         PROVE  /\ PathFits(served.last[d], card)'
                /\ HandleFits(served.last[d], pcb[d], hs, files)'
    <2> PICK r : r = served'.last[d]
      OBVIOUS
    <2>1. r = IF d = c THEN q ELSE last[d]
      BY <1>16
    <2>2. PathFits(r, card)
      BY <1>15, <1>18, <2>1
    <2>3. PathFits(served.last[d], card)'
      BY <1>2, <2>2
    <2>4. HandleFits(r, begun.pcb[d], begun.hs, begun.files)
      <3>1. CASE d = c
        BY <1>17, <2>1, <3>1
      <3>2. CASE d # c
        <4>1. HandleFits(r, World.pcb[d], World.hs, World.files)
          BY <1>4, <1>15, <2>1, <3>2
        <4>2. /\ World.pcb[c].arg # NULL /\ begun.pcb = World.pcb
              /\ \A t \in States : t # World.pcb[c].arg => begun.hs[t] = World.hs[t]
              /\ \A i \in Handles : World.files[i].used => begun.files[i] = World.files[i]
          BY <1>4, <1>5, <1>9 DEF s
        <4>3. HandleFits(r, begun.pcb[d], begun.hs, begun.files)
          BY <1>4, <3>2, <4>1, <4>2, OthersKept
        <4> QED BY <4>3
      <3> QED BY <3>1, <3>2
    <2>5. HandleFits(r, v.pcb[d], v.hs, v.files)
      BY <1>12, <2>4, HandleStays
    <2> QED BY <1>14, <2>3, <2>5 DEF HandleFits
  <1>20. RequestsFit'
    BY <1>2, <1>16, <1>19 DEF RequestsFit
  <1> QED BY <1>6, <1>13, <1>20 DEF IInv

\* lwIP receives a segment: it has callbacks to make and perhaps a buffer of data.
LEMMA SegmentStep ==
    ASSUME IInv, NEW c \in Conns, Segment(c)
    PROVE  IInv'
  <1>1. PICK acked \in 0 .. pcb[c].unacked, data \in BOOLEAN, fin \in BOOLEAN,
             then \in AfterFin(pcb[c].state) :
        /\ data => pcb[c].requests < MAX_REQUESTS[c] /\ pbufs < PBUF_POOL_SIZE
        /\ data \/ fin => pcb[c].state \in {"ESTABLISHED", "FIN_WAIT"}
        /\ acked > 0 \/ data \/ fin
        /\ pcb' = [pcb EXCEPT ![c].unacked = @ - acked,
                              ![c].requests = IF data THEN @ + 1 ELSE @,
                              ![c].state = IF fin THEN then ELSE @]
        /\ pbufs' = IF data THEN pbufs + 1 ELSE pbufs
        /\ \E u \in Uris :
             todo' = Callback(c, "sent", NoUri, acked > 0) \o Callback(c, "recv", u, data)
                       \o Callback(c, "fin", NoUri, fin)
    BY Zenon DEF Segment
  <1>2. PICK u \in Uris :
             todo' = Callback(c, "sent", NoUri, acked > 0) \o Callback(c, "recv", u, data)
                       \o Callback(c, "fin", NoUri, fin)
    BY <1>1
  <1>3. /\ UNCHANGED <<hs, files, buffers, misused, card, died, served>>
        /\ todo = <<>> /\ pcb[c].state # "CLOSED"
    BY DEF Segment, Calm
  <1>4. /\ World \in Worlds /\ Owned(World) /\ Patient(World)
        /\ World.pcb = pcb /\ World.hs = hs /\ World.files = files
        /\ World.buffers = buffers /\ World.misused = misused /\ ~misused
    BY DEF IInv, Owned, World
  <1>5. pcb \in [Conns -> Pcb] /\ pcb[c] \in Pcb
    BY <1>4 DEF Worlds
  <1>6. TodoFits' /\ (DataIsWaiting' <=> data)
    <2>1. acked \in Nat
      BY <1>5 DEF Pcb
    <2> QED BY <1>2, <2>1, Arrived
  <1>7. PbufsOwned'
    <2>1. ~DataIsWaiting
      BY <1>3 DEF DataIsWaiting
    <2> QED BY <1>1, <1>3, <1>6, <2>1, HttpConnAssumption DEF IInv, PbufsOwned
  <1> DEFINE p == pcb[c]
             q == [p EXCEPT !.unacked = p.unacked - acked,
                            !.requests = IF data THEN p.requests + 1 ELSE p.requests,
                            !.state = IF fin THEN then ELSE p.state]
             v == [World EXCEPT !.pcb = [pcb EXCEPT ![c] = q]]
  <1>8. q \in Pcb /\ q.arg = p.arg /\ q.recv = p.recv /\ q.state # "CLOSED"
    <2>1. p.unacked - acked \in 0 .. SND_BUF
      BY <1>1, <1>5, HttpConnAssumption DEF Pcb
    <2>2. then \in TcpStates /\ then # "CLOSED"
      BY DEF AfterFin, TcpStates
    <2>3. (IF data THEN p.requests + 1 ELSE p.requests) \in Nat
      BY <1>5 DEF Pcb
    <2>4. (IF fin THEN then ELSE p.state) \in TcpStates \ {"CLOSED"}
      BY <1>3, <1>5, <2>2 DEF Pcb
    <2> QED BY <1>5, <2>1, <2>3, <2>4 DEF Pcb
  <1>9. pcb' = [pcb EXCEPT ![c] = q]
    BY <1>1, <1>5
  <1> HIDE DEF q, p
  <1>10. [pcb EXCEPT ![c] = q] \in [Conns -> Pcb]
    BY <1>5, <1>8
  <1>11. /\ v \in Worlds /\ v.pcb = [pcb EXCEPT ![c] = q] /\ v.hs = hs /\ v.files = files
         /\ v.buffers = buffers /\ v.misused = misused
    BY <1>4, <1>10 DEF Worlds
  <1> HIDE DEF v
  <1>12. Adjusts(World, v)
    <2>1. \A d \in Conns : v.pcb[d] = IF d = c THEN q ELSE pcb[d]
      BY <1>5, <1>11
    <2>2. \A i \in Handles : files[i].used => files[i].pos <= Blocks[files[i].name]
      BY <1>4 DEF Owned, FilesOwned
    <2> QED BY <1>3, <1>4, <1>8, <1>11, <2>1, <2>2 DEF Adjusts, p
  <1>13. Owned(v) /\ Keeps(World, v)
    <2>1. BuffersOwned(v.hs, v.buffers) /\ ~v.misused
      BY <1>4, <1>11 DEF Owned
    <2> QED BY <1>4, <1>11, <1>12, <2>1, Adjusted
  <1>14. Patient(v)
    BY <1>4, <1>11 DEF Patient
  <1>15. Becomes(v)
    BY <1>3, <1>9, <1>11 DEF Becomes
  <1>16. Owned(World)' /\ Patient(World)' /\ RequestsFit'
    BY <1>3, <1>13, <1>14, <1>15, Moved
  <1> QED BY <1>6, <1>7, <1>16 DEF IInv

\* A new connection has no request.
LEMMA RequestCleared ==
    ASSUME IInv, NEW c \in Conns, NEW v, Becomes(v), Owned(v), Patient(v), card' = card,
           served' = [served EXCEPT !.last[c] = NoRequest],
           \A d \in Conns : d # c => HandleFits(served.last[d], v.pcb[d], v.hs, v.files),
           HandleFits(NoRequest, v.pcb[c], v.hs, v.files)
    PROVE  Owned(World)' /\ Patient(World)' /\ RequestsFit'
  <1>1. World' = v /\ pcb' = v.pcb /\ hs' = v.hs /\ files' = v.files
    BY WorldMoves DEF Owned, Becomes
  <1>2. /\ served = [last |-> served.last, unopened |-> served.unopened]
        /\ served.last = [d \in Conns |-> served.last[d]]
        /\ \A d \in Conns : PathFits(served.last[d], card)
    BY DEF IInv, RequestsFit
  <1>3. /\ served' = [last |-> served'.last, unopened |-> served'.unopened]
        /\ served'.last = [served.last EXCEPT ![c] = NoRequest]
    BY <1>2
  <1>4. /\ served'.last = [d \in Conns |-> served'.last[d]]
        /\ \A d \in Conns : served'.last[d] = IF d = c THEN NoRequest ELSE served.last[d]
    <2> DEFINE l == served.last
               m == served'.last
    <2>1. l = [d \in Conns |-> l[d]] /\ m = [l EXCEPT ![c] = NoRequest]
      BY <1>2, <1>3
    <2> HIDE DEF l, m
    <2>2. /\ m = [d \in Conns |-> m[d]]
          /\ \A d \in Conns : m[d] = IF d = c THEN NoRequest ELSE l[d]
      BY <2>1, SMTT(20)
    <2> QED BY <2>2 DEF l, m
  <1>5. ASSUME NEW d \in Conns
        PROVE  /\ PathFits(served.last[d], card)'
               /\ HandleFits(served.last[d], pcb[d], hs, files)'
    <2> PICK r : r = served'.last[d]
      OBVIOUS
    <2>1. r = IF d = c THEN NoRequest ELSE served.last[d]
      BY <1>4
    <2>2. PathFits(NoRequest, card)
      BY DEF PathFits, NoRequest, NoUri
    <2>3. PathFits(r, card)
      BY <1>2, <2>1, <2>2
    <2>4. PathFits(served.last[d], card)'
      BY <2>3
    <2>5. HandleFits(r, v.pcb[d], v.hs, v.files)
      BY <2>1
    <2> QED BY <1>1, <2>4, <2>5 DEF HandleFits
  <1>6. RequestsFit'
    BY <1>3, <1>4, <1>5 DEF RequestsFit
  <1> QED BY <1>1, <1>6 DEF Owned, Patient

\* A state that was free is given to a connection that had none.
Taken(w, c, s) ==
    [w EXCEPT !.hs[s] = [NoState EXCEPT !.used = TRUE],
              !.pcb[c] = [NoPcb EXCEPT !.state = "ESTABLISHED", !.arg = s, !.recv = TRUE]]

\* http_accept gives the new connection a free state.
LEMMA StateTaken ==
    ASSUME NEW w, Owned(w), NEW c \in Conns, w.pcb[c].state = "CLOSED",
           NEW s \in States, ~w.hs[s].used
    PROVE  LET v == Taken(w, c, s)
           IN /\ Owned(v) /\ v.files = w.files
              /\ v.hs[s].handle = NULL /\ v.hs[s].retries = 0
              /\ \A t \in States : t # s => v.hs[t] = w.hs[t]
              /\ v.pcb[c].arg = s
              /\ \A d \in Conns : d # c => v.pcb[d] = w.pcb[d]
  <1> DEFINE r == [NoState EXCEPT !.used = TRUE]
             q == [NoPcb EXCEPT !.state = "ESTABLISHED", !.arg = s, !.recv = TRUE]
             v == Taken(w, c, s)
  <1>1. /\ w \in Worlds /\ w.hs \in [States -> HttpState] /\ w.pcb \in [Conns -> Pcb]
        /\ ~w.misused /\ BuffersOwned(w.hs, w.buffers)
        /\ StatesOwned(w.pcb, w.hs) /\ FilesOwned(w.hs, w.files)
    BY DEF Owned, Worlds
  <1>2. w.pcb[c].arg = NULL /\ w.hs[s] = NoState /\ s # NULL
    BY <1>1, HttpConnAssumption DEF StatesOwned, NULL
  <1>3. r \in HttpState /\ r.used /\ r.handle = NoState.handle /\ r.buf = NoState.buf
        /\ r.handle = NULL /\ r.retries = 0
    <2>1. NoState \in HttpState /\ NoState.handle = NULL /\ NoState.retries = 0
      BY DEF HttpState, NoState, NULL
    <2> QED BY <2>1 DEF HttpState
  <1>4. q \in Pcb /\ q.arg = s /\ q.state # "CLOSED"
    <2>1. NoPcb \in Pcb
      BY HttpConnAssumption DEF Pcb, NoPcb, TcpStates
    <2> QED BY <2>1 DEF Pcb, TcpStates
  <1>5. v = [w EXCEPT !.hs = [w.hs EXCEPT ![s] = r], !.pcb = [w.pcb EXCEPT ![c] = q]]
    BY <1>1 DEF Worlds, Taken
  <1> HIDE DEF r, q, v
  <1>6. /\ [w.hs EXCEPT ![s] = r] \in [States -> HttpState]
        /\ [w.pcb EXCEPT ![c] = q] \in [Conns -> Pcb]
    BY <1>1, <1>3, <1>4
  <1>7. /\ v \in Worlds /\ v.hs = [w.hs EXCEPT ![s] = r] /\ v.pcb = [w.pcb EXCEPT ![c] = q]
        /\ v.files = w.files /\ v.buffers = w.buffers /\ ~v.misused
    BY <1>1, <1>5, <1>6 DEF Worlds
  <1>8. /\ \A t \in States : v.hs[t] = IF t = s THEN r ELSE w.hs[t]
        /\ \A d \in Conns : v.pcb[d] = IF d = c THEN q ELSE w.pcb[d]
    BY <1>1, <1>7
  <1>9. BuffersOwned(v.hs, v.buffers)
    <2>1. \A t \in States : v.hs[t].buf = w.hs[t].buf
      BY <1>2, <1>3, <1>8
    <2> QED BY <1>1, <1>7, <2>1, SameBuffers DEF Worlds
  <1>10. StatesOwned(v.pcb, v.hs)
    <2>1. \A d \in Conns : w.pcb[d].arg # s
      BY <1>1, <1>2 DEF StatesOwned
    <2>2. \A d \in Conns : /\ v.pcb[d].arg # NULL => v.hs[v.pcb[d].arg].used
                           /\ v.pcb[d].recv => v.pcb[d].arg # NULL
                           /\ v.pcb[d].state = "CLOSED" => v.pcb[d].arg = NULL
      <3>1. \A d \in Conns : w.pcb[d].arg \in States \cup {NULL}
        BY <1>1 DEF Pcb
      <3> QED BY <1>1, <1>2, <1>3, <1>4, <1>8, <2>1, <3>1 DEF StatesOwned
    <2>3. \A d, e \in Conns : v.pcb[d].arg = v.pcb[e].arg /\ v.pcb[d].arg # NULL => d = e
      BY <1>1, <1>4, <1>8, <2>1 DEF StatesOwned
    <2>4. \A t \in States : IF v.hs[t].used THEN \E d \in Conns : v.pcb[d].arg = t
                                            ELSE v.hs[t] = NoState
      <3> SUFFICES ASSUME NEW t \in States
                   PROVE  IF v.hs[t].used THEN \E d \in Conns : v.pcb[d].arg = t
                                          ELSE v.hs[t] = NoState
        OBVIOUS
      <3>1. CASE t = s
        BY <1>3, <1>4, <1>8, <3>1
      <3>2. CASE t # s
        <4>1. v.hs[t] = w.hs[t] /\ t # NULL
          BY <1>8, <3>2, HttpConnAssumption DEF NULL
        <4>2. \A d \in Conns : w.pcb[d].arg = t => v.pcb[d].arg = t
          BY <1>2, <1>8, <4>1
        <4> QED BY <1>1, <4>1, <4>2 DEF StatesOwned
      <3> QED BY <3>1, <3>2
    <2> QED BY <2>2, <2>3, <2>4 DEF StatesOwned
  <1>11. FilesOwned(v.hs, v.files)
    <2>1. \A t \in States : v.hs[t].handle = w.hs[t].handle
      BY <1>2, <1>3, <1>8
    <2> QED BY <1>1, <1>7, <2>1 DEF FilesOwned
  <1>12. Owned(v)
    BY <1>7, <1>9, <1>10, <1>11 DEF Owned
  <1> QED BY <1>3, <1>4, <1>7, <1>8, <1>12 DEF v

\* http_accept, with or without memory for the state.
LEMMA AcceptStep ==
    ASSUME IInv, NEW c \in Conns, Accept(c)
    PROVE  IInv'
  <1>1. /\ UNCHANGED <<pbufs, card, todo, died>> /\ pcb[c].state = "CLOSED"
        /\ served' = [served EXCEPT !.last[c] = NoRequest]
    BY Zenon DEF Accept
  <1>2. /\ World \in Worlds /\ Owned(World) /\ Patient(World)
        /\ World.pcb = pcb /\ World.hs = hs /\ World.files = files
    BY DEF IInv, Owned, World
  <1>3. TodoFits' /\ PbufsOwned'
    <2>1. served'.unopened = served.unopened
      BY <1>1 DEF IInv, RequestsFit
    <2> QED BY <1>1, <2>1 DEF IInv, TodoFits, PbufsOwned, DataIsWaiting
  <1>4. \A d \in Conns : HandleFits(served.last[d], World.pcb[d], World.hs, World.files)
    BY <1>2 DEF IInv, RequestsFit
  <1>5. ASSUME NEW s \in States, ~hs[s].used, Becomes(Taken(World, c, s))
        PROVE  Owned(World)' /\ Patient(World)' /\ RequestsFit'
    <2> DEFINE v == Taken(World, c, s)
    <2>1. /\ Owned(v) /\ v.files = World.files
          /\ v.hs[s].handle = NULL /\ v.hs[s].retries = 0
          /\ \A t \in States : t # s => v.hs[t] = World.hs[t]
          /\ v.pcb[c].arg = s
          /\ \A d \in Conns : d # c => v.pcb[d] = World.pcb[d]
      BY <1>1, <1>2, <1>5, StateTaken
    <2>2. Becomes(v)
      BY <1>5
    <2> HIDE DEF v
    <2>3. Patient(v)
      BY <1>2, <2>1, HttpConnAssumption DEF Patient
    <2>4. HandleFits(NoRequest, v.pcb[c], v.hs, v.files)
      BY <2>1 DEF HandleFits
    <2>5. ASSUME NEW d \in Conns, d # c
          PROVE  HandleFits(served.last[d], v.pcb[d], v.hs, v.files)
      <3> DEFINE t == World.pcb[d].arg
      <3>1. t # NULL => t \in States /\ t # s
        BY <1>2, <1>5 DEF Owned, Worlds, StatesOwned, Pcb
      <3>2. HandleFits(served.last[d], World.pcb[d], World.hs, World.files)
        BY <1>4
      <3> QED BY <2>1, <2>5, <3>1, <3>2 DEF HandleFits
    <2> QED BY <1>1, <2>1, <2>2, <2>3, <2>4, <2>5, RequestCleared
  <1>6. ASSUME Becomes(Removed(World, c))
        PROVE  Owned(World)' /\ Patient(World)' /\ RequestsFit'
    <2> DEFINE v == Removed(World, c)
    <2>1. Ends(World, v, c) /\ Becomes(v)
      BY <1>2, <1>6, RemovedEnds
    <2> HIDE DEF v
    <2>2. Sends(World, v)
      BY <1>2, <2>1, EndsWell
    <2>3. Owned(v) /\ Keeps(World, v) /\ Patient(v)
      BY <1>2, <2>2, SendsPatiently DEF Sends
    <2>4. v.pcb[c].arg = NULL
      BY <1>2, <2>1 DEF Ends, Worlds
    <2>5. HandleFits(NoRequest, v.pcb[c], v.hs, v.files)
      BY <2>4 DEF HandleFits
    <2>6. \A d \in Conns : HandleFits(served.last[d], v.pcb[d], v.hs, v.files)
      BY <1>4, <2>3, HandleStays
    <2>7. Becomes(v)
      BY <2>1
    <2> QED BY <1>1, <2>3, <2>5, <2>6, <2>7, RequestCleared
  <1>7. Owned(World)' /\ Patient(World)' /\ RequestsFit'
    <2>1. \/ \E s \in States : ~hs[s].used /\ Becomes(Taken(World, c, s))
          \/ Becomes(Removed(World, c))
      BY Zenon DEF Accept, Taken
    <2> QED BY <1>5, <1>6, <2>1
  <1> QED BY <1>3, <1>7 DEF IInv

-----------------------------------------------------------------------------
(* The invariant. *)

\* No connection, no state, no open file: nothing is owned.
LEMMA InitIInv == Init => IInv
  <1> SUFFICES ASSUME Init PROVE IInv
    OBVIOUS
  <1>1. /\ pcb = [c \in Conns |-> NoPcb] /\ hs = [s \in States |-> NoState]
        /\ files = [h \in Handles |-> NoFile] /\ buffers = 0 /\ misused = FALSE /\ pbufs = 0
        /\ todo = <<>>
        /\ served = [last |-> [c \in Conns |-> NoRequest], unopened |-> 0]
    BY DEF Init
  <1>2. NoPcb \in Pcb /\ NoPcb.arg = NULL /\ ~NoPcb.recv
    BY HttpConnAssumption DEF NoPcb, Pcb, TcpStates
  <1>3. NoState \in HttpState /\ ~NoState.used /\ NoState.handle = NULL
        /\ NoState.retries = 0 /\ ~NoState.buf
    BY DEF NoState, HttpState, NULL
  <1>4. NoFile \in OpenFile /\ ~NoFile.used
    BY DEF NoFile, OpenFile
  <1>5. World \in Worlds
    <2>1. pcb \in [Conns -> Pcb] /\ hs \in [States -> HttpState]
          /\ files \in [Handles -> OpenFile] /\ buffers \in Nat /\ misused \in BOOLEAN
      BY <1>1, <1>2, <1>3, <1>4
    <2> QED BY <2>1 DEF World, Worlds
  <1>6. StatesOwned(pcb, hs) /\ FilesOwned(hs, files)
    BY <1>1, <1>2, <1>3, <1>4 DEF StatesOwned, FilesOwned
  <1>7. BuffersOwned(hs, buffers)
    <2>1. { s \in States : hs[s].buf } = {}
      BY <1>1, <1>3
    <2> QED BY <1>1, <2>1, FS_EmptySet DEF BuffersOwned
  <1>8. Owned(World) /\ Patient(World)
    BY <1>1, <1>3, <1>5, <1>6, <1>7, HttpConnAssumption DEF Owned, Patient, World
  <1>9. TodoFits /\ ~DataIsWaiting
    BY <1>1 DEF TodoFits, DataIsWaiting
  <1>10. PbufsOwned
    BY <1>1, <1>9, HttpConnAssumption DEF PbufsOwned
  <1>11. RequestsFit
    <2>1. \A c \in Conns : served.last[c] = NoRequest /\ pcb[c].arg = NULL
      BY <1>1, <1>2
    <2>2. PathFits(NoRequest, card)
      BY DEF PathFits, NoRequest, NoUri
    <2>3. \A c \in Conns : HandleFits(served.last[c], pcb[c], hs, files)
      BY <2>1 DEF HandleFits
    <2>4. served = [last |-> served.last, unopened |-> served.unopened]
          /\ served.last = [c \in Conns |-> served.last[c]]
      BY <1>1
    <2> QED BY <2>1, <2>2, <2>3, <2>4 DEF RequestsFit
  <1> QED BY <1>8, <1>9, <1>10, <1>11 DEF IInv

\* Each step keeps the invariant.
LEMMA NextIInv == IInv /\ [Next]_vars => IInv'
  <1> SUFFICES ASSUME IInv, [Next]_vars PROVE IInv'
    OBVIOUS
  <1>1. CASE UNCHANGED vars
    <2>1. Becomes(World) /\ UNCHANGED <<pbufs, card, todo, served>>
      BY <1>1 DEF vars, Becomes, World
    <2>2. Owned(World)' /\ Patient(World)' /\ RequestsFit'
      BY <2>1, Stays, Sending DEF IInv
    <2> QED BY <2>1, <2>2, NoCallback DEF IInv
  <1>2. ASSUME NEW c \in Conns, Accept(c)
        PROVE  IInv'
    BY <1>2, AcceptStep
  <1>3. ASSUME NEW c \in Conns, Segment(c)
        PROVE  IInv'
    BY <1>3, SegmentStep
  <1>4. ASSUME NEW c \in Conns, CallNext(c)
        PROVE  IInv'
    BY <1>4, SentStep, RecvIgnoredStep, RecvInvalidStep, RecvGetStep, RecvFinStep DEF CallNext
  <1>5. ASSUME NEW c \in Conns, PollTimer(c)
        PROVE  IInv'
    BY <1>5, PollUnclosedStep, PollNullStep, PollStep DEF PollTimer
  <1>6. ASSUME NEW c \in Conns, RemovePcb(c)
        PROVE  IInv'
    BY <1>6, RemovePcbStep
  <1> QED BY <1>1, <1>2, <1>3, <1>4, <1>5, <1>6 DEF Next

\* The inductive invariant holds of every behaviour.
LEMMA Invariant == Spec => []IInv
  BY InitIInv, NextIInv, PTL DEF Spec

\* The states, the files and the buffers are of their kinds, no state is polled
\* MAX_RETRIES times, and no more receive buffers are taken than there are.
LEMMA FitsTypes == IInv => TypeOK
  <1> SUFFICES ASSUME IInv PROVE TypeOK
    OBVIOUS
  <1>1. /\ World \in Worlds /\ StatesOwned(pcb, hs) /\ FilesOwned(hs, files)
        /\ Patient(World) /\ PbufsOwned
    BY DEF IInv, Owned, World
  <1>2. /\ pcb \in [Conns -> Pcb] /\ hs \in [States -> HttpState]
        /\ files \in [Handles -> OpenFile]
    BY <1>1 DEF World, Worlds
  <1>3. \A c \in Conns : /\ pcb[c].state \in TcpStates /\ pcb[c].arg \in States \cup {NULL}
                         /\ pcb[c].unacked \in 0 .. SND_BUF
    BY <1>2 DEF Pcb
  <1>4. \A s \in States : /\ hs[s].handle \in Handles \cup {NULL}
                          /\ hs[s].left \in 0 .. 1 /\ hs[s].retries < MAX_RETRIES
    BY <1>1, <1>2 DEF HttpState, Patient, World
  <1>5. \A h \in Handles : files[h].used => files[h].pos \in 0 .. Blocks[files[h].name]
    BY <1>1, <1>2, HttpConnAssumption DEF OpenFile, FilesOwned
  <1> QED BY <1>1, <1>3, <1>4, <1>5 DEF TypeOK, PbufsOwned

\* A set of equal things has one element or none.
LEMMA OneOrNone ==
    ASSUME NEW T, NEW P, \A x, y \in T : x = y, T = {} <=> ~P
    PROVE  Cardinality(T) = IF P THEN 1 ELSE 0
  <1>1. CASE T = {}
    BY <1>1, FS_EmptySet
  <1>2. CASE T # {}
    <2>1. PICK x \in T : TRUE
      BY <1>2
    <2>2. T = {x}
      BY <2>1
    <2> QED BY <1>2, <2>2, FS_Singleton
  <1> QED BY <1>1, <1>2

\* In whatever order accepts, segments, polls, resets and lack of memory come:
\* each http_state that is allocated belongs to just one connection, each open
\* file and each buffer to one http_state, nothing that was freed is used, and
\* each receive buffer is with a callback or was lost to a request that http_recv
\* opened nothing for (httpd.c's http_accept to free_state and HttpConn's
\* MemoryIsOwned).
THEOREM MemoryAlwaysOwned == Spec => []MemoryIsOwned
  <1>1. ASSUME IInv PROVE MemoryIsOwned
    <2>1. /\ World \in Worlds /\ StatesOwned(pcb, hs) /\ FilesOwned(hs, files)
          /\ BuffersOwned(hs, buffers) /\ ~misused
          /\ World.pcb = pcb /\ World.hs = hs /\ World.files = files
      BY <1>1 DEF IInv, Owned, World
    <2>2. TypeOK
      BY <1>1, FitsTypes
    <2>3. ASSUME NEW s \in States
          PROVE  Cardinality({ c \in Conns : pcb[c].arg = s }) = IF hs[s].used THEN 1 ELSE 0
      <3> DEFINE T == { c \in Conns : pcb[c].arg = s }
      <3>1. s # NULL
        BY HttpConnAssumption DEF NULL
      <3>2. \A x, y \in T : x = y
        BY <2>1, <3>1 DEF StatesOwned
      <3>3. T = {} <=> ~hs[s].used
        BY <2>1, <3>1 DEF StatesOwned
      <3> HIDE DEF T
      <3>4. Cardinality(T) = IF hs[s].used THEN 1 ELSE 0
        BY <3>2, <3>3, OneOrNone
      <3> QED BY <3>4 DEF T
    <2>4. ASSUME NEW h \in Handles
          PROVE  Cardinality({ s \in States : hs[s].used /\ hs[s].handle = h })
                   = IF files[h].used THEN 1 ELSE 0
      <3> DEFINE T == { s \in States : hs[s].used /\ hs[s].handle = h }
      <3>1. h # NULL
        BY HttpConnAssumption DEF NULL
      <3>2. \A x, y \in T : x = y
        BY <2>1, <3>1 DEF FilesOwned
      <3>3. T = {} <=> ~files[h].used
        <4>1. \A s \in States : ~hs[s].used => hs[s].handle = NULL
          BY <2>1 DEF StatesOwned, NoState
        <4> QED BY <2>1, <3>1, <4>1 DEF FilesOwned
      <3> HIDE DEF T
      <3>4. Cardinality(T) = IF files[h].used THEN 1 ELSE 0
        BY <3>2, <3>3, OneOrNone
      <3> QED BY <3>4 DEF T
    <2>5. buffers = Cardinality({ s \in States : hs[s].buf })
      BY <2>1 DEF BuffersOwned
    <2>6. pbufs = served.unopened + Cardinality({ k \in DOMAIN todo : todo[k].call = "recv" })
      <3> DEFINE T == { k \in DOMAIN todo : todo[k].call = "recv" }
      <3>1. \A x, y \in T : x = y
        BY <1>1 DEF IInv, TodoFits
      <3>2. T = {} <=> ~DataIsWaiting
        BY DEF DataIsWaiting
      <3> HIDE DEF T
      <3>3. Cardinality(T) = IF DataIsWaiting THEN 1 ELSE 0
        BY <3>1, <3>2, OneOrNone
      <3> QED BY <1>1, <3>3 DEF IInv, PbufsOwned, T
    <2> QED BY <2>1, <2>2, <2>3, <2>4, <2>5, <2>6 DEF MemoryIsOwned
  <1> QED BY <1>1, Invariant, PTL

\* The file a request is for; of the default files only the first is found.
Own(u, page) == CASE u.kind = "root" -> DefaultFilenames[1]
                  [] u.kind = "cgi"  -> page
                  [] u.kind = "file" -> u.name

\* Of a request's own paths, only the first names a whole file.
LEMMA FirstPath ==
    ASSUME NEW u, u.kind \in {"root", "cgi", "file"}, NEW page
    PROVE  LET P == Paths(u, page)
           IN /\ Len(P[1]) = 1 /\ P[1][1] = Own(u, page)
              /\ \A k \in 1 .. Len(P) : Len(P[k]) = 1 => k = 1
  <1> DEFINE P == Paths(u, page)
  <1>1. /\ Len(P) \in Nat \ {0}
        /\ u.kind = "root" => \A k \in 1 .. Len(P) :
               k \in 1 .. Len(DefaultFilenames) /\ P[k] = SubSeq(DefaultFilenames, 1, k)
        /\ u.kind = "cgi"  => P = << <<page>> >>
        /\ u.kind = "file" => P = << <<u.name>> >>
    BY PathsTried
  <1> HIDE DEF P
  <1>2. CASE u.kind = "root"
    <2>1. DefaultFilenames \in Seq(STRING) /\ Len(DefaultFilenames) \in Nat
      BY HttpConnAssumption
    <2>2. \A k \in 1 .. Len(P) : Len(P[k]) = k /\ P[k][1] = DefaultFilenames[1]
      BY <1>1, <1>2, <2>1
    <2>3. 1 \in 1 .. Len(P)
      BY <1>1
    <2> QED BY <1>2, <2>2, <2>3 DEF Own, P
  <1>3. CASE u.kind = "cgi"
    <2>1. P = << <<page>> >> /\ Own(u, page) = page
      BY <1>1, <1>3 DEF Own
    <2>2. Len(P) = 1 /\ Len(P[1]) = 1 /\ P[1][1] = page
      BY <2>1
    <2> QED BY <2>1, <2>2 DEF P
  <1>4. CASE u.kind = "file"
    <2>1. P = << <<u.name>> >> /\ Own(u, page) = u.name
      BY <1>1, <1>4 DEF Own
    <2>2. Len(P) = 1 /\ Len(P[1]) = 1 /\ P[1][1] = u.name
      BY <2>1
    <2> QED BY <2>1, <2>2 DEF P
  <1> QED BY <1>2, <1>3, <1>4

\* What is opened is the request's own file if there is one, else an error page.
LEMMA OpenedPath ==
    ASSUME NEW u, u.kind \in {"root", "cgi", "file"}, NEW page, NEW heap
    PROVE  LET path == FirstOf(Paths(u, page) \o ErrorPaths, heap)
           IN IF path = <<>>
              THEN ~card \/ ~heap \/ ToSet(ErrorFilenames) \cap DOMAIN Blocks = {}
              ELSE /\ path[1] \in {Own(u, page)} \cup ToSet(ErrorFilenames)
                   /\ Own(u, page) \in DOMAIN Blocks => path[1] = Own(u, page)
  <1> DEFINE P == Paths(u, page)
             T == P \o ErrorPaths
             path == FirstOf(T, heap)
             n == Len(ErrorFilenames)
  <1>1. /\ Len(P) \in Nat \ {0}
        /\ DOMAIN T = 1 .. Len(P) + n
        /\ \A k \in 1 .. Len(P) : T[k] = P[k]
        /\ \A k \in 1 .. n : T[Len(P) + k] = <<ErrorFilenames[k]>>
    BY PathsTried
  <1>2. /\ Len(P[1]) = 1 /\ P[1][1] = Own(u, page)
        /\ \A k \in 1 .. Len(P) : Len(P[k]) = 1 => k = 1
    BY FirstPath
  <1>3. n \in Nat /\ ToSet(ErrorFilenames) = { ErrorFilenames[k] : k \in 1 .. n }
    BY HttpConnAssumption DEF ToSet
  <1>4. DOMAIN T \subseteq Nat
    BY <1>1, <1>3
  <1> HIDE DEF T, P, n
  <1>5. \/ path = <<>> /\ \A k \in DOMAIN T : ~(heap /\ Exists(T[k]))
        \/ \E k \in DOMAIN T : /\ path = T[k] /\ heap /\ Exists(T[k])
                               /\ \A j \in DOMAIN T : Exists(T[j]) => k <= j
    BY <1>4, FirstFound
  <1> HIDE DEF path
  <1>6. CASE path = <<>> /\ \A k \in DOMAIN T : ~(heap /\ Exists(T[k]))
    <2> SUFFICES ASSUME card, heap, NEW k \in 1 .. n, ErrorFilenames[k] \in DOMAIN Blocks
                 PROVE  FALSE
      BY <1>3, <1>6 DEF path, T, P
    <2>1. Len(P) + k \in DOMAIN T /\ T[Len(P) + k] = <<ErrorFilenames[k]>>
      BY <1>1, <1>3
    <2>2. Exists(T[Len(P) + k])
      BY <2>1 DEF Exists
    <2> QED BY <1>6, <2>1, <2>2
  <1>7. ASSUME NEW k \in DOMAIN T, path = T[k], heap, Exists(T[k]),
               \A j \in DOMAIN T : Exists(T[j]) => k <= j
        PROVE  /\ path # <<>>
               /\ path[1] \in {Own(u, page)} \cup ToSet(ErrorFilenames)
               /\ Own(u, page) \in DOMAIN Blocks => path[1] = Own(u, page)
    <2>1. card /\ Len(path) = 1 /\ path # <<>>
      BY <1>7 DEF Exists
    <2>2. k = 1 => path[1] = Own(u, page)
      BY <1>1, <1>2, <1>7
    <2>3. path[1] \in {Own(u, page)} \cup ToSet(ErrorFilenames)
      <3>1. CASE k \in 1 .. Len(P)
        BY <1>1, <1>2, <1>7, <2>1, <2>2, <3>1
      <3>2. CASE k \notin 1 .. Len(P)
        <4>1. k - Len(P) \in 1 .. n /\ Len(P) + (k - Len(P)) = k
          BY <1>1, <1>3, <3>2
        <4>2. T[k] = <<ErrorFilenames[k - Len(P)]>>
          BY <1>1, <4>1
        <4> QED BY <1>3, <1>7, <4>1, <4>2
      <3> QED BY <3>1, <3>2
    <2>4. ASSUME Own(u, page) \in DOMAIN Blocks
          PROVE  path[1] = Own(u, page)
      <3>1. 1 \in DOMAIN T /\ 1 \in 1 .. Len(P) /\ T[1] = P[1]
        BY <1>1, <1>3
      <3>2. Exists(T[1])
        BY <1>2, <2>1, <2>4, <3>1 DEF Exists
      <3>3. k <= 1 /\ k \in Nat \ {0}
        BY <1>1, <1>3, <1>7, <3>1, <3>2
      <3> QED BY <2>2, <3>3
    <2> QED BY <2>1, <2>3, <2>4
  <1> QED BY <1>5, <1>6, <1>7 DEF path, T, P

\* What a connection sends is the file its last request was for if the card has
\* it, else an error page, and it sends nothing only for lack of card, memory and
\* error page: whatever comes between the request and its last block (httpd.c's
\* http_recv, init_file and send_data, HttpConn's AnswersRequest).
THEOREM RequestsAnswered == Spec => []AnswersRequest
  <1>1. ASSUME IInv PROVE AnswersRequest
    <2> SUFFICES ASSUME NEW c \in Conns, served.last[c].uri.kind # "none", pcb[c].arg # NULL
                 PROVE  LET request == served.last[c]
                            s == pcb[c].arg
                            wanted == IF request.uri.kind = "root" THEN {DefaultFilenames[1]}
                                                                   ELSE Asked(request)
                        IN IF hs[s].handle = NULL
                           THEN request.path = <<>> => \/ ~card \/ ~request.heap
                                   \/ ToSet(ErrorFilenames) \cap DOMAIN Blocks = {}
                           ELSE /\ files[hs[s].handle].name
                                     \in Asked(request) \cup ToSet(ErrorFilenames)
                                /\ wanted \subseteq DOMAIN Blocks
                                     => files[hs[s].handle].name \in wanted
      BY DEF AnswersRequest
    <2> DEFINE r == served.last[c]
               own == Own(r.uri, r.page)
               i == hs[pcb[c].arg].handle
    <2>1. PathFits(r, card) /\ HandleFits(r, pcb[c], hs, files)
      BY <1>1 DEF IInv, RequestsFit
    <2>2. /\ r.uri.kind \in {"root", "cgi", "file"}
          /\ r.path = FirstOf(Paths(r.uri, r.page) \o ErrorPaths, r.heap)
          /\ i # NULL => r.path # <<>> /\ files[i].name = r.path[1]
      BY <2>1, FirstFromCard DEF PathFits, HandleFits
    <2> HIDE DEF r, i
    <2>3. IF r.path = <<>>
          THEN ~card \/ ~r.heap \/ ToSet(ErrorFilenames) \cap DOMAIN Blocks = {}
          ELSE /\ r.path[1] \in {own} \cup ToSet(ErrorFilenames)
               /\ own \in DOMAIN Blocks => r.path[1] = own
      BY <2>2, OpenedPath
    <2>4. own \in Asked(r) /\ (r.uri.kind # "root" => Asked(r) = {own})
          /\ (r.uri.kind = "root" => own = DefaultFilenames[1])
      <3>1. DefaultFilenames[1] \in ToSet(DefaultFilenames)
        BY HttpConnAssumption DEF ToSet
      <3> QED BY <2>2, <3>1 DEF Own, Asked
    <2> HIDE DEF own
    <2> QED BY <2>2, <2>3, <2>4 DEF r, i
  <1> QED BY <1>1, Invariant, PTL
=============================================================================
