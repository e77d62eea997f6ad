------------------------- MODULE ComProtocol_proofs -------------------------
(***************************************************************************)
(* Proofs about ComProtocol, for every set of items, values and other      *)
(* tasks, every queue size and every bound on late waits: the types, and   *)
(* the resume of the link monitor; the reads and sets of the web server;   *)
(* how far reads may lag behind.                                           *)
(***************************************************************************)
EXTENDS ComProtocol, SequenceTheorems, FiniteSetTheorems, TLAPS

-----------------------------------------------------------------------------
(* Lemmas about the queues and the kernel calls. *)

\* Changing ghost fields of the messages of a queue keeps it a queue of the
\* same length.
LEMMA MarkedQueues ==
    ASSUME NEW q \in Seq(Messages)
    PROVE  /\ Released(q) \in Seq(Messages) /\ Len(Released(q)) = Len(q)
           /\ Abandoned(q) \in Seq(Messages) /\ Len(Abandoned(q)) = Len(q)
<1>1. \A m \in Messages : /\ [m EXCEPT !.owned = FALSE] \in Messages
                          /\ [m EXCEPT !.fresh = FALSE] \in Messages
    BY DEF Messages
<1>2. /\ DOMAIN q = 1 .. Len(q) /\ Len(q) \in Nat
      /\ \A k \in DOMAIN q : q[k] \in Messages
    OBVIOUS
<1>3. /\ Released(q) \in [1 .. Len(q) -> Messages]
      /\ Abandoned(q) \in [1 .. Len(q) -> Messages]
    BY <1>1, <1>2 DEF Released, Abandoned
<1> QED
    BY <1>2, <1>3

\* xQueueSend without waiting never exceeds the size of the queue.
LEMMA SendKeepsQueue ==
    ASSUME NEW q, NEW qn, NEW size \in Nat, NEW m \in Messages,
           q \in Seq(Messages), Len(q) <= size,
           qn = q \/ (Len(q) < size /\ qn = Append(q, m))
    PROVE  qn \in Seq(Messages) /\ Len(qn) <= size
    OBVIOUS

States == {"ready", "mbox", "httpd", "comq", "delay", "event", "suspended"}

KernelTypeOK ==
    /\ state \in [Tasks -> States]
    /\ order \subseteq Tasks \X Tasks
    /\ running \in Tasks \cup {"none"}

\* The kernel calls keep the types of the kernel's state.
LEMMA KernelTypes ==
    ASSUME KernelTypeOK, NEW t \in Tasks, NEW on \in States
    PROVE  /\ Removed(order, t) \subseteq Tasks \X Tasks
           /\ VisitLast(order, Ready, t) \subseteq Tasks \X Tasks
           /\ MakeReady(t) => state' \in [Tasks -> States]
                              /\ order' \subseteq Tasks \X Tasks
           /\ WakeAndYield(t) => KernelTypeOK'
           /\ Block(t, on) => KernelTypeOK'
<1>1. Ready \subseteq Tasks
    BY DEF Ready
<1>2. Removed(order, t) \subseteq Tasks \X Tasks
    BY DEF Removed, KernelTypeOK
<1>3. VisitLast(order, Ready, t) \subseteq Tasks \X Tasks
    BY <1>1, <1>2 DEF VisitLast
<1>4. "ready" \in States
    BY DEF States
<1> QED
    BY <1>2, <1>3, <1>4 DEF KernelTypeOK, MakeReady, WakeAndYield, Block

QueuesOK ==
    /\ xComQueue \in Seq(Messages) /\ Len(xComQueue) <= COM_QUEUE_SIZE
    /\ xHttpdQueue \in Seq(Messages) /\ Len(xHttpdQueue) <= HTTPD_QUEUE_SIZE
    /\ xMessage \in Seq(Messages) /\ Len(xMessage) <= 1

\* Sending a message to the communication task, or an answer to the tcpip
\* thread, keeps the types.
LEMMA SendTypes ==
    ASSUME KernelTypeOK, QueuesOK, NEW m \in Messages
    PROVE  /\ SendToCom(m) =>
                /\ KernelTypeOK'
                /\ xComQueue' \in Seq(Messages)
                /\ Len(xComQueue') <= COM_QUEUE_SIZE
           /\ Send(xHttpdQueue, HTTPD_QUEUE_SIZE, m, "tcpip", "httpd") =>
                /\ KernelTypeOK'
                /\ xHttpdQueue' \in Seq(Messages)
                /\ Len(xHttpdQueue') <= HTTPD_QUEUE_SIZE
<1>1. "com" \in Tasks /\ "tcpip" \in Tasks
    BY DEF Tasks
<1>2. COM_QUEUE_SIZE \in Nat /\ HTTPD_QUEUE_SIZE \in Nat
    BY ComAssumption DEF ComAssumption
<1>3. WakeAndYield("com") \/ WakeAndYield("tcpip") => KernelTypeOK'
    BY <1>1, KernelTypes DEF States
<1>4. UNCHANGED kernelVars => KernelTypeOK'
    BY DEF KernelTypeOK, kernelVars
<1>5. ASSUME SendToCom(m)
      PROVE  /\ KernelTypeOK'
             /\ xComQueue' \in Seq(Messages)
             /\ Len(xComQueue') <= COM_QUEUE_SIZE
    <2>1. KernelTypeOK'
        BY <1>3, <1>4, <1>5 DEF SendToCom, Send
    <2>2. \/ xComQueue' = xComQueue
          \/ Len(xComQueue) < COM_QUEUE_SIZE
             /\ xComQueue' = Append(xComQueue, m)
        BY <1>5 DEF SendToCom, Send
    <2> QED
        BY <1>2, <2>1, <2>2, SendKeepsQueue DEF QueuesOK
<1>6. ASSUME Send(xHttpdQueue, HTTPD_QUEUE_SIZE, m, "tcpip", "httpd")
      PROVE  /\ KernelTypeOK'
             /\ xHttpdQueue' \in Seq(Messages)
             /\ Len(xHttpdQueue') <= HTTPD_QUEUE_SIZE
    <2>1. KernelTypeOK'
        BY <1>3, <1>4, <1>6 DEF Send
    <2>2. \/ xHttpdQueue' = xHttpdQueue
          \/ Len(xHttpdQueue) < HTTPD_QUEUE_SIZE
             /\ xHttpdQueue' = Append(xHttpdQueue, m)
        BY <1>6 DEF Send
    <2> QED
        BY <1>2, <2>1, <2>2, SendKeepsQueue DEF QueuesOK
<1> QED
    BY <1>5, <1>6

TcpipTypeOK ==
    /\ tcpip_pc \in {"loop", "get", "suspend", "receive"}
    /\ phase \in {"cgi", "page"}
    /\ param \in [item : Items, value : Values, check : BOOLEAN]
    /\ timedOut \in BOOLEAN
    /\ verdict \in {"none", "ok", "nok"}
    /\ inStep \in BOOLEAN
    /\ cut \in BOOLEAN
    /\ late \in Nat

ComTypeOK ==
    /\ store \in [Items -> Values]
    /\ com_pc \in {"receive", "resume"}

\* The types are right at first.
LEMMA TypeInit == Init => TypeOK
<1> SUFFICES ASSUME Init PROVE TypeOK
    OBVIOUS
<1>1. /\ xComQueue \in Seq(Messages) /\ Len(xComQueue) <= COM_QUEUE_SIZE
      /\ xHttpdQueue \in Seq(Messages) /\ Len(xHttpdQueue) <= HTTPD_QUEUE_SIZE
      /\ xMessage \in Seq(Messages) /\ Len(xMessage) <= 1
    BY ComAssumption DEF Init, ComAssumption
<1>2. late \in 0 .. MaxLate
    BY ComAssumption DEF Init, ComAssumption
<1>3. state \in [Tasks -> {"ready", "mbox", "httpd", "comq", "delay",
                           "event", "suspended"}]
    BY DEF Init
<1> QED
    BY <1>1, <1>2, <1>3 DEF Init, TypeOK

\* A wait is only allowed to end before its answer while late is below its
\* bound; so late stays within the bound.
LateOK ==
    /\ late \in 0 .. MaxLate
    /\ tcpip_pc \in {"suspend", "receive"} /\ timedOut /\ AnswerPending
          => late < MaxLate

TypeInv == TypeOK /\ LateOK

\* TypeOK is the conjunction of the types of the four parts of the state.
LEMMA TypeParts ==
    TypeInv <=> KernelTypeOK /\ QueuesOK /\ TcpipTypeOK /\ ComTypeOK /\ LateOK
<1>1. late \in 0 .. MaxLate => late \in Nat
    OBVIOUS
<1> QED
    BY <1>1 DEF TypeInv, TypeOK, KernelTypeOK, QueuesOK, TcpipTypeOK,
                ComTypeOK, LateOK, States

\* Receiving a request keeps the types, and the requests.
LEMMA ReceiveTypes ==
    ASSUME QueuesOK, xMessage = <<>>, xComQueue # <<>>,
           xMessage' = <<Head(xComQueue)>>, xComQueue' = Tail(xComQueue)
    PROVE  /\ xComQueue' \in Seq(Messages)
           /\ Len(xComQueue') <= COM_QUEUE_SIZE
           /\ xMessage' \in Seq(Messages) /\ Len(xMessage') <= 1
           /\ Requests' = Requests
           /\ Requests # <<>>
<1>1. /\ Head(xComQueue) \in Messages
      /\ Tail(xComQueue) \in Seq(Messages)
      /\ Len(Tail(xComQueue)) = Len(xComQueue) - 1
      /\ Len(xComQueue) \in Nat
    BY DEF QueuesOK
<1>2. COM_QUEUE_SIZE \in Nat
    BY ComAssumption DEF ComAssumption
<1>3. Len(xComQueue') <= COM_QUEUE_SIZE
    BY <1>1, <1>2 DEF QueuesOK
<1>4. Requests' = Requests /\ Requests # <<>>
    <2>1. Requests = xComQueue
        BY DEF Requests, QueuesOK
    <2>2. <<Head(xComQueue)>> \o Tail(xComQueue) = xComQueue
        BY DEF QueuesOK
    <2> QED
        BY <2>1, <2>2 DEF Requests
<1> QED
    BY <1>1, <1>3, <1>4

\* A queue of one message in front of another queue.
LEMMA OneAndRest ==
    ASSUME NEW q \in Seq(Messages), q # <<>>, Len(q) <= 1,
           NEW r \in Seq(Messages)
    PROVE  /\ q[1] \in Messages /\ Len(q) = 1
           /\ \A k \in DOMAIN r : /\ k + 1 \in DOMAIN (q \o r)
                                  /\ (q \o r)[k + 1] = r[k]
<1>1. Len(q) \in Nat \ {0}
    BY EmptySeq
<1>2. Len(q) = 1
    BY <1>1
<1>3. q[1] \in Messages
    BY <1>2, ElementOfSeq
<1>4. /\ DOMAIN r = 1 .. Len(r) /\ Len(r) \in Nat
      /\ q \o r \in Seq(Messages) /\ Len(q \o r) = 1 + Len(r)
      /\ DOMAIN (q \o r) = 1 .. Len(q \o r)
    BY <1>2, ConcatProperties, LenProperties
<1>5. ASSUME NEW k \in DOMAIN r
      PROVE  k + 1 \in DOMAIN (q \o r) /\ (q \o r)[k + 1] = r[k]
    BY <1>2, <1>4, ConcatProperties
<1> QED
    BY <1>2, <1>3, <1>5

\* So does carrying it out: the other requests are left.
LEMMA CarryOutTypes ==
    ASSUME QueuesOK, xMessage # <<>>, xMessage' = <<>>, UNCHANGED xComQueue
    PROVE  /\ xMessage[1] \in Messages
           /\ xMessage' \in Seq(Messages) /\ Len(xMessage') <= 1
           /\ AnswerPending' => AnswerPending
<1>1. xMessage[1] \in Messages /\ Len(xMessage) = 1
    BY OneAndRest DEF QueuesOK
<1>2. Requests' = xComQueue
    BY DEF Requests, QueuesOK
<1>3. ASSUME NEW k \in DOMAIN xComQueue
      PROVE  k + 1 \in DOMAIN Requests /\ Requests[k + 1] = xComQueue[k]
    BY OneAndRest DEF Requests, QueuesOK
<1>4. AnswerPending' => AnswerPending
    BY <1>2, <1>3 DEF AnswerPending
<1> QED
    BY <1>1, <1>4

\* Marking the requests does not change whether there are any.
LEMMA MarkedRequests ==
    ASSUME QueuesOK,
           \/ /\ xComQueue' = Released(xComQueue)
              /\ xMessage' = Released(xMessage)
           \/ /\ xComQueue' = Abandoned(xComQueue)
              /\ xMessage' = Abandoned(xMessage)
    PROVE  Requests' # <<>> <=> Requests # <<>>
<1>1. ASSUME NEW q \in Seq(Messages)
      PROVE  /\ Released(q) \in Seq(Messages) /\ Abandoned(q) \in Seq(Messages)
             /\ Released(q) = <<>> <=> q = <<>>
             /\ Abandoned(q) = <<>> <=> q = <<>>
    BY MarkedQueues, EmptySeq
<1>2. /\ xComQueue' \in Seq(Messages) /\ xMessage' \in Seq(Messages)
      /\ xComQueue' = <<>> <=> xComQueue = <<>>
      /\ xMessage' = <<>> <=> xMessage = <<>>
    BY <1>1 DEF QueuesOK
<1> QED
    BY <1>2, ConcatEqualIffEmpty DEF Requests, QueuesOK

\* Every step of the tcpip thread keeps the types.
LEMMA TypeTcpip ==
    ASSUME TypeInv, Tcpip PROVE TypeInv'
<1> USE DEF TcpipTypeOK, ComTypeOK
<1>1. /\ KernelTypeOK /\ QueuesOK /\ TcpipTypeOK /\ ComTypeOK /\ LateOK
      /\ MaxLate \in Nat
    BY TypeParts, ComAssumption DEF ComAssumption
<1>2. SUFFICES /\ KernelTypeOK' /\ QueuesOK' /\ TcpipTypeOK' /\ ComTypeOK'
               /\ LateOK'
    <2>1. (TypeInv <=>
            KernelTypeOK /\ QueuesOK /\ TcpipTypeOK /\ ComTypeOK /\ LateOK)'
        BY TypeParts, PTL
    <2> QED
        BY <2>1
<1>3. ASSUME NEW i \in Items, NEW v \in Values, SetParam(i, v)
      PROVE  /\ KernelTypeOK' /\ QueuesOK' /\ TcpipTypeOK' /\ ComTypeOK'
             /\ LateOK'
    <2>1. [cmd |-> "SET", item |-> i, value |-> v, owned |-> TRUE,
           fresh |-> TRUE] \in Messages
        BY DEF Messages
    <2>2. KernelTypeOK' /\ QueuesOK'
        BY <1>1, <1>3, <2>1, SendTypes DEF SetParam, QueuesOK, comVars
    <2>3. TcpipTypeOK' /\ ComTypeOK'
        BY <1>1, <1>3 DEF SetParam, comVars
    <2>4. LateOK'
        BY <1>1, <1>3 DEF SetParam, LateOK
    <2> QED
        BY <2>2, <2>3, <2>4
<1>4. ASSUME NEW i \in Items, NEW owned \in BOOLEAN, SendGet(i, owned),
             UNCHANGED <<xHttpdQueue, xMessage, late>>
      PROVE  KernelTypeOK' /\ QueuesOK' /\ LateOK'
    <2>1. [cmd |-> "GET", item |-> i, value |-> NoValue, owned |-> owned,
           fresh |-> TRUE] \in Messages
        BY DEF Messages
    <2>2. KernelTypeOK' /\ QueuesOK'
        BY <1>1, <1>4, <2>1, SendTypes DEF SendGet, QueuesOK
    <2>3. LateOK'
        BY <1>1, <1>4 DEF SendGet, LateOK
    <2> QED
        BY <2>2, <2>3
<1>5. CASE RereadParam
    <2>1. param.item \in Items
        BY <1>1
    <2>2. KernelTypeOK' /\ QueuesOK' /\ LateOK'
        BY <1>4, <1>5, <2>1 DEF RereadParam, comVars
    <2>3. TcpipTypeOK' /\ ComTypeOK'
        BY <1>1, <1>5 DEF RereadParam, SendGet, comVars
    <2> QED
        BY <2>2, <2>3
<1>6. ASSUME NEW i \in PageItems, ReadField(i)
      PROVE  /\ KernelTypeOK' /\ QueuesOK' /\ TcpipTypeOK' /\ ComTypeOK'
             /\ LateOK'
    <2>1. i \in Items
        BY ComAssumption DEF ComAssumption
    <2>2. KernelTypeOK' /\ QueuesOK' /\ LateOK'
        BY <1>4, <1>6, <2>1 DEF ReadField, comVars
    <2>3. TcpipTypeOK' /\ ComTypeOK'
        BY <1>1, <1>6, <2>1 DEF ReadField, SendGet, comVars
    <2> QED
        BY <2>2, <2>3
<1>7. CASE SuspendLwip
    <2>1. "lwip" \in Tasks /\ "suspended" \in States
        BY DEF Tasks, States
    <2>2. KernelTypeOK'
        BY <1>1, <1>7, <2>1, KernelTypes DEF SuspendLwip, KernelTypeOK
    <2>3. QueuesOK' /\ TcpipTypeOK' /\ ComTypeOK'
        BY <1>1, <1>7 DEF SuspendLwip, QueuesOK, comVars
    <2>4. LateOK'
        BY <1>1, <1>7 DEF SuspendLwip, LateOK, AnswerPending, Requests, comVars
    <2> QED
        BY <2>2, <2>3, <2>4
<1>8. CASE ReceiveAnswer
    <2>1. /\ Head(xHttpdQueue) \in Messages
          /\ Tail(xHttpdQueue) \in Seq(Messages)
          /\ Len(Tail(xHttpdQueue)) <= HTTPD_QUEUE_SIZE
        BY <1>1, <1>8, ComAssumption
        DEF QueuesOK, ReceiveAnswer, ComAssumption
    <2>2. QueuesOK'
        BY <1>1, <1>8, <2>1, MarkedQueues
        DEF ReceiveAnswer, ReturnValue, QueuesOK
    <2>3. Head(xHttpdQueue).fresh \in BOOLEAN
        BY <2>1 DEF Messages
    <2>4. TcpipTypeOK' /\ ComTypeOK'
        BY <1>1, <1>8, <2>3 DEF ReceiveAnswer, ReturnValue
    <2>5. LateOK'
        BY <1>1, <1>8 DEF ReceiveAnswer, ReturnValue, LateOK
    <2>6. KernelTypeOK'
        BY <1>1, <1>8 DEF ReceiveAnswer, KernelTypeOK, kernelVars
    <2> QED
        BY <2>2, <2>4, <2>5, <2>6
<1>9. ASSUME NEW on \in States, Block("tcpip", on),
             UNCHANGED <<xComQueue, xHttpdQueue, comVars, tcpipVars>>
      PROVE  /\ KernelTypeOK' /\ QueuesOK' /\ TcpipTypeOK' /\ ComTypeOK'
             /\ LateOK'
    <2>1. KernelTypeOK'
        BY <1>1, <1>9, KernelTypes DEF Tasks
    <2>2. QueuesOK' /\ TcpipTypeOK' /\ ComTypeOK'
        BY <1>1, <1>9 DEF QueuesOK, tcpipVars, comVars
    <2>3. LateOK'
        BY <1>1, <1>9 DEF LateOK, AnswerPending, Requests, tcpipVars, comVars
    <2> QED
        BY <2>1, <2>2, <2>3
<1>10. CASE AwaitAnswer
    BY <1>9, <1>10 DEF AwaitAnswer, States
<1>11. CASE GiveUp
    <2>1. QueuesOK'
        BY <1>1, <1>11, MarkedQueues DEF GiveUp, ReturnValue, QueuesOK
    <2>2. TcpipTypeOK' /\ ComTypeOK'
        BY <1>1, <1>11 DEF GiveUp, ReturnValue
    <2>3. LateOK'
        BY <1>1, <1>11 DEF GiveUp, ReturnValue, LateOK
    <2>4. KernelTypeOK'
        BY <1>1, <1>11 DEF GiveUp, KernelTypeOK, kernelVars
    <2> QED
        BY <2>1, <2>2, <2>3, <2>4
<1>12. CASE FinishCgi
    <2>1. QueuesOK'
        BY <1>1, <1>12, MarkedQueues DEF FinishCgi, QueuesOK
    <2>2. TcpipTypeOK' /\ ComTypeOK'
        BY <1>1, <1>12 DEF FinishCgi
    <2>3. LateOK'
        BY <1>1, <1>12 DEF FinishCgi, LateOK
    <2>4. KernelTypeOK'
        BY <1>1, <1>12 DEF FinishCgi, KernelTypeOK, kernelVars
    <2> QED
        BY <2>1, <2>2, <2>3, <2>4
<1>13. CASE AwaitMessage
    BY <1>9, <1>13 DEF AwaitMessage, States
<1> QED
    BY <1>3, <1>5, <1>6, <1>7, <1>8, <1>10, <1>11, <1>12, <1>13 DEF Tcpip

\* Every step of the communication task keeps the types.
LEMMA TypeComTask ==
    ASSUME TypeInv, ComTask PROVE TypeInv'
<1> USE DEF TcpipTypeOK, ComTypeOK
<1>1. /\ KernelTypeOK /\ QueuesOK /\ TcpipTypeOK /\ ComTypeOK /\ LateOK
      /\ "com" \in Tasks /\ "lwip" \in Tasks
    BY TypeParts DEF Tasks
<1>2. SUFFICES /\ KernelTypeOK' /\ QueuesOK' /\ TcpipTypeOK' /\ ComTypeOK'
               /\ LateOK'
    <2>1. (TypeInv <=>
            KernelTypeOK /\ QueuesOK /\ TcpipTypeOK /\ ComTypeOK /\ LateOK)'
        BY TypeParts, PTL
    <2> QED
        BY <2>1
<1>3. UNCHANGED tcpipVars /\ (AnswerPending' => AnswerPending)
        => TcpipTypeOK' /\ LateOK'
    BY <1>1 DEF tcpipVars, LateOK
<1>4. UNCHANGED <<xMessage, xComQueue>> => (AnswerPending' => AnswerPending)
    BY DEF AnswerPending, Requests
<1>9. CASE ReceiveRequest
    <2>1. /\ xComQueue' \in Seq(Messages)
          /\ Len(xComQueue') <= COM_QUEUE_SIZE
          /\ xMessage' \in Seq(Messages) /\ Len(xMessage') <= 1
          /\ Requests' = Requests
        BY <1>1, <1>9, ReceiveTypes DEF ReceiveRequest
    <2>2. AnswerPending' => AnswerPending
        BY <2>1 DEF AnswerPending
    <2>3. TcpipTypeOK' /\ LateOK'
        BY <1>1, <1>3, <1>9, <2>2 DEF ReceiveRequest
    <2>4. KernelTypeOK' /\ QueuesOK' /\ ComTypeOK'
        BY <1>1, <1>9, <2>1
        DEF ReceiveRequest, KernelTypeOK, QueuesOK, kernelVars
    <2> QED
        BY <2>3, <2>4
<1>5. CASE HandleGet
    <2> DEFINE answer(i) == [xMessage[1] EXCEPT !.value = MachineValue(i)]
    <2>1. /\ xMessage[1] \in Messages
          /\ xMessage' \in Seq(Messages) /\ Len(xMessage') <= 1
          /\ AnswerPending' => AnswerPending
        BY <1>1, <1>5, CarryOutTypes DEF HandleGet, DealsWith
    <2>2. PICK i \in Reads(xMessage[1]) :
            Send(xHttpdQueue, HTTPD_QUEUE_SIZE, answer(i), "tcpip", "httpd")
        BY <1>5 DEF HandleGet, AnswerGet
    <2>3. MachineValue(i) \in Values \cup {NoValue}
        BY <1>1 DEF MachineValue
    <2>4. answer(i) \in Messages
        BY <2>1, <2>3 DEF Messages
    <2> HIDE DEF answer
    <2>5. /\ KernelTypeOK'
          /\ xHttpdQueue' \in Seq(Messages)
          /\ Len(xHttpdQueue') <= HTTPD_QUEUE_SIZE
        BY <1>1, <2>2, <2>4, SendTypes
    <2>6. TcpipTypeOK' /\ ComTypeOK' /\ LateOK'
        BY <1>1, <1>3, <1>5, <2>1 DEF HandleGet
    <2>7. QueuesOK'
        BY <1>1, <1>5, <2>1, <2>5 DEF QueuesOK, HandleGet
    <2> QED
        BY <2>5, <2>6, <2>7
<1>6. CASE HandleSet
    <2>1. /\ xMessage[1] \in Messages
          /\ xMessage' \in Seq(Messages) /\ Len(xMessage') <= 1
          /\ AnswerPending' => AnswerPending
        BY <1>1, <1>6, CarryOutTypes DEF HandleSet, DealsWith
    <2>2. PICK i \in Reads(xMessage[1]) :
            store' = IF <<i, xMessage[1].value>> \in Accepts
                     THEN [store EXCEPT ![i] = xMessage[1].value]
                     ELSE store
        BY <1>6 DEF HandleSet, SendToMachine
    <2>3. <<i, xMessage[1].value>> \in Accepts => xMessage[1].value \in Values
        BY ComAssumption DEF ComAssumption
    <2>4. ComTypeOK'
        BY <1>1, <1>6, <2>2, <2>3 DEF HandleSet
    <2>5. TcpipTypeOK' /\ LateOK'
        BY <1>1, <1>3, <1>6, <2>1 DEF HandleSet
    <2>6. KernelTypeOK' /\ QueuesOK'
        BY <1>1, <1>6, <2>1 DEF HandleSet, KernelTypeOK, QueuesOK, kernelVars
    <2> QED
        BY <2>4, <2>5, <2>6
<1>7. CASE ResumeLwip
    <2>1. KernelTypeOK'
        BY <1>1, <1>7, KernelTypes
        DEF ResumeLwip, KernelTypeOK, kernelVars, States
    <2>2. TcpipTypeOK' /\ LateOK'
        BY <1>1, <1>3, <1>4, <1>7 DEF ResumeLwip
    <2>3. QueuesOK' /\ ComTypeOK'
        BY <1>1, <1>7 DEF ResumeLwip, QueuesOK
    <2> QED
        BY <2>1, <2>2, <2>3
<1>8. CASE AwaitRequest
    <2>1. KernelTypeOK'
        BY <1>1, <1>8, KernelTypes DEF AwaitRequest, States
    <2>2. TcpipTypeOK' /\ LateOK'
        BY <1>1, <1>3, <1>4, <1>8 DEF AwaitRequest, comVars
    <2>3. QueuesOK' /\ ComTypeOK'
        BY <1>1, <1>8 DEF AwaitRequest, QueuesOK, comVars
    <2> QED
        BY <2>1, <2>2, <2>3
<1> QED
    BY <1>5, <1>6, <1>7, <1>8, <1>9 DEF ComTask

\* So do the steps of the other tasks, the kernel and the interrupts, which
\* change nothing but the kernel's state and the end of the wait.
LEMMA TypeKernel ==
    ASSUME TypeInv,
           \/ LwipRound
           \/ \E o \in Others : OtherRuns(o)
           \/ SwitchContext
           \/ Interrupts
    PROVE  TypeInv'
<1> USE DEF TcpipTypeOK, ComTypeOK
<1>1. /\ KernelTypeOK /\ QueuesOK /\ TcpipTypeOK /\ ComTypeOK /\ LateOK
      /\ {"tcpip", "com", "lwip"} \subseteq Tasks /\ Others \subseteq Tasks
      /\ MaxLate \in Nat
    BY TypeParts, ComAssumption DEF Tasks, ComAssumption
<1>2. SUFFICES /\ KernelTypeOK' /\ QueuesOK' /\ TcpipTypeOK' /\ ComTypeOK'
               /\ LateOK'
    <2>1. (TypeInv <=>
            KernelTypeOK /\ QueuesOK /\ TcpipTypeOK /\ ComTypeOK /\ LateOK)'
        BY TypeParts, PTL
    <2> QED
        BY <2>1
<1>3. ASSUME UNCHANGED <<xComQueue, xHttpdQueue, comVars>>
      PROVE  /\ QueuesOK' /\ ComTypeOK'
             /\ UNCHANGED tcpipVars => TcpipTypeOK' /\ LateOK'
    BY <1>1, <1>3
    DEF QueuesOK, comVars, tcpipVars, LateOK, AnswerPending, Requests
<1>4. ASSUME NEW t \in Tasks, MakeReady(t), UNCHANGED running
      PROVE  KernelTypeOK'
    <2>1. state' \in [Tasks -> States] /\ order' \subseteq Tasks \X Tasks
        BY <1>1, <1>4, KernelTypes DEF States
    <2> QED
        BY <1>1, <1>4, <2>1 DEF KernelTypeOK
<1>5. CASE LwipRound
    BY <1>1, <1>3, <1>5, KernelTypes DEF LwipRound, States
<1>6. ASSUME NEW o \in Others, OtherRuns(o)
      PROVE  /\ KernelTypeOK' /\ QueuesOK' /\ TcpipTypeOK' /\ ComTypeOK'
             /\ LateOK'
    <2>1. KernelTypeOK'
        <3>1. CASE Block(o, "event")
            BY <1>1, <3>1, KernelTypes DEF States
        <3>2. CASE running' = "none" /\ UNCHANGED <<state, order>>
            BY <1>1, <3>2 DEF KernelTypeOK
        <3> QED
            BY <1>6, <3>1, <3>2 DEF OtherRuns
    <2> QED
        BY <1>3, <1>6, <2>1 DEF OtherRuns
<1>7. CASE SwitchContext
    <2>1. PICK t \in Tasks : running' = t /\ order' = VisitLast(order, Ready, t)
        BY <1>7 DEF SwitchContext
    <2>2. order' \subseteq Tasks \X Tasks
        BY <1>1, <2>1, KernelTypes DEF States
    <2>3. KernelTypeOK'
        BY <1>1, <1>7, <2>1, <2>2 DEF SwitchContext, KernelTypeOK
    <2> QED
        BY <1>3, <1>7, <2>3 DEF SwitchContext
<1>8. CASE AnswerTimeout
    <2>1. KernelTypeOK'
        BY <1>1, <1>4, <1>8 DEF AnswerTimeout, Interrupt
    <2>2. TcpipTypeOK'
        BY <1>1, <1>8 DEF AnswerTimeout
    <2>3. LateOK'
        BY <1>1, <1>8
        DEF AnswerTimeout, Interrupt, LateOK, AnswerPending, Requests, comVars
    <2> QED
        BY <1>3, <1>8, <2>1, <2>2, <2>3 DEF AnswerTimeout, Interrupt
<1>9. ASSUME NEW t \in Tasks, NEW on, Interrupt(t, on), UNCHANGED tcpipVars
      PROVE  /\ KernelTypeOK' /\ QueuesOK' /\ TcpipTypeOK' /\ ComTypeOK'
             /\ LateOK'
    BY <1>3, <1>4, <1>9 DEF Interrupt
<1>10. CASE EthernetInterrupt
    <2>1. KernelTypeOK' /\ TcpipTypeOK'
        BY <1>1, <1>10 DEF EthernetInterrupt, KernelTypeOK
    <2>2. LateOK'
        BY <1>1, <1>10
        DEF EthernetInterrupt, LateOK, AnswerPending, Requests, comVars
    <2> QED
        BY <1>3, <1>10, <2>1, <2>2 DEF EthernetInterrupt
<1> QED
    BY <1>1, <1>5, <1>6, <1>7, <1>8, <1>9, <1>10
    DEF Interrupts, MessageArrives, RequestTimeout, DelayOver, EventArrives

\* Every step keeps the types.
LEMMA TypeStep == TypeInv /\ [Next]_vars => TypeInv'
<1> SUFFICES ASSUME TypeInv, [Next]_vars PROVE TypeInv'
    OBVIOUS
<1>1. CASE UNCHANGED vars
    BY <1>1 DEF vars, kernelVars, comVars, tcpipVars, TypeInv, TypeOK, LateOK,
                AnswerPending, Requests
<1> QED
    BY <1>1, TypeTcpip, TypeComTask, TypeKernel DEF Next

\* And no wait is late at first.
LEMMA TypeInvInit == Init => TypeInv
<1> SUFFICES ASSUME Init PROVE TypeInv
    OBVIOUS
<1>1. TypeOK
    BY TypeInit
<1>2. tcpip_pc = "loop" /\ late = 0
    BY DEF Init
<1>3. LateOK
    BY <1>2, ComAssumption DEF LateOK, ComAssumption
<1> QED
    BY <1>1, <1>3 DEF TypeInv

(***************************************************************************)
(* The types are correct: the queues never hold more than they have room   *)
(* for, and every variable keeps its set of values.                        *)
(***************************************************************************)
THEOREM TypeCorrect == Spec => []TypeOK
<1>1. TypeInv => TypeOK
    BY DEF TypeInv
<1> QED
    BY <1>1, TypeInvInit, TypeStep, PTL DEF Spec

-----------------------------------------------------------------------------
(***************************************************************************)
(* The suspended link monitor is resumed, unless the Ethernet interrupt    *)
(* cuts in: ResumeIsComing is an invariant of ComProtocol, whatever the    *)
(* sizes of the queues, the other tasks and the order in which timeouts    *)
(* and messages come.                                                      *)
(*                                                                         *)
(* ResumeIsComing is not inductive: SuspendLwip establishes it only        *)
(* because the request sent before is not yet carried out.  That the       *)
(* communication task has not done so, although sending woke it and        *)
(* yielded, follows from the kernel's ready list: the tcpip thread, which  *)
(* was in the list, is visited before the task that was just inserted.     *)
(***************************************************************************)

\* The task that runs is ready.
RunningIsReady == running # "none" => state[running] = "ready"

\* The communication task blocks on xComQueue only, and is ready while there
\* is a request or a resume left to do.
ComIsAwake ==
    /\ state["com"] \in {"ready", "comq"}
    /\ Requests # <<>> \/ com_pc = "resume" => state["com"] = "ready"

\* Between sending a request and suspending the link monitor, the tcpip
\* thread comes before the communication task.
SuspendComesFirst ==
    tcpip_pc = "suspend" /\ ~cut =>
        /\ Requests # <<>>
        /\ state["tcpip"] = "ready"
        /\ \/ running = "tcpip"
           \/ running # "com" /\ <<"tcpip", "com">> \in order

\* Whenever the link monitor is suspended, a resume is left to do.
ResumeLeft ==
    state["lwip"] = "suspended" =>
        cut \/ com_pc = "resume" \/ Requests # <<>>

ResumeInv ==
    RunningIsReady /\ ComIsAwake /\ SuspendComesFirst /\ ResumeLeft

-----------------------------------------------------------------------------
\* The four tasks of the protocol are different.
LEMMA Distinct ==
    /\ {"tcpip", "com", "lwip"} \subseteq Tasks
    /\ Others \subseteq Tasks
    /\ \A o \in Others : o \notin {"tcpip", "com", "lwip", "none"}
    /\ \A t \in Tasks : t # "none"
BY ComAssumption DEF ComAssumption, Tasks

\* What a task becoming ready, or blocking, leaves alone: the states of the
\* others, and the order among the others.
LEMMA KernelEffects ==
    ASSUME KernelTypeOK, NEW t \in Tasks
    PROVE  /\ MakeReady(t) =>
                /\ state'[t] = "ready"
                /\ \A u \in Tasks \ {t} : state'[u] = state[u]
                /\ \A u, w \in Tasks \ {t} :
                     <<u, w>> \in order => <<u, w>> \in order'
                /\ \A u \in Ready \ {t} : <<u, t>> \in order'
           /\ \A on : Block(t, on) =>
                /\ state'[t] = on
                /\ running' = "none"
                /\ \A u \in Tasks \ {t} : state'[u] = state[u]
                /\ \A u, w \in Tasks \ {t} :
                     <<u, w>> \in order => <<u, w>> \in order'
BY DEF KernelTypeOK, MakeReady, Block, VisitLast, Removed

\* What sending to the communication task does: it is awake afterwards, and
\* the sender, which ran, keeps its place before it.
LEMMA SendEffects ==
    ASSUME TypeInv, ResumeInv, NEW m \in Messages,
           running = "tcpip", SendToCom(m)
    PROVE  /\ xComQueue' # <<>>
           /\ UNCHANGED xMessage => Requests' # <<>>
           /\ state'["com"] = "ready"
           /\ state'["tcpip"] = "ready"
           /\ state'["lwip"] = state["lwip"]
           /\ \/ running' = "tcpip"
              \/ running' = "none" /\ <<"tcpip", "com">> \in order'
<1>1. KernelTypeOK /\ QueuesOK
    BY TypeParts
<1>2. state["tcpip"] = "ready" /\ "tcpip" \in Ready
    BY Distinct DEF ResumeInv, RunningIsReady, Ready
<1>3. ASSUME xComQueue' \in Seq(Messages), xComQueue' # <<>>,
             UNCHANGED xMessage
      PROVE  Requests' # <<>>
    BY <1>1, <1>3, ConcatEqualIffEmpty DEF Requests, QueuesOK
<1>4. xComQueue' \in Seq(Messages)
    BY <1>1, SendTypes
<1>5. CASE Len(xComQueue) = COM_QUEUE_SIZE /\ xComQueue' = xComQueue
           /\ UNCHANGED kernelVars
    <2>1. xComQueue # <<>>
        BY <1>5, ComAssumption DEF ComAssumption
    <2>2. Requests # <<>>
        BY <1>1, <2>1, ConcatEqualIffEmpty DEF Requests, QueuesOK
    <2> QED
        BY <1>2, <1>3, <1>4, <1>5, <2>1, <2>2
        DEF kernelVars, ResumeInv, ComIsAwake
<1>6. xComQueue' = Append(xComQueue, m) => xComQueue' # <<>>
    BY <1>1 DEF QueuesOK
<1>7. CASE xComQueue' = Append(xComQueue, m) /\ WakeAndYield("com")
    BY <1>1, <1>2, <1>3, <1>4, <1>6, <1>7, Distinct, KernelEffects
    DEF WakeAndYield
<1>8. CASE xComQueue' = Append(xComQueue, m) /\ state["com"] # "comq"
           /\ UNCHANGED kernelVars
    BY <1>2, <1>3, <1>4, <1>6, <1>8 DEF kernelVars, ResumeInv, ComIsAwake
<1> QED
    BY <1>5, <1>7, <1>8 DEF SendToCom, Send

\* The steps of the tcpip thread.
LEMMA ResumeTcpip ==
    ASSUME TypeInv, ResumeInv, Tcpip PROVE ResumeInv'
<1> USE DEF ResumeInv, RunningIsReady, ComIsAwake, SuspendComesFirst,
            ResumeLeft
<1>1. KernelTypeOK /\ QueuesOK /\ TcpipTypeOK
    BY TypeParts
<1>2. ASSUME NEW m \in Messages, running = "tcpip", SendToCom(m),
             UNCHANGED comVars
      PROVE  ResumeInv'
    BY <1>2, SendEffects DEF comVars
<1>3. ASSUME NEW i \in Items, NEW v \in Values, SetParam(i, v)
      PROVE  ResumeInv'
    <2>1. [cmd |-> "SET", item |-> i, value |-> v, owned |-> TRUE,
           fresh |-> TRUE] \in Messages
        BY DEF Messages
    <2> QED
        BY <1>2, <1>3, <2>1 DEF SetParam
<1>4. ASSUME NEW i \in Items, NEW owned \in BOOLEAN, SendGet(i, owned),
             running = "tcpip", UNCHANGED comVars
      PROVE  ResumeInv'
    <2>1. [cmd |-> "GET", item |-> i, value |-> NoValue, owned |-> owned,
           fresh |-> TRUE] \in Messages
        BY DEF Messages
    <2> QED
        BY <1>2, <1>4, <2>1 DEF SendGet
<1>5. CASE RereadParam
    <2>1. param.item \in Items
        BY <1>1 DEF TcpipTypeOK
    <2> QED
        BY <1>4, <1>5, <2>1 DEF RereadParam
<1>6. ASSUME NEW i \in PageItems, ReadField(i) PROVE ResumeInv'
    <2>1. i \in Items
        BY ComAssumption DEF ComAssumption
    <2> QED
        BY <1>4, <1>6, <2>1 DEF ReadField
<1>7. CASE SuspendLwip
    BY <1>1, <1>7, Distinct DEF SuspendLwip, KernelTypeOK, Requests, comVars
<1>8. ASSUME NEW v, ReturnValue(v), UNCHANGED <<kernelVars, com_pc, cut>>
      PROVE  ResumeInv'
    <2>1. Requests' # <<>> <=> Requests # <<>>
        BY <1>1, <1>8, MarkedRequests DEF ReturnValue
    <2> QED
        BY <1>8, <2>1 DEF ReturnValue, kernelVars
<1>9. CASE ReceiveAnswer
    BY <1>8, <1>9 DEF ReceiveAnswer
<1>10. CASE GiveUp
    BY <1>8, <1>10 DEF GiveUp
<1>11. ASSUME NEW on, Block("tcpip", on), tcpip_pc # "suspend",
              UNCHANGED <<xComQueue, comVars, tcpipVars>>
       PROVE  ResumeInv'
    BY <1>1, <1>11, Distinct, KernelEffects DEF Requests, comVars, tcpipVars
<1>12. CASE AwaitAnswer
    BY <1>11, <1>12 DEF AwaitAnswer
<1>13. CASE FinishCgi
    <2>1. Requests' # <<>> <=> Requests # <<>>
        BY <1>1, <1>13, MarkedRequests DEF FinishCgi
    <2> QED
        BY <1>13, <2>1 DEF FinishCgi, kernelVars
<1>14. CASE AwaitMessage
    BY <1>11, <1>14 DEF AwaitMessage
<1> QED
    BY <1>3, <1>5, <1>6, <1>7, <1>9, <1>10, <1>12, <1>13, <1>14 DEF Tcpip

\* The steps of the communication task: it runs, so that the tcpip thread is
\* not between sending and suspending.
LEMMA ResumeComTask ==
    ASSUME TypeInv, ResumeInv, ComTask PROVE ResumeInv'
<1> USE DEF ResumeInv, RunningIsReady, ComIsAwake, SuspendComesFirst,
            ResumeLeft
<1>1. KernelTypeOK /\ QueuesOK
    BY TypeParts
<1>2. /\ running = "com" /\ state["com"] = "ready"
      /\ tcpip_pc # "suspend" \/ cut
    BY Distinct DEF ComTask, ReceiveRequest, HandleGet, HandleSet, DealsWith,
                    ResumeLwip, AwaitRequest
<1>3. CASE ReceiveRequest
    <2>1. Requests' = Requests
        BY <1>1, <1>3, ReceiveTypes DEF ReceiveRequest
    <2> QED
        BY <1>2, <1>3, <2>1 DEF ReceiveRequest, kernelVars, tcpipVars
<1>4. CASE HandleGet
    <2>1. PICK m : Send(xHttpdQueue, HTTPD_QUEUE_SIZE, m, "tcpip", "httpd")
        BY <1>4 DEF HandleGet, AnswerGet
    <2>2. /\ state'["com"] = "ready"
          /\ running' # "none" => running' = "com"
        BY <1>1, <1>2, <2>1, Distinct, KernelEffects
        DEF Send, WakeAndYield, kernelVars
    <2>3. com_pc' = "resume" /\ UNCHANGED <<tcpip_pc, cut>>
        BY <1>4 DEF HandleGet, tcpipVars
    <2> QED
        BY <1>2, <2>2, <2>3
<1>5. CASE HandleSet
    BY <1>2, <1>5 DEF HandleSet, kernelVars, tcpipVars
<1>6. CASE ResumeLwip
    <2>1. /\ state'["com"] = "ready" /\ state'["lwip"] # "suspended"
          /\ running' # "none" => running' = "com"
        BY <1>1, <1>2, <1>6, Distinct, KernelEffects
        DEF ResumeLwip, WakeAndYield, kernelVars
    <2>2. UNCHANGED <<tcpip_pc, cut>>
        BY <1>6 DEF ResumeLwip, tcpipVars
    <2> QED
        BY <1>2, <2>1, <2>2
<1>7. CASE AwaitRequest
    BY <1>1, <1>2, <1>7, Distinct, KernelEffects
    DEF AwaitRequest, Requests, comVars, tcpipVars
<1> QED
    BY <1>3, <1>4, <1>5, <1>6, <1>7 DEF ComTask

\* The steps of the other tasks, of the kernel and of the interrupts.
LEMMA ResumeKernel ==
    ASSUME TypeInv, ResumeInv,
           \/ LwipRound
           \/ \E o \in Others : OtherRuns(o)
           \/ SwitchContext
           \/ Interrupts
    PROVE  ResumeInv'
<1> USE DEF ResumeInv, RunningIsReady, ComIsAwake, SuspendComesFirst,
            ResumeLeft
<1>1. KernelTypeOK
    BY TypeParts
<1>2. ASSUME NEW t \in Tasks \ {"tcpip", "com"}, NEW on, on # "suspended",
             running = t, Block(t, on),
             UNCHANGED <<xComQueue, comVars, tcpipVars>>
      PROVE  ResumeInv'
    BY <1>1, <1>2, Distinct, KernelEffects DEF Requests, comVars, tcpipVars
<1>3. CASE LwipRound
    BY <1>2, <1>3, Distinct DEF LwipRound
<1>4. ASSUME NEW o \in Others, OtherRuns(o) PROVE ResumeInv'
    <2>1. CASE Block(o, "event")
        BY <1>2, <1>4, <2>1, Distinct DEF OtherRuns
    <2>2. CASE running' = "none" /\ UNCHANGED <<state, order>>
        BY <1>4, <2>2, Distinct DEF OtherRuns, Requests, comVars, tcpipVars
    <2> QED
        BY <1>4, <2>1, <2>2 DEF OtherRuns
<1>5. CASE SwitchContext
    <2>1. PICK t \in Tasks : /\ IsNext(order, Ready, t)
                             /\ running' = t
                             /\ order' = VisitLast(order, Ready, t)
        BY <1>5 DEF SwitchContext
    <2>2. state[t] = "ready"
        BY <2>1 DEF IsNext, Ready
    <2>3. /\ UNCHANGED <<state, Requests, com_pc, tcpip_pc, cut>>
          /\ running = "none"
        BY <1>5 DEF SwitchContext, Requests, comVars, tcpipVars
    <2>4. ASSUME tcpip_pc = "suspend", ~cut
          PROVE  \/ running' = "tcpip"
                 \/ running' # "com" /\ <<"tcpip", "com">> \in order'
        <3>1. /\ <<"tcpip", "com">> \in order
              /\ "tcpip" \in Ready \ {"com"}
            BY <2>3, <2>4, Distinct DEF Ready
        <3>2. t # "com"
            BY <2>1, <3>1 DEF IsNext
        <3> QED
            BY <2>1, <3>1, <3>2 DEF VisitLast, Removed
    <2>5. SuspendComesFirst'
        BY <2>3, <2>4
    <2>6. RunningIsReady' /\ ComIsAwake' /\ ResumeLeft'
        BY <2>1, <2>2, <2>3
    <2> QED
        BY <2>5, <2>6
<1>6. ASSUME NEW t \in Tasks, NEW on, on \notin {"ready", "suspended"},
             Interrupt(t, on), UNCHANGED <<tcpip_pc, cut>>
      PROVE  ResumeInv'
    <2>1. /\ state[t] = on /\ MakeReady(t)
          /\ UNCHANGED <<running, Requests, com_pc>>
        BY <1>6 DEF Interrupt, Requests, comVars
    <2>2. /\ running # "none" => running \in Tasks
          /\ state["lwip"] # "suspended" => state'["lwip"] # "suspended"
          /\ \A u \in Tasks : state[u] = "ready" => state'[u] = "ready"
          /\ state'["com"] \in {"ready", "comq"}
        BY <1>1, <2>1, Distinct, KernelEffects DEF KernelTypeOK
    <2>3. ASSUME tcpip_pc = "suspend", ~cut, <<"tcpip", "com">> \in order
          PROVE  <<"tcpip", "com">> \in order'
        <3>1. t # "tcpip" /\ t # "com"
            BY <1>6, <2>1, <2>3
        <3> QED
            BY <1>1, <2>1, <2>3, <3>1, Distinct, KernelEffects
    <2> QED
        BY <1>6, <2>1, <2>2, <2>3, Distinct
<1>7. CASE Interrupts
    <2>1. CASE AnswerTimeout
        BY <1>6, <2>1, Distinct DEF AnswerTimeout
    <2>2. ASSUME NEW t \in Tasks, NEW on, on \notin {"ready", "suspended"},
                 Interrupt(t, on), UNCHANGED tcpipVars
          PROVE  ResumeInv'
        <3>1. UNCHANGED <<tcpip_pc, cut>>
            BY <2>2 DEF tcpipVars
        <3> QED
            BY <1>6, <2>2, <3>1
    <2>3. CASE EthernetInterrupt
        BY <2>3, Distinct DEF EthernetInterrupt, Requests, comVars
    <2> HIDE DEF ResumeInv
    <2> QED
        BY <1>7, <2>1, <2>2, <2>3, Distinct
        DEF Interrupts, MessageArrives, RequestTimeout, DelayOver, EventArrives
<1> QED
    BY <1>3, <1>4, <1>5, <1>7

\* Every step keeps the resume coming.
LEMMA ResumeStep == TypeInv /\ ResumeInv /\ [Next]_vars => ResumeInv'
<1> SUFFICES ASSUME TypeInv, ResumeInv, [Next]_vars PROVE ResumeInv'
    OBVIOUS
<1>1. CASE UNCHANGED vars
    BY <1>1 DEF vars, kernelVars, comVars, tcpipVars, Requests, ResumeInv,
                RunningIsReady, ComIsAwake, SuspendComesFirst, ResumeLeft
<1> QED
    BY <1>1, ResumeTcpip, ResumeComTask, ResumeKernel DEF Next

\* At first no task is suspended.
LEMMA ResumeInit == Init => ResumeInv
<1> SUFFICES ASSUME Init PROVE ResumeInv
    OBVIOUS
<1>1. /\ state["com"] = "comq" /\ state["lwip"] = "delay"
      /\ running = "none" /\ Requests = <<>>
      /\ com_pc = "receive" /\ tcpip_pc = "loop"
    BY Distinct DEF Init, Requests
<1> QED
    BY <1>1 DEF ResumeInv, RunningIsReady, ComIsAwake, SuspendComesFirst,
                ResumeLeft

(***************************************************************************)
(* No resume is lost but by the Ethernet interrupt: whenever               *)
(* io_get_value_from_comtask has suspended the link monitor, vComTask is   *)
(* ready and has a vTaskResume left to do, or the interrupt came between   *)
(* the request and the suspend.                                            *)
(***************************************************************************)
THEOREM ResumeAlwaysComing == Spec => []ResumeIsComing
<1>1. Init => TypeInv
    BY TypeInvInit
<1>2. ResumeInv => ResumeIsComing
    BY DEF ResumeInv, ResumeLeft, ComIsAwake, ResumeIsComing
<1> QED
    BY <1>1, <1>2, ResumeInit, ResumeStep, TypeStep, PTL DEF Spec

-----------------------------------------------------------------------------
(***************************************************************************)
(* As long as no wait ends before its answer, the tcpip thread and the     *)
(* communication task are in step: a read returns the value of its own id, *)
(* a parameter that was read back as set is stored in the machine, and no  *)
(* SET is left in xComQueue when the name it points to is freed.  The one  *)
(* assumption is that xComQueue has room for a SET and the GET that reads  *)
(* it back.                                                                *)
(* So the tasks and queues implement MachineAccess.                        *)
(*                                                                         *)
(* The inductive invariant says what the two queues hold at every point of *)
(* the tcpip thread; ticks, switches and Ethernet interrupts at any time   *)
(* do not matter to it.                                                    *)
(*                                                                         *)
(* The second half says how far the reads may lag after waits that ended   *)
(* before their answers.                                                   *)
(***************************************************************************)

OwnSet(m) == m.cmd = "SET" /\ m.owned

\* The last request is the one for the value of param, nothing but the SET of
\* the same parameter is before it, and there is no answer.
Asked ==
    /\ xHttpdQueue = <<>>
    /\ Len(Requests) \in 1 .. 2
    /\ Requests[Len(Requests)].cmd = "GET"
    /\ Requests[Len(Requests)].fresh
    /\ Requests[Len(Requests)].item = param.item
    /\ param.check => Requests[Len(Requests)].owned
    /\ Len(Requests) = 2 => OwnSet(Requests[1])

\* No request is left, and the one answer is the right one.
Answered ==
    /\ Requests = <<>>
    /\ Len(xHttpdQueue) = 1
    /\ xHttpdQueue[1].fresh
    /\ param.check => xHttpdQueue[1].value = store[param.item]

InTime ==
    /\ inStep
    /\ verdict # "none" => tcpip_pc = "loop"
    /\ verdict = "ok" => store[param.item] = param.value
    /\ tcpip_pc = "loop" => Requests = <<>> /\ xHttpdQueue = <<>>
    /\ tcpip_pc = "get" =>
         /\ xHttpdQueue = <<>>
         /\ Len(Requests) <= 1
         /\ Requests # <<>> => OwnSet(Requests[1])
    /\ tcpip_pc \in {"suspend", "receive"} => Asked \/ Answered

InTimeInv == late = 0 => InTime

-----------------------------------------------------------------------------
\* The requests are a queue of messages, the one dealt with first.
LEMMA RequestsType ==
    ASSUME QueuesOK
    PROVE  /\ Requests \in Seq(Messages) /\ Len(Requests) \in Nat
           /\ Len(xComQueue) \in Nat /\ Len(xComQueue) <= Len(Requests)
           /\ Requests = <<>> <=> xMessage = <<>> /\ xComQueue = <<>>
           /\ Requests = <<>> <=> Len(Requests) = 0
           /\ \A k \in 1 .. Len(Requests) : Requests[k] \in Messages
<1>1. /\ Requests \in Seq(Messages)
      /\ Len(Requests) = Len(xMessage) + Len(xComQueue)
      /\ Len(xMessage) \in Nat /\ Len(xComQueue) \in Nat
    BY ConcatProperties, LenProperties DEF Requests, QueuesOK
<1>2. Requests = <<>> <=> xMessage = <<>> /\ xComQueue = <<>>
    BY ConcatEqualIffEmpty DEF Requests, QueuesOK
<1>3. Requests = <<>> <=> Len(Requests) = 0
    BY <1>1, EmptySeq
<1> QED
    BY <1>1, <1>2, <1>3, ElementOfSeq

\* While there is room, what is sent to the communication task is the last of
\* the requests.
LEMMA SendRequest ==
    ASSUME QueuesOK, Len(Requests) < COM_QUEUE_SIZE, NEW m \in Messages,
           SendToCom(m), UNCHANGED xMessage
    PROVE  /\ Len(Requests') = Len(Requests) + 1
           /\ Requests'[Len(Requests')] = m
           /\ \A k \in 1 .. Len(Requests) : Requests'[k] = Requests[k]
<1>1. COM_QUEUE_SIZE \in Nat /\ Len(xComQueue) < COM_QUEUE_SIZE
    BY RequestsType, ComAssumption DEF ComAssumption
<1>2. xComQueue' = Append(xComQueue, m)
    BY <1>1 DEF SendToCom, Send
<1>3. xComQueue' = xComQueue \o <<m>>
    BY <1>2 DEF QueuesOK
<1>4. <<m>> \in Seq(Messages) /\ Len(<<m>>) = 1 /\ <<m>>[1] = m
    OBVIOUS
<1>5. Requests' = Requests \o <<m>>
    BY <1>3, <1>4, ConcatAssociative DEF Requests, QueuesOK
<1> QED
    BY <1>4, <1>5, RequestsType, ConcatProperties

\* The request that is carried out is the first one.
LEMMA CarryOutRequest ==
    ASSUME QueuesOK, xMessage # <<>>, xMessage' = <<>>, UNCHANGED xComQueue
    PROVE  /\ Len(Requests) \in Nat \ {0}
           /\ xMessage[1] = Requests[1]
           /\ Len(Requests') = Len(Requests) - 1
           /\ \A k \in 1 .. Len(Requests') : Requests'[k] = Requests[k + 1]
<1>1. Requests' = xComQueue
    BY DEF Requests, QueuesOK
<1>2. Len(xMessage) = 1
    BY OneAndRest DEF QueuesOK
<1>3. /\ Len(xComQueue) \in Nat
      /\ Len(Requests) = 1 + Len(xComQueue)
    <2>1. Len(xComQueue) \in Nat
        BY LenProperties DEF QueuesOK
    <2>2. Len(Requests) = Len(xMessage) + Len(xComQueue)
        BY ConcatProperties DEF Requests, QueuesOK
    <2> QED
        BY <1>2, <2>1, <2>2
<1>4. Requests[1] = xMessage[1]
    BY <1>2, <1>3, ConcatProperties DEF Requests, QueuesOK
<1>5. \A k \in 1 .. Len(xComQueue) : Requests[k + 1] = xComQueue[k]
    BY OneAndRest, LenProperties DEF Requests, QueuesOK
<1> QED
    BY <1>1, <1>3, <1>4, <1>5

-----------------------------------------------------------------------------
\* Whatever leaves the requests, the answers, the machine and the tcpip thread
\* alone keeps them in step.
LEMMA InTimeUnchanged ==
    ASSUME InTime,
           UNCHANGED <<Requests, xHttpdQueue, store, tcpip_pc, param, verdict,
                       inStep>>
    PROVE  InTime'
BY DEF InTime, Asked, Answered, OwnSet

\* The steps of the tcpip thread.
LEMMA InTimeTcpip ==
    ASSUME COM_QUEUE_SIZE >= 2, TypeInv, InTimeInv, Tcpip, late' = 0
    PROVE  InTime'
<1>1. /\ QueuesOK /\ TcpipTypeOK
      /\ Requests \in Seq(Messages) /\ Len(Requests) \in Nat
      /\ Requests = <<>> => Len(Requests) = 0
    BY TypeParts, RequestsType
<1>2. late = 0 /\ InTime
    <2>1. late' = late \/ late' = late + 1
        BY DEF Tcpip, SetParam, RereadParam, ReadField, SuspendLwip,
               ReceiveAnswer, AwaitAnswer, GiveUp, FinishCgi, AwaitMessage,
               tcpipVars
    <2> QED
        BY <1>1, <2>1 DEF TcpipTypeOK, InTimeInv
<1>3. ASSUME NEW i \in Items, NEW v \in Values, SetParam(i, v)
      PROVE  InTime'
    <2> DEFINE m == [cmd |-> "SET", item |-> i, value |-> v, owned |-> TRUE,
                     fresh |-> TRUE]
    <2>1. m \in Messages /\ OwnSet(m)
        BY DEF Messages, OwnSet
    <2>2. Len(Requests) = 0 /\ xHttpdQueue = <<>>
        BY <1>1, <1>2, <1>3 DEF SetParam, InTime
    <2>3. SendToCom(m) /\ UNCHANGED <<xMessage, xHttpdQueue, inStep>>
        BY <1>3 DEF SetParam, comVars
    <2>4. tcpip_pc' = "get" /\ verdict' = "none"
        BY <1>3 DEF SetParam
    <2> HIDE DEF m
    <2>5. Len(Requests') = 1 /\ Requests'[1] = m
        BY <1>1, <2>1, <2>2, <2>3, SendRequest, ComAssumption
        DEF ComAssumption
    <2> QED
        BY <1>2, <2>1, <2>2, <2>3, <2>4, <2>5 DEF InTime
<1>4. ASSUME NEW i \in Items, NEW owned \in BOOLEAN, SendGet(i, owned),
             xHttpdQueue = <<>>, Len(Requests) <= 1,
             Requests # <<>> => OwnSet(Requests[1]),
             param'.item = i, param'.check => owned, verdict' = "none",
             UNCHANGED <<xMessage, xHttpdQueue, inStep>>
      PROVE  InTime'
    <2> DEFINE m == [cmd |-> "GET", item |-> i, value |-> NoValue,
                     owned |-> owned, fresh |-> TRUE]
    <2>1. /\ m \in Messages
          /\ m.cmd = "GET" /\ m.fresh /\ m.item = i /\ m.owned = owned
        BY DEF Messages
    <2>2. SendToCom(m) /\ tcpip_pc' = "suspend"
        BY <1>4 DEF SendGet
    <2> HIDE DEF m
    <2>3. /\ Len(Requests') = Len(Requests) + 1
          /\ Requests'[Len(Requests')] = m
          /\ \A k \in 1 .. Len(Requests) : Requests'[k] = Requests[k]
        BY <1>1, <1>4, <2>1, <2>2, SendRequest, ComAssumption
        DEF ComAssumption
    <2>4. Len(Requests') = 2 => OwnSet(Requests'[1])
        <3> SUFFICES ASSUME Len(Requests') = 2 PROVE OwnSet(Requests'[1])
            OBVIOUS
        <3>1. Len(Requests) = 1
            <4>1. Len(Requests) \in Nat /\ Len(Requests) <= 1
                BY <1>1, <1>4
            <4>2. Len(Requests) # 0
                BY <2>3
            <4> QED
                BY <4>1, <4>2
        <3>2. Requests # <<>>
            BY <1>1, <3>1
        <3>3. Requests'[1] = Requests[1]
            BY <2>3, <3>1
        <3> QED
            BY <1>4, <3>2, <3>3
    <2>5. Asked'
        BY <1>1, <1>4, <2>1, <2>3, <2>4 DEF Asked
    <2> QED
        BY <1>2, <1>4, <2>2, <2>5 DEF InTime
<1>5. CASE RereadParam
    BY <1>1, <1>2, <1>4, <1>5 DEF RereadParam, InTime, TcpipTypeOK, comVars
<1>6. ASSUME NEW i \in PageItems, ReadField(i) PROVE InTime'
    <2>1. i \in Items
        BY ComAssumption DEF ComAssumption
    <2>2. param'.item = i /\ ~param'.check
        BY <1>6 DEF ReadField
    <2>3. Requests = <<>> /\ xHttpdQueue = <<>> /\ Len(Requests) <= 1
        BY <1>1, <1>2, <1>6 DEF ReadField, InTime
    <2>4. /\ SendGet(i, FALSE) /\ verdict' = "none"
          /\ UNCHANGED <<xMessage, xHttpdQueue, inStep>>
        BY <1>6 DEF ReadField, comVars
    <2> QED
        BY <1>4, <2>1, <2>2, <2>3, <2>4
<1>7. CASE SuspendLwip
    BY <1>2, <1>7
    DEF SuspendLwip, InTime, Asked, Answered, OwnSet, Requests, comVars
<1>8. CASE ReceiveAnswer
    <2>1. Answered
        BY <1>2, <1>8 DEF ReceiveAnswer, InTime, Asked
    <2>2. /\ Head(xHttpdQueue) = xHttpdQueue[1]
          /\ Tail(xHttpdQueue) \in Seq(Messages) /\ Len(Tail(xHttpdQueue)) = 0
        BY <1>1, <1>8, <2>1 DEF QueuesOK, Answered, ReceiveAnswer
    <2>3. xHttpdQueue' = <<>>
        BY <1>8, <2>2, MarkedQueues, EmptySeq DEF ReceiveAnswer
    <2>4. Requests' = <<>>
        BY <1>1, <1>8, <2>1, MarkedRequests
        DEF ReceiveAnswer, ReturnValue, Answered
    <2>5. inStep' /\ tcpip_pc' = "loop"
        BY <1>8, <2>1, <2>2 DEF ReceiveAnswer, ReturnValue, Answered
    <2>6. verdict' = "ok" => store'[param'.item] = param'.value
        BY <1>8, <2>1, <2>2 DEF ReceiveAnswer, ReturnValue, Answered
    <2> QED
        BY <2>3, <2>4, <2>5, <2>6 DEF InTime
<1>9. CASE GiveUp
    <2>1. xHttpdQueue = <<>> /\ tcpip_pc = "receive"
        BY <1>9 DEF GiveUp
    <2>2. Asked
        BY <1>2, <2>1 DEF InTime, Answered
    <2>3. Requests \in Seq(Messages)
        BY <1>1, RequestsType
    <2>4. Len(Requests) \in DOMAIN Requests
        BY <2>2, <2>3, LenProperties DEF Asked
    <2>5. AnswerPending
        BY <2>2, <2>4 DEF Asked, AnswerPending
    <2> QED
        BY <1>2, <1>9, <2>5 DEF GiveUp
<1>10. CASE AwaitAnswer \/ AwaitMessage
    BY <1>2, <1>10, InTimeUnchanged
    DEF AwaitAnswer, AwaitMessage, tcpipVars, comVars, Requests
<1>11. CASE FinishCgi
    <2>1. Requests = <<>> /\ xHttpdQueue = <<>>
        BY <1>2, <1>11 DEF FinishCgi, InTime
    <2>2. Requests' = <<>>
        BY <1>1, <1>11, <2>1, MarkedRequests DEF FinishCgi
    <2> QED
        BY <1>2, <1>11, <2>1, <2>2, InTimeUnchanged DEF FinishCgi
<1> QED
    BY <1>3, <1>5, <1>6, <1>7, <1>8, <1>9, <1>10, <1>11 DEF Tcpip

\* The steps of the communication task.
LEMMA InTimeComTask ==
    ASSUME TypeInv, InTime, ComTask PROVE InTime'
<1>1. QueuesOK
    BY TypeParts
<1>2. CASE ReceiveRequest
    <2>1. Requests' = Requests
        BY <1>1, <1>2, ReceiveTypes DEF ReceiveRequest
    <2> QED
        BY <1>2, <2>1, InTimeUnchanged DEF ReceiveRequest, tcpipVars
<1>3. ASSUME xMessage # <<>>, xMessage' = <<>>, UNCHANGED xComQueue
      PROVE  /\ Requests # <<>> /\ Len(Requests) \in Nat \ {0}
             /\ xMessage[1] = Requests[1]
             /\ Len(Requests') = Len(Requests) - 1
             /\ \A k \in 1 .. Len(Requests') : Requests'[k] = Requests[k + 1]
             /\ tcpip_pc # "loop" /\ verdict = "none"
             /\ Len(Requests') = 0 => Requests' = <<>>
    <2>1. /\ Len(Requests) \in Nat \ {0} /\ Requests # <<>>
          /\ xMessage[1] = Requests[1]
          /\ Len(Requests') = Len(Requests) - 1
          /\ \A k \in 1 .. Len(Requests') : Requests'[k] = Requests[k + 1]
        BY <1>1, <1>3, CarryOutRequest, RequestsType
    <2>2. Requests' = xComQueue
        BY <1>1, <1>3 DEF Requests, QueuesOK
    <2>3. Len(Requests') = 0 => Requests' = <<>>
        BY <1>1, <2>2, EmptySeq DEF QueuesOK
    <2> QED
        BY <2>1, <2>3 DEF InTime
<1>4. CASE HandleGet
    <2>1. /\ xMessage # <<>> /\ xMessage' = <<>> /\ xMessage[1].cmd = "GET"
          /\ UNCHANGED <<xComQueue, store, tcpipVars>>
        BY <1>4 DEF HandleGet, DealsWith
    <2>2. /\ Requests # <<>> /\ Len(Requests) \in Nat \ {0}
          /\ xMessage[1] = Requests[1] /\ Len(Requests') = Len(Requests) - 1
          /\ tcpip_pc # "loop" /\ verdict = "none"
          /\ Len(Requests') = 0 => Requests' = <<>>
        BY <1>3, <2>1
    <2>3. Len(Requests) = 1 /\ Asked
        BY <1>1, <2>1, <2>2, TypeParts
        DEF InTime, Asked, Answered, OwnSet, TcpipTypeOK
    <2>4. tcpip_pc \in {"suspend", "receive"}
        BY <2>1, <2>2, TypeParts DEF InTime, OwnSet, TcpipTypeOK
    <2>5. PICK i \in Reads(xMessage[1]) :
            Send(xHttpdQueue, HTTPD_QUEUE_SIZE,
                 [xMessage[1] EXCEPT !.value = MachineValue(i)],
                 "tcpip", "httpd")
        BY <1>4 DEF HandleGet, AnswerGet
    <2> DEFINE m == [xMessage[1] EXCEPT !.value = MachineValue(i)]
    <2>6. xHttpdQueue' = <<m>>
        BY <2>3, <2>5, ComAssumption DEF Send, Asked, ComAssumption
    <2>7. xMessage[1] \in Messages
        BY <1>1, <2>1, OneAndRest DEF QueuesOK
    <2>8. m.fresh = xMessage[1].fresh /\ m.value = MachineValue(i)
        BY <2>7 DEF Messages
    <2>9. param.check => MachineValue(i) = store[param.item]
        <3>1. param.item \in Items
            BY TypeParts DEF TcpipTypeOK
        <3> QED
            BY <2>2, <2>3, <3>1 DEF Asked, Reads, MachineValue
    <2>10. Len(xHttpdQueue') = 1 /\ xHttpdQueue'[1] = m
        BY <2>6
    <2> HIDE DEF m
    <2>11. Answered'
        BY <2>1, <2>2, <2>3, <2>8, <2>9, <2>10
        DEF Answered, Asked, tcpipVars
    <2> QED
        BY <2>1, <2>2, <2>4, <2>11 DEF InTime, tcpipVars
<1>5. CASE HandleSet
    <2>1. /\ xMessage # <<>> /\ xMessage' = <<>> /\ xMessage[1].cmd = "SET"
          /\ UNCHANGED <<xComQueue, xHttpdQueue, tcpipVars>>
        BY <1>5 DEF HandleSet, DealsWith
    <2>2. /\ Requests # <<>> /\ Len(Requests) \in Nat \ {0}
          /\ xMessage[1] = Requests[1] /\ Len(Requests') = Len(Requests) - 1
          /\ \A k \in 1 .. Len(Requests') : Requests'[k] = Requests[k + 1]
          /\ tcpip_pc # "loop" /\ verdict = "none"
          /\ Len(Requests') = 0 => Requests' = <<>>
        BY <1>3, <2>1
    <2>3. CASE tcpip_pc = "get"
        BY <2>1, <2>2, <2>3 DEF InTime, tcpipVars
    <2>4. CASE tcpip_pc \in {"suspend", "receive"}
        <3>1. Asked /\ Len(Requests) = 2
            BY <2>1, <2>2, <2>4 DEF InTime, Asked, Answered
        <3>2. Len(Requests') = 1 /\ Requests'[1] = Requests[2]
            BY <2>2, <3>1
        <3>3. Asked'
            BY <2>1, <3>1, <3>2 DEF Asked, tcpipVars
        <3> QED
            BY <2>1, <2>2, <2>4, <3>3 DEF InTime, tcpipVars
    <2> QED
        BY <2>2, <2>3, <2>4, TypeParts DEF TcpipTypeOK
<1>6. CASE ResumeLwip \/ AwaitRequest
    BY <1>6, InTimeUnchanged
    DEF ResumeLwip, AwaitRequest, Requests, comVars, tcpipVars
<1> QED
    BY <1>2, <1>4, <1>5, <1>6 DEF ComTask

\* Every step keeps the two in step, while no wait was late.
LEMMA InTimeStep ==
    ASSUME COM_QUEUE_SIZE >= 2, TypeInv, InTimeInv, [Next]_vars
    PROVE  InTimeInv'
<1> SUFFICES ASSUME late' = 0 PROVE InTime'
    BY DEF InTimeInv
<1>1. CASE Tcpip
    BY <1>1, InTimeTcpip
<1>2. CASE ComTask
    <2>1. late = 0
        BY <1>2 DEF ComTask, ReceiveRequest, HandleGet, HandleSet, ResumeLwip,
                    AwaitRequest, tcpipVars
    <2> QED
        BY <1>2, <2>1, InTimeComTask DEF InTimeInv
<1>3. CASE \/ LwipRound
           \/ \E o \in Others : OtherRuns(o)
           \/ SwitchContext
           \/ Interrupts
           \/ UNCHANGED vars
    <2>1. UNCHANGED <<xComQueue, xHttpdQueue, comVars, tcpip_pc, param,
                      verdict, inStep, late>>
        BY <1>3 DEF LwipRound, OtherRuns, SwitchContext, Interrupts,
                    AnswerTimeout, MessageArrives, RequestTimeout, DelayOver,
                    EventArrives, EthernetInterrupt, Interrupt, tcpipVars, vars
    <2> QED
        BY <2>1, InTimeUnchanged DEF InTimeInv, Requests, comVars
<1> QED
    BY <1>1, <1>2, <1>3 DEF Next

\* At first nothing is asked.
LEMMA InTimeInit == Init => InTimeInv
<1> SUFFICES ASSUME Init PROVE InTime
    BY DEF InTimeInv
<1>1. /\ xComQueue = <<>> /\ xMessage = <<>> /\ xHttpdQueue = <<>>
      /\ tcpip_pc = "loop" /\ verdict = "none" /\ inStep
    BY DEF Init
<1> QED
    BY <1>1 DEF InTime, Requests

(***************************************************************************)
(* Without late waits, and with room in xComQueue for two requests, the    *)
(* value that io_get_value_from_comtask returns is the answer to its own   *)
(* request.                                                                *)
(***************************************************************************)
THEOREM InStep ==
    ASSUME COM_QUEUE_SIZE >= 2 PROVE Spec => []InStepUnlessLate
<1>1. InTimeInv => InStepUnlessLate
    BY DEF InTimeInv, InTime, InStepUnlessLate
<1>2. TypeInv /\ InTimeInv /\ [Next]_vars => InTimeInv'
    BY InTimeStep
<1> QED
    BY <1>1, <1>2, InTimeInit, TypeInvInit, TypeStep, PTL DEF Spec

(***************************************************************************)
(* Under the same assumptions a parameter that SetCGIHandler has read back *)
(* as the value it has set is stored in the machine.                       *)
(***************************************************************************)
THEOREM Verified ==
    ASSUME COM_QUEUE_SIZE >= 2 PROVE Spec => []VerifiedUnlessLate
<1>1. InTimeInv => VerifiedUnlessLate
    BY DEF InTimeInv, InTime, VerifiedUnlessLate
<1>2. TypeInv /\ InTimeInv /\ [Next]_vars => InTimeInv'
    BY InTimeStep
<1> QED
    BY <1>1, <1>2, InTimeInit, TypeInvInit, TypeStep, PTL DEF Spec

(***************************************************************************)
(* And vComTask has carried out every SET before http_recv frees the       *)
(* request that its name is part of.                                       *)
(***************************************************************************)
THEOREM SetsOwnItem ==
    ASSUME COM_QUEUE_SIZE >= 2 PROVE Spec => []SetsOwnItemUnlessLate
<1>1. TypeInv /\ InTimeInv => SetsOwnItemUnlessLate
    <2> SUFFICES ASSUME TypeInv, InTime, NEW k \in DOMAIN Requests,
                        Requests[k].cmd = "SET"
                 PROVE  Requests[k].owned
        BY DEF InTimeInv, SetsOwnItemUnlessLate
    <2>1. /\ QueuesOK /\ TcpipTypeOK
          /\ k \in 1 .. Len(Requests) /\ Len(Requests) \in Nat
          /\ Requests # <<>>
        BY TypeParts, RequestsType, LenProperties, EmptySeq
    <2>2. CASE tcpip_pc = "get"
        <3>1. k = 1
            BY <2>1, <2>2 DEF InTime
        <3> QED
            BY <2>1, <2>2, <3>1 DEF InTime, OwnSet
    <2>3. CASE tcpip_pc \in {"suspend", "receive"}
        <3>1. Asked
            BY <2>1, <2>3 DEF InTime, Answered
        <3>2. k = 1 /\ Len(Requests) = 2
            BY <2>1, <3>1 DEF Asked
        <3> QED
            BY <3>1, <3>2 DEF Asked, OwnSet
    <2> QED
        BY <2>1, <2>2, <2>3 DEF InTime, TcpipTypeOK
<1>2. TypeInv /\ InTimeInv /\ [Next]_vars => InTimeInv'
    BY InTimeStep
<1> QED
    BY <1>1, <1>2, InTimeInit, TypeInvInit, TypeStep, PTL DEF Spec

-----------------------------------------------------------------------------
(***************************************************************************)
(* The steps of the tcpip thread, the communication task, the queues and   *)
(* the kernel are those of MachineAccess.                                  *)
(***************************************************************************)

\* SetCGIHandler is the only one that asks.
Checks == tcpip_pc # "loop" => param.check

RequestsOK ==
    /\ Requests \in Seq(Messages)
    /\ Len(Requests) \in Nat /\ DOMAIN Requests = 1 .. Len(Requests)
    /\ Requests = <<>> <=> Len(Requests) = 0

\* An answer is to come from the request to the answer.
PendingFits ==
    /\ tcpip_pc \in {"loop", "get"} => ~AnswerPending
    /\ Asked => AnswerPending
    /\ Answered => ~AnswerPending

InAccess == TypeInv /\ InTime /\ Checks /\ RequestsOK /\ PendingFits

\* Nothing is late when nothing may be.
LEMMA AccessFits ==
    ASSUME MaxLate = 0
    PROVE  TypeInv /\ InTimeInv /\ Checks => InAccess
<1> SUFFICES ASSUME TypeInv, InTimeInv, Checks PROVE InAccess
    OBVIOUS
<1>1. late = 0
    BY TypeParts DEF LateOK
<1>2. InTime /\ QueuesOK
    BY <1>1, TypeParts DEF InTimeInv
<1>3. RequestsOK
    BY <1>2, RequestsType, LenProperties DEF RequestsOK
<1>4. ASSUME tcpip_pc \in {"loop", "get"} PROVE ~AnswerPending
    <2>1. Requests # <<>> => Len(Requests) <= 1 /\ OwnSet(Requests[1])
        BY <1>2, <1>4 DEF InTime
    <2> QED
        BY <1>3, <2>1 DEF AnswerPending, OwnSet, RequestsOK
<1>5. ASSUME Asked PROVE AnswerPending
    BY <1>3, <1>5 DEF Asked, AnswerPending, RequestsOK
<1>6. ASSUME Answered PROVE ~AnswerPending
    BY <1>3, <1>6 DEF Answered, AnswerPending, RequestsOK
<1> QED
    BY <1>2, <1>3, <1>4, <1>5, <1>6 DEF InAccess, PendingFits

-----------------------------------------------------------------------------
\* What leaves the requests, the answers and the machine alone is no step of
\* MachineAccess.
LEMMA AccessStutters ==
    ASSUME UNCHANGED <<Requests, xHttpdQueue, store, param>>,
           \/ tcpip_pc' = tcpip_pc
           \/ tcpip_pc = "suspend" /\ tcpip_pc' = "receive"
    PROVE  UNCHANGED Access!accessVars
    BY DEF Access!accessVars, WritesUnderWay, ReadUnderWay, AnswerPending

\* SetCGIHandler issues a set.
LEMMA AccessWrites ==
    ASSUME COM_QUEUE_SIZE >= 2, InAccess, InAccess',
           NEW i \in Items, NEW v \in Values, SetParam(i, v)
    PROVE  Access!Write(i, v)
<1> DEFINE m == [cmd |-> "SET", item |-> i, value |-> v, owned |-> TRUE,
                 fresh |-> TRUE]
<1>1. m \in Messages /\ m.item = i /\ m.value = v
    BY DEF Messages
<1>2. /\ QueuesOK /\ tcpip_pc = "loop" /\ tcpip_pc' = "get"
      /\ SendToCom(m) /\ UNCHANGED <<xMessage, store>>
    BY TypeParts DEF SetParam, comVars, InAccess
<1>3. Requests = <<>> /\ Len(Requests) = 0
    BY <1>2, RequestsType DEF InAccess, InTime
<1> HIDE DEF m
<1>4. Len(Requests') = 1 /\ Requests'[1] = m
    BY <1>1, <1>2, <1>3, SendRequest, ComAssumption DEF ComAssumption
<1>5. ~AnswerPending /\ ~AnswerPending'
    BY <1>2 DEF InAccess, PendingFits
<1>6. WritesUnderWay = <<>>
    BY <1>3, <1>5 DEF WritesUnderWay
<1>7. WritesUnderWay' = << <<i, v>> >>
    <2>1. WritesUnderWay' = [k \in 1 .. 1 |-> <<Requests'[k].item, Requests'[k].value>>]
        BY <1>4, <1>5, Zenon DEF WritesUnderWay
    <2> QED
        BY <1>1, <1>4, <2>1
<1>8. ReadUnderWay = Access!NoRead /\ ReadUnderWay' = Access!NoRead
    BY <1>2 DEF ReadUnderWay, Access!NoRead
<1> QED
    BY <1>2, <1>6, <1>7, <1>8 DEF Access!Write

\* io_get_value_from_comtask issues a read.
LEMMA AccessAsks ==
    ASSUME COM_QUEUE_SIZE >= 2, InAccess, InAccess', RereadParam
    PROVE  Access!Ask(param.item)
<1> DEFINE m == [cmd |-> "GET", item |-> param.item, value |-> NoValue,
                 owned |-> TRUE, fresh |-> TRUE]
<1>1. m \in Messages /\ m.cmd = "GET" /\ m.fresh
    BY TypeParts DEF Messages, InAccess, TcpipTypeOK
<1>2. /\ QueuesOK /\ tcpip_pc = "get" /\ tcpip_pc' = "suspend"
      /\ SendToCom(m) /\ UNCHANGED <<xMessage, store, param>>
    BY TypeParts DEF RereadParam, SendGet, comVars, InAccess
<1>3. Len(Requests) <= 1 /\ Len(Requests) \in Nat /\ Len(Requests') \in Nat
    BY <1>2 DEF InAccess, InTime, RequestsOK
<1> HIDE DEF m
<1>4. /\ Len(Requests') = Len(Requests) + 1
      /\ Requests'[Len(Requests')] = m
      /\ \A k \in 1 .. Len(Requests) : Requests'[k] = Requests[k]
    <2>1. Len(Requests) < COM_QUEUE_SIZE /\ UNCHANGED xMessage
        BY <1>2, <1>3, ComAssumption DEF ComAssumption
    <2> QED
        BY <1>1, <1>2, <2>1, SendRequest
<1>5. ~AnswerPending
    BY <1>2 DEF InAccess, PendingFits
<1>6. AnswerPending'
    <2>1. Len(Requests') \in DOMAIN Requests'
        BY <1>3, <1>4 DEF InAccess, RequestsOK
    <2> QED
        BY <1>1, <1>4, <2>1 DEF AnswerPending
<1>7. WritesUnderWay' = WritesUnderWay
    <2>1. WritesUnderWay' = [k \in 1 .. Len(Requests) |->
                                <<Requests'[k].item, Requests'[k].value>>]
        BY <1>3, <1>4, <1>6 DEF WritesUnderWay
    <2>2. WritesUnderWay = [k \in 1 .. Len(Requests) |->
                                <<Requests[k].item, Requests[k].value>>]
        BY <1>5 DEF WritesUnderWay
    <2> QED
        BY <1>4, <2>1, <2>2
<1>8. ReadUnderWay = Access!NoRead
    BY <1>2 DEF ReadUnderWay, Access!NoRead
<1>9. ReadUnderWay' = [status |-> "asked", item |-> param.item]
    BY <1>2, <1>6 DEF ReadUnderWay
<1> QED
    BY <1>2, <1>7, <1>8, <1>9 DEF Access!Ask

\* Taking the answer out of xHttpdQueue ends the read.
LEMMA AccessReturns ==
    ASSUME InAccess, InAccess', ReceiveAnswer
    PROVE  Access!Return
<1>1. /\ Answered /\ tcpip_pc = "receive" /\ tcpip_pc' = "loop"
      /\ UNCHANGED store
    BY DEF InAccess, InTime, Asked, ReceiveAnswer, ReturnValue
<1>2. Requests = <<>> /\ Requests' = <<>>
    BY <1>1 DEF InAccess, Answered, InTime
<1>3. /\ ~AnswerPending /\ ~AnswerPending'
      /\ Len(Requests) = 0 /\ Len(Requests') = 0
    BY <1>1, <1>2 DEF InAccess, PendingFits, RequestsOK
<1>4. WritesUnderWay = <<>> /\ WritesUnderWay' = <<>>
    BY <1>3 DEF WritesUnderWay
<1>5. ReadUnderWay.status = "answered"
    BY <1>1, <1>3 DEF ReadUnderWay
<1>6. ReadUnderWay' = Access!NoRead
    BY <1>1 DEF ReadUnderWay, Access!NoRead
<1> QED
    BY <1>1, <1>4, <1>5, <1>6 DEF Access!Return

\* The communication task answers only when no set is left before the read.
LEMMA AccessAnswers ==
    ASSUME InAccess, InAccess', HandleGet
    PROVE  Access!Answer
<1>1. /\ QueuesOK /\ xMessage # <<>> /\ xMessage' = <<>> /\ xMessage[1].cmd = "GET"
      /\ UNCHANGED <<xComQueue, store, tcpip_pc, param>>
    BY TypeParts DEF HandleGet, DealsWith, tcpipVars, InAccess
<1>2. /\ Len(Requests) \in Nat \ {0} /\ xMessage[1] = Requests[1]
      /\ Len(Requests') = Len(Requests) - 1
    BY <1>1, CarryOutRequest
<1>3. tcpip_pc \in {"suspend", "receive"} /\ Asked /\ Len(Requests) = 1
    BY <1>1, <1>2, RequestsType, TypeParts
    DEF InAccess, InTime, Asked, Answered, OwnSet, TcpipTypeOK
<1>4. Answered'
    BY <1>1, <1>2, <1>3 DEF InAccess, InTime, Asked
<1>5. AnswerPending /\ ~AnswerPending'
    BY <1>3, <1>4 DEF InAccess, PendingFits
<1>6. WritesUnderWay = <<>> /\ WritesUnderWay' = <<>>
    BY <1>2, <1>3, <1>5 DEF WritesUnderWay
<1>7. ReadUnderWay = [status |-> "asked", item |-> param.item]
    BY <1>3, <1>5 DEF ReadUnderWay
<1>8. Head(xHttpdQueue').value = store[param.item]
    <2>1. xHttpdQueue'[1].value = store[param.item]
        BY <1>1, <1>3, <1>4 DEF Answered, InAccess, Checks
    <2>2. Head(xHttpdQueue') = xHttpdQueue'[1]
        OBVIOUS
    <2> QED
        BY <2>1, <2>2
<1>9. ReadUnderWay' = [status |-> "answered", item |-> param.item,
                       value |-> store[param.item]]
    BY <1>1, <1>3, <1>5, <1>8 DEF ReadUnderWay
<1> QED
    BY <1>1, <1>6, <1>7, <1>9 DEF Access!Answer

\* It carries out the oldest set.
LEMMA AccessApplies ==
    ASSUME InAccess, InAccess', HandleSet
    PROVE  Access!Apply
<1>1. /\ QueuesOK /\ xMessage # <<>> /\ xMessage' = <<>> /\ xMessage[1].cmd = "SET"
      /\ SendToMachine
      /\ UNCHANGED <<xComQueue, xHttpdQueue, tcpip_pc, param>>
    BY TypeParts DEF HandleSet, DealsWith, tcpipVars, InAccess
<1>2. /\ Len(Requests) \in Nat \ {0} /\ xMessage[1] = Requests[1]
      /\ Len(Requests') = Len(Requests) - 1
      /\ \A k \in 1 .. Len(Requests') : Requests'[k] = Requests[k + 1]
    BY <1>1, CarryOutRequest
<1>3. /\ OwnSet(Requests[1]) /\ UNCHANGED ReadUnderWay
      /\ \/ Len(Requests) = 1 /\ ~AnswerPending /\ ~AnswerPending'
         \/ Len(Requests) = 2 /\ AnswerPending /\ AnswerPending'
    <2>1. CASE tcpip_pc = "get"
        <3>1. ~AnswerPending /\ ~AnswerPending'
            BY <1>1, <2>1 DEF InAccess, PendingFits
        <3>2. Len(Requests) <= 1 /\ OwnSet(Requests[1])
            BY <1>2, <2>1 DEF InAccess, InTime, RequestsOK
        <3>3. Len(Requests) = 1
            BY <1>2, <3>2
        <3>4. UNCHANGED ReadUnderWay
            BY <1>1, <2>1 DEF ReadUnderWay
        <3> QED
            BY <3>1, <3>2, <3>3, <3>4
    <2>2. CASE tcpip_pc \in {"suspend", "receive"}
        <3>1. Asked /\ Len(Requests) = 2
            BY <1>1, <1>2, <2>2 DEF InAccess, InTime, Asked, Answered, RequestsOK
        <3>2. OwnSet(Requests[1])
            BY <3>1 DEF Asked
        <3>3. Asked'
            <4>1. Len(Requests') = 1
                BY <1>2, <3>1
            <4> QED
                BY <1>1, <2>2, <4>1 DEF InAccess, InTime, Answered, RequestsOK
        <3>4. AnswerPending /\ AnswerPending'
            BY <3>1, <3>3 DEF InAccess, PendingFits
        <3>5. UNCHANGED ReadUnderWay
            BY <1>1, <3>4 DEF ReadUnderWay
        <3> QED
            BY <3>1, <3>2, <3>4, <3>5
    <2>3. tcpip_pc # "loop"
        BY <1>2 DEF InAccess, InTime, RequestsOK
    <2> QED
        BY <2>1, <2>2, <2>3, TypeParts DEF InAccess, TcpipTypeOK
<1> DEFINE w == <<Requests[1].item, Requests[1].value>>
<1>4. WritesUnderWay = <<w>>
    <2>1. (IF AnswerPending THEN Len(Requests) - 1 ELSE Len(Requests)) = 1
        BY <1>3
    <2>2. WritesUnderWay = [k \in 1 .. 1 |-> <<Requests[k].item, Requests[k].value>>]
        BY <2>1, Zenon DEF WritesUnderWay
    <2> QED
        BY <2>2
<1>5. WritesUnderWay' = <<>>
    BY <1>2, <1>3 DEF WritesUnderWay
<1>6. store' = IF w \in Accepts THEN [store EXCEPT ![w[1]] = w[2]] ELSE store
    BY <1>1, <1>2, <1>3 DEF SendToMachine, Reads, OwnSet
<1> HIDE DEF w
<1>7. <<w>> # <<>> /\ Head(<<w>>) = w /\ Tail(<<w>>) = <<>>
    OBVIOUS
<1> QED
    BY <1>3, <1>4, <1>5, <1>6, <1>7, Zenon DEF Access!Apply

-----------------------------------------------------------------------------
\* Each step is one of MachineAccess, or none.
LEMMA AccessStep ==
    ASSUME COM_QUEUE_SIZE >= 2, MaxLate = 0, PageItems = {},
           InAccess, InAccess', [Next]_vars
    PROVE  [Access!Next]_(Access!accessVars)
<1> USE DEF Access!Next
<1>1. CASE Tcpip
    <2>1. ASSUME NEW i \in Items, NEW v \in Values, SetParam(i, v)
          PROVE  Access!Next
        BY <2>1, AccessWrites
    <2>2. CASE RereadParam
        <3>1. param.item \in Items
            BY TypeParts DEF InAccess, TcpipTypeOK
        <3> QED
            BY <2>2, <3>1, AccessAsks
    <2>3. CASE ReceiveAnswer
        BY <2>3, AccessReturns
    <2>4. ~GiveUp
        <3>1. ASSUME GiveUp PROVE FALSE
            <4>1. tcpip_pc = "receive" /\ timedOut /\ AnswerPending
                BY <3>1 DEF GiveUp, InAccess, InTime, Answered, PendingFits
            <4> QED
                BY <4>1, TypeParts DEF InAccess, LateOK
        <3> QED
            BY <3>1
    <2>5. CASE SuspendLwip \/ AwaitAnswer \/ AwaitMessage
        BY <2>5, AccessStutters
        DEF SuspendLwip, AwaitAnswer, AwaitMessage, Requests, comVars, tcpipVars
    <2>6. CASE FinishCgi
        <3>1. Requests = <<>> /\ Requests' = <<>>
            BY <2>6 DEF InAccess, InTime, FinishCgi
        <3> QED
            BY <2>6, <3>1, AccessStutters DEF FinishCgi
    <2> QED
        BY <1>1, <2>1, <2>2, <2>3, <2>4, <2>5, <2>6 DEF Tcpip
<1>2. CASE ComTask
    <2>1. CASE HandleGet
        BY <2>1, AccessAnswers
    <2>2. CASE HandleSet
        BY <2>2, AccessApplies
    <2>3. CASE ReceiveRequest
        <3>1. Requests' = Requests
            BY <2>3, ReceiveTypes, TypeParts DEF ReceiveRequest, InAccess
        <3> QED
            BY <2>3, <3>1, AccessStutters DEF ReceiveRequest, tcpipVars
    <2>4. CASE ResumeLwip \/ AwaitRequest
        BY <2>4, AccessStutters
        DEF ResumeLwip, AwaitRequest, Requests, comVars, tcpipVars
    <2> QED
        BY <1>2, <2>1, <2>2, <2>3, <2>4 DEF ComTask
<1>3. CASE \/ LwipRound
           \/ \E o \in Others : OtherRuns(o)
           \/ SwitchContext
           \/ Interrupts
           \/ UNCHANGED vars
    <2>1. UNCHANGED <<xComQueue, xHttpdQueue, comVars, tcpip_pc, param>>
        BY <1>3 DEF LwipRound, OtherRuns, SwitchContext, Interrupts,
                    AnswerTimeout, MessageArrives, RequestTimeout, DelayOver,
                    EventArrives, EthernetInterrupt, Interrupt, tcpipVars, vars
    <2> QED
        BY <2>1, AccessStutters DEF Requests, comVars
<1> QED
    BY <1>1, <1>2, <1>3 DEF Next

\* Without input fields every read is one of SetCGIHandler's.
LEMMA ChecksStep ==
    ASSUME PageItems = {}
    PROVE  Checks /\ [Next]_vars => Checks'
<1> SUFFICES ASSUME Checks, [Next]_vars PROVE Checks'
    OBVIOUS
<1>1. ASSUME NEW i \in Items, NEW v \in Values, SetParam(i, v) PROVE Checks'
    BY <1>1 DEF SetParam, Checks
<1>2. CASE ReceiveAnswer \/ GiveUp
    BY <1>2 DEF ReceiveAnswer, GiveUp, ReturnValue, Checks
<1>3. CASE RereadParam
    BY <1>3 DEF RereadParam, Checks
<1>4. CASE SuspendLwip \/ AwaitAnswer \/ FinishCgi \/ AwaitMessage
    BY <1>4 DEF SuspendLwip, AwaitAnswer, FinishCgi, AwaitMessage, tcpipVars, Checks
<1>5. CASE ComTask
    BY <1>5 DEF ComTask, ReceiveRequest, HandleGet, HandleSet, ResumeLwip,
                AwaitRequest, tcpipVars, Checks
<1>6. CASE \/ LwipRound
           \/ \E o \in Others : OtherRuns(o)
           \/ SwitchContext
           \/ Interrupts
           \/ UNCHANGED vars
    BY <1>6 DEF LwipRound, OtherRuns, SwitchContext, Interrupts,
                AnswerTimeout, MessageArrives, RequestTimeout, DelayOver,
                EventArrives, EthernetInterrupt, Interrupt, tcpipVars, vars, Checks
<1> QED
    BY <1>1, <1>2, <1>3, <1>4, <1>5, <1>6 DEF Next, Tcpip

\* The machine starts with any values, and nothing is under way.
LEMMA AccessInit == Init => Access!Init /\ Checks
<1> SUFFICES ASSUME Init PROVE Access!Init /\ Checks
    OBVIOUS
<1>1. Requests = <<>> /\ store \in [Items -> Values] /\ tcpip_pc = "loop"
    BY DEF Init, Requests
<1>2. WritesUnderWay = <<>> /\ ReadUnderWay = Access!NoRead
    BY <1>1 DEF WritesUnderWay, ReadUnderWay, AnswerPending, Access!NoRead
<1> QED
    BY <1>1, <1>2 DEF Access!Init, Checks

(***************************************************************************)
(* For SetCGIHandler's requests, without late waits and with room in       *)
(* xComQueue for two of them, the two queues and the tasks (io.c,          *)
(* comTask.c) do what MachineAccess says: the machine carries out the sets *)
(* in the order in which they were issued, and a read returns the value    *)
(* that is stored once all sets before it are carried out.                 *)
(***************************************************************************)
THEOREM ImplementsAccess ==
    ASSUME COM_QUEUE_SIZE >= 2, MaxLate = 0, PageItems = {}
    PROVE  Spec => Access!SafeSpec
<1>1. TypeInv /\ InTimeInv /\ [Next]_vars => InTimeInv'
    BY InTimeStep
<1>2. InAccess /\ InAccess' /\ [Next]_vars => [Access!Next]_(Access!accessVars)
    BY AccessStep
<1>3. TypeInv /\ InTimeInv /\ Checks => InAccess
    BY AccessFits
<1>4. Checks /\ [Next]_vars => Checks'
    BY ChecksStep
<1> QED
    BY <1>1, <1>2, <1>3, <1>4, AccessInit, InTimeInit, TypeInvInit, TypeStep, PTL
    DEF Spec, Access!SafeSpec

-----------------------------------------------------------------------------
(***************************************************************************)
(* How far the reads may lag: a wait that ends before its answer leaves    *)
(* the answer behind, and nothing else does.  (The bound on late waits is  *)
(* any number.)                                                            *)
(*                                                                         *)
(* The invariant counts the GETs and answers under way, those the tcpip    *)
(* thread waits for and those it no longer waits for.  As every SET is     *)
(* followed by the GET that reads it back, they bound the requests in      *)
(* xComQueue, too.                                                         *)
(***************************************************************************)
\* The GETs and answers of a queue that are waited for, or no longer are.
Gets(q, fresh) == {k \in DOMAIN q : q[k].cmd = "GET" /\ q[k].fresh = fresh}

Count(q, fresh) == Cardinality(Gets(q, fresh))

IsGet(m, fresh) == m.cmd = "GET" /\ m.fresh = fresh

-----------------------------------------------------------------------------
\* Only finitely many messages are in a queue.
LEMMA CountNat ==
    ASSUME NEW q \in Seq(Messages), NEW f \in BOOLEAN
    PROVE  IsFiniteSet(Gets(q, f)) /\ Count(q, f) \in Nat
<1>1. Gets(q, f) \in SUBSET (1 .. Len(q)) /\ Len(q) \in Nat
    BY DEF Gets
<1>2. IsFiniteSet(1 .. Len(q))
    BY <1>1, FS_Interval
<1>3. IsFiniteSet(Gets(q, f))
    BY <1>1, <1>2, FS_Subset
<1> QED
    BY <1>3, FS_CardinalityType DEF Count

\* An empty queue holds none.
LEMMA CountEmpty == \A f \in BOOLEAN : Count(<<>>, f) = 0
<1>1. \A f \in BOOLEAN : Gets(<<>>, f) = {}
    BY DEF Gets
<1> QED
    BY <1>1, FS_EmptySet DEF Count

\* Another message at the end counts as one.
LEMMA CountAppend ==
    ASSUME NEW q \in Seq(Messages), NEW m \in Messages, NEW f \in BOOLEAN
    PROVE  Count(Append(q, m), f) =
               IF IsGet(m, f) THEN Count(q, f) + 1 ELSE Count(q, f)
<1> DEFINE n == Len(q) + 1
<1>1. /\ Len(q) \in Nat /\ DOMAIN q = 1 .. Len(q)
      /\ DOMAIN Append(q, m) = 1 .. n /\ Append(q, m)[n] = m
      /\ \A k \in 1 .. Len(q) : Append(q, m)[k] = q[k]
    OBVIOUS
<1>2. n \notin Gets(q, f)
    BY <1>1 DEF Gets
<1>3. Gets(Append(q, m), f) = IF IsGet(m, f) THEN Gets(q, f) \cup {n} ELSE Gets(q, f)
    BY <1>1 DEF Gets, IsGet
<1> QED
    BY <1>2, <1>3, CountNat, FS_AddElement DEF Count

\* So does the one at the head.
LEMMA CountTail ==
    ASSUME NEW q \in Seq(Messages), NEW f \in BOOLEAN, q # <<>>
    PROVE  Count(q, f) =
               IF IsGet(Head(q), f) THEN Count(Tail(q), f) + 1
                                    ELSE Count(Tail(q), f)
<1> DEFINE rest == Gets(q, f) \ {1}
           shift == [k \in rest |-> k - 1]
<1>1. /\ Len(q) \in Nat \ {0} /\ DOMAIN q = 1 .. Len(q) /\ Head(q) = q[1]
      /\ Tail(q) \in Seq(Messages) /\ DOMAIN Tail(q) = 1 .. (Len(q) - 1)
      /\ \A k \in 1 .. (Len(q) - 1) : Tail(q)[k] = q[k + 1]
    OBVIOUS
<1>2. rest = {k \in 2 .. Len(q) : q[k].cmd = "GET" /\ q[k].fresh = f}
    BY <1>1 DEF Gets
<1>3. Gets(Tail(q), f) =
          {k \in 1 .. (Len(q) - 1) : q[k + 1].cmd = "GET" /\ q[k + 1].fresh = f}
    BY <1>1 DEF Gets
<1>4. shift \in [rest -> Gets(Tail(q), f)]
    <2>1. ASSUME NEW k \in rest PROVE k - 1 \in Gets(Tail(q), f)
        <3>1. k \in 2 .. Len(q) /\ q[k].cmd = "GET" /\ q[k].fresh = f
            BY <1>2
        <3>2. k - 1 \in 1 .. (Len(q) - 1) /\ (k - 1) + 1 = k
            BY <1>1, <3>1
        <3> HIDE DEF rest
        <3> QED
            BY <1>3, <3>1, <3>2
    <2> QED
        BY <2>1
<1>5. \A a, b \in rest : shift[a] = shift[b] => a = b
    BY <1>2
<1>6. ASSUME NEW t \in Gets(Tail(q), f) PROVE \E k \in rest : shift[k] = t
    <2>1. t \in 1 .. (Len(q) - 1) /\ q[t + 1].cmd = "GET" /\ q[t + 1].fresh = f
        BY <1>3
    <2>2. t + 1 \in rest
        <3>1. t + 1 \in 2 .. Len(q)
            BY <1>1, <2>1
        <3> HIDE DEF rest
        <3> QED
            BY <1>2, <2>1, <3>1
    <2>3. shift[t + 1] = t
        BY <2>1, <2>2
    <2> QED
        BY <2>2, <2>3
<1>7. ExistsBijection(rest, Gets(Tail(q), f))
    <2>1. shift \in Bijection(rest, Gets(Tail(q), f))
        BY <1>4, <1>5, <1>6 DEF Bijection, Injection, Surjection, IsInjective
    <2> QED
        BY <2>1 DEF ExistsBijection
<1>8. IsFiniteSet(rest)
      /\ Cardinality(rest) = IF 1 \in Gets(q, f) THEN Count(q, f) - 1 ELSE Count(q, f)
    BY CountNat, FS_RemoveElement DEF Count
<1>9. Count(Tail(q), f) = Cardinality(rest)
    BY <1>7, <1>8, FS_Bijection DEF Count
<1>10. 1 \in Gets(q, f) <=> IsGet(Head(q), f)
    BY <1>1 DEF Gets, IsGet
<1> QED
    BY <1>8, <1>9, <1>10, CountNat

\* Sets without a common element add up.
LEMMA DisjointUnion ==
    ASSUME NEW A, NEW B, IsFiniteSet(A), IsFiniteSet(B), A \cap B = {}
    PROVE  /\ IsFiniteSet(A \cup B)
           /\ Cardinality(A \cup B) = Cardinality(A) + Cardinality(B)
<1>1. Cardinality(A) \in Nat /\ Cardinality(B) \in Nat
    BY FS_CardinalityType
<1>2. Cardinality(A \cap B) = 0
    BY FS_EmptySet
<1>3. /\ IsFiniteSet(A \cup B)
      /\ Cardinality(A \cup B) =
             Cardinality(A) + Cardinality(B) - Cardinality(A \cap B)
    BY FS_Union, Zenon
<1> QED
    BY <1>1, <1>2, <1>3

-----------------------------------------------------------------------------
\* The GETs and answers of a queue that the tcpip thread waits for, and those
\* that are left behind.
Waited(q) == Count(q, TRUE)
Left(q) == Count(q, FALSE)

\* Both are numbers.
LEMMA CountsNat ==
    ASSUME NEW q \in Seq(Messages)
    PROVE  Waited(q) \in Nat /\ Left(q) \in Nat
    BY CountNat DEF Waited, Left

\* Another message at the end counts for what it is.
LEMMA CountsAppend ==
    ASSUME NEW q \in Seq(Messages), NEW m \in Messages
    PROVE  /\ m.cmd = "SET" =>
                /\ Waited(Append(q, m)) = Waited(q)
                /\ Left(Append(q, m)) = Left(q)
           /\ m.cmd = "GET" /\ m.fresh =>
                /\ Waited(Append(q, m)) = Waited(q) + 1
                /\ Left(Append(q, m)) = Left(q)
           /\ m.cmd = "GET" /\ ~m.fresh =>
                /\ Waited(Append(q, m)) = Waited(q)
                /\ Left(Append(q, m)) = Left(q) + 1
<1>1. m.cmd = "SET" => ~IsGet(m, TRUE) /\ ~IsGet(m, FALSE)
    BY DEF IsGet
<1>2. m.cmd = "GET" /\ m.fresh => IsGet(m, TRUE) /\ ~IsGet(m, FALSE)
    BY DEF IsGet, Messages
<1>3. m.cmd = "GET" /\ ~m.fresh => ~IsGet(m, TRUE) /\ IsGet(m, FALSE)
    BY DEF IsGet, Messages
<1> QED
    BY <1>1, <1>2, <1>3, CountAppend, Zenon DEF Waited, Left

\* And so does the one at the head.
LEMMA CountsTail ==
    ASSUME NEW q \in Seq(Messages), q # <<>>
    PROVE  /\ Head(q).cmd = "SET" =>
                Waited(q) = Waited(Tail(q)) /\ Left(q) = Left(Tail(q))
           /\ Head(q).cmd = "GET" /\ Head(q).fresh =>
                Waited(q) = Waited(Tail(q)) + 1 /\ Left(q) = Left(Tail(q))
           /\ Head(q).cmd = "GET" /\ ~Head(q).fresh =>
                Waited(q) = Waited(Tail(q)) /\ Left(q) = Left(Tail(q)) + 1
<1>1. Head(q) \in Messages
    BY HeadTailProperties
<1>2. Head(q).cmd = "SET" => ~IsGet(Head(q), TRUE) /\ ~IsGet(Head(q), FALSE)
    BY DEF IsGet
<1>3. Head(q).cmd = "GET" /\ Head(q).fresh =>
          IsGet(Head(q), TRUE) /\ ~IsGet(Head(q), FALSE)
    BY <1>1 DEF IsGet, Messages
<1>4. Head(q).cmd = "GET" /\ ~Head(q).fresh =>
          ~IsGet(Head(q), TRUE) /\ IsGet(Head(q), FALSE)
    BY <1>1 DEF IsGet, Messages
<1> QED
    BY <1>2, <1>3, <1>4, CountTail, Zenon DEF Waited, Left

\* When nobody waits any more, none is waited for.
LEMMA CountAbandoned ==
    ASSUME NEW q \in Seq(Messages)
    PROVE  /\ Waited(Abandoned(q)) = 0
           /\ Left(Abandoned(q)) = Waited(q) + Left(q)
<1>1. /\ DOMAIN q = 1 .. Len(q)
      /\ \A k \in DOMAIN q : q[k] \in Messages
    OBVIOUS
<1>2. \A m \in Messages : /\ m.fresh \in BOOLEAN
                          /\ [m EXCEPT !.fresh = FALSE].fresh = FALSE
                          /\ [m EXCEPT !.fresh = FALSE].cmd = m.cmd
    BY DEF Messages
<1>3. /\ Gets(Abandoned(q), TRUE) = {}
      /\ Gets(Abandoned(q), FALSE) = Gets(q, TRUE) \cup Gets(q, FALSE)
      /\ Gets(q, TRUE) \cap Gets(q, FALSE) = {}
    BY <1>1, <1>2 DEF Gets, Abandoned
<1>4. /\ Count(Abandoned(q), TRUE) = Cardinality({})
      /\ Count(Abandoned(q), FALSE) =
             Cardinality(Gets(q, TRUE) \cup Gets(q, FALSE))
    BY <1>3 DEF Count
<1>5. Count(Abandoned(q), FALSE) =
          Cardinality(Gets(q, TRUE)) + Cardinality(Gets(q, FALSE))
    BY <1>3, <1>4, CountNat, DisjointUnion, Zenon
<1>6. Count(Abandoned(q), TRUE) = 0
    BY <1>4, FS_EmptySet, Zenon
<1> QED
    BY <1>5, <1>6, Zenon DEF Count, Waited, Left

\* Freed memory makes no difference.
LEMMA CountReleased ==
    ASSUME NEW q \in Seq(Messages)
    PROVE  Waited(Released(q)) = Waited(q) /\ Left(Released(q)) = Left(q)
<1>1. \A k \in DOMAIN q : q[k] \in Messages
    OBVIOUS
<1>2. \A m \in Messages : /\ [m EXCEPT !.owned = FALSE].fresh = m.fresh
                          /\ [m EXCEPT !.owned = FALSE].cmd = m.cmd
    BY DEF Messages
<1>3. /\ Gets(Released(q), TRUE) = Gets(q, TRUE)
      /\ Gets(Released(q), FALSE) = Gets(q, FALSE)
    BY <1>1, <1>2 DEF Gets, Released
<1> QED
    BY <1>3 DEF Count, Waited, Left

\* Marking the requests is marking the one dealt with and the queue.
LEMMA MarkedTogether ==
    ASSUME NEW p \in Seq(Messages), NEW q \in Seq(Messages)
    PROVE  /\ Released(p) \o Released(q) = Released(p \o q)
           /\ Abandoned(p) \o Abandoned(q) = Abandoned(p \o q)
<1>1. /\ Len(p) \in Nat /\ Len(q) \in Nat /\ DOMAIN p = 1 .. Len(p)
      /\ DOMAIN q = 1 .. Len(q)
      /\ p \o q \in Seq(Messages) /\ Len(p \o q) = Len(p) + Len(q)
      /\ DOMAIN (p \o q) = 1 .. (Len(p) + Len(q))
    BY ConcatProperties, LenProperties
<1>2. \A k \in 1 .. (Len(p) + Len(q)) :
          (p \o q)[k] = IF k <= Len(p) THEN p[k] ELSE q[k - Len(p)]
    BY ConcatProperties
<1>3. ASSUME NEW mark \in [Messages -> Messages],
             NEW fp \in Seq(Messages), NEW fq \in Seq(Messages),
             NEW fpq \in Seq(Messages),
             Len(fp) = Len(p), Len(fq) = Len(q), Len(fpq) = Len(p \o q),
             \A k \in DOMAIN p : fp[k] = mark[p[k]],
             \A k \in DOMAIN q : fq[k] = mark[q[k]],
             \A k \in DOMAIN (p \o q) : fpq[k] = mark[(p \o q)[k]]
      PROVE  fp \o fq = fpq
    <2>1. /\ fp \o fq \in Seq(Messages) /\ Len(fp \o fq) = Len(p) + Len(q)
          /\ \A k \in 1 .. (Len(p) + Len(q)) :
               (fp \o fq)[k] = IF k <= Len(p) THEN fp[k] ELSE fq[k - Len(p)]
        BY <1>3, ConcatProperties
    <2>2. ASSUME NEW k \in 1 .. (Len(p) + Len(q))
          PROVE  (fp \o fq)[k] = fpq[k]
        <3>1. fpq[k] = mark[(p \o q)[k]]
            <4>1. k \in DOMAIN (p \o q)
                BY <1>1
            <4> QED BY <1>3, <4>1, Zenon
        <3>2. k <= Len(p) => fp[k] = mark[p[k]]
            <4>1. k <= Len(p) => k \in DOMAIN p
                BY <1>1
            <4> QED BY <1>3, <4>1, Zenon
        <3>3. ~(k <= Len(p)) => fq[k - Len(p)] = mark[q[k - Len(p)]]
            <4>1. ~(k <= Len(p)) => k - Len(p) \in DOMAIN q
                BY <1>1
            <4> QED BY <1>3, <4>1, Zenon
        <3>4. (fp \o fq)[k] = IF k <= Len(p) THEN fp[k] ELSE fq[k - Len(p)]
            BY <2>1, Zenon
        <3>5. (p \o q)[k] = IF k <= Len(p) THEN p[k] ELSE q[k - Len(p)]
            BY <1>2, Zenon
        <3> QED
            BY <3>1, <3>2, <3>3, <3>4, <3>5, ZenonT(60)
    <2> QED
        BY <1>1, <1>3, <2>1, <2>2, SeqEqual
<1> DEFINE release == [m \in Messages |-> [m EXCEPT !.owned = FALSE]]
           abandon == [m \in Messages |-> [m EXCEPT !.fresh = FALSE]]
<1>4. release \in [Messages -> Messages] /\ abandon \in [Messages -> Messages]
    BY DEF Messages
<1>5. \A r \in Seq(Messages) : \A k \in DOMAIN r :
          Released(r)[k] = release[r[k]] /\ Abandoned(r)[k] = abandon[r[k]]
    BY DEF Released, Abandoned
<1> HIDE DEF release, abandon
<1>6. /\ Released(p) \in Seq(Messages) /\ Len(Released(p)) = Len(p)
      /\ Released(q) \in Seq(Messages) /\ Len(Released(q)) = Len(q)
      /\ Released(p \o q) \in Seq(Messages)
      /\ Len(Released(p \o q)) = Len(p \o q)
      /\ \A k \in DOMAIN p : Released(p)[k] = release[p[k]]
      /\ \A k \in DOMAIN q : Released(q)[k] = release[q[k]]
      /\ \A k \in DOMAIN (p \o q) : Released(p \o q)[k] = release[(p \o q)[k]]
    BY <1>1, <1>5, MarkedQueues
<1>7. /\ Abandoned(p) \in Seq(Messages) /\ Len(Abandoned(p)) = Len(p)
      /\ Abandoned(q) \in Seq(Messages) /\ Len(Abandoned(q)) = Len(q)
      /\ Abandoned(p \o q) \in Seq(Messages)
      /\ Len(Abandoned(p \o q)) = Len(p \o q)
      /\ \A k \in DOMAIN p : Abandoned(p)[k] = abandon[p[k]]
      /\ \A k \in DOMAIN q : Abandoned(q)[k] = abandon[q[k]]
      /\ \A k \in DOMAIN (p \o q) : Abandoned(p \o q)[k] = abandon[(p \o q)[k]]
    BY <1>1, <1>5, MarkedQueues
<1>8. Released(p) \o Released(q) = Released(p \o q)
    BY <1>3, <1>4, <1>6
<1>9. Abandoned(p) \o Abandoned(q) = Abandoned(p \o q)
    BY <1>3, <1>4, <1>7
<1> QED
    BY <1>8, <1>9
-----------------------------------------------------------------------------
\* How many answers, and requests for answers, the tcpip thread waits for,
\* and how many nobody waits for any more.
WaitedFor == Waited(xHttpdQueue) + Waited(Requests)
LeftBehind == Left(xHttpdQueue) + Left(Requests)

AnswersOnly == \A k \in DOMAIN xHttpdQueue : xHttpdQueue[k].cmd = "GET"

\* A SET is followed by the GET that reads it back.
Paired ==
    \A k \in 1 .. Len(Requests) : Requests[k].cmd = "SET" =>
        \/ k < Len(Requests) /\ Requests[k + 1].cmd = "GET"
        \/ k = Len(Requests) /\ tcpip_pc = "get"

\* While all requests that late waits can leave have room in xComQueue, none
\* was dropped.
LagInv ==
    /\ AnswersOnly
    /\ LeftBehind <= late
    /\ WaitedFor <= 1
    /\ tcpip_pc \in {"loop", "get"} => WaitedFor = 0
    /\ 2 * (late + 1) <= COM_QUEUE_SIZE => Paired

Typed ==
    /\ QueuesOK /\ TcpipTypeOK
    /\ Requests \in Seq(Messages) /\ Len(Requests) \in Nat
    /\ Len(xComQueue) \in Nat /\ Len(xComQueue) <= Len(Requests)
    /\ COM_QUEUE_SIZE \in Nat

\* What the proofs need of the types.
LEMMA LagTypes == TypeInv => Typed
    BY TypeParts, RequestsType, ComAssumption DEF Typed, ComAssumption

\* The counts are numbers.
LEMMA UnderNat ==
    ASSUME Typed
    PROVE  /\ Waited(Requests) \in Nat /\ Left(Requests) \in Nat
           /\ Waited(xHttpdQueue) \in Nat /\ Left(xHttpdQueue) \in Nat
    BY CountsNat DEF Typed, QueuesOK

\* Every SET but the last is followed by a GET of its own, so that few GETs
\* mean few requests.
LEMMA FewRequests ==
    ASSUME Typed, Paired
    PROVE  Len(Requests) <=
             2 * (Waited(Requests) + Left(Requests))
               + (IF tcpip_pc = "get" THEN 1 ELSE 0)
<1> DEFINE n == Len(Requests)
           Given == {k \in 1 .. n : Requests[k].cmd = "SET"}
           Asking == {k \in 1 .. n : Requests[k].cmd = "GET"}
           Early == Given \ {n}
           next == [k \in Early |-> k + 1]
<1>1. /\ n \in Nat /\ DOMAIN Requests = 1 .. n
      /\ \A k \in 1 .. n : Requests[k] \in Messages
      /\ \A k \in 1 .. n : Requests[k].cmd = "SET" =>
            \/ k < n /\ Requests[k + 1].cmd = "GET"
            \/ k = n /\ tcpip_pc = "get"
    BY LenProperties, ElementOfSeq DEF Typed, Paired
<1> HIDE DEF n
<1>2. IsFiniteSet(1 .. n) /\ Cardinality(1 .. n) = n
    <2>1. 1 \in Int /\ n \in Int
        BY <1>1
    <2>2. IsFiniteSet(1 .. n) /\ Cardinality(1 .. n) = IF 1 > n THEN 0 ELSE n - 1 + 1
        BY <2>1, FS_Interval, Zenon
    <2> QED
        BY <1>1, <2>2
<1>3. IsFiniteSet(Given) /\ IsFiniteSet(Asking)
    BY <1>2, FS_Subset
<1>4. n = Cardinality(Given) + Cardinality(Asking)
    <2>1. \A k \in 1 .. n : Requests[k].cmd \in {"SET", "GET"}
        BY <1>1 DEF Messages
    <2>2. Given \cup Asking = 1 .. n /\ Given \cap Asking = {}
        BY <2>1
    <2> HIDE DEF Given, Asking
    <2> QED
        BY <1>2, <1>3, <2>2, DisjointUnion, Zenon
<1>5. Cardinality(Asking) = Waited(Requests) + Left(Requests)
    <2>1. \A k \in 1 .. n : Requests[k].fresh \in BOOLEAN
        BY <1>1 DEF Messages
    <2>2. /\ Asking = Gets(Requests, TRUE) \cup Gets(Requests, FALSE)
          /\ Gets(Requests, TRUE) \cap Gets(Requests, FALSE) = {}
        BY <1>1, <2>1 DEF Gets
    <2>3. IsFiniteSet(Gets(Requests, TRUE)) /\ IsFiniteSet(Gets(Requests, FALSE))
        BY CountNat DEF Typed
    <2> HIDE DEF Asking
    <2> QED
        BY <2>2, <2>3, DisjointUnion, Zenon DEF Count, Waited, Left
<1>6. Cardinality(Early) <= Cardinality(Asking)
    <2>1. ASSUME NEW k \in Early PROVE k + 1 \in Asking
        <3>1. k \in 1 .. n /\ k # n /\ Requests[k].cmd = "SET"
            OBVIOUS
        <3>2. k < n /\ Requests[k + 1].cmd = "GET"
            BY <1>1, <3>1
        <3> QED
            BY <1>1, <3>1, <3>2
    <2>2. next \in [Early -> Asking]
        BY <2>1
    <2>3. \A a, b \in Early : next[a] = next[b] => a = b
        BY <1>1
    <2>4. next \in Injection(Early, Asking)
        BY <2>2, <2>3 DEF Injection, IsInjective
    <2> HIDE DEF next, Early, Asking
    <2> QED
        BY <1>3, <2>4, FS_Injection, Zenon
<1>7. Cardinality(Given) <= Cardinality(Early) + (IF tcpip_pc = "get" THEN 1 ELSE 0)
    <2>1. Cardinality(Early) =
              IF n \in Given THEN Cardinality(Given) - 1 ELSE Cardinality(Given)
        <3> HIDE DEF Given
        <3> QED
            BY <1>3, FS_RemoveElement, Zenon
    <2>2. n \in Given => tcpip_pc = "get"
        BY <1>1
    <2>3. Cardinality(Given) \in Nat
        BY <1>3, FS_CardinalityType, Zenon
    <2> HIDE DEF Given, Early
    <2> QED
        BY <2>1, <2>2, <2>3
<1>8. /\ Cardinality(Given) \in Nat /\ Cardinality(Asking) \in Nat
      /\ Cardinality(Early) \in Nat
    <2>1. IsFiniteSet(Early)
        <3> HIDE DEF Given
        <3> QED
            BY <1>3, FS_RemoveElement, Zenon
    <2> HIDE DEF Given, Asking, Early
    <2> QED
        BY <1>3, <2>1, FS_CardinalityType, Zenon
<1> HIDE DEF Given, Asking, Early
<1>9. n <= 2 * Cardinality(Asking) + (IF tcpip_pc = "get" THEN 1 ELSE 0)
    BY <1>4, <1>6, <1>7, <1>8
<1> QED
    BY <1>5, <1>9 DEF n

\* What is sent is the last of the requests, if there was room for it.
LEMMA SentRequest ==
    ASSUME Typed, NEW m \in Messages, SendToCom(m), UNCHANGED xMessage
    PROVE  /\ Requests' = Requests \/ Requests' = Append(Requests, m)
           /\ Len(Requests) < COM_QUEUE_SIZE => Requests' = Append(Requests, m)
<1>1. \/ xComQueue' = xComQueue /\ ~(Len(xComQueue) < COM_QUEUE_SIZE)
      \/ xComQueue' = Append(xComQueue, m)
    BY DEF SendToCom, Send, Typed
<1>2. CASE xComQueue' = xComQueue /\ ~(Len(xComQueue) < COM_QUEUE_SIZE)
    BY <1>2 DEF Requests, Typed
<1>3. CASE xComQueue' = Append(xComQueue, m)
    <2>1. xComQueue' = xComQueue \o <<m>> /\ Append(Requests, m) = Requests \o <<m>>
        <3>1. \A q \in Seq(Messages) : Append(q, m) = q \o <<m>>
            OBVIOUS
        <3> QED
            BY <1>3, <3>1 DEF Typed, QueuesOK
    <2>2. <<m>> \in Seq(Messages)
        OBVIOUS
    <2>3. xMessage \o (xComQueue \o <<m>>) = (xMessage \o xComQueue) \o <<m>>
        BY <2>2, ConcatAssociative DEF Typed, QueuesOK
    <2> QED
        BY <2>1, <2>3 DEF Requests
<1> QED
    BY <1>1, <1>2, <1>3

\* The first request is carried out, the others stay.
LEMMA RestOfRequests ==
    ASSUME Typed, Typed', xMessage # <<>>, xMessage' = <<>>, UNCHANGED xComQueue
    PROVE  /\ Requests # <<>> /\ Head(Requests) = xMessage[1]
           /\ Requests' = Tail(Requests)
<1>1. /\ Len(Requests) \in Nat \ {0} /\ xMessage[1] = Requests[1]
      /\ Len(Requests') = Len(Requests) - 1
      /\ \A k \in 1 .. Len(Requests') : Requests'[k] = Requests[k + 1]
    BY CarryOutRequest DEF Typed
<1>2. Requests # <<>>
    BY <1>1
<1>3. /\ Tail(Requests) \in Seq(Messages)
      /\ Len(Tail(Requests)) = Len(Requests) - 1
      /\ \A k \in 1 .. Len(Tail(Requests)) : Tail(Requests)[k] = Requests[k + 1]
    BY <1>2, HeadTailProperties DEF Typed
<1>4. Requests' = Tail(Requests)
    BY <1>1, <1>3, SeqEqual DEF Typed
<1> QED
    BY <1>1, <1>2, <1>4

\* What leaves the requests, the answers and the tcpip thread alone, or only
\* takes it from the suspend to the wait, keeps the lag.
LEMMA LagUnchanged ==
    ASSUME LagInv, UNCHANGED <<Requests, xHttpdQueue, late>>,
           \/ UNCHANGED tcpip_pc
           \/ tcpip_pc = "suspend" /\ tcpip_pc' = "receive"
    PROVE  LagInv'
    BY DEF LagInv, AnswersOnly, WaitedFor, LeftBehind, Paired

\* SetCGIHandler sends a SET.
LEMMA LagSetParam ==
    ASSUME Typed, Typed', LagInv,
           NEW i \in Items, NEW v \in Values, SetParam(i, v)
    PROVE  LagInv'
<1> DEFINE m == [cmd |-> "SET", item |-> i, value |-> v, owned |-> TRUE,
                 fresh |-> TRUE]
<1>1. m \in Messages /\ m.cmd = "SET"
    BY DEF Messages
<1>2. /\ SendToCom(m) /\ tcpip_pc = "loop" /\ tcpip_pc' = "get"
      /\ UNCHANGED <<xMessage, xHttpdQueue, late>>
    BY DEF SetParam, comVars
<1> HIDE DEF m
<1>3. Waited(Requests') = Waited(Requests) /\ Left(Requests') = Left(Requests)
    BY <1>1, <1>2, SentRequest, CountsAppend DEF Typed
<1>4. UNCHANGED <<WaitedFor, LeftBehind>>
    BY <1>2, <1>3 DEF WaitedFor, LeftBehind
<1>5. 2 * (late + 1) <= COM_QUEUE_SIZE => Paired'
    <2> SUFFICES ASSUME 2 * (late + 1) <= COM_QUEUE_SIZE PROVE Paired'
        OBVIOUS
    <2>1. Paired /\ WaitedFor = 0 /\ LeftBehind <= late /\ late \in Nat
        BY <1>2 DEF LagInv, Typed, TcpipTypeOK
    <2>2. Waited(Requests) + Left(Requests) <= late
        BY <2>1, UnderNat DEF WaitedFor, LeftBehind
    <2>3. Len(Requests) < COM_QUEUE_SIZE
        <3>1. Len(Requests) <=
                  2 * (Waited(Requests) + Left(Requests)) + 0
            BY <1>2, <2>1, FewRequests
        <3>2. /\ Waited(Requests) \in Nat /\ Left(Requests) \in Nat
              /\ COM_QUEUE_SIZE \in Nat /\ Len(Requests) \in Nat
            BY UnderNat DEF Typed
        <3> QED
            BY <2>1, <2>2, <3>1, <3>2
    <2>4. Requests' = Append(Requests, m)
        BY <1>1, <1>2, <2>3, SentRequest
    <2>5. /\ Len(Requests') = Len(Requests) + 1
          /\ Requests'[Len(Requests')] = m
          /\ \A k \in 1 .. Len(Requests) : Requests'[k] = Requests[k]
        BY <1>1, <2>4 DEF Typed
    <2>6. \A k \in 1 .. Len(Requests) : Requests[k].cmd = "SET" =>
              k < Len(Requests) /\ Requests[k + 1].cmd = "GET"
        BY <1>2, <2>1 DEF Paired
    <2> QED
        BY <1>2, <2>5, <2>6 DEF Typed, Paired
<1> QED
    BY <1>2, <1>4, <1>5 DEF LagInv, AnswersOnly

\* A GET is sent, from SetCGIHandler or for an input field.
LEMMA LagSendGet ==
    ASSUME Typed, Typed', LagInv, NEW i \in Items, NEW owned \in BOOLEAN,
           SendGet(i, owned), tcpip_pc \in {"loop", "get"},
           UNCHANGED <<xMessage, xHttpdQueue, late>>
    PROVE  LagInv'
<1> DEFINE m == [cmd |-> "GET", item |-> i, value |-> NoValue,
                 owned |-> owned, fresh |-> TRUE]
<1>1. m \in Messages /\ m.cmd = "GET" /\ m.fresh = TRUE
    BY DEF Messages
<1>2. SendToCom(m) /\ tcpip_pc' = "suspend"
    BY DEF SendGet
<1> HIDE DEF m
<1>3. \/ Requests' = Requests
      \/ Requests' = Append(Requests, m)
    BY <1>1, <1>2, SentRequest
<1>4. /\ Left(Requests') = Left(Requests)
      /\ Waited(Requests') <= Waited(Requests) + 1
    <2>1. CASE Requests' = Requests
        BY <2>1, UnderNat
    <2>2. CASE Requests' = Append(Requests, m)
        BY <1>1, <2>2, CountsAppend, UnderNat DEF Typed
    <2> QED
        BY <1>3, <2>1, <2>2
<1>5. LeftBehind' <= late /\ WaitedFor' <= 1
    <2>1. LeftBehind <= late /\ WaitedFor = 0
        BY DEF LagInv
    <2>2. LeftBehind' = LeftBehind
        BY <1>4 DEF WaitedFor, LeftBehind
    <2>3. /\ WaitedFor = Waited(xHttpdQueue) + Waited(Requests)
          /\ WaitedFor' = Waited(xHttpdQueue) + Waited(Requests')
        BY DEF WaitedFor, LeftBehind
    <2>4. Waited(Requests') \in Nat
        BY CountsNat DEF Typed
    <2> QED
        BY <1>4, <2>1, <2>2, <2>3, <2>4, UnderNat
<1>6. 2 * (late + 1) <= COM_QUEUE_SIZE => Paired'
    <2> SUFFICES ASSUME 2 * (late + 1) <= COM_QUEUE_SIZE PROVE Paired'
        OBVIOUS
    <2>1. Paired /\ WaitedFor = 0 /\ LeftBehind <= late /\ late \in Nat
        BY DEF LagInv, Typed, TcpipTypeOK
    <2>2. Waited(Requests) + Left(Requests) <= late
        BY <2>1, UnderNat DEF WaitedFor, LeftBehind
    <2>3. Len(Requests) < COM_QUEUE_SIZE
        <3>1. Len(Requests) <=
                  2 * (Waited(Requests) + Left(Requests)) + 1
            BY <2>1, FewRequests, UnderNat DEF Typed
        <3>2. /\ Waited(Requests) \in Nat /\ Left(Requests) \in Nat
              /\ COM_QUEUE_SIZE \in Nat /\ Len(Requests) \in Nat
            BY UnderNat DEF Typed
        <3> QED
            BY <2>1, <2>2, <3>1, <3>2
    <2>4. Requests' = Append(Requests, m)
        BY <1>1, <1>2, <2>3, SentRequest
    <2>5. /\ Len(Requests') = Len(Requests) + 1
          /\ Requests'[Len(Requests')] = m
          /\ \A k \in 1 .. Len(Requests) : Requests'[k] = Requests[k]
        BY <1>1, <2>4 DEF Typed
    <2>6. ASSUME NEW k \in 1 .. Len(Requests'), Requests'[k].cmd = "SET"
          PROVE  k < Len(Requests') /\ Requests'[k + 1].cmd = "GET"
        <3>1. k # Len(Requests')
            BY <1>1, <2>5, <2>6
        <3>2. k \in 1 .. Len(Requests) /\ Requests[k].cmd = "SET"
            BY <2>5, <2>6, <3>1 DEF Typed
        <3>3. CASE k = Len(Requests)
            BY <1>1, <2>5, <3>3 DEF Typed
        <3>4. CASE k # Len(Requests)
            <4>1. k < Len(Requests) /\ Requests[k + 1].cmd = "GET"
                BY <2>1, <3>2, <3>4 DEF Paired
            <4>2. k + 1 \in 1 .. Len(Requests)
                BY <3>2, <4>1 DEF Typed
            <4> QED
                BY <2>5, <4>1, <4>2 DEF Typed
        <3> QED
            BY <3>3, <3>4
    <2> QED
        BY <2>6 DEF Paired
<1> QED
    BY <1>2, <1>5, <1>6 DEF LagInv, AnswersOnly

\* The thread has its answer, or gives up: nothing is waited for any more.
LEMMA LagReturn ==
    ASSUME Typed, Typed', LagInv, NEW v, ReturnValue(v),
           NEW q \in Seq(Messages), xHttpdQueue' = Abandoned(q),
           \A k \in DOMAIN q : q[k].cmd = "GET",
           Waited(q) + Left(q) + Waited(Requests)
               + Left(Requests) <= late',
           late' = late \/ late' = late + 1,
           tcpip_pc = "receive"
    PROVE  LagInv'
<1>1. Requests' = Abandoned(Requests)
    BY MarkedTogether DEF ReturnValue, Requests, Typed, QueuesOK
<1>2. AnswersOnly'
    <2>1. \A k \in DOMAIN q : q[k] \in Messages
        OBVIOUS
    <2>2. \A m \in Messages : [m EXCEPT !.fresh = FALSE].cmd = m.cmd
        BY DEF Messages
    <2> QED
        BY <2>1, <2>2 DEF AnswersOnly, Abandoned
<1>3. /\ Waited(xHttpdQueue') = 0 /\ Waited(Requests') = 0
      /\ Left(xHttpdQueue') = Waited(q) + Left(q)
      /\ Left(Requests') = Waited(Requests) + Left(Requests)
    BY <1>1, CountAbandoned DEF Typed
<1>4. WaitedFor' = 0 /\ LeftBehind' <= late'
    <2>1. WaitedFor' = 0 + 0
        BY <1>3 DEF WaitedFor, LeftBehind
    <2>2. LeftBehind' = (Waited(q) + Left(q))
                            + (Waited(Requests) + Left(Requests))
        BY <1>3 DEF WaitedFor, LeftBehind
    <2>3. /\ Waited(q) \in Nat /\ Left(q) \in Nat
          /\ Waited(Requests) \in Nat /\ Left(Requests) \in Nat
        BY CountsNat, UnderNat
    <2> QED
        BY <2>1, <2>2, <2>3
<1>5. Paired => Paired'
    <2> SUFFICES ASSUME Paired PROVE Paired'
        OBVIOUS
    <2>1. /\ Len(Requests') = Len(Requests)
          /\ \A k \in 1 .. Len(Requests) : Requests'[k].cmd = Requests[k].cmd
        <3>1. \A m \in Messages : [m EXCEPT !.fresh = FALSE].cmd = m.cmd
            BY DEF Messages
        <3>2. DOMAIN Requests = 1 .. Len(Requests)
              /\ \A k \in 1 .. Len(Requests) : Requests[k] \in Messages
            BY LenProperties, ElementOfSeq DEF Typed
        <3>3. \A k \in 1 .. Len(Requests) :
                  Requests'[k] = [Requests[k] EXCEPT !.fresh = FALSE]
            BY <1>1, <3>2 DEF Abandoned
        <3> QED
            BY <1>1, <3>1, <3>2, <3>3, MarkedQueues DEF Typed
    <2>2. ASSUME NEW k \in 1 .. Len(Requests), Requests[k].cmd = "SET"
          PROVE  k < Len(Requests) /\ Requests[k + 1].cmd = "GET"
        BY <2>2 DEF Paired
    <2> QED
        BY <2>1, <2>2 DEF Paired, Typed
<1>6. 2 * (late' + 1) <= COM_QUEUE_SIZE => 2 * (late + 1) <= COM_QUEUE_SIZE
    <2>1. late \in Nat /\ COM_QUEUE_SIZE \in Nat
        BY DEF Typed, TcpipTypeOK
    <2> QED
        BY <2>1
<1> QED
    BY <1>2, <1>4, <1>5, <1>6 DEF LagInv

\* The first answer is taken out.
LEMMA LagReceive ==
    ASSUME Typed, Typed', LagInv, ReceiveAnswer PROVE LagInv'
<1> DEFINE q == Tail(xHttpdQueue)
           a == Head(xHttpdQueue)
<1>1. /\ ReturnValue(a.value) /\ xHttpdQueue' = Abandoned(q) /\ late' = late
      /\ tcpip_pc = "receive" /\ xHttpdQueue # <<>>
      /\ xHttpdQueue \in Seq(Messages)
    BY DEF ReceiveAnswer, Typed, QueuesOK
<1>2. /\ q \in Seq(Messages) /\ a \in Messages /\ a = xHttpdQueue[1]
      /\ Len(q) = Len(xHttpdQueue) - 1
      /\ Len(xHttpdQueue) \in Nat /\ 1 \in DOMAIN xHttpdQueue
      /\ DOMAIN xHttpdQueue = 1 .. Len(xHttpdQueue)
      /\ DOMAIN q = 1 .. Len(q)
      /\ \A k \in 1 .. Len(q) : q[k] = xHttpdQueue[k + 1]
    BY <1>1, HeadTailProperties, LenProperties, EmptySeq
<1>3. a.cmd = "GET"
    BY <1>2 DEF LagInv, AnswersOnly
<1>4. \A k \in DOMAIN q : q[k].cmd = "GET"
    <2>1. ASSUME NEW k \in DOMAIN q PROVE k + 1 \in DOMAIN xHttpdQueue
        BY <1>2
    <2> HIDE DEF q
    <2> QED
        BY <1>2, <2>1 DEF LagInv, AnswersOnly
<1>5. \/ /\ Waited(xHttpdQueue) = Waited(q) + 1
         /\ Left(xHttpdQueue) = Left(q)
      \/ /\ Waited(xHttpdQueue) = Waited(q)
         /\ Left(xHttpdQueue) = Left(q) + 1
    BY <1>1, <1>3, CountsTail, Zenon
<1>6. /\ Waited(q) \in Nat /\ Left(q) \in Nat
      /\ Waited(Requests) \in Nat /\ Left(Requests) \in Nat
      /\ late \in Nat
    BY <1>2, CountsNat, UnderNat DEF Typed, TcpipTypeOK
<1> HIDE DEF q, a
<1>7. Waited(q) + Left(q) + Waited(Requests) + Left(Requests) <= late'
    <2>1. WaitedFor <= 1 /\ LeftBehind <= late
        BY DEF LagInv
    <2>2. /\ WaitedFor = Waited(xHttpdQueue) + Waited(Requests)
          /\ LeftBehind = Left(xHttpdQueue) + Left(Requests)
        BY DEF WaitedFor, LeftBehind
    <2> QED
        BY <1>1, <1>5, <1>6, <2>1, <2>2
<1> QED
    BY <1>1, <1>2, <1>4, <1>7, LagReturn

\* The wait has ended without an answer: it counts as late if one was to come.
LEMMA LagGiveUp ==
    ASSUME Typed, Typed', LagInv, GiveUp PROVE LagInv'
<1>1. /\ ReturnValue(NoValue) /\ xHttpdQueue = <<>> /\ xHttpdQueue' = <<>>
      /\ tcpip_pc = "receive"
      /\ late' = late \/ late' = late + 1
      /\ AnswerPending => late' = late + 1
    BY DEF GiveUp
<1>2. <<>> \in Seq(Messages) /\ Abandoned(<<>>) = <<>>
    BY DEF Abandoned
<1>3. /\ Waited(<<>>) = 0 /\ Left(<<>>) = 0
    BY CountEmpty, Zenon DEF Waited, Left
<1>4. WaitedFor = 0 + Waited(Requests) /\ LeftBehind = 0 + Left(Requests)
    BY <1>1, <1>3 DEF WaitedFor, LeftBehind
<1>5. /\ Waited(Requests) \in Nat /\ Left(Requests) \in Nat /\ late \in Nat
    BY UnderNat DEF Typed, TcpipTypeOK
<1>6. ~AnswerPending => Waited(Requests) = 0
    <2> SUFFICES ASSUME ~AnswerPending PROVE Waited(Requests) = 0
        OBVIOUS
    <2>1. Gets(Requests, TRUE) = {}
        BY DEF Gets, AnswerPending
    <2> QED
        BY <2>1, FS_EmptySet, Zenon DEF Waited, Count
<1>7. 0 + 0 + Waited(Requests) + Left(Requests) <= late'
    BY <1>1, <1>4, <1>5, <1>6 DEF LagInv
<1>8. /\ Waited(<<>>) + Left(<<>>) + Waited(Requests) + Left(Requests) <= late'
      /\ \A k \in DOMAIN <<>> : <<>>[k].cmd = "GET"
    BY <1>3, <1>7
<1> QED
    BY <1>1, <1>2, <1>8, LagReturn

\* http_recv frees the names of the parameters.
LEMMA LagFinish ==
    ASSUME Typed, Typed', LagInv, FinishCgi PROVE LagInv'
<1>1. /\ xComQueue' = Released(xComQueue) /\ xMessage' = Released(xMessage)
      /\ tcpip_pc = "loop" /\ UNCHANGED <<xHttpdQueue, tcpip_pc, late>>
    BY DEF FinishCgi
<1>2. Requests' = Released(Requests)
    BY <1>1, MarkedTogether DEF Requests, Typed, QueuesOK
<1>3. UNCHANGED <<WaitedFor, LeftBehind>>
    BY <1>1, <1>2, CountReleased DEF WaitedFor, LeftBehind, Typed
<1>4. Paired => Paired'
    <2>1. \A m \in Messages : [m EXCEPT !.owned = FALSE].cmd = m.cmd
        BY DEF Messages
    <2>2. DOMAIN Requests = 1 .. Len(Requests)
          /\ \A k \in 1 .. Len(Requests) : Requests[k] \in Messages
        BY LenProperties, ElementOfSeq DEF Typed
    <2>3. \A k \in 1 .. Len(Requests) :
              Requests'[k] = [Requests[k] EXCEPT !.owned = FALSE]
        BY <1>2, <2>2 DEF Released
    <2>4. /\ Len(Requests') = Len(Requests)
          /\ \A k \in 1 .. Len(Requests) : Requests'[k].cmd = Requests[k].cmd
        BY <1>2, <2>1, <2>2, <2>3, MarkedQueues DEF Typed
    <2> QED
        BY <1>1, <2>4 DEF Paired, Typed
<1> QED
    BY <1>1, <1>3, <1>4 DEF LagInv, AnswersOnly

\* A request that was carried out leaves the others in their order.
LEMMA PairedRest ==
    ASSUME Typed, Typed', Requests # <<>>, Requests' = Tail(Requests), Paired,
           UNCHANGED tcpip_pc
    PROVE  Paired'
<1>1. /\ Len(Requests') = Len(Requests) - 1
      /\ \A k \in 1 .. Len(Requests') : Requests'[k] = Requests[k + 1]
    BY HeadTailProperties DEF Typed
<1>2. ASSUME NEW k \in 1 .. Len(Requests'), Requests'[k].cmd = "SET"
      PROVE  \/ k < Len(Requests') /\ Requests'[k + 1].cmd = "GET"
             \/ k = Len(Requests') /\ tcpip_pc' = "get"
    <2>1. k + 1 \in 1 .. Len(Requests) /\ Requests[k + 1].cmd = "SET"
        BY <1>1, <1>2 DEF Typed
    <2>2. \/ k + 1 < Len(Requests) /\ Requests[(k + 1) + 1].cmd = "GET"
          \/ k + 1 = Len(Requests) /\ tcpip_pc = "get"
        BY <2>1 DEF Paired
    <2>3. Len(Requests) \in Nat /\ Len(Requests') \in Nat
        BY DEF Typed
    <2>4. CASE k + 1 < Len(Requests) /\ Requests[(k + 1) + 1].cmd = "GET"
        <3>1. k < Len(Requests') /\ k + 1 \in 1 .. Len(Requests')
            BY <1>1, <2>3, <2>4
        <3>2. Requests'[k + 1] = Requests[(k + 1) + 1]
            BY <1>1, <3>1
        <3> QED
            BY <2>4, <3>1, <3>2
    <2>5. CASE k + 1 = Len(Requests) /\ tcpip_pc = "get"
        <3>1. k \in Nat /\ k = Len(Requests) - 1
            BY <2>3, <2>5
        <3>2. k = Len(Requests')
            BY <1>1, <3>1
        <3>3. tcpip_pc' = "get"
            BY <2>5
        <3> QED
            BY <3>2, <3>3
    <2> QED
        BY <2>2, <2>4, <2>5
<1> QED
    BY <1>2 DEF Paired

\* Carrying out a SET leaves the GETs as they are.
LEMMA LagHandleSet ==
    ASSUME Typed, Typed', LagInv, HandleSet PROVE LagInv'
<1>1. /\ xMessage # <<>> /\ xMessage' = <<>> /\ xMessage[1].cmd = "SET"
      /\ UNCHANGED <<xComQueue, xHttpdQueue, tcpip_pc, late>>
    BY DEF HandleSet, DealsWith, tcpipVars
<1>2. /\ Requests # <<>> /\ Head(Requests).cmd = "SET"
      /\ Requests' = Tail(Requests)
    BY <1>1, RestOfRequests
<1>3. Waited(Requests') = Waited(Requests) /\ Left(Requests') = Left(Requests)
    BY <1>2, CountsTail, Zenon DEF Typed
<1>4. UNCHANGED <<WaitedFor, LeftBehind>>
    BY <1>1, <1>3 DEF WaitedFor, LeftBehind
<1>5. Paired => Paired'
    BY <1>1, <1>2, PairedRest
<1> QED
    BY <1>1, <1>4, <1>5 DEF LagInv, AnswersOnly

\* The answer takes the place of the request.
LEMMA LagHandleGet ==
    ASSUME Typed, Typed', LagInv, HandleGet PROVE LagInv'
<1>1. /\ xMessage # <<>> /\ xMessage' = <<>> /\ xMessage[1].cmd = "GET"
      /\ AnswerGet /\ UNCHANGED <<xComQueue, tcpip_pc, late>>
    BY DEF HandleGet, DealsWith, tcpipVars
<1>2. /\ Requests # <<>> /\ Head(Requests) = xMessage[1]
      /\ Requests' = Tail(Requests)
    BY <1>1, RestOfRequests
<1>3. PICK i \in Reads(xMessage[1]) :
        Send(xHttpdQueue, HTTPD_QUEUE_SIZE,
             [xMessage[1] EXCEPT !.value = MachineValue(i)], "tcpip", "httpd")
    BY <1>1 DEF AnswerGet
<1> DEFINE m == [xMessage[1] EXCEPT !.value = MachineValue(i)]
<1>4. /\ xMessage[1] \in Messages
      /\ m.cmd = "GET" /\ m.fresh = xMessage[1].fresh
    <2>1. xMessage[1] \in Messages
        BY <1>1, OneAndRest DEF Typed, QueuesOK
    <2> QED
        BY <1>1, <2>1 DEF Messages
<1>5. xHttpdQueue' = xHttpdQueue \/ xHttpdQueue' = Append(xHttpdQueue, m)
    BY <1>3 DEF Send
<1>6. xHttpdQueue' = Append(xHttpdQueue, m) => m \in Messages
    <2> SUFFICES ASSUME xHttpdQueue' = Append(xHttpdQueue, m) PROVE m \in Messages
        OBVIOUS
    <2>1. xHttpdQueue' \in Seq(Messages) /\ xHttpdQueue \in Seq(Messages)
        BY DEF Typed, QueuesOK
    <2> HIDE DEF m
    <2>2. /\ Len(xHttpdQueue') = Len(xHttpdQueue) + 1
          /\ Len(xHttpdQueue) \in Nat
          /\ xHttpdQueue'[Len(xHttpdQueue) + 1] = m
        BY <2>1
    <2>3. Len(xHttpdQueue) + 1 \in 1 .. Len(xHttpdQueue')
        BY <2>2
    <2> QED
        BY <2>1, <2>2, <2>3, ElementOfSeq
<1> HIDE DEF m
<1>7. AnswersOnly'
    <2>1. CASE xHttpdQueue' = xHttpdQueue
        BY <2>1 DEF LagInv, AnswersOnly
    <2>2. CASE xHttpdQueue' = Append(xHttpdQueue, m)
        <3>1. /\ xHttpdQueue \in Seq(Messages) /\ Len(xHttpdQueue) \in Nat
              /\ DOMAIN xHttpdQueue = 1 .. Len(xHttpdQueue)
              /\ DOMAIN xHttpdQueue' = 1 .. (Len(xHttpdQueue) + 1)
              /\ xHttpdQueue'[Len(xHttpdQueue) + 1] = m
              /\ \A k \in 1 .. Len(xHttpdQueue) : xHttpdQueue'[k] = xHttpdQueue[k]
            BY <1>6, <2>2 DEF Typed, QueuesOK
        <3>2. \A k \in DOMAIN xHttpdQueue :
                  xHttpdQueue[k].cmd = "GET"
            BY DEF LagInv, AnswersOnly
        <3> QED
            BY <1>4, <3>1, <3>2 DEF AnswersOnly
    <2> QED
        BY <1>5, <2>1, <2>2
<1>8. Paired => Paired'
    BY <1>1, <1>2, PairedRest
<1>9. /\ Waited(Requests) \in Nat /\ Left(Requests) \in Nat
      /\ Waited(Requests') \in Nat /\ Left(Requests') \in Nat
      /\ Waited(xHttpdQueue) \in Nat /\ Left(xHttpdQueue) \in Nat
    BY UnderNat, CountsNat DEF Typed
<1>10. /\ WaitedFor' <= WaitedFor /\ LeftBehind' <= LeftBehind
       /\ WaitedFor' \in Nat /\ WaitedFor \in Nat
       /\ LeftBehind' \in Nat /\ LeftBehind \in Nat
    <2>1. /\ WaitedFor = Waited(xHttpdQueue) + Waited(Requests)
          /\ LeftBehind = Left(xHttpdQueue) + Left(Requests)
          /\ WaitedFor' = Waited(xHttpdQueue') + Waited(Requests')
          /\ LeftBehind' = Left(xHttpdQueue') + Left(Requests')
        BY DEF WaitedFor, LeftBehind
    <2>2. CASE xMessage[1].fresh
        <3>1. /\ Waited(Requests) = Waited(Requests') + 1
              /\ Left(Requests) = Left(Requests')
            BY <1>1, <1>2, <2>2, CountsTail, Zenon DEF Typed
        <3>2. \/ /\ Waited(xHttpdQueue') = Waited(xHttpdQueue)
                 /\ Left(xHttpdQueue') = Left(xHttpdQueue)
              \/ /\ Waited(xHttpdQueue') = Waited(xHttpdQueue) + 1
                 /\ Left(xHttpdQueue') = Left(xHttpdQueue)
            BY <1>4, <1>5, <1>6, <2>2, CountsAppend, ZenonT(60) DEF Typed, QueuesOK
        <3> QED
            BY <1>9, <2>1, <3>1, <3>2
    <2>3. CASE ~xMessage[1].fresh
        <3>1. /\ Waited(Requests) = Waited(Requests')
              /\ Left(Requests) = Left(Requests') + 1
            BY <1>1, <1>2, <2>3, CountsTail, Zenon DEF Typed
        <3>2. \/ /\ Waited(xHttpdQueue') = Waited(xHttpdQueue)
                 /\ Left(xHttpdQueue') = Left(xHttpdQueue)
              \/ /\ Waited(xHttpdQueue') = Waited(xHttpdQueue)
                 /\ Left(xHttpdQueue') = Left(xHttpdQueue) + 1
            BY <1>4, <1>5, <1>6, <2>3, CountsAppend, Zenon DEF Typed, QueuesOK
        <3> QED
            BY <1>9, <2>1, <3>1, <3>2
    <2> QED
        BY <2>2, <2>3
<1> HIDE DEF WaitedFor, LeftBehind
<1>11. /\ WaitedFor' <= 1 /\ LeftBehind' <= late'
       /\ tcpip_pc' \in {"loop", "get"} => WaitedFor' = 0
    <2>1. /\ WaitedFor <= 1 /\ LeftBehind <= late /\ late' = late
          /\ tcpip_pc' \in {"loop", "get"} => WaitedFor = 0
          /\ late \in Nat
        BY <1>1 DEF LagInv, Typed, TcpipTypeOK
    <2> QED
        BY <1>10, <2>1
<1> QED
    BY <1>1, <1>7, <1>8, <1>11 DEF LagInv

-----------------------------------------------------------------------------
\* Every step keeps the lag within its bound.
LEMMA LagStep ==
    ASSUME Typed, Typed', LagInv, [Next]_vars PROVE LagInv'
<1>1. CASE Tcpip
    <2>1. ASSUME NEW i \in Items, NEW v \in Values, SetParam(i, v)
          PROVE  LagInv'
        BY <2>1, LagSetParam
    <2>2. CASE RereadParam
        BY <2>2, LagSendGet DEF RereadParam, comVars, Typed, TcpipTypeOK
    <2>3. ASSUME NEW i \in PageItems, ReadField(i) PROVE LagInv'
        <3>1. i \in Items
            BY ComAssumption DEF ComAssumption
        <3> QED
            BY <2>3, <3>1, LagSendGet DEF ReadField, comVars
    <2>4. CASE SuspendLwip \/ AwaitAnswer \/ AwaitMessage
        BY <2>4, LagUnchanged
        DEF SuspendLwip, AwaitAnswer, AwaitMessage, Requests, comVars, tcpipVars
    <2> QED
        BY <1>1, <2>1, <2>2, <2>3, <2>4, LagReceive, LagGiveUp, LagFinish
        DEF Tcpip
<1>2. CASE ComTask
    <2>1. CASE ReceiveRequest
        <3>1. Requests' = Requests
            BY <2>1, ReceiveTypes DEF ReceiveRequest, Typed
        <3> QED
            BY <2>1, <3>1, LagUnchanged DEF ReceiveRequest, tcpipVars
    <2>2. CASE ResumeLwip \/ AwaitRequest
        BY <2>2, LagUnchanged
        DEF ResumeLwip, AwaitRequest, Requests, comVars, tcpipVars
    <2> QED
        BY <1>2, <2>1, <2>2, LagHandleGet, LagHandleSet DEF ComTask
<1>3. CASE \/ LwipRound
           \/ \E o \in Others : OtherRuns(o)
           \/ SwitchContext
           \/ Interrupts
           \/ UNCHANGED vars
    <2>1. UNCHANGED <<xComQueue, xHttpdQueue, comVars, tcpip_pc, late>>
        BY <1>3 DEF LwipRound, OtherRuns, SwitchContext, Interrupts,
                    AnswerTimeout, MessageArrives, RequestTimeout, DelayOver,
                    EventArrives, EthernetInterrupt, Interrupt, tcpipVars, vars
    <2> QED
        BY <2>1, LagUnchanged DEF Requests, comVars
<1> QED
    BY <1>1, <1>2, <1>3 DEF Next

\* At first there is none.
LEMMA LagInit == Init => LagInv
<1> SUFFICES ASSUME Init PROVE LagInv
    OBVIOUS
<1>1. /\ Requests = <<>> /\ xHttpdQueue = <<>> /\ late = 0
    BY DEF Init, Requests
<1>2. Waited(<<>>) = 0 /\ Left(<<>>) = 0
    BY CountEmpty, Zenon DEF Waited, Left
<1>3. WaitedFor = 0 /\ LeftBehind = 0
    BY <1>1, <1>2 DEF WaitedFor, LeftBehind
<1>4. Paired /\ AnswersOnly
    BY <1>1 DEF Paired, AnswersOnly
<1> QED
    BY <1>1, <1>3, <1>4 DEF LagInv

\* A message is waited for or it is not.
LEMMA MessageFresh == \A m \in Messages : m.fresh \in BOOLEAN
    BY DEF Messages

\* What the counts say of the property.  Where the bound does not follow from
\* the pairs, it is more than xComQueue has room for.
LEMMA LagFits == TypeInv /\ LagInv => LagIsBounded
<1> SUFFICES ASSUME TypeInv, LagInv PROVE LagIsBounded
    OBVIOUS
<1>1. Typed
    BY LagTypes
<1>2. Leftovers = LeftBehind
    <2>1. {k \in DOMAIN xHttpdQueue : ~xHttpdQueue[k].fresh} =
              Gets(xHttpdQueue, FALSE)
        <3>1. \A k \in DOMAIN xHttpdQueue :
                  xHttpdQueue[k].fresh \in BOOLEAN /\ xHttpdQueue[k].cmd = "GET"
            <4>1. \A k \in DOMAIN xHttpdQueue : xHttpdQueue[k] \in Messages
                BY <1>1, LenProperties, ElementOfSeq DEF Typed, QueuesOK
            <4> QED
                BY <4>1, MessageFresh DEF LagInv, AnswersOnly
        <3> QED
            BY <3>1 DEF Gets
    <2>2. {k \in DOMAIN Requests : Requests[k].cmd = "GET" /\ ~Requests[k].fresh} =
              Gets(Requests, FALSE)
        <3>1. \A k \in DOMAIN Requests : Requests[k].fresh \in BOOLEAN
            <4>1. \A k \in DOMAIN Requests : Requests[k] \in Messages
                BY <1>1, LenProperties, ElementOfSeq DEF Typed
            <4> QED
                BY <4>1, MessageFresh
        <3> QED
            BY <3>1 DEF Gets
    <2> QED
        BY <2>1, <2>2, Zenon DEF Leftovers, LeftBehind, Left, Count
<1>3. Len(xComQueue) <= 2 * (late + 1)
    <2>1. late \in Nat /\ Len(xComQueue) <= COM_QUEUE_SIZE
          /\ COM_QUEUE_SIZE \in Nat /\ Len(xComQueue) \in Nat
          /\ Len(xComQueue) <= Len(Requests) /\ Len(Requests) \in Nat
        BY <1>1 DEF Typed, QueuesOK, TcpipTypeOK
    <2>2. CASE 2 * (late + 1) <= COM_QUEUE_SIZE
        <3>1. Len(Requests) <= 2 * (Waited(Requests) + Left(Requests))
                                 + (IF tcpip_pc = "get" THEN 1 ELSE 0)
            BY <1>1, <2>2, FewRequests DEF LagInv
        <3>2. /\ Waited(Requests) \in Nat /\ Left(Requests) \in Nat
              /\ Waited(xHttpdQueue) \in Nat /\ Left(xHttpdQueue) \in Nat
            BY <1>1, UnderNat
        <3>3. /\ Waited(Requests) <= WaitedFor /\ Left(Requests) <= LeftBehind
            BY <3>2 DEF WaitedFor, LeftBehind
        <3>4. /\ LeftBehind <= late /\ WaitedFor <= 1
              /\ tcpip_pc = "get" => WaitedFor = 0
            BY DEF LagInv
        <3>5. WaitedFor \in Nat /\ LeftBehind \in Nat
            BY <3>2 DEF WaitedFor, LeftBehind
        <3> QED
            BY <2>1, <3>1, <3>2, <3>3, <3>4, <3>5
    <2>3. CASE ~(2 * (late + 1) <= COM_QUEUE_SIZE)
        BY <2>1, <2>3
    <2> QED
        BY <2>2, <2>3
<1> QED
    BY <1>2, <1>3 DEF LagIsBounded, LagInv

(***************************************************************************)
(* For every size of the queues and every number of late waits: a wait     *)
(* that ends before its answer leaves one answer behind, nothing else      *)
(* does, and the requests in xComQueue are at most a SET and a GET for     *)
(* each of these waits and the present one.  (A request that finds no room *)
(* is lost; but then this bound is more than the queue holds.)             *)
(***************************************************************************)
THEOREM LagBounded == Spec => []LagIsBounded
<1>1. Typed /\ Typed' /\ LagInv /\ [Next]_vars => LagInv'
    BY LagStep
<1> QED
    BY <1>1, LagTypes, LagInit, LagFits, TypeInvInit, TypeStep, PTL DEF Spec
=============================================================================
