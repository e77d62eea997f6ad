----------------------------- MODULE ComProtocol -----------------------------
(***************************************************************************)
(* How the web server reads and sets the values of the machine.            *)
(*                                                                         *)
(* The HTTP callbacks (SetCGIHandler and the input-field tags, io.c) run   *)
(* in lwIP's tcpip thread.  They put requests into xComQueue; the          *)
(* communication task (comTask.c) takes them out, talks to the machine and *)
(* puts the answer to a GET into xHttpdQueue.  After sending a GET the     *)
(* tcpip thread suspends the task xLwipTaskHandle, which is the task that  *)
(* watches the Ethernet link (LWIPServiceTaskInit), and then waits for the *)
(* answer for at most 10 ticks.  The communication task resumes the        *)
(* suspended task after every request.                                     *)
(*                                                                         *)
(* FreeRTOS is configured without preemption, and all these tasks have the *)
(* same priority: a task runs until it blocks, until a kernel call it      *)
(* makes yields, or until the Ethernet interrupt, which wakes the task of  *)
(* higher priority that reads packets, asks for a switch: afterwards the   *)
(* next of the tasks gets its turn, not the interrupted one.  One action   *)
(* is what a task does up to its next kernel call; a tick, which only      *)
(* makes a task ready, may come between any two of them.  The order in     *)
(* which ready tasks get their turn is the kernel's (ReadyList).           *)
(***************************************************************************)
EXTENDS Naturals, Sequences, FiniteSets, ReadyList

CONSTANTS
    Items,              (* Ids of the values of the machine.               *)
    Values,             (* Their values.                                   *)
    NoValue,            (* The -1 that stands for "no value".              *)
    Accepts,            (* The pairs <<id, value>> the machine stores.     *)
    PageItems,          (* Ids that the input fields of a page name.       *)
    Others,             (* The other tasks of the same priority.           *)
    COM_QUEUE_SIZE,
    HTTPD_QUEUE_SIZE,
    MaxLate             (* Bound: waits that end before their answer.      *)

Tasks == {"tcpip", "com", "lwip"} \cup Others

\* What is left of an id after its memory was freed and used again.
NoItem == "garbage"

ASSUME ComAssumption ==
    /\ Others \cap {"tcpip", "com", "lwip", "none"} = {}
    /\ NoItem \notin Items
    /\ NoValue \notin Values
    /\ Accepts \subseteq Items \X Values
    /\ PageItems \subseteq Items
    /\ COM_QUEUE_SIZE \in Nat \ {0}
    /\ HTTPD_QUEUE_SIZE \in Nat \ {0}
    /\ MaxLate \in Nat

VARIABLES
    state,       (* Where each task is: ready, or what it waits for.       *)
    order,       (* The order of the ready list.                           *)
    running,     (* The task that runs, "none" while the kernel switches.  *)
    xComQueue,
    xHttpdQueue,
    xMessage,    (* The request the communication task deals with, if any. *)
    store,       (* The values in the machine.                             *)
    tcpip_pc,    (* The next kernel call of the tcpip thread.              *)
    phase,       (* A CGI handler runs ("cgi"), or a page is sent ("page") *)
    param,       (* The parameter or the field that is dealt with.         *)
    timedOut,    (* The 10 ticks of the current wait are over.             *)
    com_pc,      (* The next kernel call of the communication task.        *)
    verdict,     (* History: what comparing the value read back gave.      *)
    inStep,      (* History: the last answer taken was the one asked for.  *)
    cut,         (* History: the tcpip thread was switched away between    *)
                 (* its last request for a value and the suspend.          *)
    late         (* History: waits that ended before their answer.         *)

kernelVars == <<state, order, running>>
comVars    == <<xMessage, com_pc, store>>
tcpipVars  == <<tcpip_pc, phase, param, timedOut, verdict, inStep, cut, late>>
vars == <<kernelVars, xComQueue, xHttpdQueue, comVars, tcpipVars>>

(***************************************************************************)
(* xComMessage.  owned and fresh are not fields of the C structure: the    *)
(* memory item points to still belongs to the sender; the sender still     *)
(* waits for the answer.                                                   *)
(***************************************************************************)
Messages ==
    [cmd : {"SET", "GET"}, item : Items \cup {NoItem},
     value : Values \cup {NoValue}, owned : BOOLEAN, fresh : BOOLEAN]

\* The memory of every item in the queue is given back.
Released(q) == [k \in DOMAIN q |-> [q[k] EXCEPT !.owned = FALSE]]

\* The sender no longer waits for the answers to what is in the queue.
Abandoned(q) == [k \in DOMAIN q |-> [q[k] EXCEPT !.fresh = FALSE]]

\* The requests that are not carried out yet, in their order.
Requests == xMessage \o xComQueue

\* An answer to the GET the tcpip thread waits for can still come.
AnswerPending ==
    \E k \in DOMAIN Requests : Requests[k].cmd = "GET" /\ Requests[k].fresh

-----------------------------------------------------------------------------
(* The kernel. *)

Ready == { t \in Tasks : state[t] = "ready" }

\* Mutant: a list that puts a woken task before the ones that are ready.
MakeReadyFirst(t) ==
    /\ state' = [state EXCEPT ![t] = "ready"]
    /\ order' = Removed(order, t) \cup { <<t, a>> : a \in Ready \ {t} }

\* t becomes ready; the running task goes on.
MakeReady(t) ==
    /\ state' = [state EXCEPT ![t] = "ready"]
    /\ order' = VisitLast(order, Ready, t)

\* A kernel call made t ready: same priority, so it yields.
WakeAndYield(t) == MakeReady(t) /\ running' = "none"

\* The running task t blocks.
Block(t, on) ==
    /\ state' = [state EXCEPT ![t] = on]
    /\ order' = Removed(order, t)
    /\ running' = "none"

\* vTaskSwitchContext.
SwitchContext ==
    /\ running = "none"
    /\ \E t \in Tasks :
         /\ IsNext(order, Ready, t)
         /\ running' = t
         /\ order' = VisitLast(order, Ready, t)
    /\ UNCHANGED <<state, xComQueue, xHttpdQueue, comVars, tcpipVars>>

\* Mutants: no check for a full queue; xQueueSendToFront.
SendUnchecked(queue, size, m, reader, on) ==
    /\ queue' = Append(queue, m)
    /\ IF state[reader] = on THEN WakeAndYield(reader)
                             ELSE UNCHANGED kernelVars

SendToFront(queue, size, m, reader, on) ==
    /\ queue' = IF Len(queue) = size THEN queue ELSE <<m>> \o queue
    /\ IF Len(queue) < size /\ state[reader] = on THEN WakeAndYield(reader)
                                                  ELSE UNCHANGED kernelVars

\* xQueueSend(queue, m, 0) on a queue of the given size, whose reader blocks
\* in state on: a full queue drops the message, and nobody is told.
Send(queue, size, m, reader, on) ==
    \/ /\ Len(queue) = size
       /\ queue' = queue
       /\ UNCHANGED kernelVars
    \/ /\ Len(queue) < size
       /\ queue' = Append(queue, m)
       /\ state[reader] = on
       /\ WakeAndYield(reader)
    \/ /\ Len(queue) < size
       /\ queue' = Append(queue, m)
       /\ state[reader] # on
       /\ UNCHANGED kernelVars

-----------------------------------------------------------------------------
Init ==
    /\ state = [t \in Tasks |->
                  CASE t = "tcpip" -> "mbox"
                    [] t = "com"   -> "comq"
                    [] t = "lwip"  -> "delay"
                    [] OTHER       -> "event"]
    /\ order = {}
    /\ running = "none"
    /\ xComQueue = <<>>
    /\ xHttpdQueue = <<>>
    /\ xMessage = <<>>
    /\ store \in [Items -> Values]
    /\ tcpip_pc = "loop"
    /\ phase = "page"
    /\ param \in [item : Items, value : Values, check : {FALSE}]
    /\ timedOut = FALSE
    /\ com_pc = "receive"
    /\ verdict = "none"
    /\ inStep = TRUE
    /\ cut = FALSE
    /\ late = 0

-----------------------------------------------------------------------------
(* The tcpip thread. *)

SendToCom(m) == Send(xComQueue, COM_QUEUE_SIZE, m, "com", "comq")

\* Mutant: the parameter is not read back.
SetParamUnchecked(i, v) ==
    /\ running = "tcpip"
    /\ tcpip_pc = "loop"
    /\ SendToCom([cmd |-> "SET", item |-> i, value |-> v,
                  owned |-> TRUE, fresh |-> TRUE])
    /\ phase' = "cgi"
    /\ UNCHANGED <<xHttpdQueue, comVars, tcpip_pc, param, timedOut, verdict,
                   inStep, cut, late>>

\* SetCGIHandler sends one parameter to the communication task.
SetParam(i, v) ==
    /\ running = "tcpip"
    /\ tcpip_pc = "loop"
    /\ phase = "cgi" => verdict # "nok"
    /\ SendToCom([cmd |-> "SET", item |-> i, value |-> v,
                  owned |-> TRUE, fresh |-> TRUE])
    /\ param' = [item |-> i, value |-> v, check |-> TRUE]
    /\ phase' = "cgi"
    /\ tcpip_pc' = "get"
    /\ verdict' = "none"
    /\ UNCHANGED <<xHttpdQueue, comVars, timedOut, inStep, cut, late>>

\* io_get_value_from_comtask up to the xQueueSend.
SendGet(i, owned) ==
    /\ SendToCom([cmd |-> "GET", item |-> i, value |-> NoValue,
                  owned |-> owned, fresh |-> TRUE])
    /\ tcpip_pc' = "suspend"
    /\ timedOut' = FALSE
    /\ cut' = FALSE

\* Mutant: the name of the parameter is freed before it is read back.
RereadFreed ==
    /\ running = "tcpip"
    /\ tcpip_pc = "get"
    /\ SendGet(param.item, FALSE)
    /\ UNCHANGED <<xHttpdQueue, comVars, phase, param, verdict, inStep, late>>

\* SetCGIHandler reads the parameter back.
RereadParam ==
    /\ running = "tcpip"
    /\ tcpip_pc = "get"
    /\ SendGet(param.item, TRUE)
    /\ UNCHANGED <<xHttpdQueue, comVars, phase, param, verdict, inStep, late>>

\* The render function of an input field has freed the tag's parameters, the
\* id among them, and now asks for the value with that id.
ReadField(i) ==
    /\ running = "tcpip"
    /\ tcpip_pc = "loop"
    /\ phase = "page"
    /\ SendGet(i, FALSE)
    /\ param' = [item |-> i, value |-> param.value, check |-> FALSE]
    /\ verdict' = "none"
    /\ UNCHANGED <<xHttpdQueue, comVars, phase, inStep, late>>

\* vTaskSuspend(xLwipTaskHandle).
SuspendLwip ==
    /\ running = "tcpip"
    /\ tcpip_pc = "suspend"
    /\ state' = [state EXCEPT !["lwip"] = "suspended"]
    /\ order' = Removed(order, "lwip")
    /\ tcpip_pc' = "receive"
    /\ UNCHANGED <<running, xComQueue, xHttpdQueue, comVars, phase, param,
                   timedOut, verdict, inStep, cut, late>>

\* io_get_value_from_comtask returns v; the CGI handler compares it with the
\* value it has set.
ReturnValue(v) ==
    /\ verdict' = IF ~param.check THEN "none"
                  ELSE IF v = param.value THEN "ok" ELSE "nok"
    /\ tcpip_pc' = "loop"
    /\ xComQueue' = Abandoned(xComQueue)
    /\ xMessage' = Abandoned(xMessage)

\* xQueueReceive finds an answer.
ReceiveAnswer ==
    /\ running = "tcpip"
    /\ tcpip_pc = "receive"
    /\ xHttpdQueue # <<>>
    /\ ReturnValue(Head(xHttpdQueue).value)
    /\ xHttpdQueue' = Abandoned(Tail(xHttpdQueue))
    /\ inStep' = Head(xHttpdQueue).fresh
    /\ UNCHANGED <<kernelVars, store, com_pc, phase, param, timedOut, cut,
                   late>>

\* xQueueReceive finds none and blocks.
AwaitAnswer ==
    /\ running = "tcpip"
    /\ tcpip_pc = "receive"
    /\ xHttpdQueue = <<>>
    /\ ~timedOut
    /\ Block("tcpip", "httpd")
    /\ UNCHANGED <<xComQueue, xHttpdQueue, comVars, tcpipVars>>

\* xQueueReceive runs again after its 10 ticks and still finds none.
GiveUp ==
    /\ running = "tcpip"
    /\ tcpip_pc = "receive"
    /\ xHttpdQueue = <<>>
    /\ timedOut
    /\ ReturnValue(NoValue)
    /\ late' = IF AnswerPending THEN late + 1 ELSE late
    /\ UNCHANGED <<kernelVars, xHttpdQueue, store, com_pc, phase, param,
                   timedOut, inStep, cut>>

\* The CGI handler has returned; http_recv frees the request, to which the
\* names of the parameters point, and starts to send the page.
FinishCgi ==
    /\ running = "tcpip"
    /\ tcpip_pc = "loop"
    /\ phase = "cgi"
    /\ phase' = "page"
    /\ xComQueue' = Released(xComQueue)
    /\ xMessage' = Released(xMessage)
    /\ UNCHANGED <<kernelVars, xHttpdQueue, store, com_pc, tcpip_pc, param,
                   timedOut, verdict, inStep, cut, late>>

\* The tcpip thread waits for its next message, or for the driver.
AwaitMessage ==
    /\ running = "tcpip"
    /\ tcpip_pc = "loop"
    /\ phase = "page"
    /\ Block("tcpip", "mbox")
    /\ UNCHANGED <<xComQueue, xHttpdQueue, comVars, tcpipVars>>

-----------------------------------------------------------------------------
(* The communication task. *)

\* The ids that may be read through the item pointer of m: once the memory is
\* freed, whatever was written there since.
Reads(m) == IF m.owned THEN {m.item} ELSE Items \cup {NoItem}

\* getFormMachine.
MachineValue(i) == IF i \in Items THEN store[i] ELSE NoValue

\* xQueueReceive finds a request.
ReceiveRequest ==
    /\ running = "com"
    /\ com_pc = "receive"
    /\ xMessage = <<>>
    /\ xComQueue # <<>>
    /\ xMessage' = <<Head(xComQueue)>>
    /\ xComQueue' = Tail(xComQueue)
    /\ UNCHANGED <<kernelVars, xHttpdQueue, com_pc, store, tcpipVars>>

\* The communication task has a request with the command cmd to carry out.
DealsWith(cmd) == running = "com" /\ xMessage # <<>> /\ xMessage[1].cmd = cmd

\* The machine is asked for the value, the answer goes to xHttpdQueue.  It is not
\* -999, for which an error text would be written through NULL.
AnswerGet ==
    \E i \in Reads(xMessage[1]) :
        Send(xHttpdQueue, HTTPD_QUEUE_SIZE,
             [xMessage[1] EXCEPT !.value = MachineValue(i)], "tcpip", "httpd")

\* Mutant: no task to resume with a GET.
HandleGetNoResume ==
    /\ DealsWith("GET")
    /\ AnswerGet
    /\ xMessage' = <<>>
    /\ UNCHANGED <<xComQueue, com_pc, store, tcpipVars>>

HandleGet ==
    /\ DealsWith("GET")
    /\ AnswerGet
    /\ xMessage' = <<>>
    /\ com_pc' = "resume"
    /\ UNCHANGED <<xComQueue, store, tcpipVars>>

\* sendToMachine.
SendToMachine ==
    \E i \in Reads(xMessage[1]) :
        store' = IF <<i, xMessage[1].value>> \in Accepts
                 THEN [store EXCEPT ![i] = xMessage[1].value]
                 ELSE store

\* Mutant: a SET is answered, too.
HandleSetAnswers ==
    /\ DealsWith("SET")
    /\ SendToMachine
    /\ Send(xHttpdQueue, HTTPD_QUEUE_SIZE, xMessage[1], "tcpip", "httpd")
    /\ xMessage' = <<>>
    /\ com_pc' = "resume"
    /\ UNCHANGED <<xComQueue, tcpipVars>>

HandleSet ==
    /\ DealsWith("SET")
    /\ SendToMachine
    /\ xMessage' = <<>>
    /\ com_pc' = "resume"
    /\ UNCHANGED <<kernelVars, xComQueue, xHttpdQueue, tcpipVars>>

\* vTaskResume(taskToResume): nothing happens unless the task is suspended.
ResumeLwip ==
    /\ running = "com"
    /\ com_pc = "resume"
    /\ IF state["lwip"] = "suspended"
       THEN WakeAndYield("lwip")
       ELSE UNCHANGED kernelVars
    /\ com_pc' = "receive"
    /\ UNCHANGED <<xComQueue, xHttpdQueue, xMessage, store, tcpipVars>>

\* xQueueReceive finds no request and blocks, for 100 ticks at a time.
AwaitRequest ==
    /\ running = "com"
    /\ com_pc = "receive"
    /\ Requests = <<>>
    /\ Block("com", "comq")
    /\ UNCHANGED <<xComQueue, xHttpdQueue, comVars, tcpipVars>>

-----------------------------------------------------------------------------
(* The other tasks.  Their work does not touch the state of this module.   *)

\* One round of the link monitor, up to its vTaskDelay.
LwipRound ==
    /\ running = "lwip"
    /\ Block("lwip", "delay")
    /\ UNCHANGED <<xComQueue, xHttpdQueue, comVars, tcpipVars>>

OtherRuns(o) ==
    /\ running = o
    /\ \/ Block(o, "event")
       \/ running' = "none" /\ UNCHANGED <<state, order>>
    /\ UNCHANGED <<xComQueue, xHttpdQueue, comVars, tcpipVars>>

-----------------------------------------------------------------------------
(* The tick and the other interrupts.  They make a task ready and leave the *)
(* running task its processor.                                              *)

Interrupt(t, on) ==
    /\ state[t] = on
    /\ MakeReady(t)
    /\ UNCHANGED <<running, xComQueue, xHttpdQueue, comVars>>

\* Mutant: the wait for the answer has no end (portMAX_DELAY).
AnswerTimeoutNever == FALSE /\ UNCHANGED vars

\* The 10 ticks for the answer are over.
AnswerTimeout ==
    /\ AnswerPending => late < MaxLate
    /\ Interrupt("tcpip", "httpd")
    /\ timedOut' = TRUE
    /\ UNCHANGED <<tcpip_pc, phase, param, verdict, inStep, cut, late>>

MessageArrives == Interrupt("tcpip", "mbox") /\ UNCHANGED tcpipVars

RequestTimeout == Interrupt("com", "comq") /\ UNCHANGED tcpipVars

DelayOver == Interrupt("lwip", "delay") /\ UNCHANGED tcpipVars

EventArrives(o) == Interrupt(o, "event") /\ UNCHANGED tcpipVars

\* ETH0IntHandler wakes the task that reads packets and asks for a switch to
\* it.  When that task blocks again the kernel goes on with the next task.
EthernetInterrupt ==
    /\ running # "none"
    /\ running' = "none"
    /\ cut' = (cut \/ (running = "tcpip" /\ tcpip_pc = "suspend"))
    /\ UNCHANGED <<state, order, xComQueue, xHttpdQueue, comVars, tcpip_pc,
                   phase, param, timedOut, verdict, inStep, late>>

-----------------------------------------------------------------------------
Tcpip ==
    \/ \E i \in Items, v \in Values : SetParam(i, v)
    \/ RereadParam
    \/ \E i \in PageItems : ReadField(i)
    \/ SuspendLwip
    \/ ReceiveAnswer
    \/ AwaitAnswer
    \/ GiveUp
    \/ FinishCgi
    \/ AwaitMessage

ComTask == ReceiveRequest \/ HandleGet \/ HandleSet \/ ResumeLwip \/ AwaitRequest

Interrupts ==
    \/ AnswerTimeout
    \/ MessageArrives
    \/ RequestTimeout
    \/ DelayOver
    \/ \E o \in Others : EventArrives(o)
    \/ EthernetInterrupt

Next ==
    \/ Tcpip
    \/ ComTask
    \/ LwipRound
    \/ \E o \in Others : OtherRuns(o)
    \/ SwitchContext
    \/ Interrupts

Spec == Init /\ [][Next]_vars

(***************************************************************************)
(* Fairness: the kernel switches and the tick goes on; a task that again   *)
(* and again gets its turn does not lose every turn to the Ethernet        *)
(* interrupt before its next step.  No other task keeps the processor for  *)
(* ever; in particular getFormMachine returns, that is, the machine        *)
(* answers the line it was sent: UARTgets would wait for ever.             *)
(***************************************************************************)
Fairness ==
    /\ SF_vars(Tcpip)
    /\ SF_vars(ComTask)
    /\ SF_vars(LwipRound)
    /\ \A o \in Others : SF_vars(OtherRuns(o))
    /\ WF_vars(SwitchContext)
    /\ WF_vars(AnswerTimeout)
    /\ WF_vars(DelayOver)

FairSpec == Spec /\ Fairness

-----------------------------------------------------------------------------
(* Properties. *)

TypeOK ==
    /\ state \in [Tasks -> {"ready", "mbox", "httpd", "comq", "delay",
                           "event", "suspended"}]
    /\ order \subseteq Tasks \X Tasks
    /\ running \in Tasks \cup {"none"}
    /\ xComQueue \in Seq(Messages) /\ Len(xComQueue) <= COM_QUEUE_SIZE
    /\ xHttpdQueue \in Seq(Messages) /\ Len(xHttpdQueue) <= HTTPD_QUEUE_SIZE
    /\ xMessage \in Seq(Messages) /\ Len(xMessage) <= 1
    /\ store \in [Items -> Values]
    /\ tcpip_pc \in {"loop", "get", "suspend", "receive"}
    /\ phase \in {"cgi", "page"}
    /\ param \in [item : Items, value : Values, check : BOOLEAN]
    /\ timedOut \in BOOLEAN
    /\ com_pc \in {"receive", "resume"}
    /\ verdict \in {"none", "ok", "nok"}
    /\ inStep \in BOOLEAN
    /\ cut \in BOOLEAN
    /\ late \in 0 .. MaxLate

(***************************************************************************)
(* vTaskResume does nothing for a task that is not suspended yet.  Still   *)
(* the suspend of io_get_value_from_comtask is not lost on it: whenever    *)
(* the link monitor is suspended, the communication task has a request     *)
(* whose handling will resume it, or is about to - unless the Ethernet     *)
(* interrupt came between sending the request and suspending.              *)
(***************************************************************************)
ResumeIsComing ==
    state["lwip"] = "suspended" =>
        \/ cut
        \/ com_pc = "resume" /\ state["com"] = "ready"
        \/ Requests # <<>> /\ state["com"] = "ready"

(***************************************************************************)
(* As long as no wait ended before its answer, the answer taken out of     *)
(* xHttpdQueue is the answer to the request just sent.                     *)
(***************************************************************************)
InStepUnlessLate == late = 0 => inStep

\* The answers, and requests for answers, that nobody waits for any more.
Leftovers ==
    Cardinality({k \in DOMAIN xHttpdQueue : ~xHttpdQueue[k].fresh})
      + Cardinality({k \in DOMAIN Requests :
                        Requests[k].cmd = "GET" /\ ~Requests[k].fresh})

(***************************************************************************)
(* A wait that ends too early leaves one answer behind, nothing else does, *)
(* so that the reads lag by at most as many answers as waits were late;    *)
(* nor do requests pile up.  (xQueueSend does not wait for room, and its   *)
(* result is ignored: with this much room no request is dropped.)          *)
(***************************************************************************)
LagIsBounded == Leftovers <= late /\ Len(xComQueue) <= 2 * (late + 1)

(***************************************************************************)
(* A parameter that SetCGIHandler has read back as the value it has set is *)
(* stored in the machine, as long as no wait was late.                     *)
(***************************************************************************)
VerifiedUnlessLate ==
    late = 0 /\ verdict = "ok" => store[param.item] = param.value

(***************************************************************************)
(* The communication task handles a SET before its name is freed, as long  *)
(* as no wait was late: it never sets another value than the one asked for *)
(***************************************************************************)
SetsOwnItemUnlessLate ==
    late = 0 => \A k \in DOMAIN Requests :
                   Requests[k].cmd = "SET" => Requests[k].owned

(***************************************************************************)
(* The reads suspend the link monitor again and again, and may do so       *)
(* before it had a turn; but once no more values are read it runs again,   *)
(* for ever: no resume was lost, unless by an Ethernet interrupt.          *)
(***************************************************************************)
LinkMonitorLives ==
    <>[](tcpip_pc = "loop" /\ ~cut) => []<>(running = "lwip")

\* Every request of the tcpip thread comes to an end.
ReadReturns == tcpip_pc # "loop" ~> tcpip_pc = "loop"

-----------------------------------------------------------------------------
(***************************************************************************)
(* Without late waits, and for ids whose memory is not freed before the    *)
(* read (the CGI handler's), the tasks and queues implement MachineAccess: *)
(* the sets under way are the requests before the one for an answer, which *)
(* is the last; a read is answered once its answer is in xHttpdQueue.      *)
(***************************************************************************)
WritesUnderWay ==
    [k \in 1 .. IF AnswerPending THEN Len(Requests) - 1 ELSE Len(Requests) |->
        <<Requests[k].item, Requests[k].value>>]

ReadUnderWay ==
    IF tcpip_pc \notin {"suspend", "receive"} THEN [status |-> "idle"]
    ELSE IF AnswerPending THEN [status |-> "asked", item |-> param.item]
    ELSE [status |-> "answered", item |-> param.item,
          value |-> Head(xHttpdQueue).value]

Access == INSTANCE MachineAccess WITH
              writes <- WritesUnderWay, read <- ReadUnderWay

AccessSpec == Access!Spec
=============================================================================
