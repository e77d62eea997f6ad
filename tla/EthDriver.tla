------------------------------ MODULE EthDriver ------------------------------
(***************************************************************************)
(* The Ethernet driver: the controller, its interrupt handler              *)
(* (ETH0IntHandler, ETHIsr.c), the task ETH_INPUT that reads received      *)
(* frames (ethernetif_input, LWIPStack.c) and the tasks that send frames   *)
(* (low_level_output).                                                     *)
(*                                                                         *)
(* There is one processor.  An interrupt comes between any two steps of a  *)
(* task; the task that was interrupted goes on afterwards, unless the      *)
(* handler asks for a switch.  Apart from that a task runs until it        *)
(* blocks, because the kernel is configured without preemption: ETH_INPUT, *)
(* the task of the highest priority, does not run as soon as it is ready,  *)
(* but at the next switch.  One action is what a task does between two     *)
(* accesses to the state it shares with the handler; changing the          *)
(* interrupt mask is two of them, a read and a write.                      *)
(***************************************************************************)
EXTENDS Naturals

CONSTANTS
    Senders,        (* The tasks that send frames.                         *)
    RxFifoSize,     (* Frames the receive FIFO has room for.               *)
    Faults          (* Bound: the errors the controller may report, of     *)
                    (* "TXER" and "RXOF", and "PHY" for a cable that comes *)
                    (* and goes.                                           *)

ASSUME EthAssumption ==
    /\ Senders \cap {"input", "other", "none"} = {}
    /\ RxFifoSize \in Nat \ {0}
    /\ Faults \subseteq {"TXER", "RXOF", "PHY"}

\* The causes of an interrupt that the driver handles.
Causes == {"RX", "TX", "TXER", "RXOF", "PHY"}

VARIABLES
    RIS,         (* The causes that are raised.                            *)
    IM,          (* The causes that are enabled.                           *)
    NP,          (* Frames in the receive FIFO.                            *)
    NEWTX,       (* The transmitter is sending a frame.                    *)
    ulStatus,    (* What the interrupt handler has read, {} if none runs.  *)
    woken,       (* Its static xHigherPriorityTaskWoken.                   *)
    link,        (* ETH_LINK_OK.                                           *)
    RxSem,       (* ETHRxBinSemaphore.                                     *)
    TxSem,       (* ETHTxBinSemaphore.                                     *)
    mutex,       (* Who holds ETHTxAccessMutex, or "none".                 *)
    cpu,         (* The task that runs, "none" while the kernel switches.  *)
    input_pc,
    pc,          (* The next step of every sender.                         *)
    im,          (* The mask a task has read and is about to write, or {}.  *)
    leftover     (* History: a frame was given to the transmitter while    *)
                 (* the end of an earlier one was still raised.            *)

hardwareVars == <<RIS, IM, NP, NEWTX>>
handlerVars  == <<ulStatus, woken, link>>
inputVars    == <<RxSem, input_pc>>
senderVars   == <<TxSem, mutex, pc, leftover>>
vars == <<hardwareVars, handlerVars, cpu, inputVars, senderVars, im>>

SenderSteps == {"idle", "lock", "drain", "check", "enable", "enabled", "wait",
                "transmit", "retransmit", "disable", "disabled", "unlock"}

\* A task does a step only while no interrupt is handled.
Runs(t) == cpu = t /\ ulStatus = {}

\* Tasks that wait, and are not ready to run.
Blocked == {"mutex", "sem"}

Init ==
    /\ RIS = {}
    /\ IM = {"RX", "TXER", "RXOF", "PHY"}
    /\ NP = 0
    /\ NEWTX = FALSE
    /\ ulStatus = {}
    /\ woken = FALSE
    /\ link = TRUE
    /\ RxSem = 0
    /\ TxSem = 0
    /\ mutex = "none"
    /\ cpu = "none"
    /\ input_pc = "read"
    /\ pc = [s \in Senders |-> "idle"]
    /\ im = [t \in Senders \cup {"input"} |-> {}]
    /\ leftover = FALSE

-----------------------------------------------------------------------------
(* The controller. *)

\* A frame is received; a full FIFO drops it.
FrameArrives ==
    /\ \/ NP < RxFifoSize /\ NP' = NP + 1 /\ RIS' = RIS \cup {"RX"}
       \/ NP = RxFifoSize /\ NP' = NP /\ RIS' = RIS \cup ({"RXOF"} \cap Faults)
    /\ UNCHANGED <<IM, NEWTX, handlerVars, cpu, inputVars, senderVars, im>>

\* A frame has been sent, or sending it has failed.
FrameSent ==
    /\ NEWTX
    /\ NEWTX' = FALSE
    /\ \E error \in SUBSET ({"TXER"} \cap Faults) :
           RIS' = RIS \cup {"TX"} \cup error
    /\ UNCHANGED <<IM, NP, handlerVars, cpu, inputVars, senderVars, im>>

\* The PHY has seen the cable come or go.
CableChanges ==
    /\ "PHY" \in Faults
    /\ RIS' = RIS \cup {"PHY"}
    /\ UNCHANGED <<IM, NP, NEWTX, handlerVars, cpu, inputVars, senderVars, im>>

-----------------------------------------------------------------------------
(* ETH0IntHandler. *)

\* EthernetIntStatus(..., false): the raised causes, enabled or not.
InterruptStatus ==
    /\ ulStatus = {}
    /\ RIS \cap IM # {}
    /\ ulStatus' = RIS
    /\ UNCHANGED <<hardwareVars, woken, link, cpu, inputVars, senderVars, im>>

\* A blocked task is made ready; it tries again to take the semaphore.
InputWakes == RxSem = 0 /\ input_pc = "sem"

WaitsForTx == { s \in Senders : pc[s] = "sem" }

SenderWakes == TxSem = 0 /\ WaitsForTx # {}

\* A sender has at least the priority of the task that was interrupted.  It
\* has not if that is ETH_INPUT, which may also be the one that just blocked,
\* or the clock task, one of the others.
SenderOutranks ==
    IF cpu \in Senders THEN {TRUE} ELSE IF cpu = "input" THEN {FALSE} ELSE BOOLEAN

\* What the five branches leave in xHigherPriorityTaskWoken.  A task that is
\* woken sets it if its priority is not lower than the running task's; an event
\* of the PHY clears it, whoever was woken.
WokenAfter(outranks) ==
    LET rx   == woken \/ ("RX" \in ulStatus /\ InputWakes)
        txer == "TXER" \notin ulStatus /\ rx
        tx   == txer \/ ("TX" \in ulStatus /\ SenderWakes /\ outranks)
    IN  /\ tx \/ (ulStatus \cap {"RX", "RXOF"} = {"RXOF"} /\ InputWakes)
        /\ "PHY" \notin ulStatus

\* portEND_SWITCHING_ISR.
EndSwitchingIsr ==
    /\ \E outranks \in SenderOutranks : woken' = WokenAfter(outranks)
    /\ cpu' = IF woken' THEN "none" ELSE cpu
    /\ ulStatus' = {}

\* EthernetIntClear, and EthernetIntDisable for a receive interrupt.
Acknowledge ==
    /\ RIS' = RIS \ ulStatus
    /\ IM' = IF "RX" \in ulStatus THEN IM \ {"RX"} ELSE IM

\* Mutant: a semaphore that counts.
GiveRxUnbounded ==
    IF ulStatus \cap {"RX", "RXOF"} # {}
    THEN /\ RxSem' = RxSem + 1
         /\ input_pc' = IF InputWakes THEN "take" ELSE input_pc
    ELSE UNCHANGED inputVars

\* xSemaphoreGiveFromISR(ETHRxBinSemaphore[0], ...).
GiveRx ==
    IF ulStatus \cap {"RX", "RXOF"} # {}
    THEN /\ RxSem' = 1
         /\ input_pc' = IF InputWakes THEN "take" ELSE input_pc
    ELSE UNCHANGED inputVars

\* xSemaphoreGiveFromISR(ETHTxBinSemaphore[0], ...).
GiveTx ==
    IF "TX" \in ulStatus
    THEN /\ TxSem' = 1
         /\ pc' = [s \in Senders |-> IF SenderWakes /\ s \in WaitsForTx
                                    THEN "wait" ELSE pc[s]]
    ELSE UNCHANGED <<TxSem, pc>>

\* The PHY tells that the link is up, or down, or neither of both.
ReadPhy == IF "PHY" \in ulStatus THEN link' \in BOOLEAN ELSE UNCHANGED link

\* The handler from EthernetIntClear on.
HandleInterrupt ==
    /\ ulStatus # {}
    /\ Acknowledge
    /\ GiveRx
    /\ GiveTx
    /\ ReadPhy
    /\ EndSwitchingIsr
    /\ UNCHANGED <<NP, NEWTX, mutex, leftover, im>>

-----------------------------------------------------------------------------
(* The kernel. *)

\* vTaskSwitchContext: ETH_INPUT and the clock task first; the order of tasks
\* of one priority is left open.  "other" stands for the tasks that do not use
\* the driver.
SwitchTo(t) ==
    /\ Runs("none")
    /\ IF input_pc # "sem"
       THEN t \in {"input", "other"}
       ELSE \/ t = "other"
            \/ t \in Senders /\ pc[t] \notin Blocked
    /\ cpu' = t
    /\ UNCHANGED <<hardwareVars, handlerVars, inputVars, senderVars, im>>

OtherYields ==
    /\ Runs("other")
    /\ cpu' = "none"
    /\ UNCHANGED <<hardwareVars, handlerVars, inputVars, senderVars, im>>

\* The tick ends ETH_INPUT's wait of 5 seconds; the running task goes on.
InputTimeout ==
    /\ input_pc = "sem"
    /\ input_pc' = "timeout"
    /\ UNCHANGED <<hardwareVars, handlerVars, cpu, RxSem, senderVars, im>>

-----------------------------------------------------------------------------
(* ethernetif_input. *)

Input(from, to) ==
    /\ Runs("input")
    /\ input_pc = from
    /\ input_pc' = to
    /\ UNCHANGED <<NEWTX, handlerVars, senderVars>>

\* low_level_input reads a frame, into a buffer or, if there is none, nowhere.
ReadFrame ==
    /\ NP > 0
    /\ \E to \in {"deliver", "avail"} : Input("read", to)
    /\ NP' = NP - 1
    /\ UNCHANGED <<RIS, IM, cpu, RxSem, im>>

NoFrame ==
    /\ NP = 0
    /\ Input("read", "avail")
    /\ UNCHANGED <<RIS, IM, NP, cpu, RxSem, im>>

\* netif->input passes the frame to the tcpip thread.
DeliverFrame ==
    /\ Input("deliver", "read")
    /\ UNCHANGED <<RIS, IM, NP, cpu, RxSem, im>>

\* ETHServiceTaskPacketAvail.
PacketAvail ==
    /\ Input("avail", IF NP > 0 THEN "read" ELSE "enable")
    /\ UNCHANGED <<RIS, IM, NP, cpu, RxSem, im>>

\* Mutant: what was raised before the interrupt is enabled is forgotten.
ClearAndEnableReceive ==
    \/ /\ Input("enable", "enabled")
       /\ im' = [im EXCEPT !["input"] = IM \cup {"RX"}]
       /\ RIS' = RIS \ {"RX"}
       /\ UNCHANGED <<IM, NP, cpu, RxSem>>
    \/ /\ Input("enabled", "take")
       /\ IM' = im["input"]
       /\ im' = [im EXCEPT !["input"] = {}]
       /\ UNCHANGED <<RIS, NP, cpu, RxSem>>

\* ETHServiceTaskEnableReceive: IM is read and written.
EnableReceive ==
    \/ /\ Input("enable", "enabled")
       /\ im' = [im EXCEPT !["input"] = IM \cup {"RX"}]
       /\ UNCHANGED <<RIS, IM, NP, cpu, RxSem>>
    \/ /\ Input("enabled", "take")
       /\ IM' = im["input"]
       /\ im' = [im EXCEPT !["input"] = {}]
       /\ UNCHANGED <<RIS, NP, cpu, RxSem>>

\* xSemaphoreTake(ETHRxBinSemaphore[0], 5 s).
TakeRx ==
    /\ \/ /\ RxSem = 1
          /\ \E from \in {"take", "timeout"} : Input(from, "read")
          /\ RxSem' = 0
          /\ UNCHANGED cpu
       \/ /\ RxSem = 0
          /\ Input("take", "sem")
          /\ cpu' = "none"
          /\ UNCHANGED RxSem
       \/ /\ RxSem = 0
          /\ Input("timeout", "read")
          /\ UNCHANGED <<cpu, RxSem>>
    /\ UNCHANGED <<RIS, IM, NP, im>>

-----------------------------------------------------------------------------
(* low_level_output. *)

Sender(s, from, to) ==
    /\ Runs(s)
    /\ pc[s] = from
    /\ pc' = [pc EXCEPT ![s] = to]
    /\ UNCHANGED <<RIS, NP, handlerVars, inputVars>>

\* The task does something else and gives up the processor.
Rest(s) ==
    /\ Runs(s)
    /\ pc[s] = "idle"
    /\ cpu' = "none"
    /\ UNCHANGED <<hardwareVars, handlerVars, inputVars, senderVars, im>>

Call(s) ==
    /\ Sender(s, "idle", "lock")
    /\ UNCHANGED <<IM, NEWTX, cpu, TxSem, mutex, leftover, im>>

\* xSemaphoreTake(ETHTxAccessMutex[0], portMAX_DELAY).
Lock(s) ==
    /\ IF mutex = "none"
       THEN Sender(s, "lock", "drain") /\ mutex' = s /\ UNCHANGED cpu
       ELSE Sender(s, "lock", "mutex") /\ cpu' = "none" /\ UNCHANGED mutex
    /\ UNCHANGED <<IM, NEWTX, TxSem, leftover, im>>

\* Mutant: a semaphore that was given before stays so.
DrainNothing(s) ==
    /\ Sender(s, "drain", "check")
    /\ UNCHANGED <<IM, NEWTX, cpu, TxSem, mutex, leftover, im>>

\* "If Semaphore was given previously -> take it".
Drain(s) ==
    /\ Sender(s, "drain", "check")
    /\ TxSem' = 0
    /\ UNCHANGED <<IM, NEWTX, cpu, mutex, leftover, im>>

\* "If the transmitter is idle, send the pbuf now."
Check(s) ==
    /\ Sender(s, "check", IF NEWTX THEN "enable" ELSE "transmit")
    /\ UNCHANGED <<IM, NEWTX, cpu, TxSem, mutex, leftover, im>>

\* Mutant: the semaphore is drained after the transmitter was found busy.
EnableTxAndDrain(s) ==
    \/ /\ Sender(s, "enable", "enabled")
       /\ im' = [im EXCEPT ![s] = IM \cup {"TX"}]
       /\ TxSem' = 0
       /\ UNCHANGED <<IM, NEWTX, cpu, mutex, leftover>>
    \/ /\ Sender(s, "enabled", "wait")
       /\ IM' = im[s]
       /\ im' = [im EXCEPT ![s] = {}]
       /\ UNCHANGED <<NEWTX, cpu, TxSem, mutex, leftover>>

\* EthernetIntEnable(ETH_BASE, ETH_INT_TX).
EnableTx(s) ==
    \/ /\ Sender(s, "enable", "enabled")
       /\ im' = [im EXCEPT ![s] = IM \cup {"TX"}]
       /\ UNCHANGED <<IM, NEWTX, cpu, TxSem, mutex, leftover>>
    \/ /\ Sender(s, "enabled", "wait")
       /\ IM' = im[s]
       /\ im' = [im EXCEPT ![s] = {}]
       /\ UNCHANGED <<NEWTX, cpu, TxSem, mutex, leftover>>

\* xSemaphoreTake(ETHTxBinSemaphore[0], portMAX_DELAY).  The kernel switches,
\* too, if the semaphore is given while the task is about to block.
WaitForTx(s) ==
    /\ \/ /\ TxSem = 1
          /\ Sender(s, "wait", "retransmit")
          /\ TxSem' = 0
          /\ cpu' \in {s, "none"}
       \/ /\ TxSem = 0
          /\ Sender(s, "wait", "sem")
          /\ cpu' = "none"
          /\ UNCHANGED TxSem
    /\ UNCHANGED <<IM, NEWTX, mutex, leftover, im>>

\* low_level_transmit, with a transmitter that was idle or after the wait; nothing
\* is sent while the link is down.
Transmit(s) ==
    /\ \/ Sender(s, "transmit", "unlock")
       \/ Sender(s, "retransmit", "disable")
    /\ IF link THEN NEWTX' = TRUE /\ leftover' = (leftover \/ "TX" \in RIS)
               ELSE UNCHANGED <<NEWTX, leftover>>
    /\ UNCHANGED <<IM, cpu, TxSem, mutex, im>>

\* EthernetIntDisable(ETH_BASE, ETH_INT_TX).
DisableTx(s) ==
    \/ /\ Sender(s, "disable", "disabled")
       /\ im' = [im EXCEPT ![s] = IM \ {"TX"}]
       /\ UNCHANGED <<IM, NEWTX, cpu, TxSem, mutex, leftover>>
    \/ /\ Sender(s, "disabled", "unlock")
       /\ IM' = im[s]
       /\ im' = [im EXCEPT ![s] = {}]
       /\ UNCHANGED <<NEWTX, cpu, TxSem, mutex, leftover>>

\* xSemaphoreGive(ETHTxAccessMutex[0]): the task that waits is made ready and
\* the kernel switches.
Unlock(s) ==
    /\ Runs(s)
    /\ pc[s] = "unlock"
    /\ mutex' = "none"
    /\ LET waiting == { w \in Senders : pc[w] = "mutex" }
       IN  \/ /\ waiting = {}
              /\ pc' = [pc EXCEPT ![s] = "idle"]
              /\ UNCHANGED cpu
           \/ \E w \in waiting :
                /\ pc' = [pc EXCEPT ![s] = "idle", ![w] = "lock"]
                /\ cpu' = "none"
    /\ UNCHANGED <<hardwareVars, handlerVars, inputVars, TxSem, leftover, im>>

-----------------------------------------------------------------------------
InputTask == \/ ReadFrame \/ NoFrame \/ DeliverFrame \/ PacketAvail
             \/ EnableReceive \/ TakeRx

Send(s) == \/ Lock(s) \/ Drain(s) \/ Check(s) \/ EnableTx(s) \/ WaitForTx(s)
           \/ Transmit(s) \/ DisableTx(s) \/ Unlock(s)

ETH0IntHandler == InterruptStatus \/ HandleInterrupt

Next ==
    \/ FrameArrives
    \/ FrameSent
    \/ CableChanges
    \/ ETH0IntHandler
    \/ \E t \in Senders \cup {"input", "other"} : SwitchTo(t)
    \/ OtherYields
    \/ InputTimeout
    \/ InputTask
    \/ \E s \in Senders : Rest(s) \/ Call(s) \/ Send(s)

Spec == Init /\ [][Next]_vars

(***************************************************************************)
(* Fairness: the controller ends a transmission, interrupts are handled,   *)
(* the kernel's round robin leaves out no task, and a task that runs again *)
(* and again gets ahead between the interrupts.  ETH_INPUT's 5 seconds     *)
(* need never pass.                                                        *)
(***************************************************************************)
Fairness ==
    /\ WF_vars(FrameSent)
    /\ WF_vars(ETH0IntHandler)
    /\ SF_vars(OtherYields)
    /\ SF_vars(InputTask)
    /\ \A t \in Senders \cup {"input"} : SF_vars(SwitchTo(t))
    /\ \A s \in Senders : SF_vars(Rest(s)) /\ SF_vars(Send(s))

FairSpec == Spec /\ Fairness

-----------------------------------------------------------------------------
(* Properties. *)

TypeOK ==
    /\ RIS \subseteq Causes
    /\ IM \subseteq Causes
    /\ NP \in 0 .. RxFifoSize
    /\ NEWTX \in BOOLEAN
    /\ ulStatus \subseteq Causes
    /\ woken \in BOOLEAN
    /\ link \in BOOLEAN
    /\ RxSem \in {0, 1}
    /\ TxSem \in {0, 1}
    /\ mutex \in Senders \cup {"none"}
    /\ cpu \in Senders \cup {"input", "other", "none"}
    /\ input_pc \in {"read", "deliver", "avail", "enable", "enabled", "take",
                     "timeout", "sem"}
    /\ pc \in [Senders -> SenderSteps \cup Blocked]
    /\ im \in [Senders \cup {"input"} -> SUBSET Causes]
    /\ leftover \in BOOLEAN

(***************************************************************************)
(* ethernetif_input enables the receive interrupt and waits, the handler   *)
(* disables it, and senders change the same mask in two steps.  Still,     *)
(* while ETH_INPUT waits and a frame is there, an interrupt that will wake *)
(* it is due: it need not wait for its 5 seconds to pass.                  *)
(***************************************************************************)
InputIsWoken ==
    input_pc = "sem" /\ NP > 0 =>
        \/ ulStatus \cap {"RX", "RXOF"} # {}
        \/ "RX" \in RIS /\ "RX" \in IM

(***************************************************************************)
(* A sender waits for the end of a transmission without a timeout: while   *)
(* it waits the transmitter is busy or its end is signalled, and the       *)
(* interrupt is enabled.                                                   *)
(***************************************************************************)
SenderIsWoken ==
    \A s \in Senders :
        pc[s] = "sem" => \/ "TX" \in ulStatus
                         \/ "TX" \in IM /\ (NEWTX \/ "TX" \in RIS)

(***************************************************************************)
(* No wake-up is lost, of the reader's or of a sender's, although three    *)
(* parties change the one interrupt mask, each in two steps.               *)
(***************************************************************************)
NoWakeUpIsLost == InputIsWoken /\ SenderIsWoken

(***************************************************************************)
(* low_level_transmit runs only when the transmitter is idle, as long as   *)
(* no end of an earlier transmission is left in the controller.            *)
(***************************************************************************)
IdleUnlessLeftover ==
    ~leftover => \A s \in Senders : pc[s] \in {"transmit", "retransmit"} => ~NEWTX

\* A received frame does not stay in the FIFO: ETH_INPUT reads on, woken by an
\* interrupt and not only by the end of its 5 seconds.
FrameIsRead == NP > 0 ~> input_pc \in {"deliver", "avail"}

\* Unless received frames keep ETH_INPUT busy for ever, low_level_output
\* returns: its waits, which have no timeout, come to an end.
SendReturns ==
    []<>(input_pc = "sem") =>
        \A s \in Senders : pc[s] # "idle" ~> pc[s] = "idle"

\* Both directions go on: neither waits for the other's interrupt for ever.
DriverGoesOn == FrameIsRead /\ SendReturns
=============================================================================
