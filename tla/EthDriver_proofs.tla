-------------------------- MODULE EthDriver_proofs --------------------------
(***************************************************************************)
(* No wake-up of the driver is lost, and the transmitter is idle when a    *)
(* frame is given to it, for any number of senders, any size of the        *)
(* receive FIFO and any of the errors.                                     *)
(***************************************************************************)
EXTENDS EthDriver, TLAPS

\* Between lock and unlock.
Locked == {"drain", "check", "enable", "enabled", "wait", "sem", "transmit",
           "retransmit", "disable", "disabled", "unlock"}

\* From the decision to wait on, until the semaphore is taken or the wait ends.
Waiting == {"take", "sem", "timeout"}

MutexHeld == \A s \in Senders : pc[s] \in Locked => mutex = s

\* The handler forgets no cause it has not read, and ETH_INPUT runs first: a
\* sender has the processor only while ETH_INPUT waits, or was made ready without
\* a switch.
HandlerFits ==
    /\ ulStatus \subseteq RIS
    /\ cpu \in Senders => input_pc \in Waiting

\* What ETH_INPUT relies on when it blocks: the interrupt is enabled, and raised
\* for a frame that has come since the FIFO was empty - or the semaphore is given.
ReceiveArmed ==
    /\ input_pc = "sem" => RxSem = 0
    /\ input_pc \in Waiting => "RX" \in IM \/ RxSem = 1
    /\ input_pc \in Waiting \cup {"enable", "enabled"} /\ NP > 0 =>
           "RX" \in RIS \/ RxSem = 1

\* The masks that were read and are still to be written.  One that disables
\* the receive interrupt is written before ETH_INPUT can run and wait again.
MasksFit ==
    /\ input_pc = "enabled" => /\ "RX" \in im["input"]
                               /\ "TX" \in IM => "TX" \in im["input"]
    /\ cpu \in Senders /\ "RX" \notin IM => ~woken
    /\ \A s \in Senders :
           /\ pc[s] \in {"enabled", "disabled"} /\ "RX" \notin im[s] =>
                  cpu = s /\ ~woken /\ RxSem = 1
           /\ pc[s] = "enabled" => "TX" \in im[s]

\* What a sender relies on when it blocks.
TransmitArmed ==
    \A s \in Senders :
        /\ pc[s] = "sem" => TxSem = 0
        /\ pc[s] \in {"wait", "sem"} => "TX" \in IM
        /\ pc[s] \in {"enable", "enabled", "wait", "sem"} =>
               TxSem = 1 \/ NEWTX \/ "TX" \in RIS

\* A signal means the end of the transmission that is waited for, as long as no
\* earlier one was left.
SignalIsFresh ==
    ~leftover =>
        /\ NEWTX => "TX" \notin RIS
        /\ \A s \in Senders :
               /\ pc[s] \in {"check", "enable", "enabled", "wait"} /\ TxSem = 1 => ~NEWTX
               /\ pc[s] \in {"transmit", "retransmit"} => ~NEWTX

IInv ==
    /\ TypeOK /\ MutexHeld /\ HandlerFits
    /\ ReceiveArmed /\ MasksFit /\ TransmitArmed /\ SignalIsFresh

(***************************************************************************)
(* One lemma per action, with one step per conjunct.                       *)
(***************************************************************************)
\* The controller receives and sends.
LEMMA FrameArrivesStep ==
    ASSUME IInv, FrameArrives
    PROVE  IInv'
  <1>1. TypeOK'
    <2>1. NP' \in 0 .. RxFifoSize
      BY EthAssumption DEF IInv, TypeOK, FrameArrives
    <2>2. RIS' \subseteq Causes
      BY EthAssumption DEF IInv, TypeOK, FrameArrives, Causes
    <2> QED BY <2>1, <2>2 DEF IInv, TypeOK, FrameArrives, handlerVars, inputVars, senderVars
  <1>2. MutexHeld'
    BY DEF IInv, MutexHeld, FrameArrives, hardwareVars, handlerVars, inputVars,
           senderVars
  <1>3. HandlerFits'
    BY DEF IInv, HandlerFits, FrameArrives, hardwareVars, handlerVars, inputVars,
           senderVars
  <1>4. ReceiveArmed'
    BY DEF IInv, ReceiveArmed, FrameArrives, hardwareVars, handlerVars, inputVars,
           senderVars
  <1>5. MasksFit'
    BY DEF IInv, MasksFit, FrameArrives, hardwareVars, handlerVars, inputVars,
           senderVars
  <1>6. TransmitArmed'
    BY DEF IInv, TransmitArmed, FrameArrives, hardwareVars, handlerVars, inputVars,
           senderVars
  <1>7. SignalIsFresh'
    BY DEF IInv, SignalIsFresh, FrameArrives, hardwareVars, handlerVars, inputVars,
           senderVars
  <1> QED BY <1>1, <1>2, <1>3, <1>4, <1>5, <1>6, <1>7 DEF IInv

LEMMA FrameSentStep ==
    ASSUME IInv, FrameSent
    PROVE  IInv'
  <1>1. TypeOK'
    BY EthAssumption DEF IInv, TypeOK, Causes, FrameSent, hardwareVars, handlerVars,
           inputVars, senderVars
  <1>2. MutexHeld'
    BY DEF IInv, MutexHeld, FrameSent, hardwareVars, handlerVars, inputVars, senderVars
  <1>3. HandlerFits'
    BY DEF IInv, HandlerFits, FrameSent, hardwareVars, handlerVars, inputVars,
           senderVars
  <1>4. ReceiveArmed'
    BY DEF IInv, ReceiveArmed, FrameSent, hardwareVars, handlerVars, inputVars,
           senderVars
  <1>5. MasksFit'
    BY DEF IInv, MasksFit, FrameSent, hardwareVars, handlerVars, inputVars, senderVars
  <1>6. TransmitArmed'
    BY DEF IInv, TransmitArmed, FrameSent, hardwareVars, handlerVars, inputVars,
           senderVars
  <1>7. SignalIsFresh'
    BY DEF IInv, SignalIsFresh, FrameSent, hardwareVars, handlerVars, inputVars,
           senderVars
  <1> QED BY <1>1, <1>2, <1>3, <1>4, <1>5, <1>6, <1>7 DEF IInv

LEMMA CableChangesStep ==
    ASSUME IInv, CableChanges
    PROVE  IInv'
  <1>1. TypeOK'
    BY EthAssumption DEF IInv, TypeOK, Causes, CableChanges, hardwareVars, handlerVars,
           inputVars, senderVars
  <1>2. MutexHeld'
    BY DEF IInv, MutexHeld, CableChanges, hardwareVars, handlerVars, inputVars, senderVars
  <1>3. HandlerFits'
    BY DEF IInv, HandlerFits, CableChanges, hardwareVars, handlerVars, inputVars,
           senderVars
  <1>4. ReceiveArmed'
    BY DEF IInv, ReceiveArmed, CableChanges, hardwareVars, handlerVars, inputVars,
           senderVars
  <1>5. MasksFit'
    BY DEF IInv, MasksFit, CableChanges, hardwareVars, handlerVars, inputVars, senderVars
  <1>6. TransmitArmed'
    BY DEF IInv, TransmitArmed, CableChanges, hardwareVars, handlerVars, inputVars,
           senderVars
  <1>7. SignalIsFresh'
    BY DEF IInv, SignalIsFresh, CableChanges, hardwareVars, handlerVars, inputVars,
           senderVars
  <1> QED BY <1>1, <1>2, <1>3, <1>4, <1>5, <1>6, <1>7 DEF IInv

\* The handler: a cause that comes between its two halves stays raised, and it
\* writes the mask it has just read.
LEMMA InterruptStatusStep ==
    ASSUME IInv, InterruptStatus
    PROVE  IInv'
  <1>1. TypeOK'
    BY EthAssumption DEF IInv, TypeOK, InterruptStatus, hardwareVars, handlerVars,
           inputVars, senderVars
  <1>2. MutexHeld'
    BY DEF IInv, MutexHeld, InterruptStatus, hardwareVars, handlerVars, inputVars,
           senderVars
  <1>3. HandlerFits'
    BY DEF IInv, HandlerFits, InterruptStatus, hardwareVars, handlerVars, inputVars,
           senderVars
  <1>4. ReceiveArmed'
    BY DEF IInv, ReceiveArmed, InterruptStatus, hardwareVars, handlerVars, inputVars,
           senderVars
  <1>5. MasksFit'
    BY DEF IInv, MasksFit, InterruptStatus, hardwareVars, handlerVars, inputVars,
           senderVars
  <1>6. TransmitArmed'
    BY DEF IInv, TransmitArmed, InterruptStatus, hardwareVars, handlerVars, inputVars,
           senderVars
  <1>7. SignalIsFresh'
    BY DEF IInv, SignalIsFresh, InterruptStatus, hardwareVars, handlerVars, inputVars,
           senderVars
  <1> QED BY <1>1, <1>2, <1>3, <1>4, <1>5, <1>6, <1>7 DEF IInv

LEMMA HandleInterruptStep ==
    ASSUME IInv, HandleInterrupt
    PROVE  IInv'
  <1>1. TypeOK'
    BY EthAssumption DEF IInv, TypeOK, SenderSteps, HandleInterrupt, Acknowledge,
           GiveRx, GiveTx, ReadPhy, EndSwitchingIsr, SenderOutranks, WokenAfter, InputWakes,
           SenderWakes, WaitsForTx, hardwareVars, handlerVars, inputVars, senderVars
  <1>2. MutexHeld'
    BY DEF IInv, MutexHeld, Locked, HandleInterrupt, Acknowledge, GiveRx, GiveTx, ReadPhy,
           EndSwitchingIsr, SenderOutranks, WokenAfter, InputWakes, SenderWakes,
           WaitsForTx, hardwareVars, handlerVars, inputVars, senderVars
  <1>3. HandlerFits'
    BY EthAssumption DEF IInv, HandlerFits, Waiting, HandleInterrupt, Acknowledge,
           GiveRx, GiveTx, ReadPhy, EndSwitchingIsr, SenderOutranks, WokenAfter, InputWakes,
           SenderWakes, WaitsForTx, hardwareVars, handlerVars, inputVars, senderVars
  <1>4. ReceiveArmed'
    BY DEF IInv, ReceiveArmed, HandleInterrupt, Acknowledge, GiveRx, GiveTx, ReadPhy,
           EndSwitchingIsr, SenderOutranks, WokenAfter, InputWakes, SenderWakes,
           WaitsForTx, hardwareVars, handlerVars, inputVars, senderVars
  <1>5. MasksFit'
    BY EthAssumption DEF IInv, TypeOK, MutexHeld, MasksFit, Locked, HandleInterrupt,
           Acknowledge, GiveRx, GiveTx, ReadPhy, EndSwitchingIsr, SenderOutranks, WokenAfter,
           InputWakes, SenderWakes, WaitsForTx, hardwareVars, handlerVars, inputVars,
           senderVars
  <1>6. TransmitArmed'
    BY DEF IInv, TransmitArmed, HandleInterrupt, Acknowledge, GiveRx, GiveTx, ReadPhy,
           EndSwitchingIsr, SenderOutranks, WokenAfter, InputWakes, SenderWakes,
           WaitsForTx, hardwareVars, handlerVars, inputVars, senderVars
  <1>7. SignalIsFresh'
    BY DEF IInv, HandlerFits, SignalIsFresh, HandleInterrupt, Acknowledge, GiveRx,
           GiveTx, ReadPhy, EndSwitchingIsr, SenderOutranks, WokenAfter, InputWakes, SenderWakes,
           WaitsForTx, hardwareVars, handlerVars, inputVars, senderVars
  <1> QED BY <1>1, <1>2, <1>3, <1>4, <1>5, <1>6, <1>7 DEF IInv

\* The scheduler: ETH_INPUT outranks the senders.
LEMMA SwitchToStep ==
    ASSUME IInv, NEW t \in Senders \cup {"input", "other"}, SwitchTo(t)
    PROVE  IInv'
  <1>1. TypeOK'
    BY EthAssumption DEF IInv, TypeOK, SwitchTo, Runs, hardwareVars, handlerVars,
           inputVars, senderVars
  <1>2. MutexHeld'
    BY DEF IInv, MutexHeld, SwitchTo, Runs, hardwareVars, handlerVars, inputVars,
           senderVars
  <1>3. HandlerFits'
    BY EthAssumption DEF IInv, HandlerFits, Waiting, SwitchTo, Runs, hardwareVars,
           handlerVars, inputVars, senderVars
  <1>4. ReceiveArmed'
    BY DEF IInv, ReceiveArmed, SwitchTo, Runs, hardwareVars, handlerVars, inputVars,
           senderVars
  <1>5. MasksFit'
    BY EthAssumption DEF IInv, ReceiveArmed, MasksFit, Waiting, SwitchTo, Runs,
           hardwareVars, handlerVars, inputVars, senderVars
  <1>6. TransmitArmed'
    BY DEF IInv, TransmitArmed, SwitchTo, Runs, hardwareVars, handlerVars, inputVars,
           senderVars
  <1>7. SignalIsFresh'
    BY DEF IInv, SignalIsFresh, SwitchTo, Runs, hardwareVars, handlerVars, inputVars,
           senderVars
  <1> QED BY <1>1, <1>2, <1>3, <1>4, <1>5, <1>6, <1>7 DEF IInv

LEMMA QuietStep ==
    ASSUME IInv, OtherYields \/ InputTimeout
    PROVE  IInv'
  <1>1. TypeOK'
    BY EthAssumption DEF IInv, TypeOK, OtherYields, InputTimeout, Runs, hardwareVars,
           handlerVars, inputVars, senderVars
  <1>2. MutexHeld'
    BY DEF IInv, MutexHeld, OtherYields, InputTimeout, Runs, hardwareVars, handlerVars,
           inputVars, senderVars
  <1>3. HandlerFits'
    BY EthAssumption DEF IInv, HandlerFits, Waiting, OtherYields, InputTimeout, Runs,
           hardwareVars, handlerVars, inputVars, senderVars
  <1>4. ReceiveArmed'
    BY DEF IInv, ReceiveArmed, Waiting, OtherYields, InputTimeout, Runs, hardwareVars,
           handlerVars, inputVars, senderVars
  <1>5. MasksFit'
    BY EthAssumption DEF IInv, MasksFit, OtherYields, InputTimeout, Runs, hardwareVars,
           handlerVars, inputVars, senderVars
  <1>6. TransmitArmed'
    BY DEF IInv, TransmitArmed, OtherYields, InputTimeout, Runs, hardwareVars,
           handlerVars, inputVars, senderVars
  <1>7. SignalIsFresh'
    BY DEF IInv, SignalIsFresh, OtherYields, InputTimeout, Runs, hardwareVars,
           handlerVars, inputVars, senderVars
  <1> QED BY <1>1, <1>2, <1>3, <1>4, <1>5, <1>6, <1>7 DEF IInv

\* ETH_INPUT empties the FIFO before it enables the receive interrupt again.
LEMMA ReadStep ==
    ASSUME IInv, ReadFrame \/ NoFrame \/ DeliverFrame \/ PacketAvail
    PROVE  IInv'
  <1>1. TypeOK'
    <2>1. NP' \in 0 .. RxFifoSize
      BY EthAssumption DEF IInv, TypeOK, ReadFrame, NoFrame, DeliverFrame, PacketAvail
    <2>2. input_pc' \in {"read", "deliver", "avail", "enable"}
      BY DEF ReadFrame, NoFrame, DeliverFrame, PacketAvail, Input
    <2>3. UNCHANGED <<RIS, IM, NEWTX, handlerVars, cpu, RxSem, senderVars, im>>
      BY DEF ReadFrame, NoFrame, DeliverFrame, PacketAvail, Input
    <2> QED BY <2>1, <2>2, <2>3 DEF IInv, TypeOK, handlerVars, senderVars
  <1>2. MutexHeld'
    BY DEF IInv, MutexHeld, ReadFrame, NoFrame, DeliverFrame, PacketAvail, Input, Runs,
           hardwareVars, handlerVars, inputVars, senderVars
  <1>3. HandlerFits'
    BY EthAssumption DEF IInv, HandlerFits, ReadFrame, NoFrame, DeliverFrame,
           PacketAvail, Input, Runs, hardwareVars, handlerVars, inputVars, senderVars
  <1>4. ReceiveArmed'
    BY DEF IInv, ReceiveArmed, Waiting, ReadFrame, NoFrame, DeliverFrame, PacketAvail,
           Input, Runs, hardwareVars, handlerVars, inputVars, senderVars
  <1>5. MasksFit'
    BY DEF IInv, MasksFit, ReadFrame, NoFrame, DeliverFrame, PacketAvail, Input, Runs,
           hardwareVars, handlerVars, inputVars, senderVars
  <1>6. TransmitArmed'
    BY DEF IInv, TransmitArmed, ReadFrame, NoFrame, DeliverFrame, PacketAvail, Input,
           Runs, hardwareVars, handlerVars, inputVars, senderVars
  <1>7. SignalIsFresh'
    BY DEF IInv, SignalIsFresh, ReadFrame, NoFrame, DeliverFrame, PacketAvail, Input,
           Runs, hardwareVars, handlerVars, inputVars, senderVars
  <1> QED BY <1>1, <1>2, <1>3, <1>4, <1>5, <1>6, <1>7 DEF IInv

LEMMA EnableReceiveStep ==
    ASSUME IInv, EnableReceive
    PROVE  IInv'
  <1>1. TypeOK'
    <2>1. im' \in [Senders \cup {"input"} -> SUBSET Causes] /\ IM' \subseteq Causes
      <3>1. im \in [Senders \cup {"input"} -> SUBSET Causes] /\ IM \subseteq Causes
        BY DEF IInv, TypeOK
      <3>2. PICK m \in SUBSET Causes : im' = [im EXCEPT !["input"] = m]
        BY <3>1 DEF EnableReceive, Causes
      <3>3. IM' = IM \/ IM' = im["input"]
        BY DEF EnableReceive, Sender, Input
      <3> QED BY <3>1, <3>2, <3>3
    <2> QED BY <2>1 DEF IInv, TypeOK, EnableReceive, Input, handlerVars, senderVars
  <1>2. MutexHeld'
    BY DEF IInv, MutexHeld, EnableReceive, Input, Runs, hardwareVars, handlerVars,
           inputVars, senderVars
  <1>3. HandlerFits'
    BY EthAssumption DEF IInv, HandlerFits, EnableReceive, Input, Runs, hardwareVars,
           handlerVars, inputVars, senderVars
  <1>4. ReceiveArmed'
    BY DEF IInv, ReceiveArmed, MasksFit, Waiting, EnableReceive, Input, Runs,
           hardwareVars, handlerVars, inputVars, senderVars
  <1>5. MasksFit'
    BY EthAssumption DEF IInv, TypeOK, MasksFit, EnableReceive, Input, Runs,
           hardwareVars, handlerVars, inputVars, senderVars
  <1>6. TransmitArmed'
    BY DEF IInv, MasksFit, TransmitArmed, EnableReceive, Input, Runs, hardwareVars,
           handlerVars, inputVars, senderVars
  <1>7. SignalIsFresh'
    BY DEF IInv, SignalIsFresh, EnableReceive, Input, Runs, hardwareVars, handlerVars,
           inputVars, senderVars
  <1> QED BY <1>1, <1>2, <1>3, <1>4, <1>5, <1>6, <1>7 DEF IInv

LEMMA TakeRxStep ==
    ASSUME IInv, TakeRx
    PROVE  IInv'
  <1>1. TypeOK'
    BY EthAssumption DEF IInv, TypeOK, TakeRx, Input, Runs, hardwareVars, handlerVars,
           inputVars, senderVars
  <1>2. MutexHeld'
    BY DEF IInv, MutexHeld, TakeRx, Input, Runs, hardwareVars, handlerVars, inputVars,
           senderVars
  <1>3. HandlerFits'
    BY EthAssumption DEF IInv, HandlerFits, TakeRx, Input, Runs, hardwareVars,
           handlerVars, inputVars, senderVars
  <1>4. ReceiveArmed'
    BY DEF IInv, ReceiveArmed, Waiting, TakeRx, Input, Runs, hardwareVars, handlerVars,
           inputVars, senderVars
  <1>5. MasksFit'
    BY EthAssumption DEF IInv, MasksFit, TakeRx, Input, Runs, hardwareVars, handlerVars,
           inputVars, senderVars
  <1>6. TransmitArmed'
    BY DEF IInv, TransmitArmed, TakeRx, Input, Runs, hardwareVars, handlerVars,
           inputVars, senderVars
  <1>7. SignalIsFresh'
    BY DEF IInv, SignalIsFresh, TakeRx, Input, Runs, hardwareVars, handlerVars,
           inputVars, senderVars
  <1> QED BY <1>1, <1>2, <1>3, <1>4, <1>5, <1>6, <1>7 DEF IInv

\* A sender: it holds the mutex from the drain to the unlock.
LEMMA RestStep ==
    ASSUME IInv, NEW s \in Senders, Rest(s)
    PROVE  IInv'
  <1>1. TypeOK'
    BY EthAssumption DEF IInv, TypeOK, Rest, Sender, Runs, hardwareVars, handlerVars,
           inputVars, senderVars
  <1>2. MutexHeld'
    BY DEF IInv, MutexHeld, Rest, Sender, Runs, hardwareVars, handlerVars, inputVars,
           senderVars
  <1>3. HandlerFits'
    BY DEF IInv, HandlerFits, Rest, Sender, Runs, hardwareVars, handlerVars, inputVars,
           senderVars
  <1>4. ReceiveArmed'
    BY DEF IInv, ReceiveArmed, Rest, Sender, Runs, hardwareVars, handlerVars, inputVars,
           senderVars
  <1>5. MasksFit'
    BY DEF IInv, MasksFit, Rest, Sender, Runs, hardwareVars, handlerVars, inputVars,
           senderVars
  <1>6. TransmitArmed'
    BY DEF IInv, TransmitArmed, Rest, Sender, Runs, hardwareVars, handlerVars,
           inputVars, senderVars
  <1>7. SignalIsFresh'
    BY DEF IInv, SignalIsFresh, Rest, Sender, Runs, hardwareVars, handlerVars,
           inputVars, senderVars
  <1> QED BY <1>1, <1>2, <1>3, <1>4, <1>5, <1>6, <1>7 DEF IInv

LEMMA CallStep ==
    ASSUME IInv, NEW s \in Senders, Call(s)
    PROVE  IInv'
  <1>1. TypeOK'
    BY EthAssumption DEF IInv, TypeOK, SenderSteps, Call, Sender, Runs, hardwareVars,
           handlerVars, inputVars, senderVars
  <1>2. MutexHeld'
    BY DEF IInv, MutexHeld, Locked, Call, Sender, Runs, hardwareVars, handlerVars,
           inputVars, senderVars
  <1>3. HandlerFits'
    BY DEF IInv, HandlerFits, Call, Sender, Runs, hardwareVars, handlerVars, inputVars,
           senderVars
  <1>4. ReceiveArmed'
    BY DEF IInv, ReceiveArmed, Call, Sender, Runs, hardwareVars, handlerVars, inputVars,
           senderVars
  <1>5. MasksFit'
    BY DEF IInv, MasksFit, Call, Sender, Runs, hardwareVars, handlerVars, inputVars,
           senderVars
  <1>6. TransmitArmed'
    BY DEF IInv, TransmitArmed, Call, Sender, Runs, hardwareVars, handlerVars,
           inputVars, senderVars
  <1>7. SignalIsFresh'
    BY DEF IInv, SignalIsFresh, Call, Sender, Runs, hardwareVars, handlerVars,
           inputVars, senderVars
  <1> QED BY <1>1, <1>2, <1>3, <1>4, <1>5, <1>6, <1>7 DEF IInv

LEMMA LockStep ==
    ASSUME IInv, NEW s \in Senders, Lock(s)
    PROVE  IInv'
  <1>1. TypeOK'
    BY EthAssumption DEF IInv, TypeOK, MutexHeld, HandlerFits, ReceiveArmed,
           SenderSteps, Blocked, Lock, Sender, Runs, hardwareVars, handlerVars,
           inputVars, senderVars
  <1>2. MutexHeld'
    BY EthAssumption DEF IInv, TypeOK, MutexHeld, Locked, Lock, Sender, Runs,
           hardwareVars, handlerVars, inputVars, senderVars
  <1>3. HandlerFits'
    BY DEF IInv, HandlerFits, Lock, Sender, Runs, hardwareVars, handlerVars, inputVars,
           senderVars
  <1>4. ReceiveArmed'
    BY DEF IInv, ReceiveArmed, Lock, Sender, Runs, hardwareVars, handlerVars, inputVars,
           senderVars
  <1>5. MasksFit'
    BY DEF IInv, TypeOK, MasksFit, Lock, Sender, Runs, hardwareVars, handlerVars,
           inputVars, senderVars
  <1>6. TransmitArmed'
    BY DEF IInv, TypeOK, TransmitArmed, Lock, Sender, Runs, hardwareVars, handlerVars,
           inputVars, senderVars
  <1>7. SignalIsFresh'
    BY DEF IInv, TypeOK, SignalIsFresh, Lock, Sender, Runs, hardwareVars, handlerVars,
           inputVars, senderVars
  <1> QED BY <1>1, <1>2, <1>3, <1>4, <1>5, <1>6, <1>7 DEF IInv

LEMMA DrainStep ==
    ASSUME IInv, NEW s \in Senders, Drain(s)
    PROVE  IInv'
  <1>1. TypeOK'
    BY EthAssumption DEF IInv, TypeOK, SenderSteps, Drain, Sender, Runs, hardwareVars,
           handlerVars, inputVars, senderVars
  <1>2. MutexHeld'
    BY DEF IInv, MutexHeld, Locked, Drain, Sender, Runs, hardwareVars, handlerVars,
           inputVars, senderVars
  <1>3. HandlerFits'
    BY DEF IInv, HandlerFits, Drain, Sender, Runs, hardwareVars, handlerVars, inputVars,
           senderVars
  <1>4. ReceiveArmed'
    BY DEF IInv, ReceiveArmed, Drain, Sender, Runs, hardwareVars, handlerVars,
           inputVars, senderVars
  <1>5. MasksFit'
    BY DEF IInv, MasksFit, Drain, Sender, Runs, hardwareVars, handlerVars, inputVars,
           senderVars
  <1>6. TransmitArmed'
    BY DEF IInv, MutexHeld, TransmitArmed, Locked, Drain, Sender, Runs, hardwareVars,
           handlerVars, inputVars, senderVars
  <1>7. SignalIsFresh'
    BY DEF IInv, SignalIsFresh, Drain, Sender, Runs, hardwareVars, handlerVars,
           inputVars, senderVars
  <1> QED BY <1>1, <1>2, <1>3, <1>4, <1>5, <1>6, <1>7 DEF IInv

LEMMA CheckStep ==
    ASSUME IInv, NEW s \in Senders, Check(s)
    PROVE  IInv'
  <1>1. TypeOK'
    BY EthAssumption DEF IInv, TypeOK, SenderSteps, Check, Sender, Runs, hardwareVars,
           handlerVars, inputVars, senderVars
  <1>2. MutexHeld'
    BY DEF IInv, MutexHeld, Locked, Check, Sender, Runs, hardwareVars, handlerVars,
           inputVars, senderVars
  <1>3. HandlerFits'
    BY DEF IInv, HandlerFits, Check, Sender, Runs, hardwareVars, handlerVars, inputVars,
           senderVars
  <1>4. ReceiveArmed'
    BY DEF IInv, ReceiveArmed, Check, Sender, Runs, hardwareVars, handlerVars,
           inputVars, senderVars
  <1>5. MasksFit'
    BY DEF IInv, MasksFit, Check, Sender, Runs, hardwareVars, handlerVars, inputVars,
           senderVars
  <1>6. TransmitArmed'
    BY DEF IInv, TransmitArmed, Check, Sender, Runs, hardwareVars, handlerVars,
           inputVars, senderVars
  <1>7. SignalIsFresh'
    BY DEF IInv, SignalIsFresh, Check, Sender, Runs, hardwareVars, handlerVars,
           inputVars, senderVars
  <1> QED BY <1>1, <1>2, <1>3, <1>4, <1>5, <1>6, <1>7 DEF IInv

LEMMA EnableTxStep ==
    ASSUME IInv, NEW s \in Senders, EnableTx(s)
    PROVE  IInv'
  <1>1. TypeOK'
    <2>1. im' \in [Senders \cup {"input"} -> SUBSET Causes] /\ IM' \subseteq Causes
      <3>1. im \in [Senders \cup {"input"} -> SUBSET Causes] /\ IM \subseteq Causes
        BY DEF IInv, TypeOK
      <3>2. PICK m \in SUBSET Causes : im' = [im EXCEPT ![s] = m]
        BY <3>1 DEF EnableTx, Causes
      <3>3. IM' = IM \/ IM' = im[s]
        BY DEF EnableTx, Sender, Input
      <3> QED BY <3>1, <3>2, <3>3
    <2> QED BY <2>1 DEF IInv, TypeOK, EnableTx, Sender, SenderSteps, handlerVars, inputVars
  <1>2. MutexHeld'
    BY DEF IInv, TypeOK, MutexHeld, Locked, EnableTx, Sender, Runs, hardwareVars,
           handlerVars, inputVars, senderVars
  <1>3. HandlerFits'
    BY DEF IInv, HandlerFits, EnableTx, Sender, Runs, hardwareVars, handlerVars,
           inputVars, senderVars
  <1>4. ReceiveArmed'
    BY DEF IInv, ReceiveArmed, MasksFit, EnableTx, Sender, Runs, hardwareVars,
           handlerVars, inputVars, senderVars
  <1>5. MasksFit'
    BY DEF IInv, TypeOK, HandlerFits, ReceiveArmed, MasksFit, Waiting, EnableTx, Sender,
           Runs, hardwareVars, handlerVars, inputVars, senderVars
  <1>6. TransmitArmed'
    BY DEF IInv, TypeOK, MasksFit, TransmitArmed, EnableTx, Sender, Runs, hardwareVars,
           handlerVars, inputVars, senderVars
  <1>7. SignalIsFresh'
    BY DEF IInv, TypeOK, SignalIsFresh, EnableTx, Sender, Runs, hardwareVars,
           handlerVars, inputVars, senderVars
  <1> QED BY <1>1, <1>2, <1>3, <1>4, <1>5, <1>6, <1>7 DEF IInv

LEMMA WaitForTxStep ==
    ASSUME IInv, NEW s \in Senders, WaitForTx(s)
    PROVE  IInv'
  <1>1. TypeOK'
    BY EthAssumption DEF IInv, TypeOK, HandlerFits, SenderSteps, Blocked, WaitForTx,
           Sender, Runs, hardwareVars, handlerVars, inputVars, senderVars
  <1>2. MutexHeld'
    BY DEF IInv, TypeOK, MutexHeld, Locked, WaitForTx, Sender, Runs, hardwareVars,
           handlerVars, inputVars, senderVars
  <1>3. HandlerFits'
    BY DEF IInv, HandlerFits, WaitForTx, Sender, Runs, hardwareVars, handlerVars,
           inputVars, senderVars
  <1>4. ReceiveArmed'
    BY DEF IInv, ReceiveArmed, WaitForTx, Sender, Runs, hardwareVars, handlerVars,
           inputVars, senderVars
  <1>5. MasksFit'
    BY DEF IInv, TypeOK, MasksFit, WaitForTx, Sender, Runs, hardwareVars, handlerVars,
           inputVars, senderVars
  <1>6. TransmitArmed'
    BY DEF IInv, TypeOK, MutexHeld, TransmitArmed, Locked, WaitForTx, Sender, Runs,
           hardwareVars, handlerVars, inputVars, senderVars
  <1>7. SignalIsFresh'
    BY DEF IInv, TypeOK, SignalIsFresh, WaitForTx, Sender, Runs, hardwareVars,
           handlerVars, inputVars, senderVars
  <1> QED BY <1>1, <1>2, <1>3, <1>4, <1>5, <1>6, <1>7 DEF IInv

LEMMA TransmitStep ==
    ASSUME IInv, NEW s \in Senders, Transmit(s)
    PROVE  IInv'
  <1>1. TypeOK'
    BY EthAssumption DEF IInv, TypeOK, SenderSteps, Transmit, Sender, Runs,
           hardwareVars, handlerVars, inputVars, senderVars
  <1>2. MutexHeld'
    BY DEF IInv, TypeOK, MutexHeld, Locked, Transmit, Sender, Runs, hardwareVars,
           handlerVars, inputVars, senderVars
  <1>3. HandlerFits'
    BY DEF IInv, HandlerFits, Transmit, Sender, Runs, hardwareVars, handlerVars,
           inputVars, senderVars
  <1>4. ReceiveArmed'
    BY DEF IInv, ReceiveArmed, Transmit, Sender, Runs, hardwareVars, handlerVars,
           inputVars, senderVars
  <1>5. MasksFit'
    BY DEF IInv, TypeOK, MasksFit, Transmit, Sender, Runs, hardwareVars, handlerVars,
           inputVars, senderVars
  <1>6. TransmitArmed'
    BY DEF IInv, TypeOK, TransmitArmed, Transmit, Sender, Runs, hardwareVars,
           handlerVars, inputVars, senderVars
  <1>7. SignalIsFresh'
    <2>1. ASSUME ~leftover'
          PROVE  /\ NEWTX' => "TX" \notin RIS'
                 /\ \A t \in Senders \ {s} : pc'[t] \notin Locked
      <3>1. ~leftover /\ RIS' = RIS /\ (NEWTX' = NEWTX \/ "TX" \notin RIS)
        BY <2>1 DEF IInv, TypeOK, Transmit, Sender
      <3>2. \A t \in Senders \ {s} : pc'[t] \notin Locked
        BY DEF IInv, TypeOK, MutexHeld, Transmit, Sender, Locked
      <3> QED BY <3>1, <3>2 DEF IInv, SignalIsFresh
    <2>2. pc'[s] \in {"unlock", "disable"}
      BY DEF IInv, TypeOK, Transmit, Sender
    <2> QED BY <2>1, <2>2 DEF SignalIsFresh, Locked
  <1> QED BY <1>1, <1>2, <1>3, <1>4, <1>5, <1>6, <1>7 DEF IInv

LEMMA DisableTxStep ==
    ASSUME IInv, NEW s \in Senders, DisableTx(s)
    PROVE  IInv'
  <1>1. TypeOK'
    <2>1. im' \in [Senders \cup {"input"} -> SUBSET Causes] /\ IM' \subseteq Causes
      <3>1. im \in [Senders \cup {"input"} -> SUBSET Causes] /\ IM \subseteq Causes
        BY DEF IInv, TypeOK
      <3>2. PICK m \in SUBSET Causes : im' = [im EXCEPT ![s] = m]
        BY <3>1 DEF DisableTx, Causes
      <3>3. IM' = IM \/ IM' = im[s]
        BY DEF DisableTx, Sender, Input
      <3> QED BY <3>1, <3>2, <3>3
    <2> QED BY <2>1 DEF IInv, TypeOK, DisableTx, Sender, SenderSteps, handlerVars, inputVars
  <1>2. MutexHeld'
    BY DEF IInv, TypeOK, MutexHeld, Locked, DisableTx, Sender, Runs, hardwareVars,
           handlerVars, inputVars, senderVars
  <1>3. HandlerFits'
    BY DEF IInv, HandlerFits, DisableTx, Sender, Runs, hardwareVars, handlerVars,
           inputVars, senderVars
  <1>4. ReceiveArmed'
    BY DEF IInv, ReceiveArmed, MasksFit, DisableTx, Sender, Runs, hardwareVars,
           handlerVars, inputVars, senderVars
  <1>5. MasksFit'
    BY DEF IInv, TypeOK, HandlerFits, ReceiveArmed, MasksFit, Waiting, DisableTx,
           Sender, Runs, hardwareVars, handlerVars, inputVars, senderVars
  <1>6. TransmitArmed'
    BY DEF IInv, TypeOK, MutexHeld, TransmitArmed, Locked, DisableTx, Sender, Runs,
           hardwareVars, handlerVars, inputVars, senderVars
  <1>7. SignalIsFresh'
    BY DEF IInv, TypeOK, SignalIsFresh, DisableTx, Sender, Runs, hardwareVars,
           handlerVars, inputVars, senderVars
  <1> QED BY <1>1, <1>2, <1>3, <1>4, <1>5, <1>6, <1>7 DEF IInv

LEMMA UnlockStep ==
    ASSUME IInv, NEW s \in Senders, Unlock(s)
    PROVE  IInv'
  <1>1. TypeOK'
    BY EthAssumption DEF IInv, TypeOK, SenderSteps, Unlock, Sender, Runs, hardwareVars,
           handlerVars, inputVars, senderVars
  <1>2. MutexHeld'
    BY DEF IInv, TypeOK, MutexHeld, Locked, Unlock, Sender, Runs, hardwareVars,
           handlerVars, inputVars, senderVars
  <1>3. HandlerFits'
    BY DEF IInv, HandlerFits, Unlock, Sender, Runs, hardwareVars, handlerVars,
           inputVars, senderVars
  <1>4. ReceiveArmed'
    BY DEF IInv, ReceiveArmed, Unlock, Sender, Runs, hardwareVars, handlerVars,
           inputVars, senderVars
  <1>5. MasksFit'
    BY DEF IInv, TypeOK, MasksFit, Unlock, Sender, Runs, hardwareVars, handlerVars,
           inputVars, senderVars
  <1>6. TransmitArmed'
    BY DEF IInv, TypeOK, TransmitArmed, Unlock, Sender, Runs, hardwareVars, handlerVars,
           inputVars, senderVars
  <1>7. SignalIsFresh'
    BY DEF IInv, TypeOK, SignalIsFresh, Unlock, Sender, Runs, hardwareVars, handlerVars,
           inputVars, senderVars
  <1> QED BY <1>1, <1>2, <1>3, <1>4, <1>5, <1>6, <1>7 DEF IInv

-----------------------------------------------------------------------------
LEMMA InitIInv == Init => IInv
  <1> SUFFICES ASSUME Init PROVE IInv  OBVIOUS
  <1>1. TypeOK
    <2>1. NP \in 0 .. RxFifoSize
      BY EthAssumption DEF Init
    <2>2. /\ pc \in [Senders -> SenderSteps \cup Blocked]
          /\ im \in [Senders \cup {"input"} -> SUBSET Causes]
      BY DEF Init, SenderSteps
    <2> QED BY <2>1, <2>2 DEF Init, TypeOK, Causes
  <1>2. MutexHeld /\ HandlerFits /\ ReceiveArmed
    BY EthAssumption DEF Init, MutexHeld, HandlerFits, ReceiveArmed, Locked, Waiting
  <1>3. MasksFit /\ TransmitArmed /\ SignalIsFresh
    BY EthAssumption DEF Init, MasksFit, TransmitArmed, SignalIsFresh
  <1> QED BY <1>1, <1>2, <1>3 DEF IInv

LEMMA NextIInv ==
    ASSUME IInv, [Next]_vars
    PROVE  IInv'
  <1>1. CASE FrameArrives \/ FrameSent \/ CableChanges \/ ETH0IntHandler
    BY <1>1, FrameArrivesStep, FrameSentStep, CableChangesStep, InterruptStatusStep,
       HandleInterruptStep
       DEF ETH0IntHandler
  <1>2. CASE \E t \in Senders \cup {"input", "other"} : SwitchTo(t)
    BY <1>2, SwitchToStep
  <1>3. CASE OtherYields \/ InputTimeout
    BY <1>3, QuietStep
  <1>4. CASE InputTask
    BY <1>4, ReadStep, EnableReceiveStep, TakeRxStep DEF InputTask
  <1>5. ASSUME NEW s \in Senders, Rest(s) \/ Call(s) \/ Send(s)
        PROVE  IInv'
    BY <1>5, RestStep, CallStep, LockStep, DrainStep, CheckStep, EnableTxStep, WaitForTxStep,
       TransmitStep, DisableTxStep, UnlockStep DEF Send
  <1>6. CASE UNCHANGED vars
    BY <1>6 DEF vars, hardwareVars, handlerVars, inputVars, senderVars, IInv, TypeOK,
                MutexHeld, HandlerFits, ReceiveArmed, MasksFit, TransmitArmed, SignalIsFresh
  <1> QED BY <1>1, <1>2, <1>3, <1>4, <1>5, <1>6 DEF Next

LEMMA Invariant == Spec => []IInv
  BY InitIInv, NextIInv, PTL DEF Spec

(***************************************************************************)
(* Every variable stays in its type; the semaphores are binary, and the    *)
(* receive FIFO holds no more than it has room for.                        *)
(***************************************************************************)
THEOREM DriverTypeCorrect == Spec => []TypeOK
  <1>1. IInv => TypeOK
    BY DEF IInv
  <1> QED BY <1>1, Invariant, PTL

(***************************************************************************)
(* ETH_INPUT and the senders, which wait for the controller's interrupts,  *)
(* are woken, although both and the handler read, change and write the one *)
(* interrupt mask without a lock.                                          *)
(***************************************************************************)
THEOREM WakeUpsAreKept == Spec => []NoWakeUpIsLost
  <1>1. ASSUME IInv PROVE InputIsWoken
    BY <1>1 DEF IInv, ReceiveArmed, Waiting, InputIsWoken
  <1>2. ASSUME IInv PROVE SenderIsWoken
    BY <1>2 DEF IInv, TransmitArmed, SenderIsWoken
  <1> QED BY <1>1, <1>2, Invariant, PTL DEF NoWakeUpIsLost

(***************************************************************************)
(* A frame is given to a transmitter that is idle: the signal a sender     *)
(* waits for is that of the frame before, unless an earlier one was left   *)
(* in the controller.                                                      *)
(***************************************************************************)
THEOREM TransmitsWhenIdle == Spec => []IdleUnlessLeftover
  <1>1. IInv => IdleUnlessLeftover
    BY DEF IInv, SignalIsFresh, IdleUnlessLeftover
  <1> QED BY <1>1, Invariant, PTL

=============================================================================
