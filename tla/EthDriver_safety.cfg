\* Two senders, a receive FIFO with room for two frames.
SPECIFICATION Spec
CONSTANTS
    Senders <- TwoSenders
    RxFifoSize = 2
    Faults <- AllFaults
INVARIANTS
    TypeOK
    NoWakeUpIsLost
    IdleUnlessLeftover
