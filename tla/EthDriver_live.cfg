\* One sender, a receive FIFO with room for one frame.
SPECIFICATION FairSpec
CONSTANTS
    Senders <- OneSender
    RxFifoSize = 1
    Faults <- NoFaults
PROPERTIES
    DriverGoesOn
