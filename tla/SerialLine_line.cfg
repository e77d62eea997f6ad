CONSTANTS
    WORD = 32
    COLUMNS = 4
    Lines <- MCLines
    Items = {"kurve"}
    Values <- MCValues
    Start <- MCStart
    Others = {"lwip"}
    RX_FIFO = 24
    LINE = 8
    MAX_OPS = 2
SPECIFICATION Spec
INVARIANTS
    TypeOK
    LinesArrive
    PanelShowsStore
PROPERTIES
    SetsOnlyIssued
    SetsArrive
    GetReturns
CHECK_DEADLOCK FALSE
