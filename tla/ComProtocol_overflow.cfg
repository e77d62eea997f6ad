SPECIFICATION FairSpec
CONSTANTS
    i1 = i1
    i2 = i2
    v1 = v1
    v2 = v2
    other = other
    NoValue = NoValue
    Items <- OneItem
    Values <- OneValue
    Accepts <- AcceptsAll
    PageItems <- OneItem
    Others <- NoOther
    COM_QUEUE_SIZE = 1
    HTTPD_QUEUE_SIZE = 1
    MaxLate = 2
INVARIANTS
    TypeOK
PROPERTIES
    LinkMonitorLives
    ReadReturns
