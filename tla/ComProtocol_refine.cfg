SPECIFICATION FairSpec
CONSTANTS
    i1 = i1
    i2 = i2
    v1 = v1
    v2 = v2
    other = other
    NoValue = NoValue
    Items <- TwoItems
    Values <- TwoValues
    Accepts <- AcceptsMost
    PageItems <- NoItems
    Others <- OneOther
    COM_QUEUE_SIZE = 2
    HTTPD_QUEUE_SIZE = 1
    MaxLate = 0
PROPERTIES
    AccessSpec
