SPECIFICATION Spec
CONSTANTS
    i1 = i1
    i2 = i2
    v1 = v1
    v2 = v2
    other = other
    NoValue = NoValue
    Items <- TwoItems
    Values <- TwoValues
    Accepts <- AcceptsMost
    PageItems <- TwoItems
    Others <- OneOther
    COM_QUEUE_SIZE = 7
    HTTPD_QUEUE_SIZE = 3
    MaxLate = 1
INVARIANTS
    ResumeIsComing
    InStepUnlessLate
    VerifiedUnlessLate
    SetsOwnItemUnlessLate
    LagIsBounded
