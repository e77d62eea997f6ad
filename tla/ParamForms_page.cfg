CONSTANTS
    Pages <- SomePages
    Items <- SomeItems
    Stores <- SomeStores
    Refused <- SomeRefused
    Typed <- SomeTyped
    WORD = 1024
    HOUR = 3
    DAY = 12
    VAL_DIGITS = 2
    MAX_CGI_PARAMETERS = 5
    Reach = 110
SPECIFICATION Spec
INVARIANTS
    TypeOK
    AnswerIsTrue
    SetsOnlyAsked
    LimitsKept
    StepsCancel
