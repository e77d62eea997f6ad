CONSTANTS
    Pages <- AllPages
    NoTag = NoTag
    Tokens <- AllTokens
    InsertLen <- InsertLengths
    UNKNOWN_LEN = 2
    BYTE = 8
    WORD = 64
    MAX_TAG_NAME_LEN = 4
    BufSizes = {24, 6}
    MAX_SEND = 24
    SND_BUF = 48
    MAX_RETRIES = 4
SPECIFICATION FairSpec
INVARIANTS
    SendsPageInOrder
    CountersAgree
    PlainDataIntact
PROPERTIES
    SendDataReturns
