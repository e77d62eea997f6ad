CONSTANTS
    c1 = c1
    c2 = c2
    Conns = {c1, c2}
    States = {1, 2}
    Handles = {1, 2}
    Blocks <- MCBlocks
    Uris <- MCUris
    DefaultFilenames <- MCDefaultFilenames
    ErrorFilenames <- MCErrorFilenames
    CgiPages <- MCCgiPages
    SND_BUF = 2
    PBUF_POOL_SIZE = 2
    MAX_RETRIES = 4
    MAX_REQUESTS <- MCRequests
SPECIFICATION Spec
INVARIANTS
    MemoryIsOwned
    AnswersRequest
PROPERTIES
    ConnectionEnds
CHECK_DEADLOCK FALSE
