CONSTANTS
    Pages <- MCPages
    Tag <- MCTag
    DEFAULT_MENU_PAGE = "index"
    DEFAULT_SET_PAGE = "set"
    DISPLAY_LINES_PER_VIEW = 2
    HTTPC_BUFFER_LEN = 4
    MAX_LINES = 8
    SEGMENTS = {4}
    MAX_OFFSET = 2
    MAX_LOADS <- MCLoads
SPECIFICATION Spec
INVARIANTS
    TreeIsIntact
    StaleLinesNeedMonitor
    PressOpensShownLine
    PageIsShown
CHECK_DEADLOCK FALSE
