CONSTANTS
    Addrs = {"a1"}
    SELECT_TRIES = 1
    CHECK_TRIES = 1
    REBIND_TRIES = 1
    MAX_TRIES = 2
    MAX_FAULTS = 2
    READBUFFERLEN = 7
    Cards <- MCCards
    USE_DHCP <- MCUseDhcp
    IP_ADDRESS <- MCAddress
    IS_SERVER <- MCIsServer
    IS_CLIENT <- MCIsClient
    True <- MCTrue
SPECIFICATION Spec
INVARIANTS
    TypeOK
    ConfigIsObeyed
    DhcpAddressIsGranted
PROPERTIES
    LinkIsFollowed
    GetsAddress
CHECK_DEADLOCK FALSE
