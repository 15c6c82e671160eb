SPECIFICATION HalcsdSpec
CONSTANTS
    clk = clk
    fmc = fmc
    other = other
    InitSmio = InitSmio
    Ids <- MCIds
    Kinds <- MCKinds
    Sdb <- MCSdb
    Child <- NoChild
    Peer <- MCPeer
    NODES_MAX_LEN = 3
INVARIANTS
    HalcsdTypeOK
    ReadyAfterConfig
PROPERTIES
    InitSpawned
    Interrupted
CHECK_DEADLOCK FALSE
