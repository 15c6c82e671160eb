SPECIFICATION HalcsdSpec
CONSTANTS
    clk = clk
    fmc = fmc
    other = other
    InitSmio = InitSmio
    Ids <- MCIds
    Kinds <- MCKinds
    Sdb <- MCSdb
    Child <- NoChild
    Peer <- MCPeer
    NODES_MAX_LEN = 3
INVARIANT EverythingReady
CHECK_DEADLOCK FALSE
