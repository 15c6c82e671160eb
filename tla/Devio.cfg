SPECIFICATION Spec
CONSTANTS
    pm = pm
    acq = acq
    other = other
    Ids <- MCIds
    Kinds <- MCKinds
    Sdb <- MCSdb
    Child <- MCChild
    Peer <- MCPeer
    NODES_MAX_LEN = 3
INVARIANTS
    DevioTypeOK
    NoLostThread
    CfgHasSmio
    StuckOnlyOnFailed
PROPERTIES
    DoneMeansNoCfg
    TermEnds
    CfgShortLived
CHECK_DEADLOCK FALSE
