SPECIFICATION Spec
CONSTANTS
    pm = pm
    acq = acq
    other = other
    Ids <- MCIds
    Kinds <- MCKinds
    Sdb <- MCSdb
    Child <- MCChild
    Peer <- MCPeer
    NODES_MAX_LEN = 1
INVARIANT SlotsInBounds
CHECK_DEADLOCK FALSE
