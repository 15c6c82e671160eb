SPECIFICATION Spec
CONSTANTS
    Devs = {d1, d2}
    NoDev = NoDev
    MaxProcs = 4
INVARIANTS
    DevMngrTypeOK
    OneDaemonPerDevice
PROPERTIES
    FoundIsStarted
    ChildrenAreReaped
CHECK_DEADLOCK FALSE
