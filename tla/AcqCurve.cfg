SPECIFICATION ClientSpec
CONSTANTS
    a = a
    b = b
    twin = twin
    none = none
    c1 = c1
    c2 = c2
    Clients = {c1, c2}
    Chans = {a, b, twin}
    SampleSize <- MCSampleSize
    StartAddr <- MCStart
    EndAddr <- MCEnd
    MemTop = 28
    Payload = 4
    BlockSize = 8
    PageSize = 8
    MultishotRam = 3
    ShotsMod = 4
    MaxAcq = 2
    Requests <- MCRequests
    TrigTypes <- MCTrigTypes
    MaxOps <- MCMaxOps
INVARIANT
    CompletedCurveIsRead
CHECK_DEADLOCK FALSE
