SPECIFICATION RwSpec
CONSTANTS
    d1 = d1
    d2 = d2
    r1 = r1
    Socks <- MCSocks
    NoSock = NoSock
    Offs = {r1}
    Sizes = {4}
    UIntMod = 9
    InitWords = {5}
    WriteWords = {}
    MaxCalls <- MCMaxCalls
    FieldMod = 3
    MaxValue = 0
    Owner <- MCOwner
    StackWords = {8}
INVARIANTS
    RwTypeOK
    GetIsFresh
PROPERTIES
    SetIsAtomic
    OtherFieldKept
    MacroReturns
CHECK_DEADLOCK FALSE
