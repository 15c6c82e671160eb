SPECIFICATION FairSpec
CONSTANTS
    d1 = d1
    d2 = d2
    Socks <- MCSocks
    NoSock = NoSock
    Offs = {r1}
    Sizes = {4, 8}
    UIntMod = 10
    InitWords = {0}
    WriteWords = {1}
    MaxCalls <- MCMaxCalls
INVARIANTS
    TypeOK
    ReplyOrder
    LagIsTimeouts
    AnswerLag
PROPERTIES
    ImplementsRegisterService
    CallReturns
CHECK_DEADLOCK FALSE
