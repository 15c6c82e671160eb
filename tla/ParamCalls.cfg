SPECIFICATION ParamSpec
CONSTANTS
    Smios <- AllSmios
    MaxEvents = 1
    LateSteps = 2
INVARIANTS
    ParamTypeOK
    CallsReachTheirFunction
    
    
PROPERTIES
    SetsStayInTheirField
CHECK_DEADLOCK FALSE
