SPECIFICATION Spec
CONSTANTS
    Clients = {"c1", "c2"}
    Services = {"acq", "dsp"}
    Ops <- MCOps
    Table <- MCTable
    Exports <- MCExports
    Api <- MCApi
    FuncErrors = {4}
    MaxCalls <- MCMaxCalls
INVARIANTS ClientTypeOK ClientLag InStepSuccess
PROPERTY ClientCallReturns
CHECK_DEADLOCK FALSE
