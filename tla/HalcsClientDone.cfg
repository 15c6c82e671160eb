SPECIFICATION Spec
CONSTANTS
    Clients = {"c1", "c2"}
    Services = {"acq", "dsp"}
    Ops <- MCOps
    Table <- MCTable
    Exports <- MCExports
    Api <- MCApi
    FuncErrors = {4}
    MaxCalls <- MCMaxCalls
CHECK_DEADLOCK FALSE
INVARIANT SuccessMeansDone
