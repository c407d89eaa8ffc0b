SPECIFICATION Spec
CONSTANTS
    c1 = c1
    Clients <- One
    Programs <- Alone
    Services = 3
    MaxRuns = 3
INVARIANTS Fresh Complete HandlerClears
CHECK_DEADLOCK FALSE
