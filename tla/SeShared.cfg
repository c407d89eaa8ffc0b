SPECIFICATION FairSpec
CONSTANTS
    c1 = c1
    c2 = c2
    Clients <- Two
    Programs <- Struct
    Services = 2
    MaxRuns = 3
INVARIANTS TypeOK OwnService Balanced
PROPERTIES RunsEnd
CHECK_DEADLOCK FALSE
