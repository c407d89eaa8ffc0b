SPECIFICATION Spec
CONSTANTS
    Programs <- Mixed
    Last = 3
    Ordered = TRUE
    Failures = TRUE
INVARIANTS TypeOK OwnEndpoint NoOtherStrays
CHECK_DEADLOCK FALSE
