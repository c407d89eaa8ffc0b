SPECIFICATION Spec
CONSTANTS
    Programs <- HpAndHe
    Last = 3
    Ordered = FALSE
    Failures = FALSE
INVARIANTS TestsNamedCore
