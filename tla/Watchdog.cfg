SPECIFICATION Spec
CONSTANTS
    p1 = p1
    p2 = p2
    Procs <- Two
    DEFAULT = 2
    interval = 4
    Pace = 1
    Settings <- Users
INVARIANTS TypeOK NeverReset
PROPERTIES QuitDisarms EofResets ImplementsDeadMan
CHECK_DEADLOCK FALSE
