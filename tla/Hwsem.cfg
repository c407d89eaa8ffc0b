SPECIFICATION FairSpec
CONSTANTS
    a = a
    o = o
    t = t
    u = u
    All <- AllA
    One <- OneO
    Threaded <- ThrT
    HWSEM_CNT = 2
    Settings <- OwnOrSame
INVARIANTS TypeOK UnlocksPair
PROPERTIES EndsOrStuck ImplementsSections
CHECK_DEADLOCK FALSE
