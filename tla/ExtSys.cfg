SPECIFICATION FairSpec
CONSTANTS
    r1 = r1
    t1 = t1
    OLD = OLD
    Backlog = 2
    Resetters <- OneResetter
    Talkers <- OneTalker
    Settings <- FromWellToWorst
INVARIANTS TypeOK DoneMeansReset RequestDropped FreshAnswer
PROPERTIES TalkerEnds
