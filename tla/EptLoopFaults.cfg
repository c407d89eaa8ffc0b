SPECIFICATION FairSpec
CONSTANTS
    Iterations = 1
    Replies = 2
    Failing <- AllFailures
    Paced = FALSE
INVARIANTS JoinBeforeCleanup NoLeakOnceHandled SingleDestroy
PROPERTIES SigintEnds ImplementsProgram
