SPECIFICATION FairSpec
CONSTANTS
    Iterations = 2
    Replies = 2
    Failing <- OnlyWrite
    Paced = TRUE
PROPERTIES EmptyReadReturns
