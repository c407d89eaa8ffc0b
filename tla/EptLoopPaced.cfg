SPECIFICATION FairSpec
CONSTANTS
    Iterations = 2
    Replies = 2
    Failing <- SendersWork
    Paced = TRUE
INVARIANTS TypeOK NeverStarved PairedWords
PROPERTIES Finishes
