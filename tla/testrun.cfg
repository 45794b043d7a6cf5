SPECIFICATION FairSpec
CONSTANTS
    N = 3
    Runs = 2
    Builder = "min"
    Reliable = FALSE
INVARIANTS TypeOK 
PROPERTY RunEnds
CHECK_DEADLOCK FALSE
