SPECIFICATION Spec
CONSTANTS
    N = 3
    Runs = 2
    Builder = "sum"
    Reliable = TRUE
INVARIANT SumOfTests
CHECK_DEADLOCK FALSE
