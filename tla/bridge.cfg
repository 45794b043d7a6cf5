SPECIFICATION Spec
CONSTANTS
    b1 = b1  b2 = b2  c1 = c1  c2 = c2
    Bridges = {b1, b2}
    Calls = {c1, c2}
    Requests <- MCRequests
    NoBridge = NoBridge
    MaxWaits = 1
INVARIANTS TypeOK ChainIsNesting RefsMatchOwners
PROPERTY AwaitedCallSettles
CHECK_DEADLOCK FALSE
