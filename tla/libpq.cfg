SPECIFICATION FairSpec
CONSTANTS
    q1 = q1
    q2 = q2
    s1 = s1
    s2 = s2
    e1 = e1
    Tasks <- MCTasks
    Kind <- MCKind
    ActionsOf <- MCActionsOf
    Failing = {q1, s1}
INVARIANTS TypeOK OneHolderWhileBusy ReplayedOnceInOrder
PROPERTY CallsEnd
CHECK_DEADLOCK FALSE
