SPECIFICATION FairSpec
CONSTANTS
    Subs = {"s1", "s2"}
    Mine = {"s1"}
    Nodes = {"n1", "n2"}
    NoSub = "none"
    Truth <- MCTruth
    FaultKinds = {"rpc", "db", "node", "partition", "problem", "dispatcher"}
    MaxFaults = 2
INVARIANTS TypeOK ShownIsFinal NothingTakenIsDropped SettledRowIsRight
PROPERTY EventuallyJudged
CHECK_DEADLOCK FALSE
