CONSTANTS
    c1 = c1  c2 = c2  c3 = c3
    n1 = n1  n2 = n2
    s1 = s1  s2 = s2
    Conns <- MCConns
    NodeIds <- MCNodeIds
    IdOf <- MCIdOf
    Submissions = {s1, s2}
    CanTest <- SelectiveCanTest
    OverlappingIds = FALSE
SPECIFICATION FairSpec
INVARIANT TypeOK
INVARIANT NoSubmissionLost
INVARIANT OneHolder
INVARIANT LookupNeverFails
INVARIANT OneRequestInFlight
INVARIANT IdleOnlyBesideRequeued
PROPERTY TestedOrRequeued
PROPERTY ImplementsJudging
CHECK_DEADLOCK FALSE
