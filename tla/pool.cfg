SPECIFICATION FairSpec
CONSTANTS
    t1 = t1
    t2 = t2
    b1 = b1
    Tasks = {t1, t2}
    Blocks = {b1}
    PoolMin = 2
    PoolMax = 2
    Rounds = 3
    LogBound = 2
    Faults = 2
INVARIANTS SlotsBounded InUseByOneOwner LeaseIsSynced
PROPERTY AcquireReturns
CHECK_DEADLOCK FALSE
