SPECIFICATION Spec
CONSTANTS
    t1 = t1  t2 = t2  t3 = t3  t4 = t4
    alice = alice
    None = None
    Tasks = {t1, t2, t3, t4}
    Users = {alice}
    IndexMayLapse = FALSE
    MaxFaults = 1
SYMMETRY TaskSymmetry
INVARIANTS TypeOK RegisteredOnce NothingForDeleted DeleteEndsSessions LogoutEnds
CHECK_DEADLOCK FALSE
