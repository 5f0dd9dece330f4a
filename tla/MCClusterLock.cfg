SPECIFICATION FairLockSpec
CONSTANTS
    Calls = {p1, p2, p3}
    NoCall = NoCall
    Ttl = 2
    Patience = 3
INVARIANTS
    TypeOK
    KeepsLockWithinLease
    ExclusiveWithinLease
PROPERTIES
    LockIsFreed
CHECK_DEADLOCK FALSE
