SPECIFICATION FairSpec
CONSTANTS
    Threads = {t1, t2, t3, t4}
    NoThread = NoThread
    MaxDepth = 2
INVARIANTS
    TypeOK
    CountsMatch
    Exclusion
    NoLostWakeup
PROPERTIES
    ImplementsReadersWriters
    WritersNotStarved
