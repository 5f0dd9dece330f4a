SPECIFICATION FairSpec
CONSTANTS
    t1 = t1
    t2 = t2
    k1 = k1
    k2 = k2
    v0 = v0
    v1 = v1
    c1 = c1
    c2 = c2
    Threads = {t1, t2}
    NoThread = NoThread
    Keys = {k1, k2}
    Values = {v0, v1}
    Absent = Absent
    Classes = {c1, c2}
    FirstClass = c1
    ClassAttrs <- MCClassAttrs
    Updates <- MCUpdates
    Dicts <- MCDicts
    MaxOps = 2
INVARIANTS
    TypeOK
    ReadersSeeFilledCache
    CacheAgreesWithClass
PROPERTIES
    StableUnderReaders
    CallsEnd
CHECK_DEADLOCK FALSE
