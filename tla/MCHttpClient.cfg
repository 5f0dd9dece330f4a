SPECIFICATION FairSpec
CONSTANTS
    Calls = {f1, f2}
    MaxRetries = 2
    FirstAttempts = {0, 3}
    MaxCloses = 2
    MaxLoops = 2
INVARIANTS
    TypeOK
    OneOpenSession
    RetriesUsedUp
PROPERTIES
    CallsEnd
CHECK_DEADLOCK FALSE
