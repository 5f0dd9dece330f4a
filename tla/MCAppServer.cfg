SPECIFICATION FairSpec
CONSTANTS
    MaxSignals = 2
    CleanupCount = 2
    Schedulers = {"none", "finite", "endless"}
INVARIANTS
    TypeOK
    DuplicatesIgnored
    TerminationAfterCleanup
    TasksEndedAtExit
PROPERTIES
    SignalEndsProcess
CHECK_DEADLOCK FALSE
