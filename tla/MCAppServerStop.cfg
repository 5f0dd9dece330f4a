SPECIFICATION FairSpec
CONSTANTS
    MaxSignals = 1
    CleanupCount = 1
    Schedulers = {"finite"}
PROPERTIES
    SignalAlwaysEndsProcess
CHECK_DEADLOCK FALSE
