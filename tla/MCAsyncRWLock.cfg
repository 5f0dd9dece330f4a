SPECIFICATION Spec
CONSTANTS
    Threads = {w1, w2}
    NoThread = NoThread
    Coroutines = {c1, c2}
    Nothing = Nothing
INVARIANTS
    TimelyRelease
CHECK_DEADLOCK FALSE
