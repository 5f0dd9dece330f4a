SPECIFICATION Spec
CONSTANTS
    a = a
    b = b
    c = c
    flag = flag
    Workers = {w1, w2}
    Names <- MCNames
    Columns = {flag}
    TriggerFiles <- MCFiles
    Directories <- MCDirectories
    MaxRuns = 3
    MaxFaults = 1
INVARIANTS
    SuccessMeansReady
    ParentsTriedFirst
    QuietRunCompletes
CHECK_DEADLOCK FALSE
