SPECIFICATION Spec
CONSTANTS
    Calls = {c1, c2}
    Users = {0, 1}
    Anonymous = Anonymous
    Setups <- MCSetups
    TTL = 1
    Limit = 1
    Window = 1
    Slow = 1
    MaxTime = 2
    MaxFaults = 1
SYMMETRY Symmetry
INVARIANTS
    RateKept
    OwnValues
    BoundedAge
CHECK_DEADLOCK FALSE
