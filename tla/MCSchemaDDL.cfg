SPECIFICATION ServiceSpec
CONSTANTS
    a = a
    b = b
    Managers = {m1, m2}
    Names <- MCNames
    Releases = {1, 2}
    Shape <- MCShape
    Refs <- MCRefs
    Parsed <- MCParsed
    MaxRuns = 3
    MaxFaults = 1
    MaxDepth = 2
SYMMETRY Symmetry
INVARIANTS
    QuietRunReaches
    CutsAgree
PROPERTIES
    DiffWritesNothing
CHECK_DEADLOCK FALSE
