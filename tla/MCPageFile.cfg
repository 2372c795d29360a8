SPECIFICATION Spec
CONSTANTS
    Slugs = {p, q}
    Values = {v1, v2}
    Writers = {w1, w2}
    Readers = {r1}
    Together = 1
    Blocks = 2
    None = None
    MaxSaves = 4
    MaxCrashes = 2
    MaxReads = 2
INVARIANT WholePages
PROPERTY ImplementsRegister
CHECK_DEADLOCK FALSE
