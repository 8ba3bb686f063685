CONSTANTS
    Storage = {s1, s2}
    Chunks = {a, b}
    Readers = {r1}
    MaxPuts = 2
    Rf = 2
    MaxActive = 1
    MaxGets = 0
    MaxDeletes = 0
    Repairers = {s1, s2}
    MaxCrashes = 0
    MaxRestarts = 0
    MaxLosses = 0
    MaxUnavailable = 0
SPECIFICATION Spec
SYMMETRY Sym
INVARIANTS AckedKept
CHECK_DEADLOCK FALSE
