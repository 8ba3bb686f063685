CONSTANTS
    Storage = {s1, s2}
    Chunks = {a}
    Readers = {r1}
    MaxPuts = 3
    Rf = 1
    MaxActive = 1
    MaxGets = 1
    MaxDeletes = 1
    Repairers = {}
    MaxCrashes = 0
    MaxRestarts = 0
    MaxLosses = 0
    MaxUnavailable = 0
SPECIFICATION Spec
SYMMETRY Sym
INVARIANTS NoStaleRead
CHECK_DEADLOCK FALSE
