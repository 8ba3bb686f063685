CONSTANTS
    Storage = {s1, s2, s3}
    Chunks = {a}
    Readers = {r1}
    MaxPuts = 2
    Rf = 3
    MaxActive = 1
    MaxGets = 0
    MaxDeletes = 0
    Repairers = {}
    MaxCrashes = 0
    MaxRestarts = 0
    MaxLosses = 0
    MaxUnavailable = 1
SPECIFICATION Spec
SYMMETRY Sym
INVARIANTS AckedKept
CHECK_DEADLOCK FALSE
