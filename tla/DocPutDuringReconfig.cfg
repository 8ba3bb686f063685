CONSTANTS
    Storage = {s1, s2, s3}
    Chunks = {a}
    Readers = {r1}
    MaxPuts = 2
    Rf = 2
    MaxActive = 1
    MaxGets = 0
    MaxDeletes = 0
    Repairers = {}
    MaxCrashes = 0
    MaxRestarts = 0
    MaxLosses = 0
    MaxUnavailable = 0
    Drivers = {d1}
    MaxReconfigs = 1
SPECIFICATION RSpec
SYMMETRY RSym
INVARIANTS ReadableThroughout
CHECK_DEADLOCK FALSE
