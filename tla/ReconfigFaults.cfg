CONSTANTS
    Storage = {s1, s2, s3}
    Chunks = {a}
    Readers = {r1}
    MaxPuts = 1
    Rf = 3
    MaxActive = 1
    MaxGets = 0
    MaxDeletes = 0
    Repairers = {}
    MaxCrashes = 1
    MaxRestarts = 1
    MaxLosses = 0
    MaxUnavailable = 2
    Drivers = {d1, d2}
    MaxReconfigs = 2
SPECIFICATION RSpec
SYMMETRY RSym
INVARIANTS AckedReadable
PROPERTIES CommitInstallsData
CHECK_DEADLOCK FALSE
