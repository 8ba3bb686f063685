CONSTANTS
    Parts = {"choice"}
    Ids = {a}
    Hosts = {h1}
    ReplicaSets = {s1, s2}
    PieceSize = 4
    MaxEntries = 3
    MaxBoots = 1
    Overlap = FALSE
    n1 = n1
    n2 = n2
    n3 = n3
    n4 = n4
    Peers = {n1, n2, n3, n4}
    Info <- MCInfo
    PutFactors = {2}
    TierFactors = {1, 3}
    Callers = {t1, t2}
    MaxCalls = 4
    MaxFlips = 1
    Configs <- MCConfigs
    UnitsPerSecond = 2
    MaxTime = 3
SPECIFICATION PartsSpec
PROPERTIES AnsweredTrue
CHECK_DEADLOCK FALSE
