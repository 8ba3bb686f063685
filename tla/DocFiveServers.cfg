CONSTANTS
    Leader = L
    Followers = {f1, f2, f3, f4}
    Nodes = {L, f1, f2, f3, f4}
    Writers = {w1, w2}
    MaxWrites = 2
    MaxLosses = 1
    MaxLeaderCrashes = 0
    MaxFollowerCrashes = 0
    PowerLoss = FALSE
SPECIFICATION SerialSpec
SYMMETRY Sym
INVARIANTS OkOnMajority
CHECK_DEADLOCK FALSE
