CONSTANTS
    Leader = L
    Followers = {f1}
    Nodes = {L, f1}
    Writers = {w1}
    MaxWrites = 1
    MaxLosses = 0
    MaxLeaderCrashes = 1
    MaxFollowerCrashes = 0
    PowerLoss = TRUE
SPECIFICATION SerialSpec
SYMMETRY Sym
INVARIANTS OkDurable
CHECK_DEADLOCK FALSE
