CONSTANTS
    Leader = L
    Followers = {f1, f2}
    Nodes = {L, f1, f2}
    Writers = {w1}
    MaxWrites = 2
    MaxLosses = 1
    MaxLeaderCrashes = 0
    MaxFollowerCrashes = 0
    PowerLoss = FALSE
SPECIFICATION SerialSpec
SYMMETRY Sym
INVARIANTS TypeOK LogMatching OkOnMajority MatchSound
CHECK_DEADLOCK FALSE
