CONSTANTS
    Leader = L
    Followers = {f1}
    Nodes = {L, f1}
    Writers = {w1, w2}
    MaxWrites = 3
    MaxLosses = 0
    MaxLeaderCrashes = 0
    MaxFollowerCrashes = 0
    PowerLoss = FALSE
SPECIFICATION Spec
SYMMETRY Sym
INVARIANTS CommitAssert
CHECK_DEADLOCK FALSE
