CONSTANTS
    Leader = L
    Followers = {f1}
    Nodes = {L, f1}
    Writers = {w1, w2}
    MaxWrites = 2
    MaxLosses = 0
    MaxLeaderCrashes = 1
    MaxFollowerCrashes = 1
    PowerLoss = FALSE
SPECIFICATION SerialSpec
SYMMETRY Sym
INVARIANTS OkDurable AppliedStands LeaderInv LogInv AcksSound
PROPERTIES CommittedStable ReplayNotOlder ImplementsCommitLog
CHECK_DEADLOCK FALSE
