CONSTANTS
    Leader = L
    Followers = {f1}
    Nodes = {L, f1}
    Writers = {w1, w2}
    MaxWrites = 2
    MaxLosses = 0
    MaxLeaderCrashes = 0
    MaxFollowerCrashes = 0
    PowerLoss = FALSE
    SilentAfter = 1
    MaxPings = 3
    MaxDelay = 1
    MaxAge = 3
    Wrap = 8
SPECIFICATION FairHealthSpec
INVARIANTS LaggingMeansSilent
PROPERTIES EntriesReplicated LaggingRecovers
CHECK_DEADLOCK FALSE
