SPECIFICATION FairSpec
CONSTANTS
    Chunks = {c1}
    Storage = {n1}
    PromoteWindows = 2
    DemoteWindows = 2
    HotThreshold = 10
    ColdThreshold = 1
    ColdRf = 1
    WarmRf = 2
    HotRf = 3
    Gaps <- MCGaps
    PutRfs = {1}
    PolicyEvery = 2
    EvictAfter = 1
    MaxDelay = 1
    MaxAge = 3
    Wrap = 8
    MaxAccesses = 2
    MaxChanges = 1
    MaxFaults = 1
INVARIANTS PolicyInv RfFollowsTier CountedOnce
PROPERTIES TierHysteresis IdleDecays AliveTracksNodes
