\* two requests, two clicks in flight, one crash; once all is decided nothing moves
SPECIFICATION FairSpec
CONSTANTS
    None = None
    Request = {r1, r2}
    Slot = {s1, s2}
    MaxClicks = 2
    MaxCrashes = 1
INVARIANTS
    DecisionReachesAgent
PROPERTIES
    NoExecutionAfterReject
    HoldsAreDecided
CHECK_DEADLOCK FALSE
