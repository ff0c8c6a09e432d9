CONSTANTS
    Request = {r1, r2}
    MaxPending = 1
    Polls = 2
    MaxAttempts = 2
    MaxFaults = 1
    MaxCrashes = 1
SPECIFICATION FairSpec
INVARIANTS
    CalledOnce
PROPERTIES
    NoCallAfterNo
    RequestsSettle
CHECK_DEADLOCK FALSE
