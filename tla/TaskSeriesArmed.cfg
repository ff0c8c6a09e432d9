CONSTANTS
    FailCap = 2
    MaxRows = 4
    MaxFaults = 1
SPECIFICATION FairSpec
INVARIANTS
    OneArmed
    FailuresAreCapped
PROPERTIES
    StopHolds
    SeriesGoesOn
CHECK_DEADLOCK FALSE
