SPECIFICATION FairSpec
CONSTANTS
    MaxSpawns = 3
    MaxRows = 2
    MaxFaults = 3
    MaxCrashes = 2
INVARIANTS
    OneWorker
    HeldMeansStopped
PROPERTIES
    HeldEvidenceKept
    HeldDataFrozen
    ReplicaGrows
    RestartsRespawn
CHECK_DEADLOCK FALSE
