SPECIFICATION RecoverySpec
CONSTANTS
    Db = db
    File = {db, queue, config}
    MaxWrites = 2
    MaxDrifts = 2
INVARIANT HeldNeverBoots
PROPERTIES
    RestoredIsOneInstant
    ReportIsTrue
