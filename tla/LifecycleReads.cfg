SPECIFICATION FairSpec
CONSTANTS
    Batch = Batch
    Snapshot = Snapshot
    Backup = Backup
    Retention <- ClassLifetime
    Directories = {Snapshot}
    Kinds = {"raw"}
    Readers = {r1}
    MaxNow = 2
    MaxFaults = 1
    TornWrites = TRUE
    Paths = {Batch, Snapshot}
    None = None
INVARIANTS
    ReadsSound
PROPERTIES
    NeverExtended
    PurgedUnlessTorn
