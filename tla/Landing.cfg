SPECIFICATION FairSpec
CONSTANTS
    Partitions = 2
    MaxRecords = 1
    RawTTL = 2
    MaxNow = 3
    MaxLog = 1
    MaxTopic = 2
    MaxFaults = 1
    None = None
INVARIANTS
    WindowSound
PROPERTIES
    CheckpointAdvances
    EventuallySettled
CHECK_DEADLOCK FALSE
