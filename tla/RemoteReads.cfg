SPECIFICATION FairSpec
CONSTANTS
    Runs = {"r1"}
    Others <- MCOthers
    Kinds = {"raw", "aggregate"}
    Retention <- MCRetention
    Grant = 2
    Lease = 2
    Fresh = 1
    None = None
    MaxNow = 3
    MaxBatches = 1
    MaxFaults = 1
INVARIANTS
    ReadsCovered
PROPERTIES
    EventuallyRemoved
CHECK_DEADLOCK FALSE
