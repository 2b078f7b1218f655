SPECIFICATION FairSpec
CONSTANTS
    RawTTL = 2
    PageSize = 2
    MaxWait = 1
    MaxNow = 3
    MaxPos = 2
    MaxGen = 2
    MaxFaults = 1
    None = None
INVARIANTS
    LaneSound
PROPERTIES
    SendsInTime
    RefinesRelay
    EventuallyRelayed
