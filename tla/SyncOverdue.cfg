SPECIFICATION Spec
CONSTANTS
    RawTTL = 2
    PageSize = 2
    MaxWait = 1
    MaxNow = 3
    MaxPos = 3
    MaxGen = 2
    MaxFaults = 2
    None = None
PROPERTIES
    ExpiredMeansExpired
