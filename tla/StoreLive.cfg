SPECIFICATION FairSpec
CONSTANTS
    None = None
    Visitor1 = Visitor1
    Visitor2 = Visitor2
    Home = Home
    Hero = Hero
    Req1 = Req1
    Apps = {"project_snow"}
    DayLen = 1
    CutoffDays = 1
    CutoffOffset = 0
    Window = 1
    Skew = 0
    RawTTL = 2
    SeenTTL = 3
    VisitorDays = 4
    KeepDays = 4
    Threshold = 1
    Clients = {c1}
    Batches <- RetryBatches
    Limit = 1
    StartTime = 3
    MaxWait = 1
    MaxNow = 6
    MaxLog = 2
    MaxFaults = 1
PROPERTIES
    EventuallyKnown
