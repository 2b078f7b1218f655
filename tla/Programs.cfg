SPECIFICATION ProgramsSpec
SYMMETRY Alike
CONSTANTS
    Days <- FewDays
    Versions <- TwoCutoffs
    Values = {none, a, b}
    Empty = none
    None = None
    MaxRuns = 3
    MaxFaults = 2
    Unset = Unset
    Ids = {one, two}
    Requests = {"r"}
    Bound = 0
    Lateness = 0
    MaxTime = 1
    RealtimeRecords = 3
    RealtimeFaults = 1
    Expiry <- SomeExpiry
    Groups = {1, 2}
    Window = 1
    HiveNow = 1
    MaxDrivers = 2
    HiveFaults = 1
    Editions = {1, 2, 3}
    Declared <- SomeDeclared
    Catalogue <- SomeCatalogue
    Cutoff = 3
    MaxAttested = 2
    MaxCovered = 2
    Partitions = {1}
    LogRetention = 2
    Roots <- SomeRoots
    StrayRoot = "stray"
    BackendsNow = 2
    BackendsRecords = 2
    MaxStarts = 1
    LastNode = 3
    MachinesFaults = 4
    Possible <- SomeEvents
    BehaviorWindow = 2
INVARIANTS
    PointersHaveRows
    DaysAreNewest
    ReceiptsTrue
    CatalogSound
    RealtimeSound
    BehaviorAgrees
    DimensionsSound
PROPERTIES
    RefinesBoard
    OthersKept
CHECK_DEADLOCK FALSE
