SPECIFICATION Spec
SYMMETRY Alike
CONSTANTS
    None = None
    MaxJobs = 2
    MaxRows = 1
    WriterFaults = 1
    Contents = {one, two}
    Offers <- SomeOffers
    Runs = {"r1"}
    Lifetime = 2
    ReleasesNow = 2
    ReleasesFaults = 1
    Ids = {one, two}
    Calls = {one, two}
    AttemptsFaults = 1
    Attempts = {one, two}
    Window = 1
    LakeNow = 1
    MaxCommands = 2
    LakeFaults = 1
INVARIANTS
    WriterSound
    ReleasesSound
    AttemptsSound
PROPERTIES
    NoTrespass
    NeverBackwards
CHECK_DEADLOCK FALSE
