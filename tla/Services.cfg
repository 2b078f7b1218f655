SPECIFICATION FairServicesSpec
CONSTANTS
    None = None
    Retirers = {"watch", "reader"}
    Deadline = 1
    MaxNow = 2
    MaxFaults = 2
    NoAttempt = NoAttempt
    Attempts = {one}
    MaxMishaps = 3
    Tabs = {one, two}
    Capacity = 2
    BatchSize = 1
    Grant = 2
    MaxEvents = 2
    MaxWithdrawals = 1
    BrowserNow = 4
    Completions = {1, 2, 3}
    Unlisted = {3}
    Lookback = 0
    Retention = 1
    MaxRows = 2
    Limit = 2
    MaxPolls = 2
    ForwarderNow = 1
    ForwarderFaults = 1
INVARIANTS
    ConsentObeyed
    NothingLostSilently
    JournalTrue
    EpochSound
PROPERTIES
    EventuallyDelivered
    EpochEnds
    KeepsPromise
CHECK_DEADLOCK FALSE
