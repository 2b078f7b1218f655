SPECIFICATION FairSpec
CONSTANTS
    Expiry <- MCExpiry
    Groups = {1, 2}
    Window = 1
    None = None
    MaxNow = 0
    MaxDrivers = 2
    MaxFaults = 1
PROPERTY ReservationRecovers
CHECK_DEADLOCK FALSE
