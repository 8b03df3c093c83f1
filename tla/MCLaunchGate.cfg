CONSTANTS
    Guests = {g1, g2}
    Host = host
    MaxGuests = 2
    Hashes = {h1, h2}
    MaxGeneration = 6
    MaxCountdowns = 1
    MaxStops = 1
SPECIFICATION OrderedSpec
CHECK_DEADLOCK FALSE
INVARIANTS
    TypeOK
    LaunchedOnce
    GridIsComplete
    RacersInTheirSlots
    FrameZeroAgreement
PROPERTIES
    FailureIsTerminal
    StartReachesEveryone
