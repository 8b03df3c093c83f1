CONSTANTS
    Host = host
    Guests = {g1}
    Pads = {idle, gas}
    Neutral = idle
    Modes = {"Frontend", "Lockstep", "Rollback"}
    Delay = 1
    Window = 1
    Lead = 2
    HistoryCapacity = 2
    TargetDebt = 0
    MinimumSkip = 1
    Ring = 3
    Past = 1
    Future = 1
    MaxFrame = 2
    MaxRevision = 2
SPECIFICATION FairSpec
INVARIANT Agreement
INVARIANT NobodyGivesUp
INVARIANT CommittedAsSampled
INVARIANT PredictionBounded
INVARIANT LeadBounded
INVARIANT SamplesRetained
PROPERTY ImplementsLedger
PROPERTY EveryFrameIsPlayed
CHECK_DEADLOCK FALSE
