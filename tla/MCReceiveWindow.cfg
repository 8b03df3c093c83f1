CONSTANTS
    Lanes = {ledger, realtime}
    W = 3
    MaxSequence = 6
SPECIFICATION Spec
INVARIANTS
    WindowExact
    AtMostOnce
    NoFalseReplay
