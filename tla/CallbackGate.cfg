CONSTANTS
    Calls = {c1, c2, c3, c4, c5}
    MaxOpenings = 4
SPECIFICATION GateFairSpec
INVARIANT NoLateCallback
PROPERTY CloseReturns
CHECK_DEADLOCK FALSE
