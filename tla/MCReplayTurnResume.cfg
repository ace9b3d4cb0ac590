\* A turn and its resumption, one of them stalled: the lock.
CONSTANTS
    Requests = {r1, r2}
    Calls = {c1, c2}
    Cancellers = {}
    MaxBytes = 1
    Turns = {r1, r2}
    Turn <- ResumedTurn
    None = None
CHECK_DEADLOCK FALSE
SPECIFICATION Spec
SYMMETRY CallSymmetry
INVARIANTS
    LiveTurnHoldsLock
