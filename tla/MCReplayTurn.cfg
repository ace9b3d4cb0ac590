\* Two turns of a session, two clients: the logs and the lock.
CONSTANTS
    Requests = {r1, r2}
    Calls = {c1, c2}
    Cancellers = {}
    MaxBytes = 1
    Turns = {r1, r2}
    Turn <- StartedTurns
    None = None
CHECK_DEADLOCK FALSE
SPECIFICATION Spec
SYMMETRY CallRequestSymmetry
INVARIANTS
    StatusMatchesLog
    EndedSawEverything
    LiveTurnHoldsLock
    NoLeakedLock
