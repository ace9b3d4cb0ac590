\* One turn, one client and one canceller: what clients are promised.
CONSTANTS
    Requests = {r1}
    Calls = {c1}
    Cancellers = {k1}
    MaxBytes = 2
    Turns = {r1}
    Turn <- StartedTurns
    None = None
CHECK_DEADLOCK FALSE
SPECIFICATION Spec
PROPERTIES
    ImplementsTurnLogs
    CancelledTurnStops
    FollowersLearn
    DeadTurnFreesSession
