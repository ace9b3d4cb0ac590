\* One task and two calls that overlap; or two tasks on one node, the second one
\* the workflow runner's, and one call.
CONSTANTS
    NoTask = NoTask
    t1 = t1
    t2 = t2
    c1 = c1
    c2 = c2
    Tasks = {t1, t2}
    OnCanvas = {t1, t2}
    Runners = {t2}
    Kind <- Kinds
    Calls = {c1, c2}
    Casts = {"calls", "node"}
SPECIFICATION MCLiveSpec
CHECK_DEADLOCK FALSE
INVARIANTS
    ResultsMatchStatus
    NeverAheadOfGateway
    NodeShowsResults
PROPERTIES
    StatusMovesForward
    CalledTasksSettle
