\* The workflow runner and two users submit for one node.
CONSTANTS
    NoTask = NoTask
    t1 = t1
    t2 = t2
    t3 = t3
    c1 = c1
    Tasks = {t1, t2, t3}
    OnCanvas = {t1, t2, t3}
    Runners = {t2}
    Kind <- Kinds
    Calls = {}
    Casts = {"submissions"}
SPECIFICATION MCSpec
CHECK_DEADLOCK FALSE
INVARIANTS
    OneActiveTask
