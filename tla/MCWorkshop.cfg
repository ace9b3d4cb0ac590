\* A task and its calls; two dispatches, two administrators; two workers.
CONSTANTS
    TaskCalls = {c1, c2}
    Capabilities = {p}
    MaxRevision = 7
    d1 = d1
    a1 = a1
    Dispatchers = {d1, d2}
    Workers = {w1, w2}
    Admins = {a1, a2}
    Keys = {k}
    Files = {f}
    MaxSlot = 2
    MaxFaults = 1
CHECK_DEADLOCK FALSE
SPECIFICATION MCSpec
INVARIANTS
    WorkshopTypeOK
    OneTaskPerProposal
    GrantsKept
    SlotsFireOnce
    ExecutedRunHasTask
PROPERTIES
    ImplementsLifecycle
    FocusedRunsSettle
