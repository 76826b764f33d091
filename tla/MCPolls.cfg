SPECIFICATION PollsSpec
CONSTANTS
    c1 = c1
    c2 = c2
    c3 = c3
    Recipients = {1, 2}
    Present = {1}
    Calls = {c1, c2, c3}
    Requests <- AnyRequests
    Receipts = {e1}
    Errors = TRUE
    MaxCrashes = 1
    Callers = {a1}
    Panel = panel
    Monitor = monitor
    Routes <- AllRoutes
    Blank = Blank
    MaxChanges = 1
INVARIANTS
    RepeatsNeedStarts
    OpenHasIdentity
PROPERTIES
    ImplementsGate
    QueueDrains
    PollSettles
CHECK_DEADLOCK FALSE
