SPECIFICATION OnceSpec
CONSTANTS
    c1 = c1
    c2 = c2
    c3 = c3
    Recipients = {1, 2}
    Present = {1}
    Instances = {i1}
    Calls = {c1, c2, c3}
    Requests <- OnceRequests
    Receipts = {e1}
    Jobs = {1, 2}
    Attempts = 2
    Concurrency = 2
    MaxCrashes = 0
    Errors = FALSE
    None = None
INVARIANTS
    AtMostOnce
    StuckHasReason
PROPERTIES
    CancelDrains
CHECK_DEADLOCK FALSE
