SPECIFICATION Spec
CONSTANTS
    c1 = c1
    c2 = c2
    c3 = c3
    Recipients = {1}
    Present = {1}
    Instances = {i1}
    Calls = {c1, c2}
    Requests <- SenderRequests
    Receipts = {}
    Jobs = {j1, j2}
    Attempts = 2
    Concurrency = 2
    MaxCrashes = 0
    Errors = FALSE
    None = None
PROPERTIES
    CancelledStaysStopped
CHECK_DEADLOCK FALSE
