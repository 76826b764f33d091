SPECIFICATION FairSpec
CONSTANTS
    c1 = c1
    c2 = c2
    c3 = c3
    Recipients = {1}
    Present = {1}
    Instances = {i1}
    Calls = {c1, c2}
    Requests <- FailingRequests
    Receipts = {}
    Jobs = {j1}
    Attempts = 3
    Concurrency = 2
    MaxCrashes = 1
    Errors = TRUE
    None = None
INVARIANTS
    RetriesBoundSends
CHECK_DEADLOCK FALSE
