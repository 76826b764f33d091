SPECIFICATION Spec
CONSTANTS
    c1 = c1
    c2 = c2
    c3 = c3
    Recipients = {1, 2}
    Present = {1}
    Instances = {i1, i2}
    Calls = {c1, c2, c3}
    Requests <- RestartRequests
    Receipts = {e1}
    Jobs = {j1, j2}
    Attempts = 2
    Concurrency = 2
    MaxCrashes = 0
    Errors = FALSE
    None = None
INVARIANTS
    ReportsAreTrue
PROPERTIES
    ImplementsGate
SYMMETRY JobSymmetry
CHECK_DEADLOCK FALSE
