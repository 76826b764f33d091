SPECIFICATION Spec
CONSTANTS
    Events = {1}
    ServerEvents = {1}
    Sweeps = {s1}
    Retries = {}
    Jobs = {j1, j2}
    Attempts = 2
    Limit = 1
    MaxCrashes = 1
    Faults = {"redis", "database", "lost", "crash"}
    MarkFirst = FALSE
    None = None
INVARIANTS
    DeliveredIsTrue
    PostsBounded
SYMMETRY JobSymmetry
CHECK_DEADLOCK FALSE
