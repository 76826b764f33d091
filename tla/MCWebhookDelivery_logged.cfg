SPECIFICATION Spec
CONSTANTS
    Events = {1}
    ServerEvents = {1}
    Sweeps = {}
    Retries = {}
    Jobs = {j1}
    Attempts = 2
    Limit = 1
    MaxCrashes = 1
    Faults = {"database"}
    MarkFirst = FALSE
    None = None
INVARIANTS
    EveryAttemptLogged
CHECK_DEADLOCK FALSE
