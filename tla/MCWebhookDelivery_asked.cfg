SPECIFICATION Spec
CONSTANTS
    Events = {1,2}
    ServerEvents = {1}
    Sweeps = {s1}
    Retries = {r1}
    Jobs = {j1, j2, j3}
    Attempts = 2
    Limit = 1
    MaxCrashes = 0
    Faults = {"redis"}
    MarkFirst = FALSE
    None = None
INVARIANTS
    OneJobPerRequest
PROPERTIES
    FinalIsFinal
SYMMETRY JobSymmetry
CHECK_DEADLOCK FALSE
