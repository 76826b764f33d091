SPECIFICATION LifeSpec
CONSTANTS
    Events = {1, 2}
    ServerEvents = {1}
    Sweeps = {s1}
    Retries = {}
    Jobs = {j1, j2}
    Attempts = 2
    Limit = 1
    MaxCrashes = 0
    Faults = {"redis"}
    MarkFirst = TRUE
    None = None
    Accts = {a1}
    Cleanups = {w1, w2}
    Handlers = {h1}
    MaxBoots = 2
    Tasks = {t1, t2, t3}
    Instances = {i1, i2}
    Concurrency = 3
    MaxDeaths = 1
    NoTask = NoTask
INVARIANTS
    UpgradedKept
PROPERTIES
    EventsConclude
    TrialsConclude
    ImplementsMutex
    EveryoneSends
CHECK_DEADLOCK FALSE
