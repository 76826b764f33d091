SPECIFICATION Spec
CONSTANTS
    Senders = {s1, s2, s3}
    Buckets = {b1}
    Uses <- AllBuckets
    Limit <- OneEach
    Window = 1
    Errors = TRUE
    MaxTime = 2
    Askers = {k1, k2}
    Clients = {c1, c2}
    Total = 1
    MaxGrant = 2
    Slots = {l1, l2}
    Admins = {g1, g2}
    MaxTries = 2
    MaxWaiting = 1
    Calls = {q1, q2}
    Msgs = {m1}
    Rows = {1, 2}
    Convs = {1}
    Tries = 2
    MaxPosts = 2
    Placers = {p1, p2}
    CoreNodes = {n1}
    Local = n1
    MaxHosted = 2
    Capacity = 1
    MaxFaults = 1
    Contacts = {f1}
    Handlers = {h1, h2}
    SyncSlots = {w1, w2}
    Savers = {v1}
    MaxEvents = 4
    MaxLosses = 1
    own1 = own1
    own2 = own2
    in1 = in1
    in2 = in2
    in3 = in3
    Owners = {own1, own2}
    Insts = {in1, in2, in3}
    OwnerOf <- TwoAndOne
    All = All
    Policies <- OneOfEach
    CleanupDays = 1
    MaxDay = 2
    MaxStored = 1
    Users = {u1, u2}
    Grantors = {o1, o2}
    MaxRevokes = 2
    Emails = {e1}
    Partners = {z1}
    Signups = {x1, x2, x3}
    MaxEnds = 1
    NoPartner = NoPartner
    t1 = t1
    t2 = t2
    Tenants = {t1, t2}
    Selectable <- TwoThings
    Views <- AllViews
    Nowhere = Nowhere
    MaxLoads = 2
    MaxUpdates = 1
    MaxEntries = 2
    Hooks = {h1, h2}
    Editors = {e1, e2}
    NoWebhook = NoWebhook
    MaxOrders = 3
    Chatters = {j1}
    MaxTickets = 3
    Importers = {i1, i2}
    Allowed <- OnePlan
    MaxBatch = 2
    MaxUnchecked = 1
    Logins = 1
    MaxTeam = 2
INVARIANTS
    CountBounded
    QuotaOverrun
    StoredOnce
    DrainHolds
    CreatedBounded
    ConsentHolds
    CreditedOnce
    ViewFollows
    OffMeansOff
    LimitsBounded
PROPERTIES
    StatusAdvances
CHECK_DEADLOCK FALSE
