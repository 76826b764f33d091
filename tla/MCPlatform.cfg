SPECIFICATION PlatformSpec
CONSTANTS
    Orders = {o1}
    Native = TRUE
    MaxReceipts = 1
    People = {p1, p2}
    Letters = {1, 2}
    LetterKinds = {any}
    Posts = {b1, b2}
    RuleForms <- SecondTime
    MaxRules = 2
    Syncs = {g1}
    MaxEdits = 1
    Starter = Starter
    Beta = Beta
    Trial = Trial
    N1 = N1
    Defaults <- OneDefault
    Subscribers = {b1}
    Clerks = {k1}
    Passes = 1
    MaxPlans = 4
    MaxStarts = 3
    MaxErrands = 1
    Devices = {d1, d2}
    Created = {d1}
    Clicks = {h1}
    MaxReports = 2
    MaxClicks = 1
    NoCode = NoCode
    Shut = Shut
    Askers = {a1, a2}
    Lines = {i1}
    Subjects = {n1}
    Today <- FirstDay
    Volumes <- SomeVolumes
    Drops = {9}
    AlertCounts = {6}
    NodeStates <- SomeNodes
    NoScore = NoScore
    MaxFacts = 2
    Keys = {"fixed", "plan"}
    Incoming = {r1, r2}
    Chains <- SomeChains
    Span = 2
    PlanLimits = {1, 2}
    FixedLimit = 2
    MaxCount = 3
    Sockets = {w1, w2, w3}
    Pages = {q1}
    Sets = {z1, z2, z3}
    NoSet = NoSet
    Ghost = Ghost
    Sends = {1, 2}
    Chats = {d1}
    Text <- SameText
    Nobody = Nobody
    MaxWire = 2
    Requests = {r1, r2}
    Readings = 2
    MaxTurns = 1
INVARIANTS
    AnswersAreTrue
    SentIsTrue
    LogoutLasts
    RemovalDeserved
    DialogTrue
    BlockDeserved
    StreamsLast
    RateHeld
PROPERTIES
    PlansKept
CHECK_DEADLOCK FALSE
