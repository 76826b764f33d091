------------------------------ MODULE RateLimit -------------------------------
(***************************************************************************)
(* rate-limit.ts: a window for each key, in the memory of the server, that *)
(* the first request after the last one opens.  A request passes through   *)
(* the middlewares of its route; two of them read the limit of the plan    *)
(* first, and other requests, or a new plan, come in between.              *)
(***************************************************************************)
EXTENDS Naturals, Sequences, FiniteSets

CONSTANTS
    Keys,         \* label:suffix
    Incoming,        \* requests under way together
    Chains,       \* sequences of stages [by, key]: the middlewares of a route
    Span,         \* length of a window
    PlanLimits,   \* limits that plans give to a key
    FixedLimit,   \* of the other keys
    MaxCount      \* bound: requests counted in one window

ASSUME RateAssumption ==
    /\ Span \in Nat \ {0} /\ MaxCount \in Nat
    /\ FixedLimit \in Nat \ {0} /\ PlanLimits \subseteq Nat \ {0}
    /\ PlanLimits # {} /\ IsFiniteSet(PlanLimits) /\ Keys # {}

VARIABLES
    window,       \* window[k]: how long it lasts yet, and what it has counted
    planLimit,    \* the limit of the plan of the account
    onWay,         \* what is left of the route of each request
    passed        \* history: passed[k][a], requests let through a units ago

rateVars == <<window, planLimit, onWay, passed>>

Middlewares == {"global", "login", "apiKey", "critical", "instance", "ws"}
RouteStages == [by : Middlewares, key : Keys]
ASSUME ChainsAssumption == Chains \subseteq Seq(RouteStages)
Limits == PlanLimits \cup {FixedLimit}
NoWindow == [left |-> 0, count |-> 0]
NoCall == [way |-> <<>>, limit |-> 0]

RateTypeOK ==
    /\ window \in [Keys -> [left : 0..Span, count : 0..MaxCount]]
    /\ planLimit \in PlanLimits
    /\ onWay \in [Incoming -> [way : Seq(RouteStages), limit : Limits \cup {0}]]
    /\ passed \in [Keys -> [0..(Span - 1) -> Nat]]

RateInit ==
    /\ window = [k \in Keys |-> NoWindow]
    /\ planLimit = CHOOSE n \in PlanLimits : TRUE
    /\ onWay = [c \in Incoming |-> NoCall]
    /\ passed = [k \in Keys |-> [a \in 0..(Span - 1) |-> 0]]

-----------------------------------------------------------------------------
Enters(c) ==
    /\ onWay[c] = NoCall
    /\ \E r \in Chains : onWay' = [onWay EXCEPT ![c].way = r]
    /\ UNCHANGED <<window, planLimit, passed>>

NextIs(c, by) == onWay[c].way # <<>> /\ Head(onWay[c].way).by = by

\* check: the first request of a window opens it, the others are counted,
\* those that are refused too.
\* Mutant: a request that is refused opens the window anew.
CountedAnew(k, limit) ==
    LET w == window[k] IN
    IF w.left = 0 \/ w.count >= limit THEN [left |-> Span, count |-> 1]
    ELSE [w EXCEPT !.count = @ + 1]
Counted(k, limit) ==
    LET w == window[k] IN
    IF w.left = 0 THEN [left |-> Span, count |-> 1] ELSE [w EXCEPT !.count = @ + 1]

\* On to the next middleware, or 429.
Check(c, limit) ==
    LET k == Head(onWay[c].way).key
        w == Counted(k, limit)
        rest == Tail(onWay[c].way)
    IN  /\ w.count <= MaxCount
        /\ window' = [window EXCEPT ![k] = w]
        /\ IF w.count = 1 \/ w.count <= limit
           THEN /\ passed' = [passed EXCEPT ![k][0] = @ + 1]
                /\ onWay' = [onWay EXCEPT ![c] = [way |-> rest, limit |-> 0]]
           ELSE /\ onWay' = [onWay EXCEPT ![c] = NoCall]
                /\ UNCHANGED passed
        /\ UNCHANGED planLimit

FixedCheck(c, by) == NextIs(c, by) /\ Check(c, FixedLimit)
GlobalRateLimit(c)           == FixedCheck(c, "global")
LoginRateLimit(c)            == FixedCheck(c, "login")
CriticalEndpointRateLimit(c) == FixedCheck(c, "critical")
WsUpgrade(c)                 == FixedCheck(c, "ws")

\* The query for the limit of the plan, or the default when it fails or finds
\* nothing.
ReadsLimit(c, by) ==
    /\ NextIs(c, by) /\ onWay[c].limit = 0
    /\ \E n \in {planLimit, FixedLimit} : onWay' = [onWay EXCEPT ![c].limit = n]
    /\ UNCHANGED <<window, planLimit, passed>>
GetPlanLimitsForApiKey(c)   == ReadsLimit(c, "apiKey")
GetPlanLimitsForInstance(c) == ReadsLimit(c, "instance")

PlanCheck(c, by) == NextIs(c, by) /\ onWay[c].limit # 0 /\ Check(c, onWay[c].limit)
ApiKeyRateLimit(c)      == PlanCheck(c, "apiKey")
PerInstanceRateLimit(c) == PlanCheck(c, "instance")

\* Another plan for the account, or other limits for the plan.
LimitChanges ==
    /\ planLimit' \in PlanLimits \ {planLimit}
    /\ UNCHANGED <<window, onWay, passed>>

\* A unit of time.
Instant ==
    /\ window' = [k \in Keys |-> [window[k] EXCEPT !.left = IF @ = 0 THEN 0 ELSE @ - 1]]
    /\ passed' = [k \in Keys |-> [a \in 0..(Span - 1) |->
                                     IF a = 0 THEN 0 ELSE passed[k][a - 1]]]
    /\ UNCHANGED <<planLimit, onWay>>

\* The timer, each minute: windows that are over are forgotten.
Cleanup ==
    /\ window' = [k \in Keys |-> IF window[k].left = 0 THEN NoWindow ELSE window[k]]
    /\ UNCHANGED <<planLimit, onWay, passed>>

RateNext ==
    \/ \E c \in Incoming :
         \/ Enters(c)
         \/ GlobalRateLimit(c) \/ LoginRateLimit(c)
         \/ CriticalEndpointRateLimit(c) \/ WsUpgrade(c)
         \/ GetPlanLimitsForApiKey(c) \/ ApiKeyRateLimit(c)
         \/ GetPlanLimitsForInstance(c) \/ PerInstanceRateLimit(c)
    \/ LimitChanges \/ Instant \/ Cleanup

RateSpec == RateInit /\ [][RateNext]_rateVars

-----------------------------------------------------------------------------
Highest == CHOOSE n \in Limits : \A m \in Limits : m <= n
PassedLately(k) ==
    LET last[n \in 0..Span] == IF n = 0 THEN 0 ELSE last[n - 1] + passed[k][n - 1]
    IN  last[Span]

\* However requests and changes of plan fall, in any stretch of time as long as
\* a window fewer than twice as many requests pass for a key as the largest of
\* its limits: a burst astride two windows is not refused, a third window is
\* never opened, and the one that opens the first is a window ago.
RateHeld == \A k \in Keys : PassedLately(k) < 2 * Highest
=============================================================================
