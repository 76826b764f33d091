------------------------------ MODULE MCServices ------------------------------
(***************************************************************************)
(* Small instances of the components that answer requests of their own.    *)
(* They share no state, so one of them moves in each behaviour and the     *)
(* others rest at their initial state.                                     *)
(***************************************************************************)
EXTENDS TrafficControl, Quota, Support, Inbox, Nodes, Integrations,
        MCRetention, Consent, Signup, PanelViews, Targets, Tickets, Limits

CONSTANTS t1, t2

VARIABLE moving

\* Every sender draws on every bucket, and each lets one message through.
AllBuckets == [s \in Senders |-> Buckets]
OneEach == [b \in Buckets |-> 1]

\* An account with two things to select, and one with one.
TwoThings == {<<t1, 1>>, <<t1, 2>>, <<t2, 1>>}

\* A plan with limits of its own for each resource.
OnePlan == [x \in Resources |-> IF x = "leads" THEN 2 ELSE 1]

Components ==
    {"traffic", "quota", "support", "inbox", "nodes", "integrations",
     "retention", "consent", "signup", "views", "targets", "tickets", "limits"}

\* A component with several initial states rests in one of them.
Init ==
    /\ moving \in Components
    /\ TrafficInit /\ QuotaInit /\ SupportInit /\ InboxInit
    /\ NodesInit /\ IntegrationsInit
    /\ RetentionInit /\ ConsentInit /\ SignupInit /\ ViewsInit
    /\ TargetsInit /\ TicketsInit /\ LimitsInit
    /\ moving # "quota" => grant = [c \in Clients |-> NoGrant]
    /\ moving # "views" => watched = "lists"

\* All but component c rest.
Rest(c) ==
    /\ UNCHANGED moving
    /\ IF c = "traffic" THEN TRUE ELSE UNCHANGED trafficVars
    /\ IF c = "quota" THEN TRUE ELSE UNCHANGED quotaVars
    /\ IF c = "support" THEN TRUE ELSE UNCHANGED supportVars
    /\ IF c = "inbox" THEN TRUE ELSE UNCHANGED inboxVars
    /\ IF c = "nodes" THEN TRUE ELSE UNCHANGED nodesVars
    /\ IF c = "integrations" THEN TRUE ELSE UNCHANGED integrationVars
    /\ IF c = "retention" THEN TRUE ELSE UNCHANGED retentionVars
    /\ IF c = "consent" THEN TRUE ELSE UNCHANGED consentVars
    /\ IF c = "signup" THEN TRUE ELSE UNCHANGED signupVars
    /\ IF c = "views" THEN TRUE ELSE UNCHANGED viewVars
    /\ IF c = "targets" THEN TRUE ELSE UNCHANGED targetVars
    /\ IF c = "tickets" THEN TRUE ELSE UNCHANGED ticketVars
    /\ IF c = "limits" THEN TRUE ELSE UNCHANGED limitVars

TrafficMoves     == moving = "traffic" /\ TrafficNext /\ Rest("traffic")
QuotaMoves       == moving = "quota" /\ QuotaNext /\ Rest("quota")
SupportMoves     == moving = "support" /\ SupportNext /\ Rest("support")
InboxMoves       == moving = "inbox" /\ InboxNext /\ Rest("inbox")
NodesMove        == moving = "nodes" /\ NodesNext /\ Rest("nodes")
IntegrationsMove == moving = "integrations" /\ IntegrationsNext /\ Rest("integrations")
RetentionMoves   == moving = "retention" /\ RetentionNext /\ Rest("retention")
ConsentMoves     == moving = "consent" /\ ConsentNext /\ Rest("consent")
SignupMoves      == moving = "signup" /\ SignupNext /\ Rest("signup")
ViewsMove        == moving = "views" /\ ViewsNext /\ Rest("views")
TargetsMove      == moving = "targets" /\ TargetsNext /\ Rest("targets")
TicketsMove      == moving = "tickets" /\ TicketsNext /\ Rest("tickets")
LimitsMove       == moving = "limits" /\ LimitsNext /\ Rest("limits")

Next ==
    \/ TrafficMoves \/ QuotaMoves \/ SupportMoves \/ InboxMoves
    \/ NodesMove \/ IntegrationsMove
    \/ RetentionMoves \/ ConsentMoves \/ SignupMoves \/ ViewsMove
    \/ TargetsMove \/ TicketsMove \/ LimitsMove

allVars == <<moving, trafficVars, quotaVars, supportVars, inboxVars,
             nodesVars, integrationVars, retentionVars,
             consentVars, signupVars, viewVars, targetVars, ticketVars,
             limitVars>>

Spec == Init /\ [][Next]_allVars
=============================================================================
