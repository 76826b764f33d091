------------------------------ MODULE MCPlatform ------------------------------
(***************************************************************************)
(* Small instances of components whose actors act on what another said:    *)
(* messages sent directly, groups, plans, the panel, streams, scores and   *)
(* the session of the other engine.  They share no state here, so one of   *)
(* them moves in each behaviour and the others rest at their initial state.*)
(***************************************************************************)
EXTENDS DirectSend, Groups, Plans, PanelDialog, PanelChat, WozapiBridge,
        Reputation, RateLimit, Streams

CONSTANTS N1

VARIABLE moving

\* Two messages with the same text, which the panel tells apart by nothing else.
SameText == [m \in Sends |-> "ola"]

\* warn_and_remove, at the second violation.
SecondTime ==
    {[matches |-> LetterKinds, threshold |-> 2, calls |-> <<"warn", "delete", "remove">>]}

OneDefault == <<N1>>

\* A day with a third of the messages failed, and two others; a node that is as
\* bad as can be without a block, and one that is worse.
FirstDay == [total |-> 30, failed |-> 10, drops |-> 0, counted |-> 10, young |-> TRUE]
SomeVolumes == {[total |-> 30, failed |-> 10], [total |-> 5, failed |-> 0]}
SomeNodes == {{"inactive", "errors"}, {"inactive", "cpu", "memory"}}

\* The bound is of each key alone: two stand for the six labels.
Stage(by, key) == [by |-> by, key |-> key]
SomeChains == {<<Stage("global", "fixed"), Stage("apiKey", "plan")>>,
               <<Stage("critical", "fixed"), Stage("instance", "plan")>>,
               <<Stage("login", "fixed")>>, <<Stage("ws", "fixed")>>}

Components ==
    {"direct", "copy", "moderation", "plans", "dialog", "panel", "bridge",
     "reputation", "rate", "streams"}

\* A component with several initial states rests in one of them.
PlatformInit ==
    /\ moving \in Components
    /\ DirectInit /\ GroupsInit /\ PlansInit /\ DialogInit
    /\ PanelInit /\ BridgeInit /\ ReputationInit
    /\ RateInit /\ StreamsInit
    /\ moving # "bridge" => up = "open"
    /\ moving # "plans" => plans = <<>>

\* All but component c rest.
Rest(c) ==
    /\ UNCHANGED moving
    /\ IF c = "direct" THEN TRUE ELSE UNCHANGED directVars
    /\ IF c \in {"copy", "moderation"} THEN TRUE ELSE UNCHANGED groupVars
    /\ IF c = "plans" THEN TRUE ELSE UNCHANGED plansVars
    /\ IF c = "dialog" THEN TRUE ELSE UNCHANGED dialogVars
    /\ IF c = "panel" THEN TRUE ELSE UNCHANGED panelVars
    /\ IF c = "bridge" THEN TRUE ELSE UNCHANGED bridgeVars
    /\ IF c = "reputation" THEN TRUE ELSE UNCHANGED reputationVars
    /\ IF c = "rate" THEN TRUE ELSE UNCHANGED rateVars
    /\ IF c = "streams" THEN TRUE ELSE UNCHANGED streamVars

DirectMoves     == moving = "direct" /\ DirectNext /\ Rest("direct")
CopyMoves       == moving = "copy" /\ CopyNext /\ Rest("copy")
ModerationMoves == moving = "moderation" /\ ModerationNext /\ Rest("moderation")
PlansMove       == moving = "plans" /\ PlansNext /\ Rest("plans")
DialogMoves     == moving = "dialog" /\ DialogNext /\ Rest("dialog")
PanelMoves      == moving = "panel" /\ PanelNext /\ Rest("panel")
BridgeMoves     == moving = "bridge" /\ BridgeNext /\ Rest("bridge")
ReputationMoves == moving = "reputation" /\ ReputationNext /\ Rest("reputation")
RateMoves       == moving = "rate" /\ RateNext /\ Rest("rate")
StreamsMove     == moving = "streams" /\ StreamsNext /\ Rest("streams")

PlatformNext ==
    \/ DirectMoves \/ CopyMoves \/ ModerationMoves \/ PlansMove
    \/ DialogMoves \/ PanelMoves \/ BridgeMoves \/ ReputationMoves
    \/ RateMoves \/ StreamsMove

platformVars == <<moving, directVars, groupVars, plansVars, dialogVars, panelVars,
                  bridgeVars, reputationVars, rateVars, streamVars>>

PlatformSpec == PlatformInit /\ [][PlatformNext]_platformVars
=============================================================================
