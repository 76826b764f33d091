----------------------------- MODULE MCLifecycles -----------------------------
(***************************************************************************)
(* Small instances of three components that owe somebody an end: webhook   *)
(* delivery during a Redis outage, the trials of accounts, and the chain   *)
(* of calls of the message worker.  They share no state, so one of them    *)
(* moves in each behaviour and the others rest at their initial state.     *)
(***************************************************************************)
EXTENDS WebhookDelivery, Accounts, SendChain

VARIABLE moving

LifeInit ==
    /\ moving \in {"webhooks", "accounts", "chain"}
    /\ Init /\ AccountsInit /\ ChainInit

WebhooksMove ==
    moving = "webhooks" /\ Next /\ UNCHANGED <<moving, accountsVars, chainVars>>
AccountsMove ==
    moving = "accounts" /\ AccountsNext /\ UNCHANGED <<moving, vars, chainVars>>
ChainMoves ==
    moving = "chain" /\ ChainNext /\ UNCHANGED <<moving, vars, accountsVars>>

LifeNext == WebhooksMove \/ AccountsMove \/ ChainMoves

\* Each component keeps its own fairness: no step that it names is enabled in the
\* initial state, so it asks nothing of a component that rests.
LifeSpec ==
    /\ LifeInit /\ [][LifeNext]_<<moving, vars, accountsVars, chainVars>>
    /\ DeliveryFairness /\ AccountsFairness /\ ChainFairness
=============================================================================
