-------------------------------- MODULE MCPolls --------------------------------
(***************************************************************************)
(* Small instances of the two components whose progress is a poll's: the   *)
(* campaigns of the database driver, and the status of an instance.  They  *)
(* share no state here, so one of them moves in each behaviour and the     *)
(* other rests at its initial state.                                       *)
(***************************************************************************)
EXTENDS DatabaseCampaign, InstanceStatus, TLC

CONSTANTS c1, c2, c3

VARIABLE moving

\* Started; stopped; started again or extended: in any order and overlap.
AnyRequests ==
    c1 :> {"start"} @@ c2 :> {"pause", "cancel"}
    @@ c3 :> {"start", "senderStart", "add", "senderAdd"}

\* A status that rests has no session yet.
PollsInit ==
    /\ moving \in {"campaign", "status"}
    /\ Init /\ InstanceInit
    /\ moving # "status" => session = "none"

CampaignMoves == moving = "campaign" /\ Next /\ UNCHANGED <<moving, instanceVars>>
InstanceMoves == moving = "status" /\ InstanceNext /\ UNCHANGED <<moving, vars>>

PollsNext == CampaignMoves \/ InstanceMoves

\* Each keeps its own fairness.  A campaign that rests has no step to take, and
\* the panel owes a poll only while its instance moves.
Watched(A) == moving = "status" /\ A
PollsSpec ==
    /\ PollsInit /\ [][PollsNext]_<<moving, vars, instanceVars>>
    /\ Fairness
    /\ WF_instanceVars(Watched(SyncBegins(Panel)))
    /\ SF_instanceVars(Watched(AskStatus(Panel)))
    /\ WF_instanceVars(Watched(StoreStatus(Panel)))
=============================================================================
