----------------------------- MODULE MCCampaign -----------------------------
(***************************************************************************)
(* Small instances of Campaign: which requests arrive in each run.         *)
(***************************************************************************)
EXTENDS Campaign, TLC

CONSTANTS c1, c2, c3

\* Started twice, while it is stopped, extended or moved to another instance.
RestartRequests ==
    c1 :> {"start"} @@ c2 :> {"pause", "cancel", "senderAdd"}
        @@ c3 :> {"start", "patch"}

\* Started once, stopped or extended at any moment.
OnceRequests ==
    c1 :> {"start"} @@ c2 :> {"pause", "cancel"} @@ c3 :> {"add", "senderAdd"}

\* Started once and paused, with every kind of failure.
FailingRequests == c1 :> {"start"} @@ c2 :> {"pause"}

\* Cancelled from the panel, started from the compatible API.
SenderRequests == c1 :> {"senderStart"} @@ c2 :> {"cancel"}

\* Free jobs are alike.  They are interchanged where only safety is checked; where
\* a liveness property is, the first free one is taken.
JobSymmetry == Permutations(Jobs)
FirstFree == \A j, k \in Jobs : j < k /\ jobs'[j].state = "free" => jobs'[k].state = "free"
OnceSpec == Init /\ [][Next /\ FirstFree]_vars /\ Fairness
=============================================================================
