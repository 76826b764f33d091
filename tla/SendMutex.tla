------------------------------ MODULE SendMutex ------------------------------
(***************************************************************************)
(* What the chain of an instance promises, without the chain: at most one  *)
(* job sends through an instance at a time.  Campaign is written against   *)
(* this promise; SendChain shows that the code keeps it.                   *)
(***************************************************************************)
CONSTANTS Instances, Tasks

VARIABLE sending    \* sending[i]: the jobs sending through instance i

Init == sending = [i \in Instances |-> {}]

Enter(i, t) ==
    /\ sending[i] = {}
    /\ sending' = [sending EXCEPT ![i] = {t}]

Leave(i) == sending' = [sending EXCEPT ![i] = {}]

\* The worker process dies, with everything it was sending.
Reset == sending' = [i \in Instances |-> {}]

Next ==
    \/ \E i \in Instances : Leave(i) \/ \E t \in Tasks : Enter(i, t)
    \/ Reset

Spec == Init /\ [][Next]_sending
=============================================================================
