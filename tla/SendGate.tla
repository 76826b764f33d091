------------------------------ MODULE SendGate ------------------------------
(***************************************************************************)
(* What stopping a campaign promises, without the campaign: a gate in      *)
(* front of the instances.  While it is open an instance may be admitted;  *)
(* an admitted instance may emit one message, even after the gate closed,  *)
(* or be withdrawn.  Nothing is admitted through a closed gate.            *)
(***************************************************************************)
EXTENDS Naturals

CONSTANT Instances

VARIABLES open,       \* the campaign is neither paused nor cancelled
          admitted,   \* the instances whose worker is committed to a send
          emitted     \* how many messages reached WhatsApp

vars == <<open, admitted, emitted>>

Init ==
    /\ open = TRUE
    /\ admitted = {}
    /\ emitted = 0

Admit(i) ==
    /\ open
    /\ admitted' = admitted \cup {i}
    /\ UNCHANGED <<open, emitted>>

Emit(i) ==
    /\ i \in admitted
    /\ admitted' = admitted \ {i}
    /\ emitted' = emitted + 1
    /\ UNCHANGED open

Withdraw(S) ==
    /\ admitted' = admitted \ S
    /\ UNCHANGED <<open, emitted>>

Switch ==
    /\ open' \in BOOLEAN
    /\ UNCHANGED <<admitted, emitted>>

Next ==
    \/ \E i \in Instances : Admit(i) \/ Emit(i)
    \/ \E S \in SUBSET Instances : Withdraw(S)
    \/ Switch

Spec == Init /\ [][Next]_vars
=============================================================================
