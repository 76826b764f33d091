------------------------------- MODULE Support --------------------------------
(***************************************************************************)
(* Alerts of one type of one instance (alert.worker.ts, monitor.worker.ts  *)
(* and server.ts).  They are created after a SELECT that found none, in a  *)
(* statement of its own, by jobs that run at the same time.                *)
(***************************************************************************)
EXTENDS Naturals, FiniteSets

CONSTANTS
    Slots,       \* jobs the alert worker runs at a time
    MaxTries,    \* attempts of the job of a disconnection
    MaxWaiting   \* bound: jobs waiting in the queue support-alerts

ASSUME SupportAssumption ==
    /\ IsFiniteSet(Slots)
    /\ MaxTries \in Nat \ {0}
    /\ MaxWaiting \in Nat

VARIABLES
    waiting,    \* waiting[n]: jobs waiting with n attempts left
    slot,       \* slot[w]: what slot w of the alert worker does
    open,       \* alerts with status 'open'
    looks       \* whether the monitor found no open alert, and is to add a job

supportVars == <<waiting, slot, open, looks>>

SupportTypeOK ==
    /\ waiting \in [1..MaxTries -> 0..MaxWaiting]
    /\ slot \in [Slots -> [pc : {"free", "look", "insert"}, left : 0..MaxTries]]
    /\ open \in Nat
    /\ looks \in BOOLEAN

FreeWorker == [pc |-> "free", left |-> 0]

SupportInit ==
    /\ waiting = [n \in 1..MaxTries |-> 0]
    /\ slot = [w \in Slots |-> FreeWorker]
    /\ open = 0
    /\ looks = FALSE

-----------------------------------------------------------------------------
AddJob(tries) ==
    /\ waiting[tries] < MaxWaiting
    /\ waiting' = [waiting EXCEPT ![tries] = @ + 1]

\* The bridge reported a disconnection; the job is added unseen.
Disconnected ==
    /\ AddJob(MaxTries)
    /\ UNCHANGED <<slot, open, looks>>

\* The monitor looks for an open alert first, and adds a job of one attempt; the
\* check of an instance ends without it when a statement fails.
MonitorLooks ==
    /\ open = 0
    /\ looks' = TRUE
    /\ UNCHANGED <<waiting, slot, open>>
MonitorAdds ==
    /\ looks
    /\ looks' = FALSE
    /\ AddJob(1) \/ UNCHANGED waiting
    /\ UNCHANGED <<slot, open>>

SlotGoes(w, pc) == slot' = [slot EXCEPT ![w].pc = pc]

PickAlert(w) ==
    /\ slot[w].pc = "free"
    /\ \E n \in 1..MaxTries :
         /\ waiting[n] > 0
         /\ waiting' = [waiting EXCEPT ![n] = @ - 1]
         /\ slot' = [slot EXCEPT ![w] = [pc |-> "look", left |-> n]]
    /\ UNCHANGED <<open, looks>>

LookForOpen(w) ==
    /\ slot[w].pc = "look"
    /\ \/ open > 0 /\ slot' = [slot EXCEPT ![w] = FreeWorker]
       \/ open = 0 /\ SlotGoes(w, "insert")
    /\ UNCHANGED <<waiting, open, looks>>

InsertAlert(w) ==
    /\ slot[w].pc = "insert"
    /\ open' = open + 1
    /\ slot' = [slot EXCEPT ![w] = FreeWorker]
    /\ UNCHANGED <<waiting, looks>>

\* A statement fails, or the worker dies, after the INSERT perhaps.  A job with
\* attempts left waits again.
AlertFails(w) ==
    /\ slot[w].pc # "free"
    /\ \/ slot[w].left = 1 /\ UNCHANGED waiting
       \/ slot[w].left > 1 /\ AddJob(slot[w].left - 1)
    /\ open' \in {open} \cup {n \in {open + 1} : slot[w].pc = "insert"}
    /\ slot' = [slot EXCEPT ![w] = FreeWorker]
    /\ UNCHANGED looks

\* Acknowledged or resolved: the alert is not open any more, and the next
\* check raises another one.
CloseAlert ==
    /\ open > 0
    /\ open' = open - 1
    /\ UNCHANGED <<waiting, slot, looks>>

-----------------------------------------------------------------------------
SupportNext ==
    \/ Disconnected \/ MonitorLooks \/ MonitorAdds \/ CloseAlert
    \/ \E w \in Slots : PickAlert(w) \/ LookForOpen(w) \/ InsertAlert(w) \/ AlertFails(w)

SupportSpec == SupportInit /\ [][SupportNext]_supportVars

-----------------------------------------------------------------------------
\* Nothing in the database keeps two alerts of a type apart.  Those that slip
\* through are bounded all the same by the concurrency of the worker, whatever
\* is queued, retried or acknowledged meanwhile.
DuplicatesBounded == open <= Cardinality(Slots)
=============================================================================
