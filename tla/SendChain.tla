------------------------------ MODULE SendChain ------------------------------
(***************************************************************************)
(* sendMessagePerInstance of the message worker: each job that BullMQ      *)
(* hands out chains a promise behind the last one of its instance and      *)
(* waits for its predecessor, so that an instance sends one message at a   *)
(* time, in the order the jobs were handed out.  Node runs the code        *)
(* between two awaits as one step; BullMQ runs up to Concurrency calls.    *)
(***************************************************************************)
EXTENDS Naturals, FiniteSets

CONSTANTS
    Tasks,         \* bound: calls of sendMessagePerInstance, each made once
    Instances,     \* the instances the jobs send through
    Concurrency,   \* MESSAGE_WORKER_CONCURRENCY
    MaxDeaths,     \* bound: crashes of the worker process
    NoTask         \* no chain: Promise.resolve()

ASSUME ChainAssumption ==
    /\ Concurrency \in Nat \ {0}
    /\ MaxDeaths \in Nat
    /\ Instances # {}
    /\ NoTask \notin Tasks

VARIABLES
    last,       \* instanceSendChains: the task whose chain is stored, or NoTask
    task,       \* task[t]: where the call is, its instance, the task it awaits
    arrivals,   \* history: how many calls were made
    deaths      \* how often the worker process died

chainVars == <<last, task, arrivals, deaths>>

TaskRow == [pc : {"new", "waiting", "sending", "over"}, inst : Instances,
            prev : Tasks \cup {NoTask}, rank : Nat]

ChainTypeOK ==
    /\ last \in [Instances -> Tasks \cup {NoTask}]
    /\ task \in [Tasks -> TaskRow]
    /\ arrivals \in Nat
    /\ deaths \in Nat

AnyInstance == CHOOSE i \in Instances : TRUE

ChainInit ==
    /\ last = [i \in Instances |-> NoTask]
    /\ task = [t \in Tasks |-> [pc |-> "new", inst |-> AnyInstance,
                                prev |-> NoTask, rank |-> 0]]
    /\ arrivals = 0
    /\ deaths = 0

Busy == {t \in Tasks : task[t].pc \in {"waiting", "sending"}}

\* Mutant: the chain is stored before the predecessor is read.
ArriveStoredFirst(t, i) ==
    /\ task[t].pc = "new"
    /\ Cardinality(Busy) < Concurrency
    /\ task' = [task EXCEPT ![t] = [pc |-> "waiting", inst |-> i,
                                    prev |-> t, rank |-> arrivals + 1]]
    /\ last' = [last EXCEPT ![i] = t]
    /\ arrivals' = arrivals + 1
    /\ UNCHANGED deaths

\* Up to the await: the stored chain becomes this task's predecessor and the
\* task's own chain is stored in its place.
Arrive(t, i) ==
    /\ task[t].pc = "new"
    /\ Cardinality(Busy) < Concurrency
    /\ task' = [task EXCEPT ![t] = [pc |-> "waiting", inst |-> i,
                                    prev |-> last[i], rank |-> arrivals + 1]]
    /\ last' = [last EXCEPT ![i] = t]
    /\ arrivals' = arrivals + 1
    /\ UNCHANGED deaths

\* chain = previous.then(() => current): the chain of p is resolved when p and
\* all before it were released.
ChainResolved(p) == p # NoTask => task[p].pc = "over"

\* `await previous` returns, sendMessage begins.
Begin(t) ==
    /\ task[t].pc = "waiting"
    /\ ChainResolved(task[t].prev)
    /\ task' = [task EXCEPT ![t].pc = "sending"]
    /\ UNCHANGED <<last, arrivals, deaths>>

\* Mutant: the entry is deleted whoever stored it.
ForgottenAlways(t) == [last EXCEPT ![task[t].inst] = NoTask]

\* instanceSendChains.get(instanceId) === chain
Forgotten(t) ==
    IF last[task[t].inst] = t THEN [last EXCEPT ![task[t].inst] = NoTask] ELSE last

\* sendMessage returned or threw: the finally block.
Finish(t) ==
    /\ task[t].pc = "sending"
    /\ task' = [task EXCEPT ![t].pc = "over"]
    /\ last' = Forgotten(t)
    /\ UNCHANGED <<arrivals, deaths>>

\* The process dies: its calls and its map are gone.
Crash ==
    /\ deaths < MaxDeaths
    /\ deaths' = deaths + 1
    /\ last' = [i \in Instances |-> NoTask]
    /\ task' = [t \in Tasks |-> IF t \in Busy THEN [task[t] EXCEPT !.pc = "over"]
                                ELSE task[t]]
    /\ UNCHANGED arrivals

ChainNext ==
    \/ \E t \in Tasks : (\E i \in Instances : Arrive(t, i)) \/ Begin(t) \/ Finish(t)
    \/ Crash

ChainSpec == ChainInit /\ [][ChainNext]_chainVars

\* A resolved promise wakes whoever awaits it, and every sendMessage returns
\* or throws: Node's fetch gives up after its default timeouts.  Nobody owes a
\* new job.
ChainFairness == \A t \in Tasks : WF_chainVars(Begin(t)) /\ WF_chainVars(Finish(t))
ChainFairSpec == ChainSpec /\ ChainFairness

-----------------------------------------------------------------------------
Sending(i) == {t \in Tasks : task[t].pc = "sending" /\ task[t].inst = i}

\* One message at a time: with the delete in the finally block, the chain is
\* a mutex for each instance, across any overlap of arrivals and completions.
Mutex == INSTANCE SendMutex WITH sending <- [i \in Instances |-> Sending(i)]

ImplementsMutex == Mutex!Spec

\* Messages of an instance leave in the order the jobs were handed out: when
\* one begins, everything before it on the instance is over.
Before(t, u) == task[t].inst = task[u].inst /\ task[t].rank < task[u].rank
InOrder ==
    \A t, u \in Tasks :
        task[t].pc \in {"waiting", "sending"} /\ Before(t, u) =>
            task[u].pc = "waiting"

\* The map holds an entry exactly for the instances with a job in progress:
\* it neither grows for ever nor forgets a chain somebody still works on.
EntryMeansWork ==
    \A i \in Instances :
        last[i] = NoTask <=> \A t \in Busy : task[t].inst # i

\* No job waits for ever behind its chain.
EveryoneSends == \A t \in Tasks : task[t].pc = "waiting" ~> task[t].pc = "over"
=============================================================================
