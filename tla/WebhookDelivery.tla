--------------------------- MODULE WebhookDelivery ---------------------------
(***************************************************************************)
(* The delivery of webhook events under QUEUE_DRIVER=bullmq: the server    *)
(* that inserts an event row and adds its job (server.ts), the sweep and   *)
(* the requests that add it again, the message worker that adds without    *)
(* waiting, and the webhook worker, whose database writes are not awaited  *)
(* (src/workers/webhook.worker.ts).  An event here is one row of           *)
(* webhook_events: one event for one target.                               *)
(***************************************************************************)
EXTENDS Naturals, FiniteSets

CONSTANTS
    Events,        \* ids of webhook_events
    ServerEvents,  \* the events dispatchWebhook inserts; the others come from
                   \* the message worker
    Sweeps,        \* sweeps that may overlap: each is started every 30 s
    Retries,       \* HTTP requests that retry an event, each served once
    Jobs,          \* bound: job ids BullMQ hands out
    Attempts,      \* job.opts.attempts
    Limit,         \* LIMIT of the sweep's query
    MaxCrashes,    \* bound: crashes of server and worker
    Faults,        \* what may go wrong: see FaultKind
    MarkFirst,     \* whether a job's row is marked before its outcome lands
    None           \* no event, no job

FaultKind == {"redis",      \* queue.add rejects
              "database",   \* an UPDATE or INSERT rejects
              "lost",       \* the receiver's answer is lost or late
              "crash"}      \* server or worker die

ASSUME DeliveryAssumption ==
    /\ Events \subseteq Nat
    /\ ServerEvents \subseteq Events
    /\ Attempts \in Nat \ {0}
    /\ Limit \in Nat \ {0}
    /\ MaxCrashes \in Nat
    /\ Faults \subseteq FaultKind
    /\ MarkFirst \in BOOLEAN
    /\ None \notin Events /\ None \notin Jobs
    /\ Events \cap (Sweeps \cup Retries) = {}
    /\ Sweeps \cap Retries = {}

VARIABLES
    row,        \* webhook_events: status, error LIKE 'QUEUE_UNAVAILABLE:%', due
    thread,     \* the calls of enqueueWebhookDeliveryByEventId in progress
    jobs,       \* the webhook-delivery jobs
    writes,     \* statements the webhook worker issued and did not await
    logs,       \* logs[j]: rows of webhook_delivery_logs about job j
    posts,      \* history: posts[j]: HTTP requests made for job j
    accepted,   \* history: accepted[e]: deliveries the receiver accepted
    asked,      \* history: asked[e]: how often somebody asked for a delivery
    crashes     \* how often server or worker died

vars == <<row, thread, jobs, writes, logs, posts, accepted, asked, crashes>>

Threads == Events \cup Sweeps \cup Retries
Status == {"none", "pending", "retrying", "failed", "delivered"}
Final == {"failed", "delivered"}

EventRow == [status : Status, unavailable : BOOLEAN, due : BOOLEAN]
ThreadRow == [pc : {"idle", "add", "mark", "unavailable", "forget", "over"},
              event : Events \cup {None}, job : Jobs \cup {None},
              todo : SUBSET Events]
JobRow == [state : {"free", "ready", "posting", "answered", "settling", "over"},
           event : Events \cup {None}, made : Nat, ok : BOOLEAN]
WriteRow == [kind : {"log", "row"}, job : Jobs, post : Nat, status : Status]

TypeOK ==
    /\ row \in [Events -> EventRow]
    /\ thread \in [Threads -> ThreadRow]
    /\ jobs \in [Jobs -> JobRow]
    /\ writes \subseteq WriteRow
    /\ logs \in [Jobs -> Nat]
    /\ posts \in [Jobs -> Nat]
    /\ accepted \in [Events -> Nat]
    /\ asked \in [Events -> Nat]
    /\ crashes \in Nat

At(l) == [pc |-> l, event |-> None, job |-> None, todo |-> {}]

Init ==
    /\ row = [e \in Events |-> [status |-> "none", unavailable |-> FALSE, due |-> FALSE]]
    /\ thread = [x \in Threads |-> At("idle")]
    /\ jobs = [j \in Jobs |-> [state |-> "free", event |-> None, made |-> 0, ok |-> FALSE]]
    /\ writes = {}
    /\ logs = [j \in Jobs |-> 0]
    /\ posts = [j \in Jobs |-> 0]
    /\ accepted = [e \in Events |-> 0]
    /\ asked = [e \in Events |-> 0]
    /\ crashes = 0

Fault(f) == f \in Faults
worker == <<writes, logs, posts, accepted, crashes>>

-----------------------------------------------------------------------------
\* dispatchWebhook inserts the row and calls enqueueWebhookDeliveryByEventId;
\* enqueueWebhookEvent of the message worker inserts it and adds by itself.
Dispatch(e) ==
    /\ row[e].status = "none"
    /\ row' = [row EXCEPT ![e].status = "pending"]
    /\ thread' = [thread EXCEPT ![e] =
         [At(IF e \in ServerEvents THEN "add" ELSE "forget") EXCEPT !.event = e]]
    /\ asked' = [asked EXCEPT ![e] = @ + 1]
    /\ UNCHANGED <<jobs, worker>>

\* POST .../webhook-events/:eventId/retry, .../webhook-logs/:logId/retry and
\* /api/admin/alerts/:id/retry look at no status.
Retry(x, e) ==
    /\ thread[x].pc = "idle"
    /\ row[e].status # "none"
    /\ thread' = [thread EXCEPT ![x] = [At("add") EXCEPT !.event = e]]
    /\ asked' = [asked EXCEPT ![e] = @ + 1]
    /\ UNCHANGED <<row, jobs, worker>>

\* status = 'retrying' AND error LIKE 'QUEUE_UNAVAILABLE:%' AND next_retry_at <= now
Swept == {e \in Events : row[e].status = "retrying" /\ row[e].unavailable /\ row[e].due}

FirstOf(S) == {e \in S : Cardinality({d \in S : d < e}) < Limit}

Ended(x) == At(IF x \in Sweeps THEN "idle" ELSE "over")

\* The call goes on to the first of its events, or ends.
Proceed(x, S) ==
    \/ S = {} /\ thread' = [thread EXCEPT ![x] = Ended(x)]
    \/ \E e \in S :
         /\ \A d \in S : e <= d
         /\ thread' = [thread EXCEPT ![x] =
              [pc |-> "add", event |-> e, job |-> None, todo |-> S \ {e}]]

Return(x) == Proceed(x, thread[x].todo)

\* processWebhookRetries, started every 30 s whether or not the last one ended.
Sweep(x) ==
    /\ thread[x].pc = "idle"
    /\ Swept # {}
    /\ Proceed(x, FirstOf(Swept))
    /\ UNCHANGED <<row, jobs, asked, worker>>

\* webhookDeliveryQueue.add
Added(j, e) ==
    /\ jobs[j].state = "free"
    /\ jobs' = [jobs EXCEPT ![j] = [state |-> "ready", event |-> e, made |-> 0, ok |-> FALSE]]

Add(x) ==
    /\ thread[x].pc = "add"
    /\ \E j \in Jobs :
         /\ Added(j, thread[x].event)
         /\ thread' = [thread EXCEPT ![x].pc = "mark", ![x].job = j]
    /\ UNCHANGED <<row, asked, worker>>

\* queue.add rejects, or the UPDATE after it: both land in the same catch.
AddFails(x) ==
    /\ \/ thread[x].pc = "add" /\ Fault("redis")
       \/ thread[x].pc = "mark" /\ Fault("database")
    /\ thread' = [thread EXCEPT ![x].pc = "unavailable"]
    /\ UNCHANGED <<row, jobs, asked, worker>>

\* Mutant: the row keeps the QUEUE_UNAVAILABLE of an earlier try.
MarkKeepingError(x) ==
    /\ thread[x].pc = "mark"
    /\ Return(x)
    /\ UNCHANGED <<row, jobs, asked, worker>>

Mark(x) ==
    /\ thread[x].pc = "mark"
    /\ row' = [row EXCEPT ![thread[x].event] =
         [status |-> "pending", unavailable |-> FALSE, due |-> FALSE]]
    /\ Return(x)
    /\ UNCHANGED <<jobs, asked, worker>>

\* Mutant: a rejected add leaves the row as it is.
UnavailableSilently(x) ==
    /\ thread[x].pc = "unavailable"
    /\ Return(x)
    /\ UNCHANGED <<row, jobs, asked, worker>>

Unavailable(x) ==
    /\ thread[x].pc = "unavailable"
    /\ row' = [row EXCEPT ![thread[x].event] =
         [status |-> "retrying", unavailable |-> TRUE, due |-> FALSE]]
    /\ Return(x)
    /\ UNCHANGED <<jobs, asked, worker>>

\* The UPDATE of the catch rejects: the call throws, and with it the sweep.
UnavailableFails(x) ==
    /\ thread[x].pc = "unavailable"
    /\ Fault("database")
    /\ thread' = [thread EXCEPT ![x] = Ended(x)]
    /\ UNCHANGED <<row, jobs, asked, worker>>

\* The message worker adds without waiting, swallows a rejection, and adds
\* nothing for the event's own row if the instance has no URL: it stays 'pending'.
Forget(x) ==
    /\ thread[x].pc = "forget"
    /\ \/ \E j \in Jobs : Added(j, thread[x].event)
       \/ UNCHANGED jobs
    /\ thread' = [thread EXCEPT ![x] = At("over")]
    /\ UNCHANGED <<row, asked, worker>>

\* next_retry_at passes.
Elapse(e) ==
    /\ row[e].unavailable /\ ~row[e].due
    /\ row' = [row EXCEPT ![e].due = TRUE]
    /\ UNCHANGED <<thread, jobs, asked, worker>>

\* The server dies; the rows stay as they are.
ServerCrash ==
    /\ Fault("crash") /\ crashes < MaxCrashes
    /\ crashes' = crashes + 1
    /\ thread' = [x \in Threads |-> IF thread[x].pc \in {"idle", "over"} THEN thread[x]
                                    ELSE Ended(x)]
    /\ UNCHANGED <<row, jobs, asked, writes, logs, posts, accepted>>

Server(x) ==
    \/ Add(x) \/ AddFails(x) \/ Mark(x) \/ Unavailable(x) \/ UnavailableFails(x)
    \/ Forget(x)

-----------------------------------------------------------------------------
server == <<thread, asked>>

\* A job runs again 30 s after its last attempt, when nothing it wrote is
\* still on its way.
PickUp(j) ==
    /\ jobs[j].state = "ready"
    /\ \A w \in writes : w.job # j
    /\ jobs' = [jobs EXCEPT ![j].state = "posting"]
    /\ UNCHANGED <<row, server, worker>>

\* The POST and its answer: 2xx, anything else, or none although accepted.
Post(j) ==
    LET e == jobs[j].event IN
    /\ jobs[j].state = "posting"
    /\ posts' = [posts EXCEPT ![j] = @ + 1]
    /\ \E took, ok \in BOOLEAN :
         /\ ok => took
         /\ took /\ ~ok => Fault("lost")
         /\ accepted' = IF took THEN [accepted EXCEPT ![e] = @ + 1] ELSE accepted
         /\ jobs' = [jobs EXCEPT ![j].state = "answered", ![j].ok = ok]
    /\ UNCHANGED <<row, writes, logs, crashes, server>>

\* Mutant: the attempt before the last is taken for the last.
IsLastEarly(j) == jobs[j].made + 2 >= Attempts

IsLast(j) == jobs[j].made + 1 >= Attempts

\* Mutant: the answer's status code is not looked at.
OutcomeOfAnyAnswer(j) == "delivered"

Outcome(j) ==
    IF jobs[j].ok THEN "delivered" ELSE IF IsLast(j) THEN "failed" ELSE "retrying"

Write(j, kind) == [kind |-> kind, job |-> j, post |-> posts[j], status |-> Outcome(j)]

\* logAttempt and updateWebhookEvent, once for each attempt.
Reported(j) == {Write(j, "log"), Write(j, "row")}

\* Neither is awaited.
Report(j) ==
    /\ jobs[j].state = "answered"
    /\ writes' = writes \cup Reported(j)
    /\ jobs' = [jobs EXCEPT ![j].state = "settling"]
    /\ UNCHANGED <<row, logs, posts, accepted, crashes, server>>

\* BullMQ by its own count: over after a success or the last attempt.
Spent(j) == jobs[j].ok \/ jobs[j].made + 1 >= Attempts

\* Mutant: a failed attempt is not counted.
SettledUncounted(j) == [jobs[j] EXCEPT !.state = IF Spent(j) THEN "over" ELSE "ready"]

Settled(j) ==
    IF Spent(j) THEN [jobs[j] EXCEPT !.state = "over"]
    ELSE [jobs[j] EXCEPT !.state = "ready", !.made = @ + 1]

\* The handler returned or threw.
Settle(j) ==
    /\ jobs[j].state = "settling"
    /\ jobs' = [jobs EXCEPT ![j] = Settled(j)]
    /\ UNCHANGED <<row, server, worker>>

\* A statement of the worker takes effect.
Land(w) ==
    LET e == jobs[w.job].event IN
    /\ w \in writes
    /\ \/ /\ w.kind = "log"
          /\ logs' = [logs EXCEPT ![w.job] = @ + 1]
          /\ UNCHANGED row
       \/ /\ w.kind = "row"
          /\ MarkFirst => \A x \in Threads : ~(thread[x].pc = "mark" /\ thread[x].job = w.job)
          /\ row' = [row EXCEPT ![e] =
               [status |-> w.status, unavailable |-> FALSE, due |-> FALSE]]
          /\ UNCHANGED logs
    /\ writes' = writes \ {w}
    /\ UNCHANGED <<jobs, posts, accepted, crashes, server>>

\* The worker dies: some of its statements had reached the database, and BullMQ
\* finds its jobs stalled.
Dies(S) ==
    /\ crashes < MaxCrashes
    /\ crashes' = crashes + 1
    /\ writes' \in SUBSET S
    /\ jobs' = [j \in Jobs |->
         IF jobs[j].state \in {"posting", "answered", "settling"}
         THEN [jobs[j] EXCEPT !.state = "ready"] ELSE jobs[j]]
    /\ UNCHANGED <<row, logs, posts, accepted, server>>

WorkerCrash == Fault("crash") /\ Dies(writes)

\* A statement rejects and nobody handles the rejection: Node ends the process.
Rejected == Fault("database") /\ \E w \in writes : Dies(writes \ {w})

Worker(j) == PickUp(j) \/ Post(j) \/ Report(j) \/ Settle(j)

-----------------------------------------------------------------------------
Next ==
    \/ \E e \in Events : Dispatch(e) \/ Elapse(e)
    \/ \E x \in Retries, e \in Events : Retry(x, e)
    \/ \E x \in Sweeps : Sweep(x)
    \/ \E x \in Threads : Server(x)
    \/ \E j \in Jobs : Worker(j)
    \/ \E w \in writes : Land(w)
    \/ ServerCrash \/ WorkerCrash \/ Rejected

Spec == Init /\ [][Next]_vars

\* The server's timers and handlers keep running, the worker's jobs and
\* statements too, and Redis does not reject the same event for ever.
DeliveryFairness ==
    /\ \A e \in Events : WF_vars(Elapse(e))
    /\ \A x \in Sweeps : WF_vars(Sweep(x))
    /\ \A x \in Threads :
         /\ WF_vars(Mark(x) \/ Unavailable(x) \/ Forget(x))
         /\ \A e \in Events : SF_vars(thread[x].event = e /\ Add(x))
    /\ \A j \in Jobs : WF_vars(Worker(j))
    /\ WF_vars(\E w \in writes : Land(w))

FairSpec == Spec /\ DeliveryFairness

-----------------------------------------------------------------------------
JobsOf(e) == {j \in Jobs : jobs[j].event = e}

\* A row says 'delivered' only if the receiver accepted the event: retries,
\* late statements, crashes and a second job never invent a delivery.
DeliveredIsTrue ==
    \A e \in Events : row[e].status = "delivered" => accepted[e] > 0

\* A receiver sees one job's event no more often than it may be attempted, and
\* once more for each crash, whatever answers and database statements get lost.
PostsBounded == \A j \in Jobs : posts[j] <= Attempts + crashes

\* One attempt never leaves two lines in the delivery log: the catch block
\* does not log what the try block logged (attemptLogged).
LoggedOnce == \A j \in Jobs : logs[j] <= posts[j]

\* If sweeps do not overlap, no UPDATE rejects and nothing crashes, an event
\* gets one job for each time somebody asked, however often Redis rejects and
\* whoever retries.
OneJobPerRequest == \A e \in Events : Cardinality(JobsOf(e)) <= asked[e]

\* The call that added a job of the event ends with its UPDATE to 'pending'.
EndsMarking(e) ==
    \E x \in Threads : /\ thread[x].pc = "mark" /\ thread'[x].pc # "mark"
                       /\ thread[x].event = e /\ thread[x].job \in JobsOf(e)

\* If nobody asks again, no sweep, job, statement or later try takes back the
\* outcome shown for an event, but one: the call that added its job, where the
\* worker was faster than its UPDATE, then writes 'pending' over the outcome.
\* UPDATEs that reject, crashes and overlapping sweeps give an event a second job
\* and are left out.
FinalIsFinal ==
    [][\A e \in Events : asked'[e] <= 1 /\ row[e].status \in Final =>
           \/ row'[e].status = row[e].status
           \/ row'[e].status = "pending" /\ EndsMarking(e)]_vars

\* An event the server dispatched, and any other that got a job, is concluded:
\* a Redis outage only delays it, through QUEUE_UNAVAILABLE and the sweep.
EventsConclude ==
    \A e \in Events :
        JobsOf(e) # {} \/ (e \in ServerEvents /\ row[e].status # "none") ~>
            row[e].status \in Final

\* What docs/wooapi-webhooks.md:97 says: each attempt leaves a line in
\* webhook_delivery_logs, at the latest when the job is over.
EveryAttemptLogged ==
    \A j \in Jobs : jobs[j].state = "over" /\ (\A w \in writes : w.job # j) =>
        logs[j] = posts[j]
=============================================================================
