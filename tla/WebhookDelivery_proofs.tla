----------------------- MODULE WebhookDelivery_proofs -----------------------
(***************************************************************************)
(* Proofs about WebhookDelivery, for any number of events, sweeps that     *)
(* overlap, requests, jobs, crashes and faults.                            *)
(***************************************************************************)
EXTENDS WebhookDelivery, FiniteSetTheorems, TLAPS

Calling == {"add", "mark", "unavailable", "forget"}
Running == {"posting", "answered", "settling"}

\* Who enqueues knows what, and what is queued or written belongs to an event.
Served ==
    /\ \A x \in Threads : thread[x].pc \in Calling => thread[x].event \in Events
    /\ \A j \in Jobs : jobs[j].state # "free" => jobs[j].event \in Events
    /\ \A w \in writes : jobs[w.job].state # "free"

\* An acceptance precedes every statement and every row that reports it.
Truthful ==
    /\ DeliveredIsTrue
    /\ \A j \in Jobs : jobs[j].ok /\ jobs[j].state \in {"answered", "settling"} =>
          accepted[jobs[j].event] > 0
    /\ \A w \in writes : w.status = "delivered" => accepted[jobs[w.job].event] > 0

\* Each finished attempt and each crash accounts for one POST, the running or
\* the last attempt for one more.
Accounted ==
    \A j \in Jobs :
        /\ jobs[j].made + 1 <= Attempts
        /\ jobs[j].state = "free" => jobs[j].made = 0
        /\ posts[j] <= jobs[j].made + crashes +
              (IF jobs[j].state \in {"answered", "settling", "over"} THEN 1 ELSE 0)

LogsOf(j) == {w \in writes : w.kind = "log" /\ w.job = j}

\* The lines in the log and on their way to it, with the one not yet written.
Logged ==
    /\ IsFiniteSet(writes)
    /\ \A j \in Jobs :
          logs[j] + Cardinality(LogsOf(j)) +
              (IF jobs[j].state = "answered" THEN 1 ELSE 0) <= posts[j]

DeliveryInv == TypeOK /\ Served /\ Truthful /\ Accounted /\ Logged

LEMMA LogsOfType ==
    ASSUME IsFiniteSet(writes), NEW j
    PROVE  IsFiniteSet(LogsOf(j)) /\ Cardinality(LogsOf(j)) \in Nat
<1>1. LogsOf(j) \subseteq writes BY DEF LogsOf
<1> QED BY <1>1, FS_Subset, FS_CardinalityType

LEMMA ThreadTypes ==
    /\ \A l \in {"idle", "over", "add", "forget"} : At(l) \in ThreadRow
    /\ \A x \in Threads : Ended(x) \in ThreadRow /\ Ended(x).pc \notin Calling
  BY DEF At, Ended, ThreadRow, Calling

LEMMA InitDeliveryInv == ASSUME Init PROVE DeliveryInv
<1>1. TypeOK BY ThreadTypes DEF Init, TypeOK, EventRow, JobRow, Status
<1>2. Served BY DEF Init, Served, At, Calling
<1>3. Truthful BY DEF Init, Truthful, DeliveredIsTrue
<1>4. Accounted BY DeliveryAssumption DEF Init, Accounted, DeliveryAssumption
<1>5. Logged
  <2>1. writes = {} BY DEF Init
  <2>2. \A j \in Jobs : LogsOf(j) = {} BY <2>1 DEF LogsOf
  <2>3. IsFiniteSet(writes) /\ Cardinality({}) = 0 BY <2>1, FS_EmptySet
  <2>4. \A j \in Jobs : jobs[j].state = "free" /\ logs[j] = 0 /\ posts[j] = 0
    BY DEF Init
  <2> QED BY <2>2, <2>3, <2>4 DEF Logged
<1> QED BY <1>1, <1>2, <1>3, <1>4, <1>5 DEF DeliveryInv

-----------------------------------------------------------------------------
\* Steps of the server that add no job: they may change rows, never to
\* 'delivered', and the calls in progress.
Harmless ==
    /\ row' \in [Events -> EventRow]
    /\ \A e \in Events : row'[e].status = "delivered" => row[e].status = "delivered"
    /\ thread' \in [Threads -> ThreadRow]
    /\ \A x \in Threads : thread'[x].pc \in Calling => thread'[x].event \in Events
    /\ asked' \in [Events -> Nat]
    /\ jobs' = jobs /\ writes' = writes /\ logs' = logs /\ posts' = posts
    /\ accepted' = accepted
    /\ crashes' \in Nat /\ crashes' >= crashes

LEMMA HarmlessKeeps == ASSUME DeliveryInv, Harmless PROVE DeliveryInv'
<1> USE DEF DeliveryInv, Harmless
<1>1. TypeOK' BY DEF TypeOK
<1>2. Served' BY DEF Served
<1>3. Truthful' BY DEF Truthful, DeliveredIsTrue
<1>4. Accounted'
  <2>1. \A j \in Jobs : jobs[j].made \in Nat /\ posts[j] \in Nat BY DEF TypeOK, JobRow
  <2>2. crashes \in Nat BY DEF TypeOK
  <2> QED BY <2>1, <2>2 DEF Accounted
<1>5. Logged' BY DEF Logged, LogsOf
<1> QED BY <1>1, <1>2, <1>3, <1>4, <1>5

\* Where a call goes after an event.
LEMMA ProceedTypes ==
    ASSUME DeliveryInv, NEW x \in Threads, NEW S \in SUBSET Events, Proceed(x, S)
    PROVE  /\ thread' \in [Threads -> ThreadRow]
           /\ \A y \in Threads : thread'[y].pc \in Calling => thread'[y].event \in Events
<1>1. thread \in [Threads -> ThreadRow] BY DEF DeliveryInv, TypeOK
<1>2. \A y \in Threads : thread[y].pc \in Calling => thread[y].event \in Events
  BY DEF DeliveryInv, Served
<1>3. CASE thread' = [thread EXCEPT ![x] = Ended(x)]
  BY <1>1, <1>2, <1>3, ThreadTypes
<1>4. ASSUME NEW e \in S,
             thread' = [thread EXCEPT ![x] =
               [pc |-> "add", event |-> e, job |-> None, todo |-> S \ {e}]]
      PROVE  /\ thread' \in [Threads -> ThreadRow]
             /\ \A y \in Threads : thread'[y].pc \in Calling => thread'[y].event \in Events
  <2>1. [pc |-> "add", event |-> e, job |-> None, todo |-> S \ {e}] \in ThreadRow
    BY DEF ThreadRow
  <2> QED BY <2>1, <1>1, <1>2, <1>4
<1> QED BY <1>3, <1>4 DEF Proceed

LEMMA DispatchKeeps ==
    ASSUME DeliveryInv, NEW e \in Events, Dispatch(e) \/ Elapse(e)
    PROVE  DeliveryInv'
<1>1. /\ row \in [Events -> EventRow] /\ thread \in [Threads -> ThreadRow]
      /\ asked \in [Events -> Nat] /\ crashes \in Nat /\ e \in Threads
  BY DEF DeliveryInv, TypeOK, Threads
<1>2. \A y \in Threads : thread[y].pc \in Calling => thread[y].event \in Events
  BY DEF DeliveryInv, Served
<1>3. CASE Dispatch(e)
  <2>1. PICK l \in {"add", "forget"} : thread' = [thread EXCEPT ![e] = [At(l) EXCEPT !.event = e]]
    BY <1>3 DEF Dispatch
  <2>2. [At(l) EXCEPT !.event = e] \in ThreadRow /\ [At(l) EXCEPT !.event = e].event = e
    BY DEF At, ThreadRow
  <2>3. /\ thread' \in [Threads -> ThreadRow]
        /\ \A y \in Threads : thread'[y].pc \in Calling => thread'[y].event \in Events
    BY <2>1, <2>2, <1>1, <1>2
  <2>4. /\ row' = [row EXCEPT ![e].status = "pending"] /\ asked' = [asked EXCEPT ![e] = @ + 1]
        /\ jobs' = jobs /\ writes' = writes /\ logs' = logs /\ posts' = posts
        /\ accepted' = accepted /\ crashes' = crashes
    BY <1>3 DEF Dispatch, worker
  <2>5. Harmless BY <2>3, <2>4, <1>1 DEF Harmless, EventRow, Status
  <2> QED BY <2>5, HarmlessKeeps
<1>4. CASE Elapse(e)
  <2>1. /\ row' = [row EXCEPT ![e].due = TRUE] /\ asked' = asked /\ thread' = thread
        /\ jobs' = jobs /\ writes' = writes /\ logs' = logs /\ posts' = posts
        /\ accepted' = accepted /\ crashes' = crashes
    BY <1>4 DEF Elapse, worker
  <2>2. row' \in [Events -> EventRow] BY <2>1, <1>1 DEF EventRow
  <2>3. \A d \in Events : row'[d].status = row[d].status BY <2>1, <1>1 DEF EventRow
  <2>4. Harmless BY <2>1, <2>2, <2>3, <1>1, <1>2 DEF Harmless
  <2> QED BY <2>4, HarmlessKeeps
<1> QED BY <1>3, <1>4

LEMMA AskKeeps ==
    ASSUME DeliveryInv, NEW x \in Threads, NEW e \in Events, Retry(x, e) \/ Sweep(x)
    PROVE  DeliveryInv'
<1>1. /\ row \in [Events -> EventRow] /\ thread \in [Threads -> ThreadRow]
      /\ asked \in [Events -> Nat] /\ crashes \in Nat
  BY DEF DeliveryInv, TypeOK
<1>2. \A y \in Threads : thread[y].pc \in Calling => thread[y].event \in Events
  BY DEF DeliveryInv, Served
<1>3. CASE Retry(x, e)
  <2>1. /\ thread' = [thread EXCEPT ![x] = [At("add") EXCEPT !.event = e]]
        /\ row' = row /\ asked' = [asked EXCEPT ![e] = @ + 1]
        /\ jobs' = jobs /\ writes' = writes /\ logs' = logs /\ posts' = posts
        /\ accepted' = accepted /\ crashes' = crashes
    BY <1>3 DEF Retry, worker
  <2>2. [At("add") EXCEPT !.event = e] \in ThreadRow /\ [At("add") EXCEPT !.event = e].event = e
    BY DEF At, ThreadRow
  <2>3. Harmless BY <2>1, <2>2, <1>1, <1>2 DEF Harmless
  <2> QED BY <2>3, HarmlessKeeps
<1>4. CASE Sweep(x)
  <2>1. /\ Proceed(x, FirstOf(Swept)) /\ row' = row /\ asked' = asked
        /\ jobs' = jobs /\ writes' = writes /\ logs' = logs /\ posts' = posts
        /\ accepted' = accepted /\ crashes' = crashes
    BY <1>4 DEF Sweep, worker
  <2>2. FirstOf(Swept) \in SUBSET Events BY DEF FirstOf, Swept
  <2>3. Harmless BY <2>1, <2>2, <1>1, ProceedTypes DEF Harmless
  <2> QED BY <2>3, HarmlessKeeps
<1> QED BY <1>3, <1>4

LEMMA MarkKeeps ==
    ASSUME DeliveryInv, NEW x \in Threads,
           AddFails(x) \/ Mark(x) \/ Unavailable(x) \/ UnavailableFails(x)
    PROVE  DeliveryInv'
<1>1. /\ row \in [Events -> EventRow] /\ thread \in [Threads -> ThreadRow]
      /\ asked \in [Events -> Nat] /\ crashes \in Nat
  BY DEF DeliveryInv, TypeOK
<1>2. \A y \in Threads : thread[y].pc \in Calling => thread[y].event \in Events
  BY DEF DeliveryInv, Served
<1>3. /\ asked' = asked
      /\ jobs' = jobs /\ writes' = writes /\ logs' = logs /\ posts' = posts
      /\ accepted' = accepted /\ crashes' = crashes
  BY DEF AddFails, Mark, Unavailable, UnavailableFails, worker
<1>4. thread[x].pc \in Calling
  BY DEF AddFails, Mark, Unavailable, UnavailableFails, Calling
<1>5. PICK e \in Events : e = thread[x].event BY <1>2, <1>4
<1>6. thread[x].todo \in SUBSET Events BY <1>1 DEF ThreadRow
<1>7. /\ row' \in [Events -> EventRow]
      /\ \A d \in Events : row'[d].status = "delivered" => row[d].status = "delivered"
  <2>1. \/ row' = row
        \/ \E l \in {"pending", "retrying"}, u \in BOOLEAN :
             row' = [row EXCEPT ![e] = [status |-> l, unavailable |-> u, due |-> FALSE]]
    BY <1>5 DEF AddFails, Mark, Unavailable, UnavailableFails
  <2>2. \A l \in {"pending", "retrying"}, u \in BOOLEAN :
          [status |-> l, unavailable |-> u, due |-> FALSE] \in EventRow
    BY DEF EventRow, Status
  <2> QED BY <2>1, <2>2, <1>1
<1>8. /\ thread' \in [Threads -> ThreadRow]
      /\ \A y \in Threads : thread'[y].pc \in Calling => thread'[y].event \in Events
  <2>1. CASE AddFails(x)
    BY <2>1, <1>1, <1>2, <1>4 DEF AddFails, ThreadRow
  <2>2. CASE Mark(x) \/ Unavailable(x)
    BY <2>2, <1>6, ProceedTypes DEF Mark, Unavailable, Return
  <2>3. CASE UnavailableFails(x)
    BY <2>3, <1>1, <1>2, ThreadTypes DEF UnavailableFails
  <2> QED BY <2>1, <2>2, <2>3
<1>9. Harmless BY <1>1, <1>3, <1>7, <1>8 DEF Harmless
<1> QED BY <1>9, HarmlessKeeps

LEMMA ServerCrashKeeps == ASSUME DeliveryInv, ServerCrash PROVE DeliveryInv'
<1>1. /\ thread \in [Threads -> ThreadRow] /\ crashes \in Nat
      /\ row \in [Events -> EventRow] /\ asked \in [Events -> Nat]
  BY DEF DeliveryInv, TypeOK
<1>2. /\ thread' = [x \in Threads |-> IF thread[x].pc \in {"idle", "over"} THEN thread[x]
                                      ELSE Ended(x)]
      /\ row' = row /\ asked' = asked /\ crashes' = crashes + 1
      /\ jobs' = jobs /\ writes' = writes /\ logs' = logs /\ posts' = posts
      /\ accepted' = accepted
  BY DEF ServerCrash
<1>3. \A x \in Threads : thread'[x] \in ThreadRow /\ thread'[x].pc \notin Calling
  BY <1>1, <1>2, ThreadTypes DEF Calling
<1>4. Harmless BY <1>1, <1>2, <1>3 DEF Harmless
<1> QED BY <1>4, HarmlessKeeps

-----------------------------------------------------------------------------
\* Add and Forget may take a free job for the event at hand.
LEMMA AddKeeps ==
    ASSUME DeliveryInv, NEW x \in Threads, Add(x) \/ Forget(x)
    PROVE  DeliveryInv'
<1>1. /\ thread \in [Threads -> ThreadRow] /\ jobs \in [Jobs -> JobRow]
      /\ posts \in [Jobs -> Nat] /\ crashes \in Nat
  BY DEF DeliveryInv, TypeOK
<1>2. /\ row' = row /\ asked' = asked /\ writes' = writes /\ logs' = logs
      /\ posts' = posts /\ accepted' = accepted /\ crashes' = crashes
  BY DEF Add, Forget, worker
<1>3. PICK e \in Events : e = thread[x].event
  BY DEF DeliveryInv, Served, Calling, Add, Forget
<1>4. /\ thread' \in [Threads -> ThreadRow]
      /\ \A y \in Threads : thread'[y].pc \in Calling => thread'[y].event \in Events
  <2>1. \A y \in Threads : thread[y].pc \in Calling => thread[y].event \in Events
    BY DEF DeliveryInv, Served
  <2>2. CASE Add(x)
    <3>1. PICK j \in Jobs : thread' = [thread EXCEPT ![x].pc = "mark", ![x].job = j]
      BY <2>2 DEF Add
    <3>2. thread[x] \in ThreadRow BY <1>1
    <3> QED BY <3>1, <3>2, <2>1, <1>1, <1>3 DEF ThreadRow
  <2>3. CASE Forget(x)
    <3>1. thread' = [thread EXCEPT ![x] = At("over")] BY <2>3 DEF Forget
    <3>2. At("over") \in ThreadRow /\ At("over").pc \notin Calling
      BY DEF At, ThreadRow, Calling
    <3> QED BY <3>1, <3>2, <2>1, <1>1
  <2> QED BY <2>2, <2>3
<1>5. CASE jobs' = jobs
  <2>1. Harmless BY <1>2, <1>4, <1>5 DEF DeliveryInv, TypeOK, Harmless
  <2> QED BY <2>1, HarmlessKeeps
<1>6. ASSUME NEW k \in Jobs, jobs[k].state = "free",
             jobs' = [jobs EXCEPT ![k] =
               [state |-> "ready", event |-> e, made |-> 0, ok |-> FALSE]]
      PROVE  DeliveryInv'
  <2>1. \A j \in Jobs : j # k => jobs'[j] = jobs[j] BY <1>1, <1>6
  <2>2. /\ jobs'[k].state = "ready" /\ jobs'[k].event = e
        /\ jobs'[k].made = 0 /\ jobs'[k].ok = FALSE
    BY <1>1, <1>6
  <2>3. jobs' \in [Jobs -> JobRow]
    <3>1. [state |-> "ready", event |-> e, made |-> 0, ok |-> FALSE] \in JobRow
      BY DEF JobRow
    <3> QED BY <3>1, <1>1, <1>6
  <2>4. TypeOK' BY <1>2, <1>4, <2>3 DEF DeliveryInv, TypeOK
  <2>5. \A w \in writes : w.job \in Jobs /\ w.job # k
    BY <1>6 DEF DeliveryInv, Served, TypeOK, WriteRow
  <2>6. Served' BY <1>2, <1>4, <2>1, <2>2, <2>5 DEF DeliveryInv, Served
  <2>7. Truthful' BY <1>2, <2>1, <2>2, <2>5 DEF DeliveryInv, Truthful, DeliveredIsTrue
  <2>8. Accounted'
    <3>1. jobs[k].made = 0 /\ 1 <= Attempts /\ posts[k] <= crashes
      BY <1>1, <1>6 DEF DeliveryInv, Accounted, JobRow
    <3> QED BY <1>1, <1>2, <1>6, <2>1, <2>2, <3>1, DeliveryAssumption
            DEF DeliveryInv, Accounted, DeliveryAssumption
  <2>9. Logged' BY <1>2, <1>6, <2>1, <2>2 DEF DeliveryInv, Logged, LogsOf
  <2> QED BY <2>4, <2>6, <2>7, <2>8, <2>9 DEF DeliveryInv
<1>7. \/ jobs' = jobs
      \/ \E k \in Jobs : /\ jobs[k].state = "free"
                        /\ jobs' = [jobs EXCEPT ![k] =
                             [state |-> "ready", event |-> e, made |-> 0, ok |-> FALSE]]
  BY <1>3 DEF Add, Forget, Added
<1> QED BY <1>5, <1>6, <1>7

-----------------------------------------------------------------------------
\* What a step of the worker on job k shares with all others.
LEMMA PickUpKeeps ==
    ASSUME DeliveryInv, NEW k \in Jobs, PickUp(k)
    PROVE  DeliveryInv'
<1>1. /\ jobs \in [Jobs -> JobRow] /\ posts \in [Jobs -> Nat] /\ crashes \in Nat
  BY DEF DeliveryInv, TypeOK
<1>2. /\ jobs[k].state = "ready" /\ jobs' = [jobs EXCEPT ![k].state = "posting"]
      /\ row' = row /\ thread' = thread /\ asked' = asked /\ writes' = writes
      /\ logs' = logs /\ posts' = posts /\ accepted' = accepted /\ crashes' = crashes
  BY DEF PickUp, server, worker
<1>3. /\ \A j \in Jobs : j # k => jobs'[j] = jobs[j]
      /\ jobs'[k].state = "posting" /\ jobs'[k].event = jobs[k].event
      /\ jobs'[k].made = jobs[k].made /\ jobs'[k].ok = jobs[k].ok
  BY <1>1, <1>2 DEF JobRow
<1>4. TypeOK' BY <1>1, <1>2 DEF DeliveryInv, TypeOK, JobRow
<1>5. \A w \in writes : w.job \in Jobs BY DEF DeliveryInv, TypeOK, WriteRow
<1>6. Served' BY <1>2, <1>3, <1>5 DEF DeliveryInv, Served
<1>7. Truthful' BY <1>2, <1>3, <1>5 DEF DeliveryInv, Truthful, DeliveredIsTrue
<1>8. Accounted' BY <1>1, <1>2, <1>3 DEF DeliveryInv, Accounted
<1>9. Logged' BY <1>2, <1>3 DEF DeliveryInv, Logged, LogsOf
<1> QED BY <1>4, <1>6, <1>7, <1>8, <1>9 DEF DeliveryInv

LEMMA PostKeeps ==
    ASSUME DeliveryInv, NEW k \in Jobs, Post(k)
    PROVE  DeliveryInv'
<1>1. /\ jobs \in [Jobs -> JobRow] /\ posts \in [Jobs -> Nat] /\ crashes \in Nat
      /\ logs \in [Jobs -> Nat] /\ accepted \in [Events -> Nat]
  BY DEF DeliveryInv, TypeOK
<1>2. /\ jobs[k].state = "posting" /\ posts' = [posts EXCEPT ![k] = @ + 1]
      /\ row' = row /\ thread' = thread /\ asked' = asked /\ writes' = writes
      /\ logs' = logs /\ crashes' = crashes
  BY DEF Post, server
<1>3. PICK e \in Events : e = jobs[k].event
  BY <1>2 DEF DeliveryInv, Served
<1>4. PICK took \in BOOLEAN, ok \in BOOLEAN :
         /\ ok => took
         /\ accepted' = IF took THEN [accepted EXCEPT ![e] = @ + 1] ELSE accepted
         /\ jobs' = [jobs EXCEPT ![k].state = "answered", ![k].ok = ok]
  BY <1>3 DEF Post
<1>5. jobs[k] \in JobRow BY <1>1
<1>6. /\ \A j \in Jobs : j # k => jobs'[j] = jobs[j]
      /\ jobs'[k].state = "answered" /\ jobs'[k].event = e
      /\ jobs'[k].made = jobs[k].made /\ jobs'[k].ok = ok
  BY <1>1, <1>3, <1>4, <1>5 DEF JobRow
<1>7. jobs' \in [Jobs -> JobRow]
  BY <1>1, <1>4, <1>5 DEF JobRow
<1>8. /\ accepted' \in [Events -> Nat]
      /\ \A d \in Events : accepted[d] > 0 => accepted'[d] > 0
      /\ ok => accepted'[e] > 0
  BY <1>1, <1>4
<1>9. TypeOK'
  <2>1. posts' \in [Jobs -> Nat] BY <1>1, <1>2
  <2>2. /\ row \in [Events -> EventRow] /\ thread \in [Threads -> ThreadRow]
        /\ writes \subseteq WriteRow /\ asked \in [Events -> Nat]
    BY DEF DeliveryInv, TypeOK
  <2> QED BY <2>1, <2>2, <1>1, <1>2, <1>7, <1>8 DEF TypeOK
<1>10. \A w \in writes : /\ w.job \in Jobs /\ jobs[w.job].event \in Events
                         /\ jobs'[w.job].event = jobs[w.job].event
  BY <1>3, <1>6 DEF DeliveryInv, TypeOK, WriteRow, Served
<1>11. Served' BY <1>2, <1>6, <1>10 DEF DeliveryInv, Served
<1>12. Truthful'
  <2>1. \A j \in Jobs : jobs[j].state # "free" => jobs[j].event \in Events
    BY DEF DeliveryInv, Served
  <2> QED BY <2>1, <1>2, <1>6, <1>8, <1>10 DEF DeliveryInv, Truthful, DeliveredIsTrue
<1>13. Accounted' BY <1>1, <1>2, <1>6, <1>5 DEF DeliveryInv, Accounted, JobRow
<1>14. Logged'
  <2>1. \A j \in Jobs : LogsOf(j)' = LogsOf(j) BY <1>2 DEF LogsOf
  <2>2. \A j \in Jobs : Cardinality(LogsOf(j)) \in Nat
    BY LogsOfType DEF DeliveryInv, Logged
  <2>3. /\ posts'[k] = posts[k] + 1 /\ \A j \in Jobs : j # k => posts'[j] = posts[j]
    BY <1>1, <1>2
  <2>4. logs[k] + Cardinality(LogsOf(k)) <= posts[k]
    BY <2>2, <1>1, <1>2 DEF DeliveryInv, Logged
  <2>5. \A j \in Jobs : j # k => logs[j] + Cardinality(LogsOf(j)) +
              (IF jobs[j].state = "answered" THEN 1 ELSE 0) <= posts[j]
    BY DEF DeliveryInv, Logged
  <2>6. logs'[k] + Cardinality(LogsOf(k)') + 1 <= posts'[k]
    BY <2>1, <2>2, <2>3, <2>4, <1>1, <1>2
  <2>7. IsFiniteSet(writes') BY <1>2 DEF DeliveryInv, Logged
  <2> QED BY <2>1, <2>3, <2>5, <2>6, <2>7, <1>2, <1>6 DEF Logged
<1> QED BY <1>9, <1>11, <1>12, <1>13, <1>14 DEF DeliveryInv

LEMMA ReportKeeps ==
    ASSUME DeliveryInv, NEW k \in Jobs, Report(k)
    PROVE  DeliveryInv'
<1>1. /\ jobs \in [Jobs -> JobRow] /\ posts \in [Jobs -> Nat] /\ crashes \in Nat
      /\ logs \in [Jobs -> Nat]
  BY DEF DeliveryInv, TypeOK
<1> DEFINE v == Write(k, "log")
           u == Write(k, "row")
<1>2. /\ jobs[k].state = "answered" /\ jobs' = [jobs EXCEPT ![k].state = "settling"]
      /\ writes' = writes \cup {v, u}
      /\ row' = row /\ thread' = thread /\ asked' = asked /\ logs' = logs
      /\ posts' = posts /\ accepted' = accepted /\ crashes' = crashes
  BY DEF Report, Reported, server
<1>3. /\ \A j \in Jobs : j # k => jobs'[j] = jobs[j]
      /\ jobs'[k].state = "settling" /\ jobs'[k].event = jobs[k].event
      /\ jobs'[k].made = jobs[k].made /\ jobs'[k].ok = jobs[k].ok
  BY <1>1, <1>2 DEF JobRow
<1>4. /\ v \in WriteRow /\ u \in WriteRow /\ v.job = k /\ u.job = k
      /\ v.kind = "log" /\ u.kind = "row"
      /\ v.status = Outcome(k) /\ u.status = Outcome(k)
  <2>1. Outcome(k) \in Status BY DEF Outcome, Status
  <2> QED BY <2>1, <1>1 DEF Write, WriteRow
<1>5. TypeOK' BY <1>1, <1>2, <1>4 DEF DeliveryInv, TypeOK, JobRow
<1>6. \A w \in writes : w.job \in Jobs BY DEF DeliveryInv, TypeOK, WriteRow
<1>7. Served' BY <1>2, <1>3, <1>4, <1>6 DEF DeliveryInv, Served
<1>8. Outcome(k) = "delivered" => jobs[k].ok BY DEF Outcome
<1>9. Truthful'
  <2>1. Outcome(k) = "delivered" => accepted[jobs[k].event] > 0
    BY <1>2, <1>8 DEF DeliveryInv, Truthful
  <2> QED BY <2>1, <1>2, <1>3, <1>4, <1>6 DEF DeliveryInv, Truthful, DeliveredIsTrue
<1>10. Accounted' BY <1>1, <1>2, <1>3 DEF DeliveryInv, Accounted
<1>11. Logged'
  <2>1. IsFiniteSet(writes) BY DEF DeliveryInv, Logged
  <2>2. IsFiniteSet(writes')
    <3>1. writes' = (writes \cup {v}) \cup {u} BY <1>2
    <3> HIDE DEF v, u
    <3>2. IsFiniteSet(writes \cup {v}) BY <2>1, FS_AddElement
    <3> QED BY <3>1, <3>2, FS_AddElement
  <2>3. \A j \in Jobs : j # k => LogsOf(j)' = LogsOf(j) BY <1>2, <1>4 DEF LogsOf
  <2>4. LogsOf(k)' = LogsOf(k) \cup {v} BY <1>2, <1>4 DEF LogsOf
  <2>5. IsFiniteSet(LogsOf(k)) /\ Cardinality(LogsOf(k)) \in Nat BY <2>1, LogsOfType
  <2> HIDE DEF v, u
  <2>6. /\ Cardinality(LogsOf(k) \cup {v}) \in Nat
        /\ Cardinality(LogsOf(k) \cup {v}) <= Cardinality(LogsOf(k)) + 1
    BY <2>5, FS_AddElement
  <2>7. logs[k] + Cardinality(LogsOf(k)) + 1 <= posts[k]
    BY <1>2 DEF DeliveryInv, Logged
  <2>8. logs'[k] + Cardinality(LogsOf(k)') <= posts'[k]
    BY <1>1, <1>2, <2>4, <2>5, <2>6, <2>7
  <2>9. logs'[k] + Cardinality(LogsOf(k)') + 0 <= posts'[k]
    BY <1>1, <1>2, <2>4, <2>6, <2>8
  <2> QED BY <1>2, <1>3, <2>2, <2>3, <2>9 DEF DeliveryInv, Logged
<1> QED BY <1>5, <1>7, <1>9, <1>10, <1>11 DEF DeliveryInv

LEMMA SettleKeeps ==
    ASSUME DeliveryInv, NEW k \in Jobs, Settle(k)
    PROVE  DeliveryInv'
<1>1. /\ jobs \in [Jobs -> JobRow] /\ posts \in [Jobs -> Nat] /\ crashes \in Nat
      /\ jobs[k] \in JobRow
  BY DEF DeliveryInv, TypeOK
<1>2. /\ jobs[k].state = "settling" /\ jobs' = [jobs EXCEPT ![k] = Settled(k)]
      /\ row' = row /\ thread' = thread /\ asked' = asked /\ writes' = writes
      /\ logs' = logs /\ posts' = posts /\ accepted' = accepted /\ crashes' = crashes
  BY DEF Settle, server, worker
<1>3. /\ \A j \in Jobs : j # k => jobs'[j] = jobs[j]
      /\ jobs'[k] = Settled(k)
  BY <1>1, <1>2
<1>4. /\ Settled(k) \in JobRow /\ Settled(k).event = jobs[k].event
      /\ \/ Settled(k).state = "over" /\ Settled(k).made = jobs[k].made
         \/ /\ Settled(k).state = "ready" /\ Settled(k).made = jobs[k].made + 1
            /\ jobs[k].made + 1 < Attempts
  <2>1. CASE Spent(k) BY <2>1, <1>1 DEF Settled, JobRow
  <2>2. CASE ~Spent(k)
    <3>1. Settled(k) = [jobs[k] EXCEPT !.state = "ready", !.made = @ + 1]
      BY <2>2 DEF Settled
    <3>2. jobs[k].made + 1 < Attempts
      BY <2>2, <1>1, DeliveryAssumption DEF Spent, JobRow, DeliveryAssumption
    <3>3. PICK n \in Nat : n = jobs[k].made BY <1>1 DEF JobRow
    <3>4. Settled(k) = [jobs[k] EXCEPT !.state = "ready", !.made = n + 1]
      BY <3>1, <3>3
    <3>5. n + 1 \in Nat BY <3>3
    <3>6. Settled(k) \in JobRow /\ Settled(k).event = jobs[k].event
      BY <3>4, <3>5, <1>1 DEF JobRow
    <3>7. Settled(k).state = "ready" /\ Settled(k).made = n + 1
      BY <3>4, <1>1 DEF JobRow
    <3> QED BY <3>2, <3>3, <3>6, <3>7
  <2> QED BY <2>1, <2>2
<1>5. TypeOK' BY <1>1, <1>2, <1>4 DEF DeliveryInv, TypeOK
<1>6. \A w \in writes : w.job \in Jobs BY DEF DeliveryInv, TypeOK, WriteRow
<1>7. Served' BY <1>2, <1>3, <1>4, <1>6 DEF DeliveryInv, Served
<1>8. Truthful' BY <1>2, <1>3, <1>4, <1>6 DEF DeliveryInv, Truthful, DeliveredIsTrue
<1>9. Accounted'
  <2>1. jobs[k].made \in Nat /\ posts[k] <= jobs[k].made + crashes + 1
    BY <1>1, <1>2 DEF DeliveryInv, Accounted, JobRow
  <2> QED BY <1>1, <1>2, <1>3, <1>4, <2>1, DeliveryAssumption
          DEF DeliveryInv, Accounted, DeliveryAssumption
<1>10. Logged' BY <1>2, <1>3, <1>4 DEF DeliveryInv, Logged, LogsOf
<1> QED BY <1>5, <1>7, <1>8, <1>9, <1>10 DEF DeliveryInv

-----------------------------------------------------------------------------
LEMMA LandKeeps ==
    ASSUME DeliveryInv, NEW w \in writes, Land(w)
    PROVE  DeliveryInv'
<1>1. /\ row \in [Events -> EventRow] /\ logs \in [Jobs -> Nat]
      /\ posts \in [Jobs -> Nat] /\ writes \subseteq WriteRow
  BY DEF DeliveryInv, TypeOK
<1>2. /\ writes' = writes \ {w}
      /\ thread' = thread /\ asked' = asked /\ jobs' = jobs
      /\ posts' = posts /\ accepted' = accepted /\ crashes' = crashes
  BY DEF Land, server
<1>3. PICK k \in Jobs : k = w.job BY <1>1 DEF WriteRow
<1>4. PICK e \in Events : e = jobs[k].event BY <1>3 DEF DeliveryInv, Served
<1>5. w.status \in Status BY <1>1 DEF WriteRow
<1>6. \/ w.kind = "log" /\ logs' = [logs EXCEPT ![k] = @ + 1] /\ row' = row
      \/ /\ w.kind = "row" /\ logs' = logs
         /\ row' = [row EXCEPT ![e] = [status |-> w.status, unavailable |-> FALSE, due |-> FALSE]]
  BY <1>3, <1>4 DEF Land
<1>7. row' \in [Events -> EventRow] /\ logs' \in [Jobs -> Nat]
  <2>1. [status |-> w.status, unavailable |-> FALSE, due |-> FALSE] \in EventRow
    BY <1>5 DEF EventRow
  <2>2. CASE w.kind = "log" /\ logs' = [logs EXCEPT ![k] = @ + 1] /\ row' = row
    BY <2>2, <1>1
  <2>3. CASE logs' = logs /\ row' = [row EXCEPT ![e] =
               [status |-> w.status, unavailable |-> FALSE, due |-> FALSE]]
    BY <2>1, <2>3, <1>1
  <2> QED BY <2>2, <2>3, <1>6
<1>8. TypeOK' BY <1>2, <1>7 DEF DeliveryInv, TypeOK
<1>9. Served' BY <1>2 DEF DeliveryInv, Served
<1>10. Truthful'
  <2>1. w.status = "delivered" => accepted[e] > 0
    BY <1>3, <1>4 DEF DeliveryInv, Truthful
  <2>2. \A d \in Events : row'[d].status = "delivered" =>
           row[d].status = "delivered" \/ (d = e /\ w.status = "delivered")
    BY <1>1, <1>6
  <2> QED BY <2>1, <2>2, <1>2 DEF DeliveryInv, Truthful, DeliveredIsTrue
<1>11. Accounted' BY <1>2 DEF DeliveryInv, Accounted
<1>12. Logged'
  <2>1. IsFiniteSet(writes) BY DEF DeliveryInv, Logged
  <2>2. IsFiniteSet(writes') BY <2>1, <1>2, FS_RemoveElement
  <2>3. \A j \in Jobs : /\ IsFiniteSet(LogsOf(j)) /\ Cardinality(LogsOf(j)) \in Nat
    BY <2>1, LogsOfType
  <2>4. CASE w.kind = "log"
    <3>1. \A j \in Jobs : j # k => LogsOf(j)' = LogsOf(j) BY <1>2, <1>3 DEF LogsOf
    <3>2. LogsOf(k)' = LogsOf(k) \ {w} /\ w \in LogsOf(k)
      BY <2>4, <1>2, <1>3 DEF LogsOf
    <3>3. Cardinality(LogsOf(k) \ {w}) = Cardinality(LogsOf(k)) - 1
      BY <2>3, <3>2, FS_RemoveElement
    <3>4. /\ logs'[k] = logs[k] + 1 /\ \A j \in Jobs : j # k => logs'[j] = logs[j]
      BY <2>4, <1>1, <1>6
    <3>5. logs'[k] + Cardinality(LogsOf(k)') = logs[k] + Cardinality(LogsOf(k))
      BY <3>2, <3>3, <3>4, <2>3, <1>1
    <3> QED BY <3>1, <3>4, <3>5, <2>2, <1>2 DEF DeliveryInv, Logged
  <2>5. CASE w.kind # "log"
    <3>1. \A j \in Jobs : LogsOf(j)' = LogsOf(j) BY <2>5, <1>2 DEF LogsOf
    <3>2. logs' = logs BY <2>5, <1>6
    <3> QED BY <3>1, <3>2, <2>2, <1>2 DEF DeliveryInv, Logged
  <2> QED BY <2>4, <2>5
<1> QED BY <1>8, <1>9, <1>10, <1>11, <1>12 DEF DeliveryInv

LEMMA DiesKeeps ==
    ASSUME DeliveryInv, NEW S \in SUBSET writes, Dies(S)
    PROVE  DeliveryInv'
<1>1. /\ jobs \in [Jobs -> JobRow] /\ posts \in [Jobs -> Nat] /\ crashes \in Nat
      /\ logs \in [Jobs -> Nat]
  BY DEF DeliveryInv, TypeOK
<1>2. /\ crashes' = crashes + 1 /\ writes' \subseteq writes
      /\ jobs' = [j \in Jobs |->
           IF jobs[j].state \in {"posting", "answered", "settling"}
           THEN [jobs[j] EXCEPT !.state = "ready"] ELSE jobs[j]]
      /\ row' = row /\ thread' = thread /\ asked' = asked /\ logs' = logs
      /\ posts' = posts /\ accepted' = accepted
  BY DEF Dies, server
<1>3. \A j \in Jobs :
        /\ jobs'[j] \in JobRow
        /\ jobs'[j].event = jobs[j].event /\ jobs'[j].made = jobs[j].made
        /\ \/ jobs[j].state \in Running /\ jobs'[j].state = "ready"
           \/ jobs[j].state \notin Running /\ jobs'[j] = jobs[j]
  <2> TAKE j \in Jobs
  <2>1. jobs[j] \in JobRow BY <1>1
  <2>2. CASE jobs[j].state \in Running
    <3>1. jobs'[j] = [jobs[j] EXCEPT !.state = "ready"] BY <2>2, <1>2 DEF Running
    <3> QED BY <3>1, <2>1, <2>2 DEF JobRow
  <2>3. CASE jobs[j].state \notin Running BY <2>1, <2>3, <1>2 DEF Running
  <2> QED BY <2>2, <2>3
<1>4. TypeOK' BY <1>1, <1>2, <1>3 DEF DeliveryInv, TypeOK
<1>5. \A w \in writes : w.job \in Jobs BY DEF DeliveryInv, TypeOK, WriteRow
<1>6. Served' BY <1>2, <1>3, <1>5 DEF DeliveryInv, Served, Running
<1>7. Truthful' BY <1>2, <1>3, <1>5 DEF DeliveryInv, Truthful, DeliveredIsTrue, Running
<1>8. Accounted'
  <2> SUFFICES ASSUME NEW j \in Jobs
               PROVE  /\ jobs'[j].made + 1 <= Attempts
                      /\ jobs'[j].state = "free" => jobs'[j].made = 0
                      /\ posts'[j] <= jobs'[j].made + crashes' +
                           (IF jobs'[j].state \in {"answered", "settling", "over"} THEN 1 ELSE 0)
    BY DEF Accounted
  <2>1. PICK n \in Nat : n = jobs[j].made BY <1>1 DEF JobRow
  <2>2. PICK p \in Nat : p = posts[j] BY <1>1
  <2>3. /\ n + 1 <= Attempts
        /\ jobs[j].state = "free" => n = 0
        /\ p <= n + crashes + (IF jobs[j].state \in {"answered", "settling", "over"}
                               THEN 1 ELSE 0)
    BY <2>1, <2>2 DEF DeliveryInv, Accounted
  <2>4. /\ jobs'[j].made = n /\ posts'[j] = p /\ crashes' = crashes + 1
        /\ jobs'[j].state = "free" => jobs[j].state = "free"
    BY <2>1, <2>2, <1>2, <1>3
  <2>5. p <= n + crashes + 1 BY <2>3, <1>1
  <2>6. p <= n + (crashes + 1) BY <2>5, <1>1
  <2>7. p <= n + (crashes + 1) +
             (IF jobs'[j].state \in {"answered", "settling", "over"} THEN 1 ELSE 0)
    BY <2>6, <1>1
  <2>8. /\ jobs'[j].made + 1 <= Attempts
        /\ jobs'[j].state = "free" => jobs'[j].made = 0
    BY <2>3, <2>4
  <2>9. posts'[j] <= jobs'[j].made + crashes' +
          (IF jobs'[j].state \in {"answered", "settling", "over"} THEN 1 ELSE 0)
    <3>1. CASE jobs'[j].state \in {"answered", "settling", "over"}
      BY <3>1, <2>4, <2>7
    <3>2. CASE jobs'[j].state \notin {"answered", "settling", "over"}
      BY <3>2, <2>4, <2>7
    <3> QED BY <3>1, <3>2
  <2> QED BY <2>8, <2>9
<1>9. Logged'
  <2>1. IsFiniteSet(writes) BY DEF DeliveryInv, Logged
  <2>2. IsFiniteSet(writes') BY <2>1, <1>2, FS_Subset
  <2> SUFFICES ASSUME NEW j \in Jobs
               PROVE  logs'[j] + Cardinality(LogsOf(j)') +
                        (IF jobs'[j].state = "answered" THEN 1 ELSE 0) <= posts'[j]
    BY <2>2 DEF Logged
  <2>3. LogsOf(j)' \subseteq LogsOf(j) BY <1>2 DEF LogsOf
  <2>4. IsFiniteSet(LogsOf(j)) /\ Cardinality(LogsOf(j)) \in Nat BY <2>1, LogsOfType
  <2>5. /\ Cardinality(LogsOf(j)') \in Nat
        /\ Cardinality(LogsOf(j)') <= Cardinality(LogsOf(j))
    BY <2>3, <2>4, FS_Subset, FS_CardinalityType
  <2>6. jobs'[j].state # "answered" BY <1>3 DEF Running
  <2>7. logs[j] + Cardinality(LogsOf(j)) + (IF jobs[j].state = "answered" THEN 1 ELSE 0) <= posts[j]
    BY DEF DeliveryInv, Logged
  <2>8. logs[j] + Cardinality(LogsOf(j)) <= posts[j]
    BY <2>4, <2>7, <1>1
  <2> QED BY <2>4, <2>5, <2>6, <2>8, <1>1, <1>2
<1> QED BY <1>4, <1>6, <1>7, <1>8, <1>9 DEF DeliveryInv

-----------------------------------------------------------------------------
LEMMA NextKeeps == ASSUME DeliveryInv, [Next]_vars PROVE DeliveryInv'
<1>1. CASE UNCHANGED vars
  <2>1. /\ row' = row /\ thread' = thread /\ jobs' = jobs /\ writes' = writes
        /\ logs' = logs /\ posts' = posts /\ accepted' = accepted /\ asked' = asked
        /\ crashes' = crashes
    BY <1>1 DEF vars
  <2>2. Harmless BY <2>1 DEF DeliveryInv, TypeOK, Served, Harmless
  <2> QED BY <2>2, HarmlessKeeps
<1>2. ASSUME NEW e \in Events, Dispatch(e) \/ Elapse(e) PROVE DeliveryInv'
  BY <1>2, DispatchKeeps
<1>3. ASSUME NEW x \in Threads, NEW e \in Events, Retry(x, e) PROVE DeliveryInv'
  BY <1>3, AskKeeps
<1>4. ASSUME NEW x \in Threads, Sweep(x) PROVE DeliveryInv'
  <2>1. PICK e : e \in Events BY <1>4 DEF Sweep, Swept
  <2> QED BY <2>1, <1>4, AskKeeps
<1>5. ASSUME NEW x \in Threads, Server(x) PROVE DeliveryInv'
  BY <1>5, AddKeeps, MarkKeeps DEF Server
<1>6. ASSUME NEW j \in Jobs, Worker(j) PROVE DeliveryInv'
  BY <1>6, PickUpKeeps, PostKeeps, ReportKeeps, SettleKeeps DEF Worker
<1>7. ASSUME NEW w \in writes, Land(w) PROVE DeliveryInv'
  BY <1>7, LandKeeps
<1>8. ASSUME WorkerCrash \/ Rejected PROVE DeliveryInv'
  <2>1. PICK S \in SUBSET writes : Dies(S) BY <1>8 DEF WorkerCrash, Rejected
  <2> QED BY <2>1, DiesKeeps
<1> QED
  BY <1>1, <1>2, <1>3, <1>4, <1>5, <1>6, <1>7, <1>8, ServerCrashKeeps DEF Next, Threads

LEMMA DeliveryInvariant == Spec => []DeliveryInv
<1>1. Init => DeliveryInv BY InitDeliveryInv
<1>2. DeliveryInv /\ [Next]_vars => DeliveryInv' BY NextKeeps
<1> QED BY <1>1, <1>2, PTL DEF Spec

\* No row of webhook_events says 'delivered' unless the receiver accepted the
\* event, whatever is retried, lost, repeated or interrupted.
THEOREM DeliveriesAreTrue == Spec => []DeliveredIsTrue
<1>1. DeliveryInv => DeliveredIsTrue BY DEF DeliveryInv, Truthful
<1> QED BY <1>1, DeliveryInvariant, PTL

\* A job POSTs its event at most Attempts times, and once more for each crash.
THEOREM BoundedPosts == Spec => []PostsBounded
<1>1. DeliveryInv => PostsBounded
  <2> SUFFICES ASSUME DeliveryInv, NEW j \in Jobs PROVE posts[j] <= Attempts + crashes
    BY DEF PostsBounded
  <2>1. jobs[j].made \in Nat /\ posts[j] \in Nat /\ crashes \in Nat
    BY DEF DeliveryInv, TypeOK, JobRow
  <2>2. posts[j] <= jobs[j].made + crashes + 1 BY <2>1 DEF DeliveryInv, Accounted
  <2>3. jobs[j].made + 1 <= Attempts BY DEF DeliveryInv, Accounted
  <2> QED BY <2>1, <2>2, <2>3, DeliveryAssumption DEF DeliveryAssumption
<1> QED BY <1>1, DeliveryInvariant, PTL

\* No attempt leaves two lines in webhook_delivery_logs.
THEOREM NoDoubleLog == Spec => []LoggedOnce
<1>1. DeliveryInv => LoggedOnce
  <2> SUFFICES ASSUME DeliveryInv, NEW j \in Jobs PROVE logs[j] <= posts[j]
    BY DEF LoggedOnce
  <2>1. logs[j] \in Nat /\ posts[j] \in Nat BY DEF DeliveryInv, TypeOK
  <2>2. Cardinality(LogsOf(j)) \in Nat BY LogsOfType DEF DeliveryInv, Logged
  <2> QED BY <2>1, <2>2 DEF DeliveryInv, Logged
<1> QED BY <1>1, DeliveryInvariant, PTL

-----------------------------------------------------------------------------
(***************************************************************************)
(* One job for each request.  Every time somebody asks for an event gives  *)
(* one claim, which is always in one place: with a call that is to add the *)
(* job, in a job, or in the row that says QUEUE_UNAVAILABLE, unless a      *)
(* sweep already has it on its list.                                       *)
(***************************************************************************)
\* One sweep at a time, no UPDATE rejects, nothing crashes.
Undisturbed == (\A s, t \in Sweeps : s = t) /\ Faults \subseteq {"redis", "lost"}

\* The calls that are yet to add a job for the event.
Adders(e) ==
    {x \in Threads :
        \/ thread[x].pc \in {"add", "unavailable", "forget"} /\ thread[x].event = e
        \/ thread[x].pc \in Calling /\ e \in thread[x].todo}

\* A sweep has read the row and not written it since.
Claimed(e) ==
    \E s \in Sweeps : /\ thread[s].pc \in Calling \ {"forget"}
                      /\ thread[s].event = e \/ e \in thread[s].todo

Owed(e) == IF row[e].unavailable /\ ~Claimed(e) THEN 1 ELSE 0

PaidFor(e) ==
    /\ IsFiniteSet(JobsOf(e)) /\ IsFiniteSet(Adders(e))
    /\ Cardinality(JobsOf(e)) + Cardinality(Adders(e)) + Owed(e) <= asked[e]

\* A list holds only what comes after the event at hand, and only sweeps have one.
Apart ==
    \A x \in Threads : thread[x].pc \in Calling => thread[x].event \notin thread[x].todo

ClaimsInv == Apart /\ \A e \in Events : PaidFor(e)

LEMMA OwedType == \A e \in Events : Owed(e) \in {0, 1}
  BY DEF Owed

\* What a step may do to the claims of one event.
LEMMA Balance ==
    ASSUME NEW e \in Events, PaidFor(e), asked[e] \in Nat, asked'[e] \in Nat,
           NEW dj \in {0, 1}, NEW da \in {-1, 0, 1},
           \/ dj = 0 /\ JobsOf(e)' \subseteq JobsOf(e)
           \/ dj = 1 /\ \E j : JobsOf(e)' \subseteq JobsOf(e) \cup {j},
           \/ da = 0 /\ Adders(e)' \subseteq Adders(e)
           \/ da = 1 /\ \E x \in Threads : Adders(e)' \subseteq Adders(e) \cup {x}
           \/ da = -1 /\ \E x \in Adders(e) : Adders(e)' \subseteq Adders(e) \ {x},
           dj + da + Owed(e)' - Owed(e) <= asked'[e] - asked[e]
    PROVE  PaidFor(e)'
<1> DEFINE J == Cardinality(JobsOf(e))
           A == Cardinality(Adders(e))
           J2 == Cardinality(JobsOf(e)')
           A2 == Cardinality(Adders(e)')
<1>1. /\ IsFiniteSet(JobsOf(e)) /\ IsFiniteSet(Adders(e))
      /\ J + A + Owed(e) <= asked[e]
  BY DEF PaidFor
<1>2. J \in Nat /\ A \in Nat BY <1>1, FS_CardinalityType
<1>3. IsFiniteSet(JobsOf(e)') /\ J2 \in Nat /\ J2 <= J + dj
  <2>1. CASE dj = 0 /\ JobsOf(e)' \subseteq JobsOf(e)
    <3>1. IsFiniteSet(JobsOf(e)') /\ J2 \in Nat /\ J2 <= J
      BY <1>1, <2>1, FS_Subset, FS_CardinalityType
    <3> QED BY <1>2, <2>1, <3>1
  <2>2. CASE dj = 1 /\ \E j : JobsOf(e)' \subseteq JobsOf(e) \cup {j}
    <3>1. PICK j : JobsOf(e)' \subseteq JobsOf(e) \cup {j} BY <2>2
    <3>2. /\ IsFiniteSet(JobsOf(e) \cup {j})
          /\ Cardinality(JobsOf(e) \cup {j}) \in Nat
          /\ Cardinality(JobsOf(e) \cup {j}) <= J + 1
      <4>1. /\ IsFiniteSet(JobsOf(e) \cup {j})
            /\ Cardinality(JobsOf(e) \cup {j}) = J \/ Cardinality(JobsOf(e) \cup {j}) = J + 1
        BY <1>1, FS_AddElement
      <4> QED BY <4>1, <1>2
    <3>3. /\ IsFiniteSet(JobsOf(e)') /\ J2 \in Nat
          /\ J2 <= Cardinality(JobsOf(e) \cup {j})
      BY <3>1, <3>2, FS_Subset, FS_CardinalityType
    <3> QED BY <1>2, <2>2, <3>2, <3>3
  <2> QED BY <2>1, <2>2
<1>4. IsFiniteSet(Adders(e)') /\ A2 \in Nat /\ A2 <= A + da
  <2>1. CASE da = 0 /\ Adders(e)' \subseteq Adders(e)
    <3>1. IsFiniteSet(Adders(e)') /\ A2 \in Nat /\ A2 <= A
      BY <1>1, <2>1, FS_Subset, FS_CardinalityType
    <3> QED BY <1>2, <2>1, <3>1
  <2>2. CASE da = 1 /\ \E x \in Threads : Adders(e)' \subseteq Adders(e) \cup {x}
    <3>1. PICK x \in Threads : Adders(e)' \subseteq Adders(e) \cup {x} BY <2>2
    <3>2. /\ IsFiniteSet(Adders(e) \cup {x})
          /\ Cardinality(Adders(e) \cup {x}) \in Nat
          /\ Cardinality(Adders(e) \cup {x}) <= A + 1
      <4>1. /\ IsFiniteSet(Adders(e) \cup {x})
            /\ Cardinality(Adders(e) \cup {x}) = A \/ Cardinality(Adders(e) \cup {x}) = A + 1
        BY <1>1, FS_AddElement
      <4> QED BY <4>1, <1>2
    <3>3. /\ IsFiniteSet(Adders(e)') /\ A2 \in Nat
          /\ A2 <= Cardinality(Adders(e) \cup {x})
      BY <3>1, <3>2, FS_Subset, FS_CardinalityType
    <3> QED BY <1>2, <2>2, <3>2, <3>3
  <2>3. CASE da = -1 /\ \E x \in Adders(e) : Adders(e)' \subseteq Adders(e) \ {x}
    <3>1. PICK x \in Adders(e) : Adders(e)' \subseteq Adders(e) \ {x} BY <2>3
    <3>2. IsFiniteSet(Adders(e) \ {x}) /\ Cardinality(Adders(e) \ {x}) = A - 1
      BY <1>1, FS_RemoveElement
    <3>3. /\ IsFiniteSet(Adders(e)') /\ A2 \in Nat
          /\ A2 <= Cardinality(Adders(e) \ {x})
      BY <3>1, <3>2, FS_Subset, FS_CardinalityType
    <3> QED BY <1>2, <2>3, <3>2, <3>3
  <2> QED BY <2>1, <2>2, <2>3
<1>5. Owed(e) \in {0, 1} /\ Owed(e)' \in {0, 1} BY DEF Owed
<1> HIDE DEF J, A, J2, A2
<1>6. J2 + A2 + Owed(e)' <= asked'[e]
  <2>1. J2 + A2 + Owed(e)' <= (J + dj) + (A + da) + Owed(e)' BY <1>2, <1>3, <1>4, <1>5
  <2> QED BY <2>1, <1>1, <1>2, <1>3, <1>4, <1>5
<1>7. Cardinality(JobsOf(e)') + Cardinality(Adders(e)') + Owed(e)' <= asked'[e]
  BY <1>6 DEF J2, A2
<1> QED BY <1>3, <1>4, <1>7 DEF PaidFor

LEMMA InitClaims == ASSUME Init PROVE ClaimsInv
<1>1. Apart BY DEF Init, Apart, At, Calling
<1>2. ASSUME NEW e \in Events PROVE PaidFor(e)
  <2>1. JobsOf(e) = {} BY DeliveryAssumption DEF Init, JobsOf, DeliveryAssumption
  <2>2. Adders(e) = {} BY DEF Init, Adders, At, Calling
  <2>3. Owed(e) = 0 /\ asked[e] = 0 BY DEF Init, Owed
  <2>4. IsFiniteSet({}) /\ Cardinality({}) = 0 BY FS_EmptySet
  <2> QED BY <2>1, <2>2, <2>3, <2>4 DEF PaidFor
<1> QED BY <1>1, <1>2 DEF ClaimsInv

-----------------------------------------------------------------------------
\* Steps of the worker, of a clock or of a receiver: no job, no call, and no
\* row becomes QUEUE_UNAVAILABLE.
LEMMA BystanderClaims ==
    ASSUME ClaimsInv, DeliveryInv, thread' = thread, asked' = asked,
           \A j \in Jobs : jobs'[j].event = jobs[j].event,
           \A e \in Events : row'[e].unavailable => row[e].unavailable
    PROVE  ClaimsInv'
<1>1. Apart' BY DEF ClaimsInv, Apart
<1>2. ASSUME NEW e \in Events PROVE PaidFor(e)'
  <2>1. JobsOf(e)' \subseteq JobsOf(e) BY DEF JobsOf
  <2>2. Adders(e)' \subseteq Adders(e) BY DEF Adders
  <2>3. Owed(e)' <= Owed(e) BY DEF Owed, Claimed
  <2>4. asked[e] \in Nat /\ asked'[e] = asked[e] BY DEF DeliveryInv, TypeOK
  <2>5. Owed(e) \in {0, 1} /\ Owed(e)' \in {0, 1} BY DEF Owed
  <2>6. 0 + 0 + Owed(e)' - Owed(e) <= asked'[e] - asked[e] BY <2>3, <2>4, <2>5
  <2> QED BY <2>1, <2>2, <2>4, <2>6, Balance DEF ClaimsInv
<1> QED BY <1>1, <1>2 DEF ClaimsInv

LEMMA WorkerClaims ==
    ASSUME ClaimsInv, DeliveryInv,
           \/ \E e \in Events : Elapse(e)
           \/ \E j \in Jobs : Worker(j)
           \/ \E w \in writes : Land(w)
    PROVE  ClaimsInv'
<1>1. row \in [Events -> EventRow] /\ jobs \in [Jobs -> JobRow]
  BY DEF DeliveryInv, TypeOK
<1>2. ASSUME NEW e \in Events, Elapse(e) PROVE ClaimsInv'
  <2>1. /\ thread' = thread /\ asked' = asked /\ jobs' = jobs
        /\ row' = [row EXCEPT ![e].due = TRUE]
    BY <1>2 DEF Elapse
  <2>2. \A d \in Events : row'[d].unavailable = row[d].unavailable
    BY <2>1, <1>1 DEF EventRow
  <2> QED BY <2>1, <2>2, BystanderClaims
<1>3. ASSUME NEW k \in Jobs, Worker(k) PROVE ClaimsInv'
  <2>1. thread' = thread /\ asked' = asked /\ row' = row
    BY <1>3 DEF Worker, PickUp, Post, Report, Settle, server
  <2>2. ASSUME NEW j \in Jobs PROVE jobs'[j].event = jobs[j].event
    <3>1. CASE PickUp(k) BY <3>1, <1>1 DEF PickUp, JobRow
    <3>2. CASE Post(k)
      <4>1. PICK ok : jobs' = [jobs EXCEPT ![k].state = "answered", ![k].ok = ok]
        BY <3>2 DEF Post
      <4> QED BY <4>1, <1>1 DEF JobRow
    <3>3. CASE Report(k) BY <3>3, <1>1 DEF Report, JobRow
    <3>4. CASE Settle(k)
      <4>1. jobs' = [jobs EXCEPT ![k] = Settled(k)] BY <3>4 DEF Settle
      <4>2. Settled(k).event = jobs[k].event
        <5>1. CASE Spent(k) BY <5>1, <1>1 DEF Settled, JobRow
        <5>2. CASE ~Spent(k) BY <5>2, <1>1 DEF Settled, JobRow
        <5> QED BY <5>1, <5>2
      <4> QED BY <4>1, <4>2, <1>1
    <3> QED BY <1>3, <3>1, <3>2, <3>3, <3>4 DEF Worker
  <2> QED BY <2>1, <2>2, BystanderClaims
<1>4. ASSUME NEW w \in writes, Land(w) PROVE ClaimsInv'
  <2>1. thread' = thread /\ asked' = asked /\ jobs' = jobs
    BY <1>4 DEF Land, server
  <2>2. \/ row' = row
        \/ row' = [row EXCEPT ![jobs[w.job].event] =
             [status |-> w.status, unavailable |-> FALSE, due |-> FALSE]]
    BY <1>4 DEF Land
  <2>3. \A d \in Events : row'[d].unavailable => row[d].unavailable
    BY <2>2, <1>1
  <2> QED BY <2>1, <2>3, BystanderClaims
<1> QED BY <1>2, <1>3, <1>4

-----------------------------------------------------------------------------
\* Somebody asks: the event is new, or a request retries it.
LEMMA AskClaims ==
    ASSUME ClaimsInv, DeliveryInv, NEW x \in Threads, NEW e \in Events,
           (x \in Retries /\ Retry(x, e)) \/ (x = e /\ Dispatch(e))
    PROVE  ClaimsInv'
<1>1. /\ row \in [Events -> EventRow] /\ thread \in [Threads -> ThreadRow]
      /\ asked \in [Events -> Nat]
  BY DEF DeliveryInv, TypeOK
<1>2. x \notin Sweeps BY DeliveryAssumption DEF DeliveryAssumption
<1>3. /\ jobs' = jobs /\ asked' = [asked EXCEPT ![e] = @ + 1]
      /\ row' = row \/ row' = [row EXCEPT ![e].status = "pending"]
  BY DEF Retry, Dispatch
<1>4. PICK l \in {"add", "forget"} : thread' = [thread EXCEPT ![x] = [At(l) EXCEPT !.event = e]]
  BY DEF Retry, Dispatch
<1>5. /\ [At(l) EXCEPT !.event = e].pc = l /\ [At(l) EXCEPT !.event = e].event = e
      /\ [At(l) EXCEPT !.event = e].todo = {}
  BY DEF At
<1>6. /\ thread'[x].pc = l /\ thread'[x].event = e /\ thread'[x].todo = {}
      /\ \A y \in Threads : y # x => thread'[y] = thread[y]
  BY <1>1, <1>4, <1>5
<1>7. Apart' BY <1>6 DEF ClaimsInv, Apart
<1>8. ASSUME NEW d \in Events PROVE PaidFor(d)'
  <2>1. JobsOf(d)' \subseteq JobsOf(d) BY <1>3 DEF JobsOf
  <2>2. Claimed(d)' <=> Claimed(d) BY <1>2, <1>6 DEF Claimed, Threads
  <2>3. row'[d].unavailable = row[d].unavailable BY <1>1, <1>3 DEF EventRow
  <2>4. Owed(d)' = Owed(d) BY <2>2, <2>3 DEF Owed
  <2>5. Owed(d) \in {0, 1} /\ asked[d] \in Nat /\ asked'[d] \in Nat
    BY <1>1, <1>3 DEF Owed
  <2>6. CASE d = e
    <3>1. Adders(d)' \subseteq Adders(d) \cup {x} BY <1>6 DEF Adders
    <3>2. 0 + 1 + Owed(d)' - Owed(d) <= asked'[d] - asked[d]
      BY <2>4, <2>5, <2>6, <1>1, <1>3
    <3> QED BY <2>1, <2>5, <3>1, <3>2, Balance DEF ClaimsInv
  <2>7. CASE d # e
    <3>1. Adders(d)' \subseteq Adders(d) BY <1>6, <2>7 DEF Adders
    <3>2. 0 + 0 + Owed(d)' - Owed(d) <= asked'[d] - asked[d]
      BY <2>4, <2>5, <2>7, <1>1, <1>3
    <3> QED BY <2>1, <2>5, <3>1, <3>2, Balance DEF ClaimsInv
  <2> QED BY <2>6, <2>7
<1> QED BY <1>7, <1>8 DEF ClaimsInv

\* Where a call goes that is done with an event, when S is what is left of its
\* list or what it has just read.
LEMMA ProceedMoves ==
    ASSUME DeliveryInv, NEW x \in Threads, NEW S \in SUBSET Events, Proceed(x, S)
    PROVE  /\ \A y \in Threads : y # x => thread'[y] = thread[y]
           /\ thread'[x].event \notin thread'[x].todo
           /\ \A d \in Events :
                \/ /\ d \in S /\ thread'[x].pc = "add"
                   /\ thread'[x].event = d \/ d \in thread'[x].todo
                \/ /\ d \notin S
                   /\ thread'[x].pc \in Calling =>
                        thread'[x].event # d /\ d \notin thread'[x].todo
<1>1. thread \in [Threads -> ThreadRow] BY DEF DeliveryInv, TypeOK
<1>2. CASE S = {} /\ thread' = [thread EXCEPT ![x] = Ended(x)]
  <2>1. thread'[x].todo = {} /\ thread'[x].pc \notin Calling
    BY <1>1, <1>2 DEF Ended, At, Calling
  <2> QED BY <1>1, <1>2, <2>1
<1>3. ASSUME NEW e \in S, thread' = [thread EXCEPT ![x] =
               [pc |-> "add", event |-> e, job |-> None, todo |-> S \ {e}]]
      PROVE  /\ \A y \in Threads : y # x => thread'[y] = thread[y]
             /\ thread'[x].event \notin thread'[x].todo
             /\ \A d \in Events :
                  \/ /\ d \in S /\ thread'[x].pc = "add"
                     /\ thread'[x].event = d \/ d \in thread'[x].todo
                  \/ /\ d \notin S
                     /\ thread'[x].pc \in Calling =>
                          thread'[x].event # d /\ d \notin thread'[x].todo
  <2>1. thread'[x].pc = "add" /\ thread'[x].event = e /\ thread'[x].todo = S \ {e}
    BY <1>1, <1>3
  <2> QED BY <1>1, <1>3, <2>1
<1> QED BY <1>2, <1>3 DEF Proceed

\* The one sweep takes over what the rows owe.
LEMMA SweepClaims ==
    ASSUME ClaimsInv, DeliveryInv, Undisturbed, NEW x \in Sweeps, Sweep(x)
    PROVE  ClaimsInv'
<1>1. /\ thread \in [Threads -> ThreadRow] /\ asked \in [Events -> Nat] /\ x \in Threads
  BY DEF DeliveryInv, TypeOK, Threads
<1> DEFINE S == FirstOf(Swept)
<1>2. /\ thread[x].pc = "idle" /\ Proceed(x, S)
      /\ row' = row /\ jobs' = jobs /\ asked' = asked
  BY DEF Sweep
<1>3. S \in SUBSET Events /\ \A d \in S : row[d].unavailable BY DEF FirstOf, Swept
<1> HIDE DEF S
<1>4. /\ \A y \in Threads : y # x => thread'[y] = thread[y]
      /\ thread'[x].event \notin thread'[x].todo
      /\ \A d \in Events :
           \/ /\ d \in S /\ thread'[x].pc = "add"
              /\ thread'[x].event = d \/ d \in thread'[x].todo
           \/ /\ d \notin S
              /\ thread'[x].pc \in Calling =>
                   thread'[x].event # d /\ d \notin thread'[x].todo
  BY <1>1, <1>2, <1>3, ProceedMoves
<1>5. Apart' BY <1>4 DEF ClaimsInv, Apart
<1>6. \A d \in Events : ~Claimed(d) BY <1>2 DEF Undisturbed, Claimed, Calling
<1>7. ASSUME NEW d \in Events PROVE PaidFor(d)'
  <2>1. JobsOf(d)' \subseteq JobsOf(d) BY <1>2 DEF JobsOf
  <2>2. asked[d] \in Nat /\ asked'[d] = asked[d] BY <1>1, <1>2
  <2>3. CASE d \in S
    <3>1. Adders(d)' \subseteq Adders(d) \cup {x} BY <1>4 DEF Adders
    <3>2. Owed(d) = 1 BY <1>3, <1>6, <2>3 DEF Owed
    <3>3. Claimed(d)'
      <4>1. thread'[x].pc \in Calling \ {"forget"} /\ (thread'[x].event = d \/ d \in thread'[x].todo)
        BY <1>4, <2>3 DEF Calling
      <4> QED BY <4>1 DEF Claimed
    <3>4. Owed(d)' = 0 BY <3>3 DEF Owed
    <3>5. 0 + 1 + Owed(d)' - Owed(d) <= asked'[d] - asked[d] BY <2>2, <3>2, <3>4
    <3> QED BY <1>1, <2>1, <2>2, <3>1, <3>5, Balance DEF ClaimsInv
  <2>4. CASE d \notin S
    <3>1. Adders(d)' \subseteq Adders(d) BY <1>4, <2>4 DEF Adders, Calling
    <3>2. Owed(d)' <= Owed(d) BY <1>2, <1>6 DEF Owed
    <3>3. Owed(d)' \in {0, 1} /\ Owed(d) \in {0, 1} BY DEF Owed
    <3>4. 0 + 0 + Owed(d)' - Owed(d) <= asked'[d] - asked[d] BY <2>2, <3>2, <3>3
    <3> QED BY <2>1, <2>2, <3>1, <3>4, Balance DEF ClaimsInv
  <2> QED BY <2>3, <2>4
<1> QED BY <1>5, <1>7 DEF ClaimsInv

-----------------------------------------------------------------------------
\* A call adds the job: the claim moves from the call to the job.
LEMMA AddClaims ==
    ASSUME ClaimsInv, DeliveryInv, NEW x \in Threads, Add(x) \/ Forget(x)
    PROVE  ClaimsInv'
<1>1. /\ thread \in [Threads -> ThreadRow] /\ jobs \in [Jobs -> JobRow]
      /\ asked \in [Events -> Nat]
  BY DEF DeliveryInv, TypeOK
<1>2. row' = row /\ asked' = asked BY DEF Add, Forget
<1>3. PICK e \in Events : e = thread[x].event
  BY DEF DeliveryInv, Served, Calling, Add, Forget
<1>4. e \notin thread[x].todo /\ x \in Adders(e)
  BY <1>3 DEF ClaimsInv, Apart, Add, Forget, Calling, Adders
<1>5. /\ \A y \in Threads : y # x => thread'[y] = thread[y]
      /\ \/ /\ Add(x) /\ thread[x].pc = "add" /\ thread'[x].pc = "mark"
            /\ thread'[x].event = e /\ thread'[x].todo = thread[x].todo
         \/ Forget(x) /\ thread'[x].pc = "over" /\ thread'[x].todo = {}
  <2>1. CASE Add(x)
    <3>1. PICK j \in Jobs : thread' = [thread EXCEPT ![x].pc = "mark", ![x].job = j]
      BY <2>1 DEF Add
    <3>2. thread[x] \in ThreadRow BY <1>1
    <3> QED BY <3>1, <3>2, <2>1, <1>1, <1>3 DEF ThreadRow, Add
  <2>2. CASE Forget(x)
    <3>1. thread' = [thread EXCEPT ![x] = At("over")] BY <2>2 DEF Forget
    <3> QED BY <3>1, <2>2, <1>1 DEF At
  <2> QED BY <2>1, <2>2
<1>6. Apart' BY <1>4, <1>5 DEF ClaimsInv, Apart
<1>7. ASSUME NEW d \in Events PROVE PaidFor(d)'
  <2>1. Owed(d)' <= Owed(d)
    <3>1. ASSUME Claimed(d) PROVE Claimed(d)'
      <4>1. PICK s \in Sweeps : /\ thread[s].pc \in Calling \ {"forget"}
                                /\ thread[s].event = d \/ d \in thread[s].todo
        BY <3>1 DEF Claimed
      <4>2. /\ thread'[s].pc \in Calling \ {"forget"}
            /\ thread'[s].event = d \/ d \in thread'[s].todo
        <5>1. CASE s # x BY <4>1, <5>1, <1>5 DEF Threads
        <5>2. CASE s = x BY <4>1, <5>2, <1>3, <1>5 DEF Calling, Forget
        <5> QED BY <5>1, <5>2
      <4> QED BY <4>2 DEF Claimed
    <3> QED BY <3>1, <1>2 DEF Owed
  <2>2. Owed(d) \in {0, 1} /\ Owed(d)' \in {0, 1} BY DEF Owed
  <2>3. asked[d] \in Nat /\ asked'[d] = asked[d] BY <1>1, <1>2
  <2>4. CASE d = e
    <3>1. Adders(d)' \subseteq Adders(d) \ {x}
      BY <1>4, <1>5, <2>4 DEF Adders, Calling
    <3>2. \E j : JobsOf(d)' \subseteq JobsOf(d) \cup {j}
      <4>1. \/ jobs' = jobs
            \/ \E j \in Jobs : jobs' = [jobs EXCEPT ![j] =
                 [state |-> "ready", event |-> e, made |-> 0, ok |-> FALSE]]
        BY <1>3 DEF Add, Forget, Added
      <4>2. CASE jobs' = jobs BY <4>2 DEF JobsOf
      <4>3. ASSUME NEW j \in Jobs, \A i \in Jobs : i # j => jobs'[i] = jobs[i]
            PROVE  JobsOf(d)' \subseteq JobsOf(d) \cup {j}
        BY <4>3 DEF JobsOf
      <4>4. \A j \in Jobs : jobs' = [jobs EXCEPT ![j] =
                 [state |-> "ready", event |-> e, made |-> 0, ok |-> FALSE]] =>
               \A i \in Jobs : i # j => jobs'[i] = jobs[i]
        BY <1>1
      <4> QED BY <4>1, <4>2, <4>3, <4>4
    <3>3. 1 + -1 + Owed(d)' - Owed(d) <= asked'[d] - asked[d] BY <2>1, <2>2, <2>3
    <3> QED BY <1>4, <2>3, <2>4, <3>1, <3>2, <3>3, Balance DEF ClaimsInv
  <2>5. CASE d # e
    <3>1. Adders(d)' \subseteq Adders(d) BY <1>3, <1>5, <2>5 DEF Adders, Calling, Add
    <3>2. JobsOf(d)' \subseteq JobsOf(d)
      <4>1. \/ jobs' = jobs
            \/ \E j \in Jobs : jobs' = [jobs EXCEPT ![j] =
                 [state |-> "ready", event |-> e, made |-> 0, ok |-> FALSE]]
        BY <1>3 DEF Add, Forget, Added
      <4> QED BY <4>1, <1>1, <2>5 DEF JobsOf
    <3>3. 0 + 0 + Owed(d)' - Owed(d) <= asked'[d] - asked[d] BY <2>1, <2>2, <2>3
    <3> QED BY <2>3, <3>1, <3>2, <3>3, Balance DEF ClaimsInv
  <2> QED BY <2>4, <2>5
<1> QED BY <1>6, <1>7 DEF ClaimsInv

\* The row is written: it owes the job again, or no longer.
LEMMA MarkClaims ==
    ASSUME ClaimsInv, DeliveryInv, Undisturbed, NEW x \in Threads,
           AddFails(x) \/ Mark(x) \/ Unavailable(x) \/ UnavailableFails(x)
    PROVE  ClaimsInv'
<1>1. /\ thread \in [Threads -> ThreadRow] /\ row \in [Events -> EventRow]
      /\ asked \in [Events -> Nat]
  BY DEF DeliveryInv, TypeOK
<1>2. asked' = asked /\ jobs' = jobs
  BY DEF AddFails, Mark, Unavailable, UnavailableFails
<1>3. \A d \in Events :
        /\ JobsOf(d)' \subseteq JobsOf(d) /\ asked[d] \in Nat /\ asked'[d] = asked[d]
        /\ Owed(d) \in {0, 1} /\ Owed(d)' \in {0, 1}
  BY <1>1, <1>2 DEF JobsOf, Owed
<1>4. /\ ~UnavailableFails(x)
      /\ AddFails(x) => thread[x].pc = "add"
  BY DEF Undisturbed, UnavailableFails, AddFails, Fault
<1>5. PICK e \in Events : e = thread[x].event
  BY DEF DeliveryInv, Served, Calling, AddFails, Mark, Unavailable, UnavailableFails
<1>6. e \notin thread[x].todo
  BY <1>5 DEF ClaimsInv, Apart, Calling, AddFails, Mark, Unavailable, UnavailableFails
<1>7. CASE AddFails(x)
  <2>1. /\ thread[x].pc = "add" /\ row' = row
        /\ thread' = [thread EXCEPT ![x].pc = "unavailable"]
    BY <1>4, <1>7 DEF AddFails
  <2>2. /\ \A y \in Threads : y # x => thread'[y] = thread[y]
        /\ thread'[x].pc = "unavailable" /\ thread'[x].event = e
        /\ thread'[x].todo = thread[x].todo
    BY <2>1, <1>1, <1>5 DEF ThreadRow
  <2>3. Apart' BY <2>1, <2>2, <1>5, <1>6 DEF ClaimsInv, Apart
  <2>4. ASSUME NEW d \in Events PROVE PaidFor(d)'
    <3>1. Adders(d)' \subseteq Adders(d) BY <2>1, <2>2, <1>5 DEF Adders, Calling
    <3>2. Claimed(d)' <=> Claimed(d)
      BY <2>1, <2>2, <1>5 DEF Claimed, Calling, Threads
    <3>3. Owed(d)' = Owed(d) BY <3>2, <2>1 DEF Owed
    <3>4. 0 + 0 + Owed(d)' - Owed(d) <= asked'[d] - asked[d] BY <3>3, <1>3
    <3> QED BY <1>3, <3>1, <3>4, Balance DEF ClaimsInv
  <2> QED BY <2>3, <2>4 DEF ClaimsInv
<1>8. CASE Mark(x) \/ Unavailable(x)
  <2> DEFINE S == thread[x].todo
  <2>1. S \in SUBSET Events BY <1>1 DEF ThreadRow
  <2>2. Proceed(x, S) BY <1>8 DEF Mark, Unavailable, Return
  <2>3. thread[x].pc \in Calling \ {"forget"} /\ e \notin S
    BY <1>6, <1>8 DEF Mark, Unavailable, Calling
  <2>4. /\ \A y \in Threads : y # x => thread'[y] = thread[y]
        /\ thread'[x].event \notin thread'[x].todo
        /\ \A d \in Events :
             \/ /\ d \in S /\ thread'[x].pc = "add"
                /\ thread'[x].event = d \/ d \in thread'[x].todo
             \/ /\ d \notin S
                /\ thread'[x].pc \in Calling =>
                     thread'[x].event # d /\ d \notin thread'[x].todo
    BY <2>1, <2>2, ProceedMoves
  <2>5. Apart' BY <2>4 DEF ClaimsInv, Apart
  <2>6. ASSUME NEW d \in Events, d # e PROVE Claimed(d)' <=> Claimed(d)
    <3>1. d \in S \/ thread'[x].pc \notin Calling
            \/ (thread'[x].event # d /\ d \notin thread'[x].todo)
      BY <2>4
    <3>2. CASE d \in S
      <4>1. thread'[x].pc = "add" /\ (thread'[x].event = d \/ d \in thread'[x].todo)
        BY <2>4, <3>2
      <4> QED BY <4>1, <3>2, <2>3, <2>4 DEF Claimed, Calling, Threads
    <3>3. CASE d \notin S
      <4>1. thread'[x].pc \in Calling => thread'[x].event # d /\ d \notin thread'[x].todo
        BY <3>1, <3>3
      <4> QED BY <4>1, <3>3, <2>6, <2>4, <1>5 DEF Claimed, Threads
    <3> QED BY <3>2, <3>3
  <2>7. \A d \in Events : d # e => Adders(d)' \subseteq Adders(d)
    <3> SUFFICES ASSUME NEW d \in Events, d # e, NEW y \in Threads, y \in Adders(d)'
                 PROVE  y \in Adders(d)
      BY DEF Adders
    <3>1. CASE y # x BY <3>1, <2>4 DEF Adders
    <3>2. CASE y = x
      <4>1. d \in S BY <3>2, <2>4 DEF Adders, Calling
      <4> QED BY <4>1, <3>2, <2>3 DEF Adders
    <3> QED BY <3>1, <3>2
  <2>8. Adders(e)' \subseteq Adders(e) \ {x}
    <3> SUFFICES ASSUME NEW y \in Threads, y \in Adders(e)'
                 PROVE  y \in Adders(e) /\ y # x
      BY DEF Adders
    <3>1. y # x BY <2>3, <2>4 DEF Adders, Calling
    <3> QED BY <3>1, <2>4 DEF Adders
  <2>9. ASSUME NEW d \in Events PROVE PaidFor(d)'
    <3>1. CASE d # e
      <4>1. row'[d] = row[d] BY <3>1, <1>1, <1>5, <1>8 DEF Mark, Unavailable
      <4>2. Owed(d)' = Owed(d) BY <4>1, <3>1, <2>6 DEF Owed
      <4>3. 0 + 0 + Owed(d)' - Owed(d) <= asked'[d] - asked[d] BY <4>2, <1>3
      <4> QED BY <1>3, <3>1, <2>7, <4>3, Balance DEF ClaimsInv
    <3>2. CASE d = e /\ Mark(x)
      <4>1. ~row'[d].unavailable BY <3>2, <1>1, <1>5 DEF Mark
      <4>2. Owed(d)' = 0 BY <4>1 DEF Owed
      <4>3. 0 + 0 + Owed(d)' - Owed(d) <= asked'[d] - asked[d] BY <4>2, <1>3
      <4>4. Adders(d)' \subseteq Adders(d) BY <2>8, <3>2
      <4> QED BY <1>3, <4>3, <4>4, Balance DEF ClaimsInv
    <3>3. CASE d = e /\ Unavailable(x)
      <4>1. x \in Adders(d) BY <3>3, <1>5 DEF Unavailable, Adders
      <4>2. 0 + -1 + Owed(d)' - Owed(d) <= asked'[d] - asked[d] BY <1>3
      <4>3. Adders(d)' \subseteq Adders(d) \ {x} BY <2>8, <3>3
      <4> QED BY <1>3, <4>1, <4>2, <4>3, Balance DEF ClaimsInv
    <3> QED BY <3>1, <3>2, <3>3, <1>8
  <2> QED BY <2>5, <2>9 DEF ClaimsInv
<1> QED BY <1>4, <1>7, <1>8

LEMMA NextClaims ==
    ASSUME DeliveryInv, ClaimsInv, Undisturbed, [Next]_vars
    PROVE  ClaimsInv'
<1>1. CASE UNCHANGED vars BY <1>1, BystanderClaims DEF vars
<1>2. ASSUME NEW e \in Events, Dispatch(e) PROVE ClaimsInv'
  BY <1>2, AskClaims DEF Threads
<1>3. ASSUME NEW x \in Retries, NEW e \in Events, Retry(x, e) PROVE ClaimsInv'
  BY <1>3, AskClaims DEF Threads
<1>4. ASSUME NEW x \in Threads, Server(x) PROVE ClaimsInv'
  BY <1>4, AddClaims, MarkClaims DEF Server
<1>5. ASSUME \/ \E e \in Events : Elapse(e)
             \/ \E j \in Jobs : Worker(j)
             \/ \E w \in writes : Land(w)
      PROVE  ClaimsInv'
  BY <1>5, WorkerClaims
<1>6. ~(ServerCrash \/ WorkerCrash \/ Rejected)
  BY DEF ServerCrash, WorkerCrash, Rejected, Fault, Undisturbed
<1> QED
  BY <1>1, <1>2, <1>3, <1>4, <1>5, <1>6, SweepClaims DEF Next

\* With one sweep at a time, no UPDATE that rejects and no crash, an event gets
\* no more jobs than deliveries were asked for, however often Redis rejects and
\* whoever retries meanwhile.
THEOREM OneJobEach == ASSUME Undisturbed PROVE Spec => []OneJobPerRequest
<1>1. Init => ClaimsInv BY InitClaims
<1>2. DeliveryInv /\ ClaimsInv /\ [Next]_vars => ClaimsInv' BY NextClaims
<1>3. DeliveryInv /\ ClaimsInv => OneJobPerRequest
  <2> SUFFICES ASSUME DeliveryInv, ClaimsInv, NEW e \in Events
               PROVE  Cardinality(JobsOf(e)) <= asked[e]
    BY DEF OneJobPerRequest
  <2>1. /\ Cardinality(JobsOf(e)) \in Nat /\ Cardinality(Adders(e)) \in Nat
        /\ Owed(e) \in {0, 1} /\ asked[e] \in Nat
        /\ Cardinality(JobsOf(e)) + Cardinality(Adders(e)) + Owed(e) <= asked[e]
    BY FS_CardinalityType DEF ClaimsInv, PaidFor, DeliveryInv, TypeOK, Owed
  <2> QED BY <2>1
<1> QED BY <1>1, <1>2, <1>3, DeliveryInvariant, PTL DEF Spec

-----------------------------------------------------------------------------
(***************************************************************************)
(* Outcomes are final.  An event that was asked for once has one job, and  *)
(* that job one statement about its row on the way; the statement that     *)
(* settles the row is the job's last.                                      *)
(***************************************************************************)
Closed(j) == jobs[j].state = "over" \/ (jobs[j].state = "settling" /\ Spent(j))

MarksOwn ==
    \A x \in Threads : thread[x].pc = "mark" =>
        /\ thread[x].job \in Jobs
        /\ jobs[thread[x].job].state # "free"
        /\ jobs[thread[x].job].event = thread[x].event
WritesLate ==
    \A w \in writes :
        /\ jobs[w.job].state \in {"settling", "ready", "over"}
        /\ (w.kind = "row" /\ w.status \in Final) => Closed(w.job)
OneRowWrite ==
    \A v, w \in writes : (v.kind = "row" /\ w.kind = "row" /\ v.job = w.job) => v = w
Concluded(e) ==
    /\ JobsOf(e) # {}
    /\ \A j \in JobsOf(e) : Closed(j)
    /\ \A w \in writes : w.kind = "row" => w.job \notin JobsOf(e)
FinalInv ==
    /\ MarksOwn /\ WritesLate /\ OneRowWrite
    /\ \A e \in Events : (asked[e] <= 1 /\ row[e].status \in Final) => Concluded(e)

LEMMA FinalFirst == ASSUME Init PROVE FinalInv
BY DEF Init, FinalInv, MarksOwn, WritesLate, OneRowWrite, Concluded, At, Final

\* An event asked for once has its job, or somebody who is to add it.
LEMMA AskedOnce ==
    ASSUME DeliveryInv, ClaimsInv, NEW e \in Events, asked[e] <= 1, NEW j \in JobsOf(e)
    PROVE  Adders(e) = {} /\ JobsOf(e) = {j}
<1>1. /\ IsFiniteSet(JobsOf(e)) /\ IsFiniteSet(Adders(e))
      /\ Cardinality(JobsOf(e)) + Cardinality(Adders(e)) + Owed(e) <= asked[e]
  BY DEF ClaimsInv, PaidFor
<1>2. asked[e] \in Nat BY DEF DeliveryInv, TypeOK
<1>3. Cardinality(JobsOf(e)) \in Nat /\ Cardinality(Adders(e)) \in Nat
  BY <1>1, FS_CardinalityType
<1>4. Cardinality(JobsOf(e)) # 0 BY <1>1, FS_EmptySet
<1>5. Cardinality(Adders(e)) = 0 /\ Cardinality(JobsOf(e)) = 1
  BY <1>1, <1>2, <1>3, <1>4, OwedType
<1>6. Adders(e) = {} BY <1>1, <1>5, FS_EmptySet
<1>7. JobsOf(e) = {j}
  <2>1. IsFiniteSet(JobsOf(e) \ {j}) /\ Cardinality(JobsOf(e) \ {j}) = 0
    BY <1>1, <1>5, FS_RemoveElement
  <2>2. JobsOf(e) \ {j} = {} BY <2>1, FS_EmptySet
  <2> QED BY <2>2
<1> QED BY <1>6, <1>7

-----------------------------------------------------------------------------
\* A step of the server that adds no job: only rows that nobody has concluded
\* change, and to no outcome.
LEMMA ServerFinal ==
    ASSUME FinalInv, jobs' = jobs, writes' = writes,
           \A x \in Threads : thread'[x].pc = "mark" => thread'[x] = thread[x],
           \A e \in Events : asked'[e] <= 1 => asked[e] <= 1,
           \A e \in Events : row'[e].status \in Final => row[e].status = row'[e].status
    PROVE  FinalInv'
<1>1. MarksOwn' BY DEF FinalInv, MarksOwn
<1>2. WritesLate' /\ OneRowWrite' BY DEF FinalInv, WritesLate, OneRowWrite, Closed, Spent
<1>3. ASSUME NEW e \in Events, asked'[e] <= 1, row'[e].status \in Final
      PROVE  Concluded(e)'
  <2>1. Concluded(e) BY <1>3 DEF FinalInv
  <2>2. JobsOf(e)' = JobsOf(e) BY DEF JobsOf
  <2> QED BY <2>1, <2>2 DEF Concluded, Closed, Spent
<1> QED BY <1>1, <1>2, <1>3 DEF FinalInv

\* Adding a job.
LEMMA AddFinal ==
    ASSUME DeliveryInv, ClaimsInv, FinalInv, NEW x \in Threads, NEW j \in Jobs,
           x \in Adders(thread[x].event), thread[x].event \in Events,
           Added(j, thread[x].event), writes' = writes, row' = row, asked' = asked,
           \A y \in Threads : thread'[y].pc = "mark" =>
               \/ y # x /\ thread'[y] = thread[y]
               \/ y = x /\ thread'[y].job = j /\ thread'[y].event = thread[x].event
    PROVE  FinalInv'
<1>0. jobs \in [Jobs -> JobRow] /\ writes \subseteq WriteRow BY DEF DeliveryInv, TypeOK
<1>1. /\ jobs[j].state = "free"
      /\ jobs'[j].state = "ready" /\ jobs'[j].event = thread[x].event
      /\ \A k \in Jobs : k # j => jobs'[k] = jobs[k]
  BY <1>0 DEF Added
<1>2. \A w \in writes : w.job \in Jobs /\ w.job # j
  BY <1>0, <1>1 DEF DeliveryInv, Served, WriteRow
<1>3. MarksOwn' BY <1>1 DEF FinalInv, MarksOwn
<1>4. WritesLate' /\ OneRowWrite'
  BY <1>1, <1>2 DEF FinalInv, WritesLate, OneRowWrite, Closed, Spent
<1>5. ASSUME NEW e \in Events, asked'[e] <= 1, row'[e].status \in Final
      PROVE  Concluded(e)'
  <2>1. Concluded(e) BY <1>5 DEF FinalInv
  <2>2. e # thread[x].event
    <3>1. PICK k \in JobsOf(e) : TRUE BY <2>1 DEF Concluded
    <3>2. Adders(e) = {} BY <3>1, <1>5, AskedOnce
    <3> QED BY <3>2
  <2>3. j \notin JobsOf(e) BY <2>1, <1>1 DEF Concluded, Closed
  <2>4. JobsOf(e)' = JobsOf(e) BY <1>1, <2>2, <2>3 DEF JobsOf
  <2>5. \A k \in JobsOf(e) : k \in Jobs /\ jobs'[k] = jobs[k]
    BY <2>3, <1>1 DEF JobsOf
  <2>6. \A k \in JobsOf(e) : Closed(k)' BY <2>1, <2>5 DEF Concluded, Closed, Spent
  <2> QED BY <2>1, <2>4, <2>6 DEF Concluded
<1> QED BY <1>3, <1>4, <1>5 DEF FinalInv

\* The calls that go on or end are at no mark.
LEMMA Proceeds ==
    ASSUME DeliveryInv, NEW x \in Threads, NEW S \in SUBSET Events, Proceed(x, S)
    PROVE  \A y \in Threads : thread'[y].pc = "mark" => thread'[y] = thread[y]
<1>1. thread \in [Threads -> ThreadRow] BY DEF DeliveryInv, TypeOK
<1>2. Ended(x).pc # "mark" BY DEF Ended, At
<1>3. CASE thread' = [thread EXCEPT ![x] = Ended(x)] BY <1>1, <1>2, <1>3
<1>4. ASSUME NEW e \in S, thread' = [thread EXCEPT ![x] =
                [pc |-> "add", event |-> e, job |-> None, todo |-> S \ {e}]]
      PROVE  \A y \in Threads : thread'[y].pc = "mark" => thread'[y] = thread[y]
  BY <1>1, <1>4
<1> QED BY <1>3, <1>4 DEF Proceed

-----------------------------------------------------------------------------
\* A step of job j that leaves its event and keeps it closed.
LEMMA JobFinal ==
    ASSUME DeliveryInv, FinalInv, NEW j \in Jobs, NEW new \in JobRow,
           jobs' = [jobs EXCEPT ![j] = new], new.event = jobs[j].event,
           new.state # "free",
           Closed(j) => Closed(j)',
           row' = row, thread' = thread, asked' = asked, writes' = writes,
           \A w \in writes : w.job = j => new.state \in {"settling", "ready", "over"}
    PROVE  FinalInv'
<1>0. jobs \in [Jobs -> JobRow] /\ writes \subseteq WriteRow BY DEF DeliveryInv, TypeOK
<1>1. jobs'[j] = new /\ \A k \in Jobs : k # j => jobs'[k] = jobs[k] BY <1>0
<1>2. \A k \in Jobs : Closed(k) => Closed(k)' BY <1>1 DEF Closed, Spent
<1>3. MarksOwn' BY <1>1 DEF FinalInv, MarksOwn
<1>4. \A w \in writes : w.job \in Jobs BY <1>0 DEF WriteRow
<1>5. WritesLate' /\ OneRowWrite'
  BY <1>1, <1>2, <1>4 DEF FinalInv, WritesLate, OneRowWrite
<1>6. \A e : JobsOf(e)' = JobsOf(e) BY <1>1 DEF JobsOf
<1>7. \A e \in Events : Concluded(e) => Concluded(e)'
  BY <1>2, <1>6 DEF Concluded, JobsOf
<1> QED BY <1>3, <1>5, <1>7 DEF FinalInv

LEMMA WorkerFinal ==
    ASSUME DeliveryInv, FinalInv, NEW j \in Jobs, Worker(j)
    PROVE  FinalInv'
<1>0. jobs \in [Jobs -> JobRow] /\ writes \subseteq WriteRow /\ posts \in [Jobs -> Nat]
  BY DEF DeliveryInv, TypeOK
<1>1. CASE PickUp(j)
  <2> DEFINE new == [jobs[j] EXCEPT !.state = "posting"]
  <2>1. new \in JobRow /\ new.event = jobs[j].event /\ new.state = "posting"
    BY <1>0 DEF JobRow
  <2>2. /\ jobs[j].state = "ready" /\ jobs' = [jobs EXCEPT ![j] = new]
        /\ \A w \in writes : w.job # j
        /\ row' = row /\ thread' = thread /\ asked' = asked /\ writes' = writes
    BY <1>1 DEF PickUp, server, worker
  <2>3. ~Closed(j) BY <2>2 DEF Closed
  <2> QED BY <2>1, <2>2, <2>3, JobFinal
<1>2. CASE Post(j)
  <2>1. PICK ok \in BOOLEAN :
          jobs' = [jobs EXCEPT ![j].state = "answered", ![j].ok = ok]
    BY <1>2 DEF Post
  <2> DEFINE new == [jobs[j] EXCEPT !.state = "answered", !.ok = ok]
  <2>2. new \in JobRow /\ new.event = jobs[j].event /\ new.state = "answered"
    BY <1>0 DEF JobRow
  <2>3. /\ jobs[j].state = "posting" /\ jobs' = [jobs EXCEPT ![j] = new]
        /\ row' = row /\ thread' = thread /\ asked' = asked /\ writes' = writes
    BY <1>0, <1>2, <2>1 DEF Post, server
  <2>4. ~Closed(j) BY <2>3 DEF Closed
  <2>5. \A w \in writes : w.job # j BY <2>3 DEF FinalInv, WritesLate
  <2> QED BY <2>2, <2>3, <2>4, <2>5, JobFinal
<1>3. CASE Settle(j)
  <2>1. /\ jobs[j].state = "settling" /\ jobs' = [jobs EXCEPT ![j] = Settled(j)]
        /\ row' = row /\ thread' = thread /\ asked' = asked /\ writes' = writes
    BY <1>3 DEF Settle, server, worker
  <2>2. /\ Settled(j) \in JobRow /\ Settled(j).event = jobs[j].event
        /\ Settled(j).state = IF Spent(j) THEN "over" ELSE "ready"
    <3>1. CASE Spent(j) BY <1>0, <3>1 DEF Settled, JobRow
    <3>2. CASE ~Spent(j)
      <4>1. PICK n \in Nat : n = jobs[j].made BY <1>0 DEF JobRow
      <4>2. Settled(j) = [jobs[j] EXCEPT !.state = "ready", !.made = n + 1]
        BY <3>2, <4>1 DEF Settled
      <4>3. n + 1 \in Nat /\ jobs[j] \in JobRow BY <4>1, <1>0
      <4>4. Settled(j) \in JobRow /\ Settled(j).event = jobs[j].event
        BY <4>2, <4>3 DEF JobRow
      <4>5. Settled(j).state = "ready" BY <4>2, <4>3 DEF JobRow
      <4> QED BY <3>2, <4>4, <4>5
    <3> QED BY <3>1, <3>2
  <2>3. Closed(j) => Closed(j)' BY <1>0, <2>1, <2>2 DEF Closed
  <2> QED BY <2>1, <2>2, <2>3, JobFinal
<1>4. CASE Report(j)
  <2>1. /\ jobs[j].state = "answered"
        /\ jobs' = [jobs EXCEPT ![j].state = "settling"]
        /\ writes' = writes \cup {Write(j, "log"), Write(j, "row")}
        /\ row' = row /\ thread' = thread /\ asked' = asked
    BY <1>4 DEF Report, server, Reported
  <2>2. /\ jobs'[j].state = "settling" /\ jobs'[j].event = jobs[j].event
        /\ jobs'[j].made = jobs[j].made /\ jobs'[j].ok = jobs[j].ok
        /\ \A k \in Jobs : k # j => jobs'[k] = jobs[k]
    BY <1>0, <2>1 DEF JobRow
  <2>3. \A w \in writes : w.job \in Jobs /\ w.job # j
    BY <1>0, <2>1 DEF FinalInv, WritesLate, WriteRow
  <2>4. \A k \in Jobs : k # j => (Closed(k) <=> Closed(k)')
    BY <2>2 DEF Closed, Spent
  <2>5. Outcome(j) \in Final => Closed(j)'
    <3>1. Outcome(j) \in Final => Spent(j) BY DEF Outcome, Final, Spent, IsLast
    <3> QED BY <3>1, <2>2 DEF Closed, Spent
  <2>6. \A k \in {"log", "row"} : /\ Write(j, k).kind = k /\ Write(j, k).job = j
                                  /\ Write(j, k).status = Outcome(j)
    BY DEF Write
  <2>7. MarksOwn' BY <2>1, <2>2 DEF FinalInv, MarksOwn
  <2>8. WritesLate'
    BY <2>1, <2>2, <2>3, <2>4, <2>5, <2>6 DEF FinalInv, WritesLate
  <2>9. OneRowWrite'
    BY <2>1, <2>3, <2>6 DEF FinalInv, OneRowWrite
  <2>10. ASSUME NEW e \in Events, asked'[e] <= 1, row'[e].status \in Final
         PROVE  Concluded(e)'
    <3>1. Concluded(e) BY <2>1, <2>10 DEF FinalInv
    <3>2. j \notin JobsOf(e) BY <3>1, <2>1 DEF Concluded, Closed
    <3>3. JobsOf(e)' = JobsOf(e) BY <2>2 DEF JobsOf
    <3> QED BY <3>1, <3>2, <3>3, <2>1, <2>4, <2>6 DEF Concluded, JobsOf
  <2> QED BY <2>7, <2>8, <2>9, <2>10 DEF FinalInv
<1> QED BY <1>1, <1>2, <1>3, <1>4 DEF Worker

LEMMA LandFinal ==
    ASSUME DeliveryInv, ClaimsInv, FinalInv, NEW w \in writes, Land(w)
    PROVE  FinalInv'
<1>0. /\ jobs \in [Jobs -> JobRow] /\ w \in WriteRow /\ w.job \in Jobs
      /\ row \in [Events -> EventRow]
  BY DEF DeliveryInv, TypeOK, WriteRow
<1>1. jobs' = jobs /\ thread' = thread /\ asked' = asked /\ writes' = writes \ {w}
  BY DEF Land, server
<1>2. \A j : Closed(j)' <=> Closed(j) BY <1>1 DEF Closed, Spent
<1>3. MarksOwn' /\ WritesLate' /\ OneRowWrite'
  BY <1>1, <1>2 DEF FinalInv, MarksOwn, WritesLate, OneRowWrite
<1>4. \A e : JobsOf(e)' = JobsOf(e) BY <1>1 DEF JobsOf
<1>5. ASSUME NEW e \in Events, asked'[e] <= 1, row'[e].status \in Final
      PROVE  Concluded(e)'
  <2>1. CASE Concluded(e) BY <2>1, <1>1, <1>2, <1>4 DEF Concluded
  <2>2. CASE ~Concluded(e)
    <3>1. row'[e] # row[e] BY <2>2, <1>1, <1>5 DEF FinalInv
    <3>2. /\ w.kind = "row" /\ e = jobs[w.job].event
          /\ row'[e].status = w.status
      BY <3>1, <1>0 DEF Land
    <3>3. w.job \in JobsOf(e) BY <3>2, <1>0 DEF JobsOf
    <3>4. JobsOf(e) = {w.job} BY <3>3, <1>1, <1>5, AskedOnce
    <3>5. Closed(w.job) BY <3>2, <1>5 DEF FinalInv, WritesLate
    <3>6. \A v \in writes' : v.kind = "row" => v.job # w.job
      BY <1>1, <3>2 DEF FinalInv, OneRowWrite
    <3> QED BY <3>4, <3>5, <3>6, <1>1, <1>2, <1>4 DEF Concluded
  <2> QED BY <2>1, <2>2
<1> QED BY <1>3, <1>5 DEF FinalInv

-----------------------------------------------------------------------------
LEMMA NextFinal ==
    ASSUME DeliveryInv, ClaimsInv, FinalInv, Undisturbed, [Next]_vars
    PROVE  FinalInv'
<1>0. /\ thread \in [Threads -> ThreadRow] /\ row \in [Events -> EventRow]
      /\ asked \in [Events -> Nat] /\ Events \subseteq Threads /\ Retries \subseteq Threads
      /\ Sweeps \subseteq Threads
      /\ \A x \in Threads : thread[x].pc \in Calling => thread[x].event \in Events
  BY DEF DeliveryInv, TypeOK, Served, Threads
<1>1. CASE UNCHANGED vars BY <1>1, ServerFinal DEF vars
<1>2. ASSUME NEW e \in Events, Dispatch(e) PROVE FinalInv'
  <2>1. PICK l \in {"add", "forget"} : thread' = [thread EXCEPT ![e] = [At(l) EXCEPT !.event = e]]
    BY <1>2 DEF Dispatch
  <2>2. [At(l) EXCEPT !.event = e].pc = l BY DEF At
  <2>3. \A x \in Threads : thread'[x].pc = "mark" => thread'[x] = thread[x]
    BY <2>1, <2>2, <1>0
  <2>4. \A d \in Events : asked'[d] <= 1 => asked[d] <= 1
    BY <1>0, <1>2 DEF Dispatch
  <2>5. row'[e].status = "pending" /\ \A d \in Events : d # e => row'[d] = row[d]
    BY <1>0, <1>2 DEF Dispatch, EventRow
  <2>6. \A d \in Events : row'[d].status \in Final => row[d].status = row'[d].status
    BY <2>5 DEF Final
  <2>7. jobs' = jobs /\ writes' = writes BY <1>2 DEF Dispatch, worker
  <2> QED BY <2>3, <2>4, <2>6, <2>7, ServerFinal
<1>3. ASSUME NEW x \in Retries, NEW e \in Events, Retry(x, e) PROVE FinalInv'
  <2>1. [At("add") EXCEPT !.event = e].pc = "add" BY DEF At
  <2>2. \A y \in Threads : thread'[y].pc = "mark" => thread'[y] = thread[y]
    BY <2>1, <1>0, <1>3 DEF Retry
  <2>3. \A d \in Events : asked'[d] <= 1 => asked[d] <= 1
    BY <1>0, <1>3 DEF Retry
  <2>4. jobs' = jobs /\ writes' = writes /\ row' = row BY <1>3 DEF Retry, worker
  <2> QED BY <2>2, <2>3, <2>4, ServerFinal
<1>4. ASSUME NEW x \in Sweeps, Sweep(x) PROVE FinalInv'
  <2>1. FirstOf(Swept) \in SUBSET Events BY DEF FirstOf, Swept
  <2>2. \A y \in Threads : thread'[y].pc = "mark" => thread'[y] = thread[y]
    BY <2>1, <1>0, <1>4, Proceeds DEF Sweep
  <2> QED BY <2>2, <1>4, ServerFinal DEF Sweep, worker
<1>5. ASSUME NEW e \in Events, Elapse(e) PROVE FinalInv'
  <2>1. \A d \in Events : row'[d].status = row[d].status
    BY <1>0, <1>5 DEF Elapse, EventRow
  <2> QED BY <2>1, <1>5, ServerFinal DEF Elapse, worker
<1>6. ASSUME NEW x \in Threads, Server(x) PROVE FinalInv'
  <2>0. thread[x] \in ThreadRow /\ thread[x].todo \in SUBSET Events
    BY <1>0 DEF ThreadRow
  <2>1. CASE Add(x)
    <3>1. PICK j \in Jobs : /\ Added(j, thread[x].event)
                            /\ thread' = [thread EXCEPT ![x].pc = "mark", ![x].job = j]
      BY <2>1 DEF Add
    <3>2. thread[x].pc = "add" /\ row' = row /\ asked' = asked /\ writes' = writes
      BY <2>1 DEF Add, worker
    <3>3. x \in Adders(thread[x].event) /\ thread[x].event \in Events
      BY <3>2, <1>0 DEF Adders, Calling
    <3>4. /\ thread'[x].job = j /\ thread'[x].event = thread[x].event
          /\ \A y \in Threads : y # x => thread'[y] = thread[y]
      BY <3>1, <1>0, <2>0 DEF ThreadRow
    <3>5. \A y \in Threads : thread'[y].pc = "mark" =>
               \/ y # x /\ thread'[y] = thread[y]
               \/ y = x /\ thread'[y].job = j /\ thread'[y].event = thread[x].event
      BY <3>4
    <3>6. Added(j, thread[x].event) BY <3>1
    <3> QED BY <3>2, <3>3, <3>5, <3>6, AddFinal
  <2>2. CASE AddFails(x)
    <3>1. \A y \in Threads : thread'[y].pc = "mark" => thread'[y] = thread[y]
      BY <2>2, <1>0, <2>0 DEF AddFails, ThreadRow
    <3> QED BY <3>1, <2>2, ServerFinal DEF AddFails, worker
  <2>3. CASE Mark(x) \/ Unavailable(x)
    <3>1. \A y \in Threads : thread'[y].pc = "mark" => thread'[y] = thread[y]
      BY <2>3, <2>0, Proceeds DEF Mark, Unavailable, Return
    <3>2. \A d \in Events : row'[d] = row[d] \/ row'[d].status \in {"pending", "retrying"}
      BY <2>3, <1>0 DEF Mark, Unavailable
    <3>3. \A d \in Events : row'[d].status \in Final => row[d].status = row'[d].status
      BY <3>2 DEF Final
    <3> QED BY <3>1, <3>3, <2>3, ServerFinal DEF Mark, Unavailable, worker
  <2>4. CASE Forget(x)
    <3>1. /\ thread[x].pc = "forget" /\ row' = row /\ asked' = asked /\ writes' = writes
          /\ thread' = [thread EXCEPT ![x] = At("over")]
      BY <2>4 DEF Forget, worker
    <3>2. x \in Adders(thread[x].event) /\ thread[x].event \in Events
      BY <3>1, <1>0 DEF Adders, Calling
    <3>3. \A y \in Threads : thread'[y].pc = "mark" => y # x /\ thread'[y] = thread[y]
      BY <3>1, <1>0 DEF At
    <3>4. CASE UNCHANGED jobs BY <3>1, <3>3, <3>4, ServerFinal
    <3>5. ASSUME NEW j \in Jobs, Added(j, thread[x].event) PROVE FinalInv'
      BY <3>1, <3>2, <3>3, <3>5, AddFinal
    <3> QED BY <2>4, <3>4, <3>5 DEF Forget
  <2>5. ~UnavailableFails(x) BY DEF UnavailableFails, Fault, Undisturbed
  <2> QED BY <1>6, <2>1, <2>2, <2>3, <2>4, <2>5 DEF Server
<1>7. ~(ServerCrash \/ WorkerCrash \/ Rejected)
  BY DEF ServerCrash, WorkerCrash, Rejected, Fault, Undisturbed
<1> QED
  BY <1>1, <1>2, <1>3, <1>4, <1>5, <1>6, <1>7, WorkerFinal, LandFinal DEF Next

\* What a step may do to a row that says 'delivered' or 'failed'.
OutcomeStays(e) ==
    \/ row'[e].status = row[e].status
    \/ row'[e].status = "pending" /\ EndsMarking(e)

LEMMA FinalStep ==
    ASSUME DeliveryInv, ClaimsInv, FinalInv, Undisturbed, [Next]_vars,
           NEW e \in Events, asked'[e] <= 1, row[e].status \in Final
    PROVE  OutcomeStays(e)
<1>0. /\ thread \in [Threads -> ThreadRow] /\ row \in [Events -> EventRow]
      /\ asked \in [Events -> Nat] /\ jobs \in [Jobs -> JobRow] /\ writes \subseteq WriteRow
      /\ \A x \in Threads : thread[x].pc \in Calling => thread[x].event \in Events
  BY DEF DeliveryInv, TypeOK, Served
<1>1. asked[e] <= 1
  <2>1. CASE asked' = asked BY <2>1
  <2>2. ASSUME NEW d \in Events, asked' = [asked EXCEPT ![d] = @ + 1] PROVE asked[e] <= 1
    BY <1>0, <2>2
  <2>3. asked' = asked \/ \E d \in Events : asked' = [asked EXCEPT ![d] = @ + 1]
    BY DEF Next, vars, Dispatch, Elapse, Retry, Sweep, Server, Add, AddFails, Mark, Unavailable,
           UnavailableFails, Forget, Worker, PickUp, Post, Report, Settle, Land, ServerCrash,
           WorkerCrash, Rejected, Dies, server
  <2> QED BY <2>1, <2>2, <2>3
<1>2. Concluded(e) BY <1>1 DEF FinalInv
<1>3. Adders(e) = {}
  <2>1. PICK j \in JobsOf(e) : TRUE BY <1>2 DEF Concluded
  <2> QED BY <2>1, <1>1, AskedOnce
<1>4. CASE row' = row BY <1>4 DEF OutcomeStays
<1>5. ASSUME NEW d \in Events, Dispatch(d) \/ Elapse(d) PROVE row'[e].status = row[e].status
  <2>1. CASE Dispatch(d)
    <3>1. row[d].status = "none" /\ row' = [row EXCEPT ![d].status = "pending"]
      BY <2>1 DEF Dispatch
    <3> QED BY <3>1, <1>0 DEF Final
  <2>2. CASE Elapse(d) BY <2>2, <1>0 DEF Elapse, EventRow
  <2> QED BY <1>5, <2>1, <2>2
<1>6. ASSUME NEW x \in Threads, Mark(x) \/ Unavailable(x) PROVE OutcomeStays(e)
  <2>1. CASE thread[x].event # e
    <3>1. row'[e] = row[e] BY <2>1, <1>0, <1>6 DEF Mark, Unavailable
    <3> QED BY <3>1 DEF OutcomeStays
  <2>2. CASE thread[x].event = e
    <3>1. Mark(x) BY <1>3, <1>6, <2>2 DEF Unavailable, Adders
    <3>2. thread[x].pc = "mark" /\ row'[e].status = "pending"
      BY <1>0, <2>2, <3>1 DEF Mark
    <3>3. thread'[x].pc # "mark"
      <4>1. thread[x].todo \in SUBSET Events BY <1>0 DEF ThreadRow
      <4>2. thread'[x].pc = "mark" => thread'[x] = thread[x]
        BY <3>1, <4>1, Proceeds DEF Mark, Return
      <4>3. Ended(x).pc # "mark" BY DEF Ended, At
      <4>4. \/ thread' = [thread EXCEPT ![x] = Ended(x)]
            \/ \E d \in thread[x].todo : thread' = [thread EXCEPT ![x] =
                  [pc |-> "add", event |-> d, job |-> None, todo |-> thread[x].todo \ {d}]]
        BY <3>1 DEF Mark, Return, Proceed
      <4> QED BY <1>0, <4>3, <4>4
    <3>4. thread[x].job \in JobsOf(e) BY <2>2, <3>2 DEF FinalInv, MarksOwn, JobsOf
    <3> QED BY <2>2, <3>2, <3>3, <3>4 DEF OutcomeStays, EndsMarking
  <2> QED BY <2>1, <2>2
<1>7. ASSUME NEW w \in writes, Land(w) PROVE row'[e] = row[e]
  <2>1. w.job \in Jobs BY <1>0 DEF WriteRow
  <2>2. w.kind = "row" => jobs[w.job].event # e
    BY <1>2, <2>1 DEF Concluded, JobsOf
  <2> QED BY <2>2, <1>0, <1>7 DEF Land
<1>8. \/ row' = row
      \/ \E d \in Events : Dispatch(d) \/ Elapse(d)
      \/ \E x \in Threads : Mark(x) \/ Unavailable(x)
      \/ \E w \in writes : Land(w)
  BY DEF Next, vars, Retry, Sweep, Server, Add, AddFails, UnavailableFails, Forget, Worker,
         PickUp, Post, Report, Settle, ServerCrash, WorkerCrash, Rejected, Dies, Threads
<1> QED BY <1>4, <1>5, <1>6, <1>7, <1>8 DEF OutcomeStays

\* With one sweep at a time, no UPDATE that rejects and no crash, the outcome of an
\* event that was asked for once is not taken back, but by the UPDATE of the call
\* that added its job, where the worker was faster.
THEOREM OutcomesStay == ASSUME Undisturbed PROVE Spec => FinalIsFinal
<1> DEFINE A == \A e \in Events : asked'[e] <= 1 /\ row[e].status \in Final =>
                   OutcomeStays(e)
<1>1. Init => ClaimsInv /\ FinalInv BY InitClaims, FinalFirst
<1>2. DeliveryInv /\ ClaimsInv /\ FinalInv /\ [Next]_vars => ClaimsInv' /\ FinalInv'
  BY NextClaims, NextFinal
<1>3. DeliveryInv /\ ClaimsInv /\ FinalInv /\ [Next]_vars => [A]_vars
  BY FinalStep
<1> QED BY <1>1, <1>2, <1>3, DeliveryInvariant, PTL DEF Spec, FinalIsFinal, OutcomeStays
=============================================================================
