------------------------------ MODULE Campaign ------------------------------
(***************************************************************************)
(* One bulk-message campaign under QUEUE_DRIVER=bullmq: the HTTP handlers  *)
(* that start, pause, cancel, patch and extend it (server.ts), the BullMQ  *)
(* jobs of the message.send queue, the message worker that sends them      *)
(* (src/workers/message.worker.ts), and the receipts WhatsApp returns.     *)
(* Every awaited database, Redis or bridge call is a step of its own, so   *)
(* handlers, worker and receipts interleave between any two of them.       *)
(***************************************************************************)
EXTENDS Naturals, Sequences, FiniteSets

CONSTANTS
    Recipients,    \* ids of campaign_recipients, ordered as in ORDER BY id
    Present,       \* the recipients inserted before the behaviour starts
    Instances,     \* the account's instances the campaign may send through
    Calls,         \* HTTP requests, each served once
    Requests,      \* Requests[c]: the operations request c may ask for
    Receipts,      \* receipt events from the bridge, each served once
    Jobs,          \* bound: job ids BullMQ hands out (Date.now() makes each new)
    Attempts,      \* job.opts.attempts
    Concurrency,   \* MESSAGE_WORKER_CONCURRENCY
    MaxCrashes,    \* bound: crashes of the worker; 1 is BullMQ's maxStalledCount
    Errors,        \* whether awaited calls of worker and handlers may fail
    None           \* no job

ASSUME CampaignAssumption ==
    /\ Recipients \subseteq Nat
    /\ Recipients # {} /\ Instances # {}
    /\ Present \subseteq Recipients
    /\ Requests \in [Calls -> SUBSET
          {"start", "senderStart", "pause", "cancel", "add", "senderAdd", "patch"}]
    /\ Attempts \in Nat \ {0}
    /\ Concurrency \in Nat \ {0}
    /\ MaxCrashes \in Nat
    /\ Errors \in BOOLEAN
    /\ None \notin Jobs

VARIABLES
    campaign,   \* the campaigns row: status, instance_id
    recip,      \* the campaign_recipients rows: status, job_id, message_id
    jobs,       \* the message.send jobs; early: history, see PickUp
    worker,     \* worker[i]: the sendMessage running on instance i's chain
    crashes,    \* how often the worker process died
    calls,      \* the HTTP requests in progress
    receipts,   \* the receipt events in progress
    sent,       \* the messages WhatsApp accepted, in order; index = message id
    late        \* late[i]: messages i sent since the campaign was stopped

vars == <<campaign, recip, jobs, worker, crashes, calls, receipts, sent, late>>

CampaignStatus == {"draft", "running", "paused", "cancelled", "completed"}
Stopped == {"paused", "cancelled"}
RecipStatus == {"none", "pending", "queued", "sent", "delivered", "read",
                "failed", "cancelled"}
Reached == {"sent", "delivered", "read"}
WorkerPc == {"idle", "traffic", "check", "drop", "send", "record", "recount", "catch"}
StartPc == {"startList", "startAdd", "startMark", "startEnd"}
CallPc == {"new", "over", "pauseList", "pauseRemove", "pauseMark", "pauseEnd",
           "cancelList", "cancelRemove", "cancelMark", "cancelEnd",
           "addInsert", "patchWrite"} \cup StartPc
ReceiptPc == {"new", "mark", "recount", "over"}
ReceiptKind == {"delivered", "read", "failed"}

CampaignRow == [status : CampaignStatus, instance : Instances]
RecipientRow == [status : RecipStatus, job : Jobs \cup {None}, msg : Nat]
JobRow == [state : {"free", "ready", "active", "over"},
           recip : Recipients, inst : Instances, made : Nat, early : BOOLEAN]
WorkerRow == [pc : WorkerPc, job : Jobs \cup {None}, msg : Nat,
              err : {"", "error", "paused"}]
CallRow == [pc : CallPc, inst : Instances, todo : SUBSET Recipients,
            job : [Recipients -> Jobs \cup {None}]]
ReceiptRow == [pc : ReceiptPc, recip : Recipients, kind : ReceiptKind]

TypeOK ==
    /\ campaign \in CampaignRow
    /\ recip \in [Recipients -> RecipientRow]
    /\ jobs \in [Jobs -> JobRow]
    /\ worker \in [Instances -> WorkerRow]
    /\ crashes \in Nat
    /\ calls \in [Calls -> CallRow]
    /\ receipts \in [Receipts -> ReceiptRow]
    /\ sent \in Seq([recip : Recipients, job : Jobs])
    /\ late \in [Instances -> Nat]

NobodyLate == [i \in Instances |-> 0]
Idle == [pc |-> "idle", job |-> None, msg |-> 0, err |-> ""]
AnyRecipient == CHOOSE r \in Recipients : TRUE
AnyInstance == CHOOSE i \in Instances : TRUE
Request(l) == [pc |-> l, inst |-> AnyInstance, todo |-> {},
               job |-> [r \in Recipients |-> None]]
Receipt(l) == [pc |-> l, recip |-> AnyRecipient, kind |-> "read"]

Init ==
    /\ campaign = [status |-> "draft", instance |-> AnyInstance]
    /\ recip = [r \in Recipients |->
         [status |-> IF r \in Present THEN "pending" ELSE "none",
          job |-> None, msg |-> 0]]
    /\ jobs = [j \in Jobs |-> [state |-> "free", recip |-> AnyRecipient,
                               inst |-> AnyInstance, made |-> 0, early |-> FALSE]]
    /\ worker = [i \in Instances |-> Idle]
    /\ crashes = 0
    /\ calls = [c \in Calls |-> Request("new")]
    /\ receipts = [e \in Receipts |-> Receipt("new")]
    /\ sent = <<>>
    /\ late = NobodyLate

-----------------------------------------------------------------------------
\* UPDATE campaigns SET status = s.  `late` counts from the last stop.
SetStatus(s) ==
    /\ campaign' = [campaign EXCEPT !.status = s]
    /\ late' = IF s \in Stopped /\ campaign.status \in Stopped
               THEN late ELSE NobodyLate

\* Mutant: the recount updates the counters alone.
NeverCompleted == campaign.status

\* CASE WHEN NOT EXISTS (pending or queued recipient) THEN 'completed'
Recounted ==
    IF \E r \in Recipients : recip[r].status \in {"pending", "queued"}
    THEN campaign.status
    ELSE "completed"

WithStatus(S) == {r \in Recipients : recip[r].status \in S}
IsFirst(r, S) == r \in S /\ \A q \in S : r <= q

At(c, l) == calls[c].pc = l
Goto(c, l) == calls' = [calls EXCEPT ![c].pc = l]
Return(c) == calls' = [calls EXCEPT ![c] = Request("over")]

-----------------------------------------------------------------------------
\* POST /api/campaigns/:id/start refuses a cancelled campaign; the compatible
\* POST /sender/:id/start enqueues whatever it finds.
MayStart(op) == op = "senderStart" \/ campaign.status # "cancelled"

StartRead(c, op) ==
    /\ op \in {"start", "senderStart"}
    /\ At(c, "new")
    /\ IF MayStart(op)
       THEN calls' = [calls EXCEPT ![c].pc = "startList",
                                   ![c].inst = campaign.instance]
       ELSE Return(c)
    /\ UNCHANGED <<campaign, recip, jobs, worker, crashes, receipts, sent, late>>

Startable == {"pending", "queued", "failed"}

StartList(c) ==
    /\ At(c, "startList")
    /\ calls' = [calls EXCEPT
         ![c].todo = WithStatus(Startable),
         ![c].pc = IF WithStatus(Startable) = {} THEN "startEnd" ELSE "startAdd"]
    /\ UNCHANGED <<campaign, recip, jobs, worker, crashes, receipts, sent, late>>

\* messageSendQueue.add: the job exists before its recipient says 'queued'.
StartAdd(c) ==
    /\ At(c, "startAdd")
    /\ \E r \in calls[c].todo, j \in Jobs :
         /\ IsFirst(r, calls[c].todo)
         /\ jobs[j].state = "free"
         /\ jobs' = [jobs EXCEPT ![j] =
              [state |-> "ready", recip |-> r, inst |-> calls[c].inst, made |-> 0,
               early |-> FALSE]]
         /\ calls' = [calls EXCEPT ![c].pc = "startMark", ![c].job[r] = j]
    /\ UNCHANGED <<campaign, recip, worker, crashes, receipts, sent, late>>

StartMark(c) ==
    /\ At(c, "startMark")
    /\ \E r \in calls[c].todo :
         /\ IsFirst(r, calls[c].todo)
         /\ recip' = [recip EXCEPT ![r].status = "queued",
                                   ![r].job = calls[c].job[r]]
         /\ calls' = [calls EXCEPT
              ![c].todo = @ \ {r},
              ![c].pc = IF calls[c].todo = {r} THEN "startEnd" ELSE "startAdd"]
    /\ UNCHANGED <<campaign, jobs, worker, crashes, receipts, sent, late>>

StartEnd(c) ==
    /\ At(c, "startEnd")
    /\ SetStatus("running")
    /\ Return(c)
    /\ UNCHANGED <<recip, jobs, worker, crashes, receipts, sent>>

-----------------------------------------------------------------------------
\* Pause and cancel read no status: any campaign can be paused or cancelled.
PauseList(c) ==
    LET queued == WithStatus({"queued"}) IN
    /\ At(c, "pauseList")
    /\ calls' = [calls EXCEPT
         ![c].todo = queued,
         ![c].job = [r \in Recipients |-> recip[r].job],
         ![c].pc = IF queued = {} THEN "pauseEnd" ELSE "pauseRemove"]
    /\ UNCHANGED <<campaign, recip, jobs, worker, crashes, receipts, sent, late>>

\* job.remove() rejects when a worker holds the job; the code ignores that.
Remove(j) ==
    jobs' = IF j \in Jobs /\ jobs[j].state = "ready"
            THEN [jobs EXCEPT ![j].state = "over"] ELSE jobs

PauseRemove(c) ==
    /\ At(c, "pauseRemove")
    /\ \E r \in calls[c].todo :
         /\ IsFirst(r, calls[c].todo)
         /\ Remove(calls[c].job[r])
    /\ Goto(c, "pauseMark")
    /\ UNCHANGED <<campaign, recip, worker, crashes, receipts, sent, late>>

PauseMark(c) ==
    /\ At(c, "pauseMark")
    /\ \E r \in calls[c].todo :
         /\ IsFirst(r, calls[c].todo)
         /\ recip' = [recip EXCEPT ![r].status = "pending", ![r].job = None]
         /\ calls' = [calls EXCEPT
              ![c].todo = @ \ {r},
              ![c].pc = IF calls[c].todo = {r} THEN "pauseEnd" ELSE "pauseRemove"]
    /\ UNCHANGED <<campaign, jobs, worker, crashes, receipts, sent, late>>

PauseEnd(c) ==
    /\ At(c, "pauseEnd")
    /\ SetStatus("paused")
    /\ Return(c)
    /\ UNCHANGED <<recip, jobs, worker, crashes, receipts, sent>>

CancelList(c) ==
    LET open == WithStatus({"pending", "queued"}) IN
    /\ At(c, "cancelList")
    /\ calls' = [calls EXCEPT
         ![c].todo = open,
         ![c].job = [r \in Recipients |-> recip[r].job],
         ![c].pc = IF open = {} THEN "cancelMark" ELSE "cancelRemove"]
    /\ UNCHANGED <<campaign, recip, jobs, worker, crashes, receipts, sent, late>>

CancelRemove(c) ==
    /\ At(c, "cancelRemove")
    /\ \E r \in calls[c].todo :
         /\ IsFirst(r, calls[c].todo)
         /\ Remove(calls[c].job[r])
         /\ calls' = [calls EXCEPT
              ![c].todo = @ \ {r},
              ![c].pc = IF calls[c].todo = {r} THEN "cancelMark" ELSE @]
    /\ UNCHANGED <<campaign, recip, worker, crashes, receipts, sent, late>>

CancelMark(c) ==
    /\ At(c, "cancelMark")
    /\ recip' = [r \in Recipients |->
         IF recip[r].status \in {"pending", "queued"}
         THEN [recip[r] EXCEPT !.status = "cancelled"] ELSE recip[r]]
    /\ Goto(c, "cancelEnd")
    /\ UNCHANGED <<campaign, jobs, worker, crashes, receipts, sent, late>>

CancelEnd(c) ==
    /\ At(c, "cancelEnd")
    /\ SetStatus("cancelled")
    /\ Return(c)
    /\ UNCHANGED <<recip, jobs, worker, crashes, receipts, sent>>

-----------------------------------------------------------------------------
\* POST /api/campaigns/:id/recipients and PATCH /api/campaigns/:id read the
\* status first and write later; POST /sender/:id/recipients does not look.
Editable == campaign.status \in {"draft", "paused"}

Open(c, op) ==
    /\ op \notin {"start", "senderStart"}
    /\ At(c, "new")
    /\ Goto(c, CASE op = "pause" -> "pauseList"
                 [] op = "cancel" -> "cancelList"
                 [] op = "senderAdd" -> "addInsert"
                 [] op = "add" -> IF Editable THEN "addInsert" ELSE "over"
                 [] op = "patch" -> IF Editable THEN "patchWrite" ELSE "over")
    /\ UNCHANGED <<campaign, recip, jobs, worker, crashes, receipts, sent, late>>

AddInsert(c) ==
    /\ At(c, "addInsert")
    /\ \E r \in WithStatus({"none"}) :
         recip' = [recip EXCEPT ![r].status = "pending"]
    /\ Return(c)
    /\ UNCHANGED <<campaign, jobs, worker, crashes, receipts, sent, late>>

PatchWrite(c) ==
    /\ At(c, "patchWrite")
    /\ \E i \in Instances : campaign' = [campaign EXCEPT !.instance = i]
    /\ Return(c)
    /\ UNCHANGED <<recip, jobs, worker, crashes, receipts, sent, late>>

\* An awaited call of the handler rejects, or the server restarts: the
\* request is answered with an error and what it wrote stays.
Abort(c) ==
    /\ Errors
    /\ calls[c].pc \notin {"new", "over"}
    /\ Return(c)
    /\ UNCHANGED <<campaign, recip, jobs, worker, crashes, receipts, sent, late>>

Handler(c) ==
    \/ StartList(c) \/ StartAdd(c) \/ StartMark(c) \/ StartEnd(c)
    \/ PauseList(c) \/ PauseRemove(c) \/ PauseMark(c) \/ PauseEnd(c)
    \/ CancelList(c) \/ CancelRemove(c) \/ CancelMark(c) \/ CancelEnd(c)
    \/ AddInsert(c) \/ PatchWrite(c)

Arrive(c) == \E op \in Requests[c] : StartRead(c, op) \/ Open(c, op)

-----------------------------------------------------------------------------
\* A start request is under way: it adds jobs, marks rows or will write 'running'.
Starting == \E c \in Calls : calls[c].pc \in StartPc

\* BullMQ gives the worker a job; it waits its turn on the instance's chain.
\* The job is early if its delay did not outlast the start request.
PickUp(j) ==
    /\ jobs[j].state = "ready"
    /\ Cardinality({k \in Jobs : jobs[k].state = "active"}) < Concurrency
    /\ jobs' = [jobs EXCEPT ![j].state = "active", ![j].early = @ \/ Starting]
    /\ UNCHANGED <<campaign, recip, worker, crashes, calls, receipts, sent, late>>

\* sendMessagePerInstance: one sendMessage per instance at a time.
Enter(j) ==
    LET i == jobs[j].inst IN
    /\ jobs[j].state = "active"
    /\ worker[i].pc = "idle"
    /\ worker' = [worker EXCEPT ![i] = [Idle EXCEPT !.pc = "traffic", !.job = j]]
    /\ UNCHANGED <<campaign, recip, jobs, crashes, calls, receipts, sent, late>>

Recipient(i) == jobs[worker[i].job].recip
Step(i, l) == worker' = [worker EXCEPT ![i].pc = l]
Throw(i, e) == worker' = [worker EXCEPT ![i].pc = "catch", ![i].err = e]

\* enforceTrafficControl lets the message through, or throws.
Admit(i) ==
    /\ worker[i].pc = "traffic"
    /\ Step(i, "check") \/ Throw(i, "error")
    /\ UNCHANGED <<campaign, recip, jobs, crashes, calls, receipts, sent, late>>

\* Mutant: the worker looks for 'cancelled' only.
CheckCancelledOnly(i) ==
    /\ worker[i].pc = "check"
    /\ IF campaign.status = "cancelled" THEN Step(i, "drop") ELSE Step(i, "send")
    /\ UNCHANGED <<campaign, recip, jobs, crashes, calls, receipts, sent, late>>

CheckStatus(i) ==
    /\ worker[i].pc = "check"
    /\ CASE campaign.status = "cancelled" -> Step(i, "drop")
         [] campaign.status = "paused" -> Throw(i, "paused")
         [] OTHER -> Step(i, "send")
    /\ UNCHANGED <<campaign, recip, jobs, crashes, calls, receipts, sent, late>>

\* The handler returns or throws: the chain is released, BullMQ settles the job.
Settle(i, state, made) ==
    /\ jobs' = [jobs EXCEPT ![worker[i].job].state = state,
                            ![worker[i].job].made = made]
    /\ worker' = [worker EXCEPT ![i] = Idle]

\* Mutant: the job of a cancelled campaign ends without its UPDATE.
DropSilently(i) ==
    /\ worker[i].pc = "drop"
    /\ Settle(i, "over", jobs[worker[i].job].made)
    /\ UNCHANGED <<campaign, recip, crashes, calls, receipts, sent, late>>

Drop(i) ==
    /\ worker[i].pc = "drop"
    /\ recip' = [recip EXCEPT ![Recipient(i)].status = "cancelled"]
    /\ Settle(i, "over", jobs[worker[i].job].made)
    /\ UNCHANGED <<campaign, crashes, calls, receipts, sent, late>>

Send(i) ==
    /\ worker[i].pc = "send"
    /\ sent' = Append(sent, [recip |-> Recipient(i), job |-> worker[i].job])
    /\ worker' = [worker EXCEPT ![i].pc = "record", ![i].msg = Len(sent) + 1]
    /\ late' = IF campaign.status \in Stopped
               THEN [late EXCEPT ![i] = @ + 1] ELSE late
    /\ UNCHANGED <<campaign, recip, jobs, crashes, calls, receipts>>

\* The bridge refuses the message.
SendRefused(i) ==
    /\ worker[i].pc = "send"
    /\ Throw(i, "error")
    /\ UNCHANGED <<campaign, recip, jobs, crashes, calls, receipts, sent, late>>

\* Mutant: the row is found by its status, the first one queued, not by its id.
RecordFirstQueued(i) ==
    LET queued == WithStatus({"queued"}) IN
    /\ worker[i].pc = "record"
    /\ \E r \in Recipients :
         /\ IF queued = {} THEN r = Recipient(i) ELSE IsFirst(r, queued)
         /\ recip' = [recip EXCEPT ![r].status = "sent", ![r].msg = worker[i].msg]
    /\ Step(i, "recount")
    /\ UNCHANGED <<campaign, jobs, crashes, calls, receipts, sent, late>>

Record(i) ==
    /\ worker[i].pc = "record"
    /\ recip' = [recip EXCEPT ![Recipient(i)].status = "sent",
                              ![Recipient(i)].msg = worker[i].msg]
    /\ Step(i, "recount")
    /\ UNCHANGED <<campaign, jobs, crashes, calls, receipts, sent, late>>

\* Mutant: the webhook event is awaited inside the try block, and may throw.
RecountThenThrow(i) ==
    /\ worker[i].pc = "recount"
    /\ SetStatus(Recounted)
    /\ \/ Settle(i, "over", jobs[worker[i].job].made)
       \/ Throw(i, "error") /\ UNCHANGED jobs
    /\ UNCHANGED <<recip, crashes, calls, receipts, sent>>

Recount(i) ==
    /\ worker[i].pc = "recount"
    /\ SetStatus(Recounted)
    /\ Settle(i, "over", jobs[worker[i].job].made)
    /\ UNCHANGED <<recip, crashes, calls, receipts, sent>>

\* The answer of the bridge is lost ("record"), or a database call rejects.
AwaitFails(i) ==
    /\ Errors
    /\ worker[i].pc \in {"check", "drop", "record", "recount"}
    /\ Throw(i, "error")
    /\ UNCHANGED <<campaign, recip, jobs, crashes, calls, receipts, sent, late>>

\* Mutant: attemptsMade is taken to count the running attempt.
IsFinalLate(i) == jobs[worker[i].job].made >= Attempts

IsFinal(i) == jobs[worker[i].job].made + 1 >= Attempts

Retry(i) ==
    /\ worker[i].pc = "catch"
    /\ ~IsFinal(i)
    /\ Settle(i, "ready", jobs[worker[i].job].made + 1)
    /\ UNCHANGED <<campaign, recip, crashes, calls, receipts, sent, late>>

\* The last attempt marks the recipient, unless the campaign was paused or
\* the marking itself rejects; it never looks whether the campaign is done.
Fail(i) ==
    /\ worker[i].pc = "catch"
    /\ IsFinal(i)
    /\ \/ /\ worker[i].err = "error"
          /\ recip' = [recip EXCEPT ![Recipient(i)].status = "failed"]
       \/ /\ worker[i].err = "paused" \/ Errors
          /\ UNCHANGED recip
    /\ Settle(i, "over", jobs[worker[i].job].made)
    /\ UNCHANGED <<campaign, crashes, calls, receipts, sent, late>>

\* The worker process dies; BullMQ finds its jobs stalled and runs them again.
Crash ==
    /\ crashes < MaxCrashes
    /\ crashes' = crashes + 1
    /\ worker' = [i \in Instances |-> Idle]
    /\ jobs' = [j \in Jobs |-> IF jobs[j].state = "active"
                               THEN [jobs[j] EXCEPT !.state = "ready"] ELSE jobs[j]]
    /\ UNCHANGED <<campaign, recip, calls, receipts, sent, late>>

Work(i) ==
    \/ Admit(i) \/ CheckStatus(i) \/ Drop(i) \/ Send(i) \/ SendRefused(i)
    \/ Record(i) \/ Recount(i) \/ AwaitFails(i) \/ Retry(i) \/ Fail(i)

-----------------------------------------------------------------------------
\* A receipt names a message; the recipient is found by the message id stored.
ReceiptFind(e) ==
    /\ receipts[e].pc = "new"
    /\ \E m \in 1 .. Len(sent), k \in ReceiptKind :
         \/ \E r \in Recipients :
              /\ recip[r].msg = m
              /\ receipts' = [receipts EXCEPT ![e] =
                   [pc |-> "mark", recip |-> r, kind |-> k]]
         \/ /\ \A r \in Recipients : recip[r].msg # m
            /\ receipts' = [receipts EXCEPT ![e] = Receipt("over")]
    /\ UNCHANGED <<campaign, recip, jobs, worker, crashes, calls, sent, late>>

Receipted(old, kind) ==
    IF kind = "delivered" /\ old = "read" THEN "read" ELSE kind

ReceiptMark(e) ==
    LET r == receipts[e].recip IN
    /\ receipts[e].pc = "mark"
    /\ recip' = [recip EXCEPT ![r].status = Receipted(@, receipts[e].kind)]
    /\ receipts' = [receipts EXCEPT ![e].pc = "recount"]
    /\ UNCHANGED <<campaign, jobs, worker, crashes, calls, sent, late>>

ReceiptRecount(e) ==
    /\ receipts[e].pc = "recount"
    /\ SetStatus(Recounted)
    /\ receipts' = [receipts EXCEPT ![e] = Receipt("over")]
    /\ UNCHANGED <<recip, jobs, worker, crashes, calls, sent>>

Receive(e) == ReceiptFind(e) \/ ReceiptMark(e) \/ ReceiptRecount(e)

-----------------------------------------------------------------------------
Next ==
    \/ \E c \in Calls : Arrive(c) \/ Handler(c) \/ Abort(c)
    \/ \E j \in Jobs : PickUp(j) \/ Enter(j)
    \/ \E i \in Instances : Work(i)
    \/ \E e \in Receipts : Receive(e)
    \/ Crash

Spec == Init /\ [][Next]_vars

\* Node's event loop keeps running handlers and receipts, and BullMQ keeps
\* handing jobs to the worker.  Requests, failures and crashes owe nothing.
Fairness ==
    /\ \A c \in Calls : WF_vars(Handler(c))
    /\ \A j \in Jobs : WF_vars(PickUp(j)) /\ WF_vars(Enter(j))
    /\ \A i \in Instances : WF_vars(Work(i))
    /\ \A e \in Receipts : WF_vars(ReceiptMark(e) \/ ReceiptRecount(e))

FairSpec == Spec /\ Fairness

-----------------------------------------------------------------------------
\* Pausing or cancelling is not retroactive, but almost: while the campaign
\* stays stopped each instance sends at most one more message, the one whose
\* status check (message.worker.ts:197) came before the stop.
AtMostOneLateSend == \A i \in Instances : late[i] <= 1

\* The same promise without the history variable: the campaign implements
\* the gate, with the instances between status check and send admitted.
Gate == INSTANCE SendGate WITH
            open <- campaign.status \notin Stopped,
            admitted <- {i \in Instances : worker[i].pc = "send"},
            emitted <- Len(sent)

ImplementsGate == Gate!Spec

\* What the report endpoint shows as sent, delivered or read was accepted by
\* WhatsApp for this very recipient: requeues, pauses, retries and receipts
\* of an older message never attach one recipient's message to another.
ReportsAreTrue ==
    \A r \in Recipients :
        /\ recip[r].msg # 0 => /\ recip[r].msg \in 1 .. Len(sent)
                               /\ sent[recip[r].msg].recip = r
        /\ recip[r].status \in Reached => recip[r].msg # 0

\* A retry may repeat a message WhatsApp already accepted; one job repeats it
\* no more often than it may be attempted, and once more for each crash.
SendsOf(j) == Cardinality({m \in DOMAIN sent : sent[m].job = j})
RetriesBoundSends == \A j \in Jobs : SendsOf(j) <= Attempts + crashes

\* A campaign started once sends each recipient one message at most, however
\* pauses and cancellations interleave with the worker, if no call fails.
AtMostOnce ==
    \A r \in Recipients :
        Cardinality({m \in DOMAIN sent : sent[m].recip = r}) <= 1

\* When all work is over and the campaign still says 'running', a recipient
\* shows why: its last attempt failed (the catch branch completes nothing), it
\* is back to 'pending' with nobody to enqueue it, or a cancellation overlapped
\* the start.  Otherwise a job's delay did not outlast the start request, which
\* wrote over what the worker had written: 'queued' over the outcome of the very
\* recipient whose job it was, or 'running' over the 'completed' of the last job.
Quiescent ==
    /\ \A c \in Calls : calls[c].pc \in {"new", "over"}
    /\ \A j \in Jobs : jobs[j].state \in {"free", "over"}
    /\ \A e \in Receipts : receipts[e].pc \in {"new", "over"}
StuckHasReason ==
    Quiescent /\ campaign.status = "running" =>
        \/ WithStatus({"failed", "pending", "cancelled"}) # {}
        \/ \E r \in WithStatus({"queued"}) : jobs[recip[r].job].early
        \/ \A j \in Jobs : jobs[j].state = "over" => jobs[j].early

\* A campaign that stays cancelled leaves no recipient queued, even when the
\* request that started it was still enqueueing as the cancellation ran, but for
\* those that were marked 'queued' after their job had been handed out.
CancelDrains ==
    <>[](campaign.status = "cancelled") =>
        <>[](\A r \in WithStatus({"queued"}) : jobs[recip[r].job].early)

\* What the 409 of the start endpoint (server.ts:7187) says: a cancelled
\* campaign does not run again.
CancelledStaysStopped ==
    [][campaign.status = "cancelled" => campaign'.status # "running"]_vars
=============================================================================
