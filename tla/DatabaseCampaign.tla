-------------------------- MODULE DatabaseCampaign --------------------------
(***************************************************************************)
(* One campaign under QUEUE_DRIVER=database: no queue and no worker, but a *)
(* poll of the server itself that takes one queued recipient each second   *)
(* (processDatabaseCampaignQueue).  Requests, poll and receipts live in    *)
(* one Node process and interleave at every await; a restart of the server *)
(* loses them all and keeps the rows.                                      *)
(***************************************************************************)
EXTENDS Naturals, Sequences, FiniteSets

CONSTANTS
    Recipients,   \* ids of campaign_recipients, ordered as in ORDER BY id
    Present,      \* the recipients inserted before the behaviour starts
    Calls,        \* HTTP requests, each served once
    Requests,     \* Requests[c]: the operations request c may ask for
    Receipts,     \* receipt events from the bridge, each served once
    Errors,       \* whether awaited calls may fail
    MaxCrashes    \* bound: restarts of the server

ASSUME DatabaseCampaignAssumption ==
    /\ Recipients \subseteq Nat
    /\ Recipients # {}
    /\ Present \subseteq Recipients
    /\ Requests \in [Calls -> SUBSET
          {"start", "senderStart", "pause", "cancel", "add", "senderAdd"}]
    /\ Errors \in BOOLEAN
    /\ MaxCrashes \in Nat

VARIABLES
    campaign,   \* campaigns.status
    recip,      \* the campaign_recipients rows: status, message_id
    calls,      \* the HTTP requests in progress
    poll,       \* the running processDatabaseCampaignQueue
    receipts,   \* the receipt events in progress
    sent,       \* the recipients of the messages WhatsApp accepted; index = id
    marks,      \* marks[r]: how often a start request has queued r
    crashes     \* how often the server restarted

vars == <<campaign, recip, calls, poll, receipts, sent, marks, crashes>>

CampaignStatus == {"draft", "running", "paused", "cancelled", "completed"}
Stopped == {"paused", "cancelled"}
RecipStatus == {"none", "pending", "queued", "processing", "sent", "delivered",
                "read", "failed", "cancelled"}
Reached == {"sent", "delivered", "read"}

RecipientRow == [status : RecipStatus, msg : Nat]
CallRow == [pc : {"new", "startList", "startMark", "startEnd", "pauseList",
                  "pauseMark", "pauseEnd", "cancelMark", "cancelEnd",
                  "addInsert", "over"},
            todo : SUBSET Recipients]
PollRow == [pc : {"idle", "claim", "send", "record", "fail", "recount"},
            recip : Recipients, msg : Nat]
ReceiptKind == {"delivered", "read", "failed"}
ReceiptRow == [pc : {"new", "mark", "recount", "over"},
               recip : Recipients, kind : ReceiptKind]

TypeOK ==
    /\ campaign \in CampaignStatus
    /\ recip \in [Recipients -> RecipientRow]
    /\ calls \in [Calls -> CallRow]
    /\ poll \in PollRow
    /\ receipts \in [Receipts -> ReceiptRow]
    /\ sent \in Seq(Recipients)
    /\ marks \in [Recipients -> Nat]
    /\ crashes \in Nat

AnyRecipient == CHOOSE r \in Recipients : TRUE
Request(l) == [pc |-> l, todo |-> {}]
Receipt(l) == [pc |-> l, recip |-> AnyRecipient, kind |-> "read"]
\* databaseCampaignBusy is FALSE.
NoTick == [pc |-> "idle", recip |-> AnyRecipient, msg |-> 0]

Init ==
    /\ campaign = "draft"
    /\ recip = [r \in Recipients |->
         [status |-> IF r \in Present THEN "pending" ELSE "none", msg |-> 0]]
    /\ calls = [c \in Calls |-> Request("new")]
    /\ poll = NoTick
    /\ receipts = [e \in Receipts |-> Receipt("new")]
    /\ sent = <<>>
    /\ marks = [r \in Recipients |-> 0]
    /\ crashes = 0

-----------------------------------------------------------------------------
WithStatus(S) == {r \in Recipients : recip[r].status \in S}
IsFirst(r, S) == r \in S /\ \A q \in S : r <= q
SetRecipient(r, s) == recip' = [recip EXCEPT ![r].status = s]

CallAt(c, l) == calls[c].pc = l
Goto(c, l) == calls' = [calls EXCEPT ![c].pc = l]
Return(c) == calls' = [calls EXCEPT ![c] = Request("over")]

\* A handler's loop over the rows it listed: its next row, and where it goes.
EachListed(c, r, body, after) ==
    /\ CallAt(c, body)
    /\ IsFirst(r, calls[c].todo)
    /\ calls' = [calls EXCEPT ![c].todo = @ \ {r},
                              ![c].pc = IF calls[c].todo = {r} THEN after ELSE @]
ListRows(c, S, body, after) ==
    calls' = [calls EXCEPT ![c].todo = S, ![c].pc = IF S = {} THEN after ELSE body]

-----------------------------------------------------------------------------
\* The first read of each handler.  The panel refuses to start a cancelled
\* campaign and to extend one that runs; the compatible API does neither.
Editable == campaign \in {"draft", "paused"}

Arrive(c) ==
    /\ CallAt(c, "new")
    /\ \E op \in Requests[c] :
         Goto(c, CASE op = "senderStart" -> "startList"
                   [] op = "start" -> IF campaign = "cancelled" THEN "over" ELSE "startList"
                   [] op = "pause" -> "pauseList"
                   [] op = "cancel" -> "cancelMark"
                   [] op = "senderAdd" -> "addInsert"
                   [] op = "add" -> IF Editable THEN "addInsert" ELSE "over")
    /\ UNCHANGED <<campaign, recip, poll, receipts, sent, marks, crashes>>

StartList(c) ==
    /\ CallAt(c, "startList")
    /\ ListRows(c, WithStatus({"pending", "queued", "failed"}), "startMark", "startEnd")
    /\ UNCHANGED <<campaign, recip, poll, receipts, sent, marks, crashes>>

\* The UPDATE names the row only: whatever became of it, it is queued again.
StartMark(c) ==
    /\ \E r \in calls[c].todo :
         /\ EachListed(c, r, "startMark", "startEnd")
         /\ SetRecipient(r, "queued")
         /\ marks' = [marks EXCEPT ![r] = @ + 1]
    /\ UNCHANGED <<campaign, poll, receipts, sent, crashes>>

StartEnd(c) ==
    /\ CallAt(c, "startEnd")
    /\ campaign' = "running"
    /\ Return(c)
    /\ UNCHANGED <<recip, poll, receipts, sent, marks, crashes>>

PauseList(c) ==
    /\ CallAt(c, "pauseList")
    /\ ListRows(c, WithStatus({"queued"}), "pauseMark", "pauseEnd")
    /\ UNCHANGED <<campaign, recip, poll, receipts, sent, marks, crashes>>

PauseMark(c) ==
    /\ \E r \in calls[c].todo :
         /\ EachListed(c, r, "pauseMark", "pauseEnd")
         /\ SetRecipient(r, "pending")
    /\ UNCHANGED <<campaign, poll, receipts, sent, marks, crashes>>

PauseEnd(c) ==
    /\ CallAt(c, "pauseEnd")
    /\ campaign' = "paused"
    /\ Return(c)
    /\ UNCHANGED <<recip, poll, receipts, sent, marks, crashes>>

CancelMark(c) ==
    /\ CallAt(c, "cancelMark")
    /\ recip' = [r \in Recipients |->
         IF recip[r].status \in {"pending", "queued"}
         THEN [recip[r] EXCEPT !.status = "cancelled"] ELSE recip[r]]
    /\ Goto(c, "cancelEnd")
    /\ UNCHANGED <<campaign, poll, receipts, sent, marks, crashes>>

CancelEnd(c) ==
    /\ CallAt(c, "cancelEnd")
    /\ campaign' = "cancelled"
    /\ Return(c)
    /\ UNCHANGED <<recip, poll, receipts, sent, marks, crashes>>

AddInsert(c) ==
    /\ CallAt(c, "addInsert")
    /\ \E r \in WithStatus({"none"}) : SetRecipient(r, "pending")
    /\ Return(c)
    /\ UNCHANGED <<campaign, poll, receipts, sent, marks, crashes>>

\* An awaited call of the handler rejects: what it wrote stays.
Abort(c) ==
    /\ Errors
    /\ calls[c].pc \notin {"new", "over"}
    /\ Return(c)
    /\ UNCHANGED <<campaign, recip, poll, receipts, sent, marks, crashes>>

Handler(c) ==
    \/ StartList(c) \/ StartMark(c) \/ StartEnd(c)
    \/ PauseList(c) \/ PauseMark(c) \/ PauseEnd(c)
    \/ CancelMark(c) \/ CancelEnd(c) \/ AddInsert(c)

-----------------------------------------------------------------------------
PollAt(l) == poll.pc = l
PollGoto(l) == poll' = [poll EXCEPT !.pc = l]

\* Mutant: the SELECT forgets the campaign's status.
PollAnyCampaign ==
    /\ PollAt("idle")
    /\ \E r \in WithStatus({"queued"}) :
         poll' = [pc |-> "claim", recip |-> r, msg |-> 0]
    /\ UNCHANGED <<campaign, recip, calls, receipts, sent, marks, crashes>>

\* The tick finds the campaign running and a queued recipient whose time has
\* come.  Which one that is depends on clocks: any of them.
Poll ==
    /\ PollAt("idle")
    /\ campaign = "running"
    /\ \E r \in WithStatus({"queued"}) :
         poll' = [pc |-> "claim", recip |-> r, msg |-> 0]
    /\ UNCHANGED <<campaign, recip, calls, receipts, sent, marks, crashes>>

\* Mutant: the recipient stays queued until its message is recorded.
ClaimNothing ==
    /\ PollAt("claim")
    /\ PollGoto("send")
    /\ UNCHANGED <<campaign, recip, calls, receipts, sent, marks, crashes>>

\* The conditional UPDATE may find the row changed; nobody looks at that.
Claim ==
    LET r == poll.recip IN
    /\ PollAt("claim")
    /\ recip' = IF recip[r].status = "queued"
                THEN [recip EXCEPT ![r].status = "processing"] ELSE recip
    /\ PollGoto("send")
    /\ UNCHANGED <<campaign, calls, receipts, sent, marks, crashes>>

Send ==
    /\ PollAt("send")
    /\ sent' = Append(sent, poll.recip)
    /\ \/ poll' = [poll EXCEPT !.pc = "record", !.msg = Len(sent) + 1]
       \/ Errors /\ PollGoto("fail")         \* the answer of the bridge is lost
    /\ UNCHANGED <<campaign, recip, calls, receipts, marks, crashes>>

SendRefused ==
    /\ PollAt("send")
    /\ PollGoto("fail")
    /\ UNCHANGED <<campaign, recip, calls, receipts, sent, marks, crashes>>

Record ==
    /\ PollAt("record")
    /\ recip' = [recip EXCEPT ![poll.recip].status = "sent",
                              ![poll.recip].msg = poll.msg]
    /\ PollGoto("recount")
    /\ UNCHANGED <<campaign, calls, receipts, sent, marks, crashes>>

\* The UPDATE of a sent message rejects inside the try block.
RecordFails ==
    /\ Errors
    /\ PollAt("record")
    /\ PollGoto("fail")
    /\ UNCHANGED <<campaign, recip, calls, receipts, sent, marks, crashes>>

Fail ==
    /\ PollAt("fail")
    /\ SetRecipient(poll.recip, "failed")
    /\ PollGoto("recount")
    /\ UNCHANGED <<campaign, calls, receipts, sent, marks, crashes>>

\* Mutant: the recount waits for pending and processing recipients alone.
RecountedEarly(S) ==
    IF WithStatus(S \ {"queued"}) = {} THEN "completed" ELSE campaign

\* CASE WHEN NOT EXISTS (a recipient with one of these statuses)
Recounted(S) == IF WithStatus(S) = {} THEN "completed" ELSE campaign

Recount ==
    /\ PollAt("recount")
    /\ campaign' = Recounted({"pending", "queued", "processing"})
    /\ poll' = NoTick
    /\ UNCHANGED <<recip, calls, receipts, sent, marks, crashes>>

\* Outside the inner try block a rejected UPDATE ends the tick; `finally`
\* clears databaseCampaignBusy and the row stays as it is.
TickFails ==
    /\ Errors
    /\ poll.pc \in {"claim", "fail", "recount"}
    /\ poll' = NoTick
    /\ UNCHANGED <<campaign, recip, calls, receipts, sent, marks, crashes>>

Tick == Poll \/ Claim \/ Send \/ SendRefused \/ Record \/ RecordFails
        \/ Fail \/ Recount \/ TickFails

-----------------------------------------------------------------------------
\* A receipt names a message; the recipient is found by the message id stored.
ReceiptFind(e) ==
    /\ receipts[e].pc = "new"
    /\ \E m \in 1 .. Len(sent), k \in ReceiptKind :
         \/ \E r \in Recipients :
              /\ recip[r].msg = m
              /\ receipts' = [receipts EXCEPT ![e] =
                   [pc |-> "mark", recip |-> r, kind |-> k]]
         \/ /\ \A r \in Recipients : recip[r].msg # m
            /\ receipts' = [receipts EXCEPT ![e] = Receipt("over")]
    /\ UNCHANGED <<campaign, recip, calls, poll, sent, marks, crashes>>

ReceiptMark(e) ==
    LET r == receipts[e].recip IN
    /\ receipts[e].pc = "mark"
    /\ SetRecipient(r, IF receipts[e].kind = "delivered" /\ recip[r].status = "read"
                       THEN "read" ELSE receipts[e].kind)
    /\ receipts' = [receipts EXCEPT ![e].pc = "recount"]
    /\ UNCHANGED <<campaign, calls, poll, sent, marks, crashes>>

\* This recount does not know 'processing': it may complete the campaign
\* while the poll is sending.
ReceiptRecount(e) ==
    /\ receipts[e].pc = "recount"
    /\ campaign' = Recounted({"pending", "queued"})
    /\ receipts' = [receipts EXCEPT ![e] = Receipt("over")]
    /\ UNCHANGED <<recip, calls, poll, sent, marks, crashes>>

\* The server restarts: requests, tick and receipts in progress are gone.
Crash ==
    /\ crashes < MaxCrashes
    /\ crashes' = crashes + 1
    /\ poll' = NoTick
    /\ calls' = [c \in Calls |->
         IF calls[c].pc = "new" THEN calls[c] ELSE Request("over")]
    /\ receipts' = [e \in Receipts |->
         IF receipts[e].pc = "new" THEN receipts[e] ELSE Receipt("over")]
    /\ UNCHANGED <<campaign, recip, sent, marks>>

-----------------------------------------------------------------------------
Next ==
    \/ \E c \in Calls : Arrive(c) \/ Handler(c) \/ Abort(c)
    \/ Tick
    \/ \E e \in Receipts : ReceiptFind(e) \/ ReceiptMark(e) \/ ReceiptRecount(e)
    \/ Crash

Spec == Init /\ [][Next]_vars

\* setInterval keeps ticking and Node keeps serving what it began; the
\* database does not reject the claim of a row for ever.
Fairness ==
    /\ WF_vars(Tick)
    /\ SF_vars(Claim)
    /\ \A c \in Calls : WF_vars(Handler(c))
    /\ \A e \in Receipts : WF_vars(ReceiptMark(e) \/ ReceiptRecount(e))

FairSpec == Spec /\ Fairness

-----------------------------------------------------------------------------
\* Nobody is sent more messages than start requests queued him, whatever is
\* paused, lost, rejected or restarted: taking the row out of 'queued' before
\* the send (server.ts:7140) makes a restart lose a message, not repeat it.
SendsTo(r) == Cardinality({m \in DOMAIN sent : sent[m] = r})
RepeatsNeedStarts == \A r \in Recipients : SendsTo(r) <= marks[r]

\* What the report shows as sent, delivered or read was accepted by WhatsApp
\* for this very recipient, through requeues and receipts of older messages.
ReportsAreTrue ==
    \A r \in Recipients :
        /\ recip[r].msg # 0 => /\ recip[r].msg \in DOMAIN sent
                               /\ sent[recip[r].msg] = r
        /\ recip[r].status \in Reached => recip[r].msg # 0

\* Stopping is as prompt as with BullMQ: once the campaign is paused or
\* cancelled, the message of the tick in progress is the last one.
Gate == INSTANCE SendGate WITH
            Instances <- {"poll"},
            open <- campaign \notin Stopped,
            admitted <- IF poll.pc \in {"claim", "send"} THEN {"poll"} ELSE {},
            emitted <- Len(sent)

ImplementsGate == Gate!Spec

\* While the campaign is not stopped every queued recipient gets its turn: no
\* failed tick, receipt or restart completes the campaign over it or leaves
\* the poll busy.
QueueDrains ==
    \A r \in Recipients :
        campaign = "running" /\ recip[r].status = "queued"
            ~> recip[r].status # "queued" \/ campaign \in Stopped
=============================================================================
