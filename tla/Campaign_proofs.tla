-------------------------- MODULE Campaign_proofs --------------------------
(***************************************************************************)
(* What holds of a campaign for any number of recipients, instances,       *)
(* requests, receipts, jobs, attempts and crashes: its types, that         *)
(* stopping it stops the messages, that it implements the gate, that its   *)
(* report is true, that repeats are bounded, and what more holds of a      *)
(* campaign that is started once and meets no error.                       *)
(***************************************************************************)
EXTENDS Campaign, FiniteSetTheorems, TLAPS

\* A running sendMessage holds a job that was added, so its recipient is fixed.
HoldsJob ==
    \A i \in Instances : worker[i].pc # "idle" =>
        worker[i].job \in Jobs /\ jobs[worker[i].job].state # "free"

TypeInv == TypeOK /\ HoldsJob

-----------------------------------------------------------------------------
LEMMA AnyInDomain ==
    /\ AnyRecipient \in Recipients
    /\ AnyInstance \in Instances
BY CampaignAssumption DEF AnyRecipient, AnyInstance

LEMMA RequestType ==
    ASSUME NEW l \in CallPc
    PROVE  Request(l) \in CallRow
BY AnyInDomain DEF Request, CallRow

LEMMA ReceiptType ==
    ASSUME NEW l \in ReceiptPc
    PROVE  Receipt(l) \in ReceiptRow
BY AnyInDomain DEF Receipt, ReceiptRow, ReceiptKind

LEMMA IdleType == Idle \in WorkerRow /\ Idle.pc = "idle"
BY DEF Idle, WorkerRow, WorkerPc

LEMMA InitTypeInv == Init => TypeInv
<1> SUFFICES ASSUME Init PROVE TypeInv
  OBVIOUS
<1>1. TypeOK
  <2>1. campaign \in CampaignRow
    BY AnyInDomain DEF Init, CampaignRow, CampaignStatus
  <2>2. recip \in [Recipients -> RecipientRow]
    BY DEF Init, RecipientRow, RecipStatus
  <2>3. jobs \in [Jobs -> JobRow]
    BY AnyInDomain DEF Init, JobRow
  <2>4. worker \in [Instances -> WorkerRow]
    BY IdleType DEF Init
  <2>5. "new" \in CallPc /\ "new" \in ReceiptPc
    BY DEF CallPc, ReceiptPc
  <2>6. calls \in [Calls -> CallRow] /\ receipts \in [Receipts -> ReceiptRow]
    BY <2>5, RequestType, ReceiptType DEF Init
  <2>7. crashes \in Nat /\ sent \in Seq([recip : Recipients, job : Jobs])
    BY DEF Init
  <2>8. late \in [Instances -> Nat]
    BY DEF Init, NobodyLate
  <2> QED
    BY <2>1, <2>2, <2>3, <2>4, <2>6, <2>7, <2>8 DEF TypeOK
<1>2. HoldsJob
  BY IdleType DEF Init, HoldsJob
<1> QED
  BY <1>1, <1>2 DEF TypeInv

-----------------------------------------------------------------------------
\* The shared pieces of the actions keep the types of what they assign.
LEMMA SetStatusType ==
    ASSUME TypeOK, NEW s \in CampaignStatus, SetStatus(s)
    PROVE  campaign' \in CampaignRow /\ late' \in [Instances -> Nat]
BY DEF TypeOK, SetStatus, CampaignRow, NobodyLate

LEMMA RecountedType == TypeOK => Recounted \in CampaignStatus
BY DEF TypeOK, Recounted, CampaignRow, CampaignStatus

LEMMA ReturnType ==
    ASSUME TypeOK, NEW c \in Calls, Return(c)
    PROVE  calls' \in [Calls -> CallRow]
<1>1. "over" \in CallPc
  BY DEF CallPc
<1> QED
  BY <1>1, RequestType DEF TypeOK, Return

LEMMA GotoType ==
    ASSUME TypeOK, NEW c \in Calls, NEW l \in CallPc, Goto(c, l)
    PROVE  calls' \in [Calls -> CallRow]
BY DEF TypeOK, Goto, CallRow

LEMMA StepType ==
    ASSUME TypeInv, NEW i \in Instances, NEW l \in WorkerPc, Step(i, l),
           worker[i].pc # "idle", UNCHANGED jobs
    PROVE  worker' \in [Instances -> WorkerRow] /\ HoldsJob'
BY DEF TypeInv, TypeOK, HoldsJob, Step, WorkerRow

LEMMA ThrowType ==
    ASSUME TypeInv, NEW i \in Instances, NEW e \in {"error", "paused"},
           Throw(i, e), worker[i].pc # "idle", UNCHANGED jobs
    PROVE  worker' \in [Instances -> WorkerRow] /\ HoldsJob'
BY DEF TypeInv, TypeOK, HoldsJob, Throw, WorkerRow, WorkerPc

LEMMA SettleType ==
    ASSUME TypeInv, NEW i \in Instances, NEW s \in {"ready", "over"},
           NEW made \in Nat, Settle(i, s, made), worker[i].pc # "idle"
    PROVE  /\ jobs' \in [Jobs -> JobRow]
           /\ worker' \in [Instances -> WorkerRow]
           /\ HoldsJob'
BY IdleType DEF TypeInv, TypeOK, HoldsJob, Settle, JobRow

-----------------------------------------------------------------------------
LEMMA RemoveType ==
    ASSUME TypeInv, NEW j, Remove(j), UNCHANGED worker
    PROVE  jobs' \in [Jobs -> JobRow] /\ HoldsJob'
BY DEF TypeInv, TypeOK, HoldsJob, Remove, JobRow

\* A request's step: rows of recipients, jobs, calls and the campaign.
LEMMA HandlerTypeInv ==
    ASSUME TypeInv, NEW c \in Calls, Handler(c)
    PROVE  TypeInv'
<1> USE DEF TypeInv, TypeOK
<1>a. calls[c] \in CallRow /\ calls[c].todo \subseteq Recipients
  BY DEF CallRow
<1>b. ASSUME NEW S PROVE WithStatus(S) \subseteq Recipients
  BY DEF WithStatus
<1>c. [r \in Recipients |-> recip[r].job] \in [Recipients -> Jobs \cup {None}]
  BY DEF RecipientRow
<1>1. CASE StartList(c)
  <2>1. calls' \in [Calls -> CallRow]
    BY <1>1, <1>a, <1>b DEF StartList, CallRow, CallPc, StartPc
  <2> QED
    BY <1>1, <2>1 DEF StartList, HoldsJob
<1>2. CASE StartAdd(c)
  <2>1. PICK r \in calls[c].todo, j \in Jobs :
          /\ jobs[j].state = "free"
          /\ jobs' = [jobs EXCEPT ![j] =
               [state |-> "ready", recip |-> r, inst |-> calls[c].inst, made |-> 0, early |-> FALSE]]
          /\ calls' = [calls EXCEPT ![c].pc = "startMark", ![c].job[r] = j]
    BY <1>2 DEF StartAdd
  <2>2. calls' \in [Calls -> CallRow]
    BY <1>a, <2>1 DEF CallRow, CallPc, StartPc
  <2>3. jobs' \in [Jobs -> JobRow]
    BY <1>a, <2>1 DEF CallRow, JobRow
  <2>4. HoldsJob'
    BY <1>2, <2>1 DEF StartAdd, HoldsJob
  <2> QED
    BY <1>2, <2>2, <2>3, <2>4 DEF StartAdd
<1>3. CASE StartMark(c)
  <2>1. PICK r \in calls[c].todo :
          /\ recip' = [recip EXCEPT ![r].status = "queued",
                                    ![r].job = calls[c].job[r]]
          /\ calls' = [calls EXCEPT
               ![c].todo = @ \ {r},
               ![c].pc = IF calls[c].todo = {r} THEN "startEnd" ELSE "startAdd"]
    BY <1>3 DEF StartMark
  <2>2. calls' \in [Calls -> CallRow]
    BY <1>a, <2>1 DEF CallRow, CallPc, StartPc
  <2>3. recip' \in [Recipients -> RecipientRow]
    <3>1. PICK q \in Recipients, j \in Jobs \cup {None} :
            recip' = [recip EXCEPT ![q].status = "queued", ![q].job = j]
      BY <1>a, <2>1 DEF CallRow
    <3> QED
      BY <3>1 DEF RecipientRow, RecipStatus
  <2> QED
    BY <1>3, <2>2, <2>3 DEF StartMark, HoldsJob
<1>4. CASE StartEnd(c)
  BY <1>4, SetStatusType, ReturnType DEF StartEnd, HoldsJob, CampaignStatus
<1>5. CASE PauseList(c)
  <2>1. calls' \in [Calls -> CallRow]
    BY <1>5, <1>a, <1>b, <1>c DEF PauseList, CallRow, CallPc
  <2> QED
    BY <1>5, <2>1 DEF PauseList, HoldsJob
<1>6. CASE PauseRemove(c)
  <2>1. PICK r \in calls[c].todo : Remove(calls[c].job[r])
    BY <1>6 DEF PauseRemove
  <2>2. calls' \in [Calls -> CallRow]
    BY <1>6, GotoType DEF PauseRemove, CallPc
  <2> QED
    BY <1>6, <2>1, <2>2, RemoveType DEF PauseRemove
<1>7. CASE PauseMark(c)
  <2>1. PICK r \in calls[c].todo :
          /\ recip' = [recip EXCEPT ![r].status = "pending", ![r].job = None]
          /\ calls' = [calls EXCEPT
               ![c].todo = @ \ {r},
               ![c].pc = IF calls[c].todo = {r} THEN "pauseEnd" ELSE "pauseRemove"]
    BY <1>7 DEF PauseMark
  <2>2. calls' \in [Calls -> CallRow]
    BY <1>a, <2>1 DEF CallRow, CallPc
  <2>3. recip' \in [Recipients -> RecipientRow]
    BY <1>a, <2>1 DEF RecipientRow, RecipStatus
  <2> QED
    BY <1>7, <2>2, <2>3 DEF PauseMark, HoldsJob
<1>8. CASE PauseEnd(c)
  BY <1>8, SetStatusType, ReturnType DEF PauseEnd, HoldsJob, CampaignStatus
<1>9. CASE CancelList(c)
  <2>1. calls' \in [Calls -> CallRow]
    BY <1>9, <1>a, <1>b, <1>c DEF CancelList, CallRow, CallPc
  <2> QED
    BY <1>9, <2>1 DEF CancelList, HoldsJob
<1>10. CASE CancelRemove(c)
  <2>1. PICK r \in calls[c].todo :
          /\ Remove(calls[c].job[r])
          /\ calls' = [calls EXCEPT
               ![c].todo = @ \ {r},
               ![c].pc = IF calls[c].todo = {r} THEN "cancelMark" ELSE @]
    BY <1>10 DEF CancelRemove
  <2>2. calls' \in [Calls -> CallRow]
    BY <1>a, <2>1 DEF CallRow, CallPc
  <2> QED
    BY <1>10, <2>1, <2>2, RemoveType DEF CancelRemove
<1>11. CASE CancelMark(c)
  BY <1>11, GotoType DEF CancelMark, HoldsJob, RecipientRow, RecipStatus, CallPc
<1>12. CASE CancelEnd(c)
  BY <1>12, SetStatusType, ReturnType DEF CancelEnd, HoldsJob, CampaignStatus
<1>13. CASE AddInsert(c)
  <2>1. PICK r \in Recipients : recip' = [recip EXCEPT ![r].status = "pending"]
    BY <1>13 DEF AddInsert, WithStatus
  <2>2. recip' \in [Recipients -> RecipientRow]
    BY <2>1 DEF RecipientRow, RecipStatus
  <2> QED
    BY <1>13, <2>2, ReturnType DEF AddInsert, HoldsJob
<1>14. CASE PatchWrite(c)
  BY <1>14, ReturnType DEF PatchWrite, HoldsJob, CampaignRow
<1> QED
  BY <1>1, <1>2, <1>3, <1>4, <1>5, <1>6, <1>7, <1>8, <1>9, <1>10, <1>11,
     <1>12, <1>13, <1>14 DEF Handler

LEMMA RequestTypeInv ==
    ASSUME TypeInv, NEW c \in Calls, Arrive(c) \/ Abort(c)
    PROVE  TypeInv'
<1> USE DEF TypeInv, TypeOK
<1>1. CASE Abort(c)
  BY <1>1, ReturnType DEF Abort, HoldsJob
<1>2. ASSUME NEW op \in Requests[c], StartRead(c, op)
      PROVE  TypeInv'
  <2>1. CASE MayStart(op)
    <3>1. PICK i \in Instances :
            calls' = [calls EXCEPT ![c].pc = "startList", ![c].inst = i]
      BY <1>2, <2>1 DEF StartRead, CampaignRow
    <3>2. "startList" \in CallPc
      BY DEF CallPc, StartPc
    <3>3. calls' \in [Calls -> CallRow]
      BY <3>1, <3>2 DEF CallRow
    <3> QED
      BY <1>2, <3>3 DEF StartRead, HoldsJob
  <2>2. CASE ~MayStart(op)
    BY <1>2, <2>2, ReturnType DEF StartRead, HoldsJob
  <2> QED
    BY <2>1, <2>2
<1>3. ASSUME NEW op \in Requests[c], Open(c, op)
      PROVE  TypeInv'
  <2>1. op \in {"pause", "cancel", "add", "senderAdd", "patch"}
    BY <1>3, CampaignAssumption DEF Open
  <2>2. PICK l \in CallPc : Goto(c, l)
    BY <1>3, <2>1 DEF Open, CallPc
  <2> QED
    BY <1>3, <2>2, GotoType DEF Open, HoldsJob
<1> QED
  BY <1>1, <1>2, <1>3 DEF Arrive

\* A job that is handed out becomes active; nothing else of it changes but `early`.
LEMMA PickedUp ==
    ASSUME TypeOK, NEW j \in Jobs, PickUp(j)
    PROVE  /\ jobs[j].state = "ready" /\ jobs'[j].state = "active"
           /\ jobs'[j].recip = jobs[j].recip /\ jobs'[j].inst = jobs[j].inst
           /\ jobs'[j].made = jobs[j].made
           /\ Starting => jobs'[j].early
           /\ ~Starting => jobs'[j].early = jobs[j].early
           /\ \A k \in Jobs : k # j => jobs'[k] = jobs[k]
           /\ jobs' \in [Jobs -> JobRow]
<1>1. jobs \in [Jobs -> JobRow] /\ jobs[j] \in JobRow
  BY DEF TypeOK
<1>2. PICK b \in BOOLEAN : b = (jobs[j].early \/ Starting)
  BY DEF Starting
<1>3. jobs[j].state = "ready" /\ jobs' = [jobs EXCEPT ![j].state = "active", ![j].early = b]
  BY <1>1, <1>2 DEF PickUp
<1>4. ~Starting => b = jobs[j].early
  BY <1>1, <1>2 DEF JobRow
<1> QED
  BY <1>1, <1>2, <1>3, <1>4 DEF JobRow

\* The queue hands out jobs, or takes all of them back when the worker dies.
LEMMA QueueTypeInv ==
    ASSUME TypeInv, (\E j \in Jobs : PickUp(j) \/ Enter(j)) \/ Crash
    PROVE  TypeInv'
<1> USE DEF TypeInv, TypeOK
<1>1. ASSUME NEW j \in Jobs, PickUp(j)
      PROVE  TypeInv'
  <2>1. HoldsJob'
    BY <1>1, PickedUp DEF PickUp, HoldsJob
  <2> QED
    BY <1>1, <2>1, PickedUp DEF PickUp
<1>2. ASSUME NEW j \in Jobs, Enter(j)
      PROVE  TypeInv'
  BY <1>2 DEF Enter, HoldsJob, Idle, WorkerRow, WorkerPc, JobRow
<1>3. CASE Crash
  <2>1. worker' \in [Instances -> WorkerRow] /\ HoldsJob'
    BY <1>3, IdleType DEF Crash, HoldsJob
  <2>2. ASSUME NEW j \in Jobs
        PROVE  [jobs[j] EXCEPT !.state = "ready"] \in JobRow /\ jobs[j] \in JobRow
    BY DEF JobRow
  <2>3. jobs' \in [Jobs -> JobRow]
    BY <1>3, <2>2 DEF Crash
  <2> QED
    BY <1>3, <2>1, <2>3 DEF Crash
<1> QED
  BY <1>1, <1>2, <1>3

LEMMA WorkTypeInv ==
    ASSUME TypeInv, NEW i \in Instances, Work(i)
    PROVE  TypeInv'
<1>0. worker[i].pc # "idle" => /\ worker[i].job \in Jobs
                              /\ jobs[worker[i].job] \in JobRow
                              /\ Recipient(i) \in Recipients
                              /\ jobs[worker[i].job].made \in Nat
  BY DEF TypeInv, TypeOK, HoldsJob, Recipient, JobRow
<1> USE DEF TypeInv, TypeOK
<1>1. CASE Admit(i)
  BY <1>1, StepType, ThrowType DEF Admit, WorkerPc
<1>2. CASE CheckStatus(i)
  BY <1>2, StepType, ThrowType DEF CheckStatus, WorkerPc
<1>3. CASE Drop(i)
  <2>1. recip' \in [Recipients -> RecipientRow]
    BY <1>3, <1>0 DEF Drop, RecipientRow, RecipStatus
  <2> QED
    BY <1>3, <1>0, <2>1, SettleType DEF Drop
<1>4. CASE Send(i)
  <2>0. PICK n \in Nat :
          worker' = [worker EXCEPT ![i].pc = "record", ![i].msg = n]
    <3>1. Len(sent) + 1 \in Nat
      OBVIOUS
    <3> QED
      BY <1>4, <3>1 DEF Send
  <2>1. worker' \in [Instances -> WorkerRow]
    BY <2>0 DEF WorkerRow, WorkerPc
  <2>4. HoldsJob'
    <3>1. \A k \in Instances : /\ worker'[k].job = worker[k].job
                                /\ worker'[k].pc # "idle" => worker[k].pc # "idle"
      BY <1>4, <2>0 DEF Send, WorkerRow
    <3> QED
      BY <1>4, <3>1 DEF Send, HoldsJob
  <2>2. sent' \in Seq([recip : Recipients, job : Jobs])
    BY <1>4, <1>0 DEF Send
  <2>3. late' \in [Instances -> Nat]
    BY <1>4 DEF Send
  <2> QED
    BY <1>4, <2>1, <2>2, <2>3, <2>4 DEF Send
<1>5. CASE SendRefused(i)
  BY <1>5, ThrowType DEF SendRefused
<1>6. CASE Record(i)
  <2>1. recip' \in [Recipients -> RecipientRow]
    <3>1. PICK r \in Recipients, m \in Nat :
            recip' = [recip EXCEPT ![r].status = "sent", ![r].msg = m]
      BY <1>6, <1>0 DEF Record, WorkerRow
    <3> QED
      BY <3>1 DEF RecipientRow, RecipStatus
  <2> QED
    BY <1>6, <2>1, StepType DEF Record, WorkerPc
<1>7. CASE Recount(i)
  BY <1>7, <1>0, SettleType, SetStatusType, RecountedType DEF Recount
<1>8. CASE AwaitFails(i)
  BY <1>8, ThrowType DEF AwaitFails
<1>9. CASE Retry(i)
  BY <1>9, <1>0, SettleType DEF Retry
<1>10. CASE Fail(i)
  <2>1. recip' \in [Recipients -> RecipientRow]
    BY <1>10, <1>0 DEF Fail, RecipientRow, RecipStatus
  <2> QED
    BY <1>10, <1>0, <2>1, SettleType DEF Fail
<1> QED
  BY <1>1, <1>2, <1>3, <1>4, <1>5, <1>6, <1>7, <1>8, <1>9, <1>10 DEF Work

LEMMA ReceiveTypeInv ==
    ASSUME TypeInv, NEW e \in Receipts, Receive(e)
    PROVE  TypeInv'
<1> USE DEF TypeInv, TypeOK
<1>0. "over" \in ReceiptPc /\ "mark" \in ReceiptPc /\ "recount" \in ReceiptPc
  BY DEF ReceiptPc
<1>1. CASE ReceiptFind(e)
  <2>1. receipts' \in [Receipts -> ReceiptRow]
    BY <1>1, <1>0, ReceiptType DEF ReceiptFind, ReceiptRow
  <2> QED
    BY <1>1, <2>1 DEF ReceiptFind, HoldsJob
<1>2. CASE ReceiptMark(e)
  <2>1. recip' \in [Recipients -> RecipientRow]
    <3>1. PICK r \in Recipients, s \in RecipStatus :
            recip' = [recip EXCEPT ![r].status = s]
      BY <1>2 DEF ReceiptMark, Receipted, ReceiptRow, ReceiptKind, RecipStatus
    <3> QED
      BY <3>1 DEF RecipientRow
  <2>2. receipts' \in [Receipts -> ReceiptRow]
    BY <1>2, <1>0 DEF ReceiptMark, ReceiptRow
  <2> QED
    BY <1>2, <2>1, <2>2 DEF ReceiptMark, HoldsJob
<1>3. CASE ReceiptRecount(e)
  BY <1>3, <1>0, SetStatusType, RecountedType, ReceiptType
  DEF ReceiptRecount, HoldsJob
<1> QED
  BY <1>1, <1>2, <1>3 DEF Receive

LEMMA NextTypeInv == TypeInv /\ [Next]_vars => TypeInv'
<1>1. TypeInv /\ UNCHANGED vars => TypeInv'
  BY DEF TypeInv, TypeOK, HoldsJob, vars
<1> QED
  BY <1>1, HandlerTypeInv, RequestTypeInv, QueueTypeInv, WorkTypeInv,
     ReceiveTypeInv DEF Next

\* Every row keeps its type, whatever handlers, worker and receipts interleave.
THEOREM Types == Spec => []TypeOK
<1>1. Spec => []TypeInv
  BY InitTypeInv, NextTypeInv, PTL DEF Spec
<1>2. TypeInv => TypeOK
  BY DEF TypeInv
<1> QED
  BY <1>1, <1>2, PTL

-----------------------------------------------------------------------------
(* Stopping: at most one late message from each WhatsApp instance, and     *)
(* the campaign implements the gate.  Both rest on one classification of   *)
(* the steps (StepKinds).                                                  *)

\* The instances between the status check and the call to the bridge.
Sending == {i \in Instances : worker[i].pc = "send"}

\* A step that admits no instance and leaves the status alone ...
Quiet ==
    /\ Sending' \subseteq Sending
    /\ campaign'.status = campaign.status
    /\ UNCHANGED <<sent, late>>

\* ... and one that writes the status and leaves the instances alone.
Switching ==
    /\ \E s \in CampaignStatus : SetStatus(s)
    /\ Sending' = Sending
    /\ UNCHANGED sent

Committing == \E i \in Instances : Send(i) \/ CheckStatus(i)

-----------------------------------------------------------------------------
LEMMA SettleWithdraws ==
    ASSUME TypeInv, NEW i \in Instances, NEW s, NEW made, Settle(i, s, made)
    PROVE  /\ Sending' \subseteq Sending
           /\ worker[i].pc # "send" => Sending' = Sending
BY IdleType DEF TypeInv, TypeOK, Settle, Sending

LEMMA HandlerKind ==
    ASSUME TypeInv, NEW c \in Calls, Handler(c)
    PROVE  Quiet \/ Switching
<1>1. CASE UNCHANGED <<campaign, worker, sent, late>>
  BY <1>1 DEF Quiet, Sending
<1>2. CASE StartEnd(c) \/ PauseEnd(c) \/ CancelEnd(c)
  BY <1>2 DEF StartEnd, PauseEnd, CancelEnd, Switching, Sending, CampaignStatus
<1>3. CASE PatchWrite(c)
  <2>1. PICK i \in Instances : campaign' = [campaign EXCEPT !.instance = i]
    BY <1>3 DEF PatchWrite
  <2>2. campaign'.status = campaign.status
    BY <2>1 DEF TypeInv, TypeOK, CampaignRow
  <2> QED
    BY <1>3, <2>2 DEF PatchWrite, Quiet, Sending
<1> QED
  BY <1>1, <1>2, <1>3 DEF Handler, StartList, StartAdd, StartMark, PauseList,
     PauseRemove, PauseMark, CancelList, CancelRemove, CancelMark, AddInsert

LEMMA WorkKind ==
    ASSUME TypeInv, NEW i \in Instances, Work(i)
    PROVE  Quiet \/ Switching \/ Committing
<1> USE DEF Quiet
<1>1. ASSUME NEW l \in WorkerPc \ {"send"}, Step(i, l)
      PROVE  Sending' \subseteq Sending
  BY <1>1 DEF Step, Sending, TypeInv, TypeOK, WorkerRow
<1>2. ASSUME NEW e, Throw(i, e)
      PROVE  Sending' \subseteq Sending
  BY <1>2 DEF Throw, Sending, TypeInv, TypeOK, WorkerRow
<1>3. CASE Admit(i)
  BY <1>3, <1>1, <1>2 DEF Admit, WorkerPc
<1>4. CASE Drop(i)
  BY <1>4, SettleWithdraws DEF Drop
<1>5. CASE SendRefused(i)
  BY <1>5, <1>2 DEF SendRefused
<1>6. CASE Record(i)
  BY <1>6, <1>1 DEF Record, WorkerPc
<1>7. CASE Recount(i)
  BY <1>7, SettleWithdraws, RecountedType DEF Recount, Switching, TypeInv
<1>8. CASE AwaitFails(i)
  BY <1>8, <1>2 DEF AwaitFails
<1>9. CASE Retry(i)
  BY <1>9, SettleWithdraws DEF Retry
<1>10. CASE Fail(i)
  BY <1>10, SettleWithdraws DEF Fail
<1> QED
  BY <1>3, <1>4, <1>5, <1>6, <1>7, <1>8, <1>9, <1>10 DEF Work, Committing

LEMMA StepKinds ==
    TypeInv /\ [Next]_vars => Quiet \/ Switching \/ Committing
<1> SUFFICES ASSUME TypeInv, [Next]_vars
             PROVE  Quiet \/ Switching \/ Committing
  OBVIOUS
<1>1. CASE UNCHANGED vars
  BY <1>1 DEF vars, Quiet, Sending
<1>2. ASSUME NEW c \in Calls, Arrive(c) \/ Abort(c)
      PROVE  Quiet
  BY <1>2 DEF Arrive, StartRead, Open, Abort, Quiet, Sending
<1>3. ASSUME NEW j \in Jobs, PickUp(j)
      PROVE  Quiet
  BY <1>3 DEF PickUp, Quiet, Sending
<1>4. ASSUME NEW j \in Jobs, Enter(j)
      PROVE  Quiet
  BY <1>4 DEF Enter, Idle, Quiet, Sending, TypeInv, TypeOK
<1>5. ASSUME NEW e \in Receipts, Receive(e)
      PROVE  Quiet \/ Switching
  <2>1. CASE ReceiptFind(e) \/ ReceiptMark(e)
    BY <2>1 DEF ReceiptFind, ReceiptMark, Quiet, Sending
  <2>2. CASE ReceiptRecount(e)
    BY <2>2, RecountedType DEF ReceiptRecount, Switching, Sending, TypeInv
  <2> QED
    BY <1>5, <2>1, <2>2 DEF Receive
<1>6. CASE Crash
  BY <1>6, IdleType DEF Crash, Quiet, Sending
<1> QED
  BY <1>1, <1>2, <1>3, <1>4, <1>5, <1>6, HandlerKind, WorkKind DEF Next

-----------------------------------------------------------------------------
\* While the campaign runs nothing is late; once it is stopped, an instance
\* still about to send has not sent yet.
LateInv ==
    \A i \in Instances :
        IF campaign.status \in Stopped
        THEN late[i] <= 1 /\ (i \in Sending => late[i] = 0)
        ELSE late[i] = 0

LEMMA NextLateInv == TypeInv /\ LateInv /\ [Next]_vars => LateInv'
<1> SUFFICES ASSUME TypeInv, LateInv, [Next]_vars
             PROVE  LateInv'
  OBVIOUS
<1>1. CASE Quiet
  BY <1>1 DEF Quiet, LateInv, Sending
<1>2. CASE Switching
  <2>1. PICK s \in CampaignStatus : SetStatus(s)
    BY <1>2 DEF Switching
  <2>2. campaign'.status = s
    BY <2>1 DEF SetStatus, TypeInv, TypeOK, CampaignRow
  <2> QED
    BY <1>2, <2>1, <2>2 DEF Switching, SetStatus, LateInv, NobodyLate
<1>3. ASSUME NEW i \in Instances, Send(i)
      PROVE  LateInv'
  <2>1. i \in Sending /\ UNCHANGED campaign
    BY <1>3 DEF Send, Sending
  <2>2. Sending' = Sending \ {i}
    BY <1>3 DEF Send, Sending, TypeInv, TypeOK, WorkerRow
  <2>3. late' = IF campaign.status \in Stopped
                THEN [late EXCEPT ![i] = @ + 1] ELSE late
    BY <1>3 DEF Send
  <2>4. late \in [Instances -> Nat]
    BY DEF TypeInv, TypeOK
  <2> QED
    BY <2>1, <2>2, <2>3, <2>4 DEF LateInv
<1>4. ASSUME NEW i \in Instances, CheckStatus(i)
      PROVE  LateInv'
  <2>1. UNCHANGED <<campaign, late>>
    BY <1>4 DEF CheckStatus
  <2>2. campaign.status \in Stopped => Sending' \subseteq Sending
    BY <1>4 DEF CheckStatus, Stopped, Step, Throw, Sending, TypeInv, TypeOK, WorkerRow
  <2> QED
    BY <2>1, <2>2 DEF LateInv
<1> QED
  BY <1>1, <1>2, <1>3, <1>4, StepKinds DEF Committing

\* Pausing or cancelling stops the campaign but for the message each instance
\* had already committed to: every message.send job checks the status first.
THEOREM StopIsPrompt == Spec => []AtMostOneLateSend
<1>1. Init => LateInv
  BY DEF Init, LateInv, NobodyLate, Stopped
<1>2. TypeInv /\ LateInv => AtMostOneLateSend
  BY DEF LateInv, AtMostOneLateSend, TypeInv, TypeOK
<1>3. Spec => [](TypeInv /\ LateInv)
  BY <1>1, InitTypeInv, NextTypeInv, NextLateInv, PTL DEF Spec
<1> QED
  BY <1>2, <1>3, PTL

-----------------------------------------------------------------------------
LEMMA GateStep ==
    TypeInv /\ [Next]_vars => [Gate!Next]_(Gate!vars)
<1> SUFFICES ASSUME TypeInv, [Next]_vars
             PROVE  Gate!Next \/ UNCHANGED Gate!vars
  BY DEF Gate!vars
<1>1. CASE Quiet
  <2>1. PICK S \in SUBSET Instances :
          S = {i \in Instances : worker[i].pc = "send" /\ worker'[i].pc # "send"}
    OBVIOUS
  <2>2. Gate!Withdraw(S)
    BY <1>1, <2>1 DEF Quiet, Sending, Gate!Withdraw
  <2> QED
    BY <2>2 DEF Gate!Next
<1>2. CASE Switching
  <2>1. Gate!Switch
    BY <1>2 DEF Switching, Sending, Gate!Switch
  <2> QED
    BY <2>1 DEF Gate!Next
<1>3. ASSUME NEW i \in Instances, Send(i)
      PROVE  Gate!Next
  <2>1. Sending' = Sending \ {i} /\ i \in Sending
    BY <1>3 DEF Send, Sending, TypeInv, TypeOK, WorkerRow
  <2>2. Len(sent') = Len(sent) + 1 /\ UNCHANGED campaign
    BY <1>3 DEF Send, TypeInv, TypeOK
  <2>3. Gate!Emit(i)
    BY <2>1, <2>2 DEF Sending, Gate!Emit
  <2> QED
    BY <2>3 DEF Gate!Next
<1>4. ASSUME NEW i \in Instances, CheckStatus(i)
      PROVE  Gate!Next
  <2>1. UNCHANGED <<campaign, sent>>
    BY <1>4 DEF CheckStatus
  <2>2. CASE campaign.status \notin Stopped
    <3>0. Step(i, "send")
      BY <1>4, <2>2 DEF CheckStatus, Stopped
    <3>1. Sending' = Sending \cup {i}
      BY <3>0 DEF Step, Sending, TypeInv, TypeOK, WorkerRow
    <3>2. Gate!Admit(i)
      BY <2>1, <2>2, <3>1 DEF Sending, Gate!Admit
    <3> QED
      BY <3>2 DEF Gate!Next
  <2>3. CASE campaign.status \in Stopped
    <3>1. Sending' = Sending
      BY <1>4, <2>3 DEF CheckStatus, Stopped, Step, Throw, Sending, TypeInv, TypeOK, WorkerRow
    <3>2. Gate!Withdraw({})
      BY <2>1, <3>1 DEF Sending, Gate!Withdraw
    <3> QED
      BY <3>2 DEF Gate!Next
  <2> QED
    BY <2>2, <2>3
<1> QED
  BY <1>1, <1>2, <1>3, <1>4, StepKinds DEF Committing

\* The campaign implements the gate: handlers, retries, receipts and crashes
\* let no message out that was not admitted while the campaign was running.
THEOREM CampaignImplementsGate == Spec => ImplementsGate
<1>1. Init => Gate!Init
  <2>1. ASSUME Init PROVE {i \in Instances : worker[i].pc = "send"} = {}
    BY <2>1 DEF Init, Idle
  <2>2. ASSUME Init PROVE (campaign.status \notin Stopped) = TRUE
    BY <2>2 DEF Init, Stopped
  <2>3. ASSUME Init PROVE Len(sent) = 0
    BY <2>3 DEF Init
  <2> QED
    BY <2>1, <2>2, <2>3 DEF Gate!Init
<1>2. Spec => []TypeInv
  BY InitTypeInv, NextTypeInv, PTL DEF Spec
<1> QED
  BY <1>1, <1>2, GateStep, PTL DEF Spec, ImplementsGate, Gate!Spec

-----------------------------------------------------------------------------
(* Reporting: the report of a campaign is true of what WhatsApp accepted.  *)

\* A worker about to record a message sent it to the recipient of its job.
RecordsOwn ==
    \A i \in Instances : worker[i].pc = "record" =>
        /\ worker[i].msg \in 1 .. Len(sent)
        /\ sent[worker[i].msg].recip = Recipient(i)

\* A receipt about to be marked was matched to a recipient by message id.
MarksKnown ==
    \A e \in Receipts :
        receipts[e].pc = "mark" => recip[receipts[e].recip].msg # 0

ReportsInv == ReportsAreTrue /\ RecordsOwn /\ MarksKnown

\* No row loses its message id, none reaches 'sent' without one.
KeepsIds ==
    \A r \in Recipients :
        /\ recip'[r].msg = recip[r].msg
        /\ recip'[r].status \in Reached =>
             recip[r].status \in Reached \/ recip[r].msg # 0

\* A worker still about to record holds the job and message it held before.
KeepsRecords ==
    \A i \in Instances : worker'[i].pc = "record" =>
        /\ worker[i].pc = "record"
        /\ worker'[i].msg = worker[i].msg
        /\ Recipient(i)' = Recipient(i)

-----------------------------------------------------------------------------
LEMMA KeepReports ==
    ASSUME TypeInv, ReportsInv, KeepsIds, KeepsRecords, UNCHANGED <<sent, receipts>>
    PROVE  ReportsInv'
<1>1. ReportsAreTrue'
  BY DEF ReportsInv, ReportsAreTrue, KeepsIds
<1>2. RecordsOwn'
  BY DEF ReportsInv, RecordsOwn, KeepsRecords
<1>3. MarksKnown'
  BY DEF ReportsInv, MarksKnown, KeepsIds, TypeInv, TypeOK, ReceiptRow
<1> QED
  BY <1>1, <1>2, <1>3 DEF ReportsInv

LEMMA SameJobs ==
    ASSUME UNCHANGED <<worker, jobs>>
    PROVE  KeepsRecords
BY DEF KeepsRecords, Recipient

LEMMA SameRecipients ==
    ASSUME UNCHANGED recip
    PROVE  KeepsIds
BY DEF KeepsIds

\* Requests add and remove jobs, and put rows back to states that are not
\* reached; the job a worker holds is neither added nor changed in recipient.
LEMMA HandlerReports ==
    ASSUME TypeInv, ReportsInv, NEW c \in Calls, Handler(c)
    PROVE  ReportsInv'
<1>1. ASSUME UNCHANGED <<worker, jobs, sent, receipts>>, KeepsIds
      PROVE  ReportsInv'
  BY <1>1, KeepReports, SameJobs
<1>2. ASSUME NEW j, Remove(j), UNCHANGED <<worker, recip, sent, receipts>>
      PROVE  ReportsInv'
  <2>1. KeepsRecords
    BY <1>2 DEF Remove, KeepsRecords, Recipient, TypeInv, TypeOK, JobRow, HoldsJob
  <2> QED
    BY <1>2, <2>1, SameRecipients, KeepReports
<1>3. ASSUME NEW r, NEW s \in {"queued", "pending"}, NEW j,
             recip' = [recip EXCEPT ![r].status = s, ![r].job = j]
      PROVE  KeepsIds
  BY <1>3 DEF KeepsIds, Reached, TypeInv, TypeOK, RecipientRow
<1>4. CASE StartAdd(c)
  <2>1. PICK r \in calls[c].todo, j \in Jobs :
          /\ jobs[j].state = "free"
          /\ jobs' = [jobs EXCEPT ![j] =
               [state |-> "ready", recip |-> r, inst |-> calls[c].inst, made |-> 0, early |-> FALSE]]
    BY <1>4 DEF StartAdd
  <2>2. KeepsRecords
    BY <1>4, <2>1 DEF StartAdd, KeepsRecords, Recipient, TypeInv, TypeOK, HoldsJob
  <2> QED
    BY <1>4, <2>2, SameRecipients, KeepReports DEF StartAdd
<1>5. CASE StartMark(c)
  BY <1>5, <1>1, <1>3 DEF StartMark
<1>6. CASE PauseMark(c)
  BY <1>6, <1>1, <1>3 DEF PauseMark
<1>7. CASE PauseRemove(c) \/ CancelRemove(c)
  BY <1>7, <1>2 DEF PauseRemove, CancelRemove
<1>8. CASE CancelMark(c)
  <2>1. KeepsIds
    BY <1>8 DEF CancelMark, KeepsIds, Reached, TypeInv, TypeOK, RecipientRow
  <2> QED
    BY <1>8, <1>1, <2>1 DEF CancelMark
<1>9. CASE AddInsert(c)
  <2>1. PICK r \in Recipients : recip' = [recip EXCEPT ![r].status = "pending"]
    BY <1>9 DEF AddInsert, WithStatus
  <2>2. KeepsIds
    BY <2>1 DEF KeepsIds, Reached, TypeInv, TypeOK, RecipientRow
  <2> QED
    BY <1>9, <1>1, <2>2 DEF AddInsert
<1>10. CASE UNCHANGED <<worker, jobs, recip, sent, receipts>>
  BY <1>10, <1>1, SameRecipients
<1> QED
  BY <1>4, <1>5, <1>6, <1>7, <1>8, <1>9, <1>10 DEF Handler, StartList, StartEnd,
     PauseList, PauseEnd, CancelList, CancelEnd, PatchWrite

LEMMA WorkReports ==
    ASSUME TypeInv, ReportsInv, NEW i \in Instances, Work(i)
    PROVE  ReportsInv'
<1>0. worker[i].pc # "idle" => /\ Recipient(i) \in Recipients
                              /\ worker[i].job \in Jobs
  BY DEF TypeInv, TypeOK, HoldsJob, JobRow, Recipient
<1>1. ASSUME NEW l \in WorkerPc \ {"record"}, Step(i, l), UNCHANGED jobs
      PROVE  KeepsRecords
  BY <1>1 DEF Step, KeepsRecords, Recipient, TypeInv, TypeOK, WorkerRow
<1>2. ASSUME NEW e, Throw(i, e), UNCHANGED jobs
      PROVE  KeepsRecords
  BY <1>2 DEF Throw, KeepsRecords, Recipient, TypeInv, TypeOK, WorkerRow
<1>3. ASSUME NEW s, NEW made, Settle(i, s, made), worker[i].pc # "idle"
      PROVE  KeepsRecords
  <2>1. \A j \in Jobs : jobs'[j].recip = jobs[j].recip
    BY <1>3, <1>0 DEF Settle, TypeInv, TypeOK, JobRow
  <2>2. \A k \in Instances : worker'[k] = worker[k] \/ worker'[k].pc = "idle"
    BY <1>3, IdleType DEF Settle, TypeInv, TypeOK
  <2> QED
    BY <2>1, <2>2 DEF KeepsRecords, Recipient, TypeInv, HoldsJob
<1>4. ASSUME NEW r, NEW s \in RecipStatus \ Reached,
             recip' = [recip EXCEPT ![r].status = s]
      PROVE  KeepsIds
  BY <1>4 DEF KeepsIds, TypeInv, TypeOK, RecipientRow
<1>5. CASE Admit(i) \/ CheckStatus(i) \/ SendRefused(i) \/ AwaitFails(i)
  <2>1. KeepsRecords
    BY <1>5, <1>1, <1>2 DEF Admit, CheckStatus, SendRefused, AwaitFails, WorkerPc
  <2> QED
    BY <1>5, <2>1, SameRecipients, KeepReports
    DEF Admit, CheckStatus, SendRefused, AwaitFails
<1>6. CASE Drop(i)
  <2>1. KeepsRecords
    BY <1>6, <1>3 DEF Drop
  <2>2. KeepsIds
    BY <1>6, <1>4 DEF Drop, RecipStatus, Reached
  <2> QED
    BY <1>6, <2>1, <2>2, KeepReports DEF Drop
<1>7. CASE Recount(i) \/ Retry(i)
  <2>1. KeepsRecords
    BY <1>7, <1>3 DEF Recount, Retry
  <2> QED
    BY <1>7, <2>1, SameRecipients, KeepReports DEF Recount, Retry
<1>8. CASE Fail(i)
  <2>1. KeepsRecords
    BY <1>8, <1>3 DEF Fail
  <2>2. KeepsIds
    BY <1>8, <1>4, SameRecipients DEF Fail, RecipStatus, Reached
  <2> QED
    BY <1>8, <2>1, <2>2, KeepReports DEF Fail
<1>9. CASE Send(i)
  <2>1. /\ Len(sent') = Len(sent) + 1
        /\ sent'[Len(sent) + 1].recip = Recipient(i)
        /\ \A m \in 1 .. Len(sent) : sent'[m] = sent[m]
    BY <1>9 DEF Send, TypeInv, TypeOK
  <2>2. Len(sent) \in Nat
    BY DEF TypeInv, TypeOK
  <2>3. ReportsAreTrue'
    BY <1>9, <2>1, <2>2 DEF Send, ReportsInv, ReportsAreTrue
  <2>4. RecordsOwn'
    <3>1. \A k \in Instances : Recipient(k)' = Recipient(k)
      BY <1>9 DEF Send, Recipient, TypeInv, TypeOK, WorkerRow
    <3>2. /\ worker'[i].msg = Len(sent) + 1
          /\ \A k \in Instances \ {i} : worker'[k] = worker[k]
      BY <1>9 DEF Send, TypeInv, TypeOK, WorkerRow
    <3> QED
      BY <2>1, <2>2, <3>1, <3>2 DEF ReportsInv, RecordsOwn
  <2>5. MarksKnown'
    BY <1>9 DEF Send, ReportsInv, MarksKnown
  <2> QED
    BY <2>3, <2>4, <2>5 DEF ReportsInv
<1>10. CASE Record(i)
  <2> DEFINE r == Recipient(i)
  <2>1. worker[i].msg \in 1 .. Len(sent) /\ sent[worker[i].msg].recip = r
    BY <1>10 DEF Record, ReportsInv, RecordsOwn
  <2>2. /\ recip'[r].msg = worker[i].msg
        /\ \A q \in Recipients \ {r} : recip'[q] = recip[q]
    BY <1>10, <1>0 DEF Record, TypeInv, TypeOK, RecipientRow
  <2>3. UNCHANGED <<jobs, sent, receipts>>
    BY <1>10 DEF Record
  <2>4. worker[i].msg # 0
    BY <2>1
  <2> HIDE DEF r
  <2>5. ReportsAreTrue'
    BY <2>1, <2>2, <2>3, <2>4 DEF ReportsInv, ReportsAreTrue
  <2>6. KeepsRecords
    BY <1>10, <1>1 DEF Record, WorkerPc
  <2>7. RecordsOwn'
    BY <2>3, <2>6 DEF KeepsRecords, ReportsInv, RecordsOwn
  <2>8. MarksKnown'
    BY <2>2, <2>3, <2>4 DEF ReportsInv, MarksKnown, TypeInv, TypeOK, ReceiptRow
  <2> QED
    BY <2>5, <2>7, <2>8 DEF ReportsInv
<1> QED
  BY <1>5, <1>6, <1>7, <1>8, <1>9, <1>10 DEF Work

LEMMA ReceiveReports ==
    ASSUME TypeInv, ReportsInv, NEW e \in Receipts, Receive(e)
    PROVE  ReportsInv'
<1>1. UNCHANGED <<jobs, worker, sent>>
  BY DEF Receive, ReceiptFind, ReceiptMark, ReceiptRecount
<1>2. RecordsOwn'
  BY <1>1 DEF ReportsInv, RecordsOwn, Recipient
<1>3. KeepsIds
  <2>1. CASE UNCHANGED recip
    BY <2>1, SameRecipients
  <2>2. CASE ReceiptMark(e)
    BY <2>2 DEF ReceiptMark, KeepsIds, ReportsInv, MarksKnown, TypeInv, TypeOK,
       RecipientRow
  <2> QED
    BY <2>1, <2>2 DEF Receive, ReceiptFind, ReceiptRecount
<1>4. ReportsAreTrue'
  BY <1>1, <1>3 DEF ReportsInv, ReportsAreTrue, KeepsIds
<1>5. \A f \in Receipts : receipts'[f].pc = "mark" =>
          /\ receipts'[f].recip \in Recipients
          /\ recip[receipts'[f].recip].msg # 0
  <2>1. CASE ReceiptFind(e)
    <3>1. PICK row :
            /\ receipts' = [receipts EXCEPT ![e] = row]
            /\ row.pc = "mark" => row.recip \in Recipients /\ recip[row.recip].msg # 0
      <4>1. Receipt("over").pc # "mark"
        BY DEF Receipt
      <4>2. CASE \E m \in 1 .. Len(sent), k \in ReceiptKind, r \in Recipients :
                   /\ recip[r].msg = m
                   /\ receipts' = [receipts EXCEPT ![e] =
                        [pc |-> "mark", recip |-> r, kind |-> k]]
        <5>1. PICK m \in 1 .. Len(sent), k \in ReceiptKind, r \in Recipients :
                /\ recip[r].msg = m
                /\ receipts' = [receipts EXCEPT ![e] =
                     [pc |-> "mark", recip |-> r, kind |-> k]]
          BY <4>2
        <5> DEFINE row == [pc |-> "mark", recip |-> r, kind |-> k]
        <5>2. recip[row.recip].msg # 0 /\ row.recip \in Recipients
          BY <5>1 DEF TypeInv, TypeOK
        <5> QED
          BY <5>1, <5>2
      <4>3. CASE receipts' = [receipts EXCEPT ![e] = Receipt("over")]
        BY <4>1, <4>3
      <4> QED
        BY <2>1, <4>2, <4>3 DEF ReceiptFind
    <3> QED
      BY <3>1 DEF ReportsInv, MarksKnown, TypeInv, TypeOK, ReceiptRow
  <2>2. CASE ReceiptMark(e)
    BY <2>2 DEF ReceiptMark, ReportsInv, MarksKnown, TypeInv, TypeOK, ReceiptRow
  <2>3. CASE ReceiptRecount(e)
    BY <2>3 DEF ReceiptRecount, Receipt, ReportsInv, MarksKnown, TypeInv, TypeOK, ReceiptRow
  <2> QED
    BY <2>1, <2>2, <2>3 DEF Receive
<1>6. MarksKnown'
  BY <1>3, <1>5 DEF MarksKnown, KeepsIds
<1> QED
  BY <1>2, <1>4, <1>6 DEF ReportsInv

LEMMA NextReports == TypeInv /\ ReportsInv /\ [Next]_vars => ReportsInv'
<1> SUFFICES ASSUME TypeInv, ReportsInv, [Next]_vars
             PROVE  ReportsInv'
  OBVIOUS
<1>1. ASSUME UNCHANGED <<worker, jobs, recip, sent, receipts>>
      PROVE  ReportsInv'
  BY <1>1, KeepReports, SameJobs, SameRecipients
<1>2. ASSUME NEW c \in Calls, Arrive(c) \/ Abort(c)
      PROVE  ReportsInv'
  BY <1>1, <1>2 DEF Arrive, StartRead, Open, Abort
<1>3. ASSUME NEW j \in Jobs, PickUp(j) \/ Enter(j)
      PROVE  ReportsInv'
  <2>1. KeepsRecords
    <3>1. \A k \in Jobs : jobs'[k].recip = jobs[k].recip
      BY <1>3, PickedUp DEF TypeInv, Enter
    <3>2. \A i \in Instances : worker'[i] = worker[i] \/ worker'[i].pc = "traffic"
      BY <1>3 DEF PickUp, Enter, Idle, TypeInv, TypeOK
    <3> QED
      BY <3>1, <3>2 DEF KeepsRecords, Recipient, TypeInv, HoldsJob
  <2> QED
    BY <1>3, <2>1, SameRecipients, KeepReports DEF PickUp, Enter
<1>4. CASE Crash
  <2>1. KeepsRecords
    BY <1>4, IdleType DEF Crash, KeepsRecords
  <2> QED
    BY <1>4, <2>1, SameRecipients, KeepReports DEF Crash
<1>5. CASE UNCHANGED vars
  BY <1>1, <1>5 DEF vars
<1> QED
  BY <1>2, <1>3, <1>4, <1>5, HandlerReports, WorkReports, ReceiveReports DEF Next

LEMMA InitReports == Init => ReportsInv
<1> SUFFICES ASSUME Init PROVE ReportsInv
  OBVIOUS
<1>1. ReportsAreTrue
  BY DEF Init, ReportsAreTrue, Reached
<1>2. RecordsOwn
  BY IdleType DEF Init, RecordsOwn
<1>3. MarksKnown
  BY DEF Init, MarksKnown, Receipt
<1> QED
  BY <1>1, <1>2, <1>3 DEF ReportsInv

\* Every recipient shown as sent, delivered or read has the id of a message
\* WhatsApp accepted for that recipient, whatever was requeued or retried.
THEOREM TrueReports == Spec => []ReportsAreTrue
<1>1. Init => ReportsInv
  BY InitReports
<1>2. ReportsInv => ReportsAreTrue
  BY DEF ReportsInv
<1>3. Spec => [](TypeInv /\ ReportsInv)
  BY <1>1, InitTypeInv, NextTypeInv, NextReports, PTL DEF Spec
<1> QED
  BY <1>2, <1>3, PTL

-----------------------------------------------------------------------------
(* Repeating: the attempts BullMQ allows a job, and once more for each     *)
(* crash of the worker, however often the campaign is paused, resumed or   *)
(* cancelled meanwhile.                                                    *)

\* A running sendMessage holds an active job of its own instance, so no two
\* of them hold the same job.
OwnJob ==
    \A i \in Instances : worker[i].pc # "idle" =>
        /\ worker[i].job \in Jobs
        /\ jobs[worker[i].job].state = "active"
        /\ jobs[worker[i].job].inst = i

\* The running attempt of j may have sent its message already.
MaySent(j) ==
    \E i \in Instances : /\ worker[i].pc \in {"record", "recount", "catch"}
                         /\ worker[i].job = j

\* Each finished attempt and each crash accounts for one message, the running
\* or the last attempt for one more.
Accounted(j) ==
    /\ jobs[j].made + 1 <= Attempts
    /\ SendsOf(j) <= jobs[j].made + crashes + 1
    /\ SendsOf(j) <= jobs[j].made + crashes \/ MaySent(j) \/ jobs[j].state = "over"
    /\ jobs[j].state = "free" => SendsOf(j) = 0

RetriesInv == OwnJob /\ \A j \in Jobs : Accounted(j)

-----------------------------------------------------------------------------
LEMMA SendsOfType ==
    ASSUME TypeOK, NEW j
    PROVE  /\ IsFiniteSet({m \in DOMAIN sent : sent[m].job = j})
           /\ SendsOf(j) \in Nat
<1> DEFINE S == {m \in DOMAIN sent : sent[m].job = j}
<1>1. S \subseteq 1 .. Len(sent) /\ Len(sent) \in Nat
  BY DEF TypeOK
<1>2. IsFiniteSet(S)
  BY <1>1, FS_Interval, FS_Subset
<1> QED
  BY <1>2, FS_CardinalityType DEF SendsOf

LEMMA SendCounts ==
    ASSUME TypeOK, NEW k, NEW r, sent' = Append(sent, [recip |-> r, job |-> k])
    PROVE  /\ SendsOf(k)' = SendsOf(k) + 1
           /\ \A j : j # k => SendsOf(j)' = SendsOf(j)
<1> DEFINE S(j) == {m \in DOMAIN sent : sent[m].job = j}
           T(j) == {m \in DOMAIN sent' : sent'[m].job = j}
           n == Len(sent) + 1
<1>1. Len(sent) \in Nat /\ DOMAIN sent = 1 .. Len(sent)
  BY DEF TypeOK
<1>2. /\ DOMAIN sent' = 1 .. n
      /\ sent'[n].job = k
      /\ \A m \in 1 .. Len(sent) : sent'[m] = sent[m]
  BY DEF TypeOK
<1>3. T(k) = S(k) \cup {n}
  BY <1>1, <1>2
<1>4. n \notin S(k)
  BY <1>1
<1>5. Cardinality(T(k)) = Cardinality(S(k)) + 1
  <2>1. IsFiniteSet(S(k))
    BY SendsOfType
  <2> HIDE DEF S, T, n
  <2>2. Cardinality(S(k) \cup {n}) = Cardinality(S(k)) + 1
    BY <1>4, <2>1, FS_AddElement
  <2> QED
    BY <1>3, <2>2
<1>6. ASSUME NEW j, j # k
      PROVE  T(j) = S(j)
  BY <1>1, <1>2, <1>6
<1> QED
  BY <1>5, <1>6 DEF SendsOf

LEMMA SameSends ==
    ASSUME UNCHANGED sent
    PROVE  \A j : SendsOf(j)' = SendsOf(j)
BY DEF SendsOf

-----------------------------------------------------------------------------
\* Most steps leave the queue, the worker and the messages as they are.
LEMMA SameAccounts ==
    ASSUME RetriesInv, UNCHANGED <<jobs, worker, sent, crashes>>
    PROVE  RetriesInv'
BY SameSends DEF RetriesInv, OwnJob, Accounted, MaySent

LEMMA HandlerRetries ==
    ASSUME TypeInv, RetriesInv, NEW c \in Calls, Handler(c)
    PROVE  RetriesInv'
<1>0. \A j \in Jobs : /\ jobs[j] \in JobRow
                     /\ SendsOf(j) \in Nat
                     /\ crashes \in Nat
  BY SendsOfType DEF TypeInv, TypeOK
<1>1. CASE StartAdd(c)
  <2>1. PICK r \in calls[c].todo, k \in Jobs :
          /\ jobs[k].state = "free"
          /\ jobs' = [jobs EXCEPT ![k] =
               [state |-> "ready", recip |-> r, inst |-> calls[c].inst, made |-> 0, early |-> FALSE]]
    BY <1>1 DEF StartAdd
  <2>2. UNCHANGED <<worker, sent, crashes>>
    BY <1>1 DEF StartAdd
  <2>3. OwnJob'
    BY <2>1, <2>2 DEF RetriesInv, OwnJob, TypeInv, TypeOK
  <2>4. ASSUME NEW j \in Jobs
        PROVE  Accounted(j)'
    <3>1. SendsOf(j)' = SendsOf(j)
      BY <2>2, SameSends
    <3>2. CASE j = k
      <4>1. SendsOf(j) = 0 /\ jobs'[j].made = 0 /\ jobs'[j].state = "ready"
        BY <2>1, <3>2 DEF RetriesInv, Accounted, TypeInv, TypeOK
      <4> QED
        BY <1>0, <2>2, <3>1, <4>1, CampaignAssumption DEF Accounted
    <3>3. CASE j # k
      <4>1. jobs'[j] = jobs[j]
        BY <2>1, <3>3 DEF TypeInv, TypeOK
      <4> QED
        BY <2>2, <3>1, <4>1 DEF RetriesInv, Accounted, MaySent
    <3> QED
      BY <3>2, <3>3
  <2> QED
    BY <2>3, <2>4 DEF RetriesInv
<1>2. CASE PauseRemove(c) \/ CancelRemove(c)
  <2>1. PICK k : Remove(k)
    BY <1>2 DEF PauseRemove, CancelRemove
  <2>2. UNCHANGED <<worker, sent, crashes>>
    BY <1>2 DEF PauseRemove, CancelRemove
  <2>3. OwnJob'
    BY <2>1, <2>2 DEF Remove, RetriesInv, OwnJob, TypeInv, TypeOK, JobRow
  <2>4. ASSUME NEW j \in Jobs
        PROVE  Accounted(j)'
    <3>1. SendsOf(j)' = SendsOf(j)
      BY <2>2, SameSends
    <3>2. /\ jobs'[j].made = jobs[j].made
          /\ jobs'[j].state = jobs[j].state \/ jobs'[j].state = "over"
      BY <2>1 DEF Remove, TypeInv, TypeOK, JobRow
    <3> QED
      BY <2>2, <3>1, <3>2 DEF RetriesInv, Accounted, MaySent
  <2> QED
    BY <2>3, <2>4 DEF RetriesInv
<1> QED
  BY <1>1, <1>2, SameAccounts DEF Handler, StartList, StartMark, StartEnd,
     PauseList, PauseMark, PauseEnd, CancelList, CancelMark, CancelEnd,
     AddInsert, PatchWrite

LEMMA QueueRetries ==
    ASSUME TypeInv, RetriesInv, (\E j \in Jobs : PickUp(j) \/ Enter(j)) \/ Crash
    PROVE  RetriesInv'
<1>0. \A j \in Jobs : /\ jobs[j] \in JobRow
                     /\ SendsOf(j) \in Nat
                     /\ crashes \in Nat
  BY SendsOfType DEF TypeInv, TypeOK
<1>1. ASSUME NEW k \in Jobs, PickUp(k)
      PROVE  RetriesInv'
  <2>1. /\ jobs[k].state = "ready" /\ jobs'[k].state = "active"
        /\ jobs'[k].made = jobs[k].made
        /\ \A j \in Jobs : j # k => jobs'[j] = jobs[j]
        /\ UNCHANGED <<worker, sent, crashes>>
    BY <1>1, PickedUp DEF PickUp, TypeInv
  <2>2. OwnJob'
    BY <2>1 DEF RetriesInv, OwnJob
  <2>3. ASSUME NEW j \in Jobs
        PROVE  Accounted(j)'
    <3>1. /\ jobs'[j].made = jobs[j].made
          /\ jobs'[j].state = IF j = k THEN "active" ELSE jobs[j].state
      BY <2>1
    <3> QED
      BY <2>1, <3>1, SameSends DEF RetriesInv, Accounted, MaySent
  <2> QED
    BY <2>2, <2>3 DEF RetriesInv
<1>2. ASSUME NEW k \in Jobs, Enter(k)
      PROVE  RetriesInv'
  <2> DEFINE i == jobs[k].inst
  <2>1. /\ jobs[k].state = "active"
        /\ i \in Instances /\ worker[i].pc = "idle"
        /\ worker' = [worker EXCEPT ![i] = [Idle EXCEPT !.pc = "traffic", !.job = k]]
        /\ UNCHANGED <<jobs, sent, crashes>>
    BY <1>0, <1>2 DEF Enter, JobRow
  <2>2. /\ worker'[i].pc = "traffic" /\ worker'[i].job = k
        /\ \A l \in Instances \ {i} : worker'[l] = worker[l]
    BY <2>1 DEF Idle, TypeInv, TypeOK
  <2>3. OwnJob'
    BY <2>1, <2>2 DEF RetriesInv, OwnJob
  <2>4. ASSUME NEW j \in Jobs
        PROVE  Accounted(j)'
    <3>1. MaySent(j) => MaySent(j)'
      BY <2>1, <2>2 DEF MaySent
    <3> QED
      BY <2>1, <3>1, SameSends DEF RetriesInv, Accounted
  <2> QED
    BY <2>3, <2>4 DEF RetriesInv
<1>3. CASE Crash
  <2>1. /\ crashes' = crashes + 1
        /\ \A i \in Instances : worker'[i].pc = "idle"
        /\ UNCHANGED sent
    BY <1>3, IdleType DEF Crash
  <2>2. ASSUME NEW j \in Jobs
        PROVE  /\ jobs'[j].made = jobs[j].made
               /\ jobs'[j].state = "free" => jobs[j].state = "free"
    BY <1>0, <1>3 DEF Crash, JobRow
  <2>3. ASSUME NEW j \in Jobs
        PROVE  Accounted(j)'
    <3>1. SendsOf(j)' = SendsOf(j)
      BY <2>1, SameSends
    <3>2. jobs[j].made \in Nat
      BY <1>0 DEF JobRow
    <3> QED
      BY <1>0, <2>1, <2>2, <3>1, <3>2 DEF RetriesInv, Accounted
  <2>4. OwnJob'
    BY <2>1 DEF OwnJob
  <2> QED
    BY <2>3, <2>4 DEF RetriesInv
<1> QED
  BY <1>1, <1>2, <1>3

\* The attempt ends: what it sent is counted by its number, or it was the last.
LEMMA SettleRetries ==
    ASSUME TypeInv, RetriesInv, NEW i \in Instances, worker[i].pc # "idle",
           NEW s, NEW m, Settle(i, s, m), UNCHANGED <<sent, crashes>>,
           \/ s = "over" /\ m = jobs[worker[i].job].made
           \/ s = "ready" /\ m = jobs[worker[i].job].made + 1 /\ m < Attempts
    PROVE  RetriesInv'
<1>0. PICK k \in Jobs : k = worker[i].job
  BY DEF RetriesInv, OwnJob
<1>1. /\ jobs[k] \in JobRow /\ jobs[k].inst = i
      /\ jobs[k].made \in Nat /\ crashes \in Nat /\ SendsOf(k) \in Nat
  BY <1>0, SendsOfType DEF RetriesInv, OwnJob, TypeInv, TypeOK, JobRow
<1>2. /\ jobs'[k].made = m /\ jobs'[k].state = s /\ jobs'[k].inst = i
      /\ \A j \in Jobs \ {k} : jobs'[j] = jobs[j]
  BY <1>0, <1>1 DEF Settle, TypeInv, TypeOK, JobRow
<1>3. /\ worker'[i].pc = "idle"
      /\ \A l \in Instances \ {i} : worker'[l] = worker[l]
  BY IdleType DEF Settle, TypeInv, TypeOK
<1>4. \A l \in Instances \ {i} : worker[l].pc # "idle" => worker[l].job # k
  BY <1>1 DEF RetriesInv, OwnJob
<1>5. OwnJob'
  BY <1>2, <1>3, <1>4 DEF RetriesInv, OwnJob
<1>6. ASSUME NEW j \in Jobs, j # k
      PROVE  Accounted(j)'
  <2>1. MaySent(j) => MaySent(j)'
    BY <1>0, <1>3, <1>6 DEF MaySent
  <2> QED
    BY <1>2, <1>6, <2>1, SameSends DEF RetriesInv, Accounted
<1>7. Accounted(k)'
  <2>1. Accounted(k) /\ SendsOf(k)' = SendsOf(k)
    BY <1>1, SameSends DEF RetriesInv
  <2>2. Attempts \in Nat
    BY CampaignAssumption
  <2>3. CASE s = "over" /\ m = jobs[k].made
    BY <1>1, <1>2, <2>1, <2>2, <2>3 DEF Accounted
  <2>4. CASE s = "ready" /\ m = jobs[k].made + 1 /\ m < Attempts
    BY <1>1, <1>2, <2>1, <2>2, <2>4 DEF Accounted
  <2> QED
    BY <1>0, <2>3, <2>4
<1> QED
  BY <1>5, <1>6, <1>7 DEF RetriesInv

LEMMA WorkRetries ==
    ASSUME TypeInv, RetriesInv, NEW i \in Instances, Work(i)
    PROVE  RetriesInv'
<1>0. /\ worker[i].pc # "idle" => worker[i].job \in Jobs
      /\ worker[i].pc # "idle" => jobs[worker[i].job].made \in Nat
      /\ Attempts \in Nat
  BY CampaignAssumption DEF RetriesInv, OwnJob, TypeInv, TypeOK, JobRow
\* A step of the attempt that neither sends nor settles.
<1>1. ASSUME NEW l \in WorkerPc \ {"idle"}, worker[i].pc # "idle",
             worker'[i].pc = l, worker'[i].job = worker[i].job,
             \A n \in Instances \ {i} : worker'[n] = worker[n],
             worker[i].pc \in {"record", "recount", "catch"} =>
               l \in {"record", "recount", "catch"},
             UNCHANGED <<jobs, sent, crashes>>
      PROVE  RetriesInv'
  <2>1. OwnJob'
    BY <1>1 DEF RetriesInv, OwnJob
  <2>2. ASSUME NEW j \in Jobs
        PROVE  Accounted(j)'
    <3>1. MaySent(j) => MaySent(j)'
      BY <1>1 DEF MaySent
    <3> QED
      BY <1>1, <3>1, SameSends DEF RetriesInv, Accounted
  <2> QED
    BY <2>1, <2>2 DEF RetriesInv
<1>2. ASSUME NEW l, Step(i, l)
      PROVE  /\ worker'[i].pc = l /\ worker'[i].job = worker[i].job
             /\ \A n \in Instances \ {i} : worker'[n] = worker[n]
  BY <1>2 DEF Step, TypeInv, TypeOK, WorkerRow
<1>9. ASSUME NEW e, Throw(i, e), worker[i].pc # "idle", UNCHANGED <<jobs, sent, crashes>>
      PROVE  RetriesInv'
  <2>1. /\ worker'[i].pc = "catch" /\ worker'[i].job = worker[i].job
        /\ \A n \in Instances \ {i} : worker'[n] = worker[n]
    BY <1>9 DEF Throw, TypeInv, TypeOK, WorkerRow
  <2> QED
    BY <1>1, <1>9, <2>1 DEF WorkerPc
<1>3. CASE Admit(i) \/ CheckStatus(i) \/ SendRefused(i) \/ AwaitFails(i)
  <2>1. /\ worker[i].pc # "idle"
        /\ UNCHANGED <<jobs, sent, crashes>>
    BY <1>3 DEF Admit, CheckStatus, SendRefused, AwaitFails
  <2>2. CASE \E e : Throw(i, e)
    BY <1>9, <2>1, <2>2
  <2>3. ASSUME NEW l \in {"check", "drop", "send"}, Step(i, l),
               worker[i].pc \notin {"record", "recount", "catch"}
        PROVE  RetriesInv'
    BY <1>1, <1>2, <2>1, <2>3 DEF WorkerPc
  <2> QED
    BY <1>3, <2>2, <2>3 DEF Admit, CheckStatus, SendRefused, AwaitFails
<1>4. CASE Record(i)
  BY <1>1, <1>2, <1>4 DEF Record, WorkerPc
<1>5. CASE Drop(i) \/ Recount(i)
  BY <1>5, SettleRetries DEF Drop, Recount
<1>6. CASE Retry(i)
  BY <1>0, <1>6, SettleRetries DEF Retry, IsFinal
<1>7. CASE Fail(i)
  BY <1>7, SettleRetries DEF Fail
<1>8. CASE Send(i)
  <2>0. PICK k \in Jobs : k = worker[i].job
    BY <1>8 DEF Send, RetriesInv, OwnJob
  <2>1. /\ worker[i].pc = "send"
        /\ sent' = Append(sent, [recip |-> Recipient(i), job |-> k])
        /\ UNCHANGED <<jobs, crashes>>
    BY <1>8, <2>0 DEF Send
  <2>2. /\ worker'[i].pc = "record" /\ worker'[i].job = k
        /\ \A n \in Instances \ {i} : worker'[n] = worker[n]
    BY <1>8, <2>0 DEF Send, TypeInv, TypeOK, WorkerRow
  <2>3. OwnJob'
    BY <2>0, <2>1, <2>2 DEF RetriesInv, OwnJob
  <2>4. /\ SendsOf(k)' = SendsOf(k) + 1
        /\ \A j : j # k => SendsOf(j)' = SendsOf(j)
    BY <2>1, SendCounts DEF TypeInv
  <2>5. jobs[k].state = "active" /\ ~MaySent(k)
    BY <2>0, <2>1 DEF RetriesInv, OwnJob, MaySent
  <2>6. ASSUME NEW j \in Jobs
        PROVE  Accounted(j)'
    <3>1. CASE j = k
      <4>1. MaySent(j)'
        BY <2>2, <3>1 DEF MaySent
      <4>2. SendsOf(k) \in Nat /\ jobs[k].made \in Nat /\ crashes \in Nat
        BY SendsOfType DEF TypeInv, TypeOK, JobRow
      <4> QED
        BY <2>1, <2>4, <2>5, <3>1, <4>1, <4>2 DEF RetriesInv, Accounted
    <3>2. CASE j # k
      <4>1. MaySent(j) => MaySent(j)'
        BY <2>0, <2>1, <2>2 DEF MaySent
      <4> QED
        BY <2>1, <2>4, <3>2, <4>1 DEF RetriesInv, Accounted
    <3> QED
      BY <3>1, <3>2
  <2> QED
    BY <2>3, <2>6 DEF RetriesInv
<1> QED
  BY <1>3, <1>4, <1>5, <1>6, <1>7, <1>8 DEF Work

LEMMA NextRetries == TypeInv /\ RetriesInv /\ [Next]_vars => RetriesInv'
<1> SUFFICES ASSUME TypeInv, RetriesInv, [Next]_vars
             PROVE  RetriesInv'
  OBVIOUS
<1>1. ASSUME NEW c \in Calls, Arrive(c) \/ Abort(c)
      PROVE  RetriesInv'
  BY <1>1, SameAccounts DEF Arrive, StartRead, Open, Abort
<1>2. ASSUME NEW e \in Receipts, Receive(e)
      PROVE  RetriesInv'
  BY <1>2, SameAccounts DEF Receive, ReceiptFind, ReceiptMark, ReceiptRecount
<1>3. CASE UNCHANGED vars
  BY <1>3, SameAccounts DEF vars
<1> QED
  BY <1>1, <1>2, <1>3, HandlerRetries, QueueRetries, WorkRetries DEF Next

LEMMA InitRetries == Init => RetriesInv
<1> SUFFICES ASSUME Init PROVE RetriesInv
  OBVIOUS
<1>1. OwnJob
  BY IdleType DEF Init, OwnJob
<1>2. ASSUME NEW j \in Jobs
      PROVE  SendsOf(j) = 0
  <2>1. {m \in DOMAIN sent : sent[m].job = j} = {}
    BY DEF Init
  <2> QED
    BY <2>1, FS_EmptySet DEF SendsOf
<1>3. ASSUME NEW j \in Jobs
      PROVE  jobs[j].made = 0 /\ crashes = 0
  BY DEF Init
<1> QED
  BY <1>1, <1>2, <1>3, CampaignAssumption DEF RetriesInv, Accounted

LEMMA RetriesInvariant == Spec => [](TypeInv /\ RetriesInv)
BY InitRetries, InitTypeInv, NextTypeInv, NextRetries, PTL DEF Spec

\* However a job is retried, taken back from a dead worker and paused, it sends
\* its message at most Attempts times, plus once for every crash.
THEOREM BoundedRepeats == Spec => []RetriesBoundSends
<1>1. TypeInv /\ RetriesInv => RetriesBoundSends
  <2> SUFFICES ASSUME TypeInv, RetriesInv, NEW j \in Jobs
               PROVE  SendsOf(j) <= Attempts + crashes
    BY DEF RetriesBoundSends
  <2>1. SendsOf(j) \in Nat /\ jobs[j].made \in Nat /\ crashes \in Nat
    BY SendsOfType DEF TypeInv, TypeOK, JobRow
  <2> QED
    BY <2>1, CampaignAssumption DEF RetriesInv, Accounted
<1> QED
  BY <1>1, RetriesInvariant, PTL

-----------------------------------------------------------------------------
(* A campaign that is started by one request, with a worker and handlers   *)
(* that do not fail: nobody is sent two messages, and a campaign that      *)
(* stays 'running' shows a recipient that explains it.                     *)

\* Only one request may start the campaign, and no awaited call fails.
Starters == {c \in Calls : Requests[c] \cap {"start", "senderStart"} # {}}
StartedOnce ==
    /\ \A c, d \in Starters : c = d
    /\ ~Errors /\ MaxCrashes = 0

-----------------------------------------------------------------------------
(* Each recipient gets at most one job, and each job sends at most one     *)
(* message.                                                                *)

\* The starter is the only one to add jobs; there are none before it lists.
OneStarter ==
    /\ \A c \in Calls : calls[c].pc \in StartPc => c \in Starters
    /\ \A c \in Starters : calls[c].pc \in {"new", "startList"} =>
          \A j \in Jobs : jobs[j].state = "free"

\* Who is still on its list has no job, but for the first once it is added.
ListedFresh ==
    \A c \in Calls, j \in Jobs :
        (jobs[j].state # "free" /\ jobs[j].recip \in calls[c].todo) =>
            /\ calls[c].pc # "startAdd"
            /\ calls[c].pc = "startMark" => IsFirst(jobs[j].recip, calls[c].todo)

OneJobEach ==
    \A j, k \in Jobs :
        (jobs[j].state # "free" /\ jobs[k].state # "free" /\ jobs[j].recip = jobs[k].recip)
            => j = k

\* The running attempt of j has sent its message and cannot fail any more.
Delivering(j) ==
    \E i \in Instances : worker[i].job = j /\ worker[i].pc \in {"record", "recount"}

OneMessageEach ==
    /\ \A m, n \in DOMAIN sent : sent[m].job = sent[n].job => m = n
    /\ \A m \in DOMAIN sent :
          /\ sent[m].job \in Jobs
          /\ jobs[sent[m].job].state # "free"
          /\ jobs[sent[m].job].recip = sent[m].recip
          /\ jobs[sent[m].job].state = "over" \/ Delivering(sent[m].job)

OnceInv == OneStarter /\ ListedFresh /\ OneJobEach /\ OneMessageEach

LEMMA StarterTypes ==
    ASSUME TypeInv
    PROVE  /\ \A c \in Calls : /\ calls[c].pc \in CallPc /\ calls[c].todo \subseteq Recipients
                               /\ calls[c] \in CallRow
           /\ \A j \in Jobs : jobs[j] \in JobRow /\ jobs[j].recip \in Recipients
           /\ Recipients \subseteq Nat
BY CampaignAssumption DEF TypeInv, TypeOK, CallRow, JobRow

-----------------------------------------------------------------------------
\* All steps but one neither add a job nor change whose it is.
JobsKept ==
    \A j \in Jobs : /\ jobs'[j].recip = jobs[j].recip
                    /\ (jobs'[j].state = "free") <=> (jobs[j].state = "free")

\* All steps but one do not hand out a job early.
EarlyKept == \A j \in Jobs : jobs'[j].early = jobs[j].early

LEMMA SettleKeepsJobs ==
    ASSUME TypeInv, NEW i \in Instances, worker[i].pc # "idle",
           NEW s \in {"ready", "over"}, NEW m, Settle(i, s, m)
    PROVE  /\ JobsKept /\ EarlyKept
           /\ \A j \in Jobs : j # worker[i].job => jobs'[j] = jobs[j]
           /\ jobs'[worker[i].job].state = s
           /\ worker'[i] = Idle
           /\ \A k \in Instances : k # i => worker'[k] = worker[k]
<1>1. worker[i].job \in Jobs /\ jobs[worker[i].job].state # "free"
  BY DEF TypeInv, HoldsJob
<1>2. jobs \in [Jobs -> JobRow] /\ worker \in [Instances -> WorkerRow]
  BY DEF TypeInv, TypeOK
<1> QED
  BY <1>1, <1>2 DEF Settle, JobsKept, EarlyKept, JobRow

LEMMA HandlerKeepsJobs ==
    ASSUME TypeInv, NEW c \in Calls, Handler(c), ~StartAdd(c)
    PROVE  JobsKept /\ UNCHANGED <<worker, sent, crashes, receipts>>
<1>1. UNCHANGED <<worker, sent, crashes, receipts>>
  BY DEF Handler, StartList, StartMark, StartEnd, PauseList,
     PauseRemove, PauseMark, PauseEnd, CancelList, CancelRemove, CancelMark, CancelEnd,
     AddInsert, PatchWrite
<1>2. CASE PauseRemove(c) \/ CancelRemove(c)
  <2>1. PICK k : Remove(k)
    BY <1>2 DEF PauseRemove, CancelRemove
  <2>2. JobsKept
    BY <2>1 DEF Remove, JobsKept, TypeInv, TypeOK, JobRow
  <2> QED
    BY <1>1, <2>2
<1>3. CASE ~(PauseRemove(c) \/ CancelRemove(c))
  <2>1. UNCHANGED jobs
    BY <1>3 DEF Handler, StartList, StartMark, StartEnd, PauseList,
       PauseMark, PauseEnd, CancelList, CancelMark, CancelEnd, AddInsert, PatchWrite
  <2> QED
    BY <1>1, <2>1 DEF JobsKept
<1> QED
  BY <1>2, <1>3

LEMMA WorkKeepsJobs ==
    ASSUME TypeInv, NEW i \in Instances, Work(i)
    PROVE  /\ JobsKept /\ EarlyKept /\ UNCHANGED <<calls, crashes, receipts>>
           /\ \A j \in Jobs : j # worker[i].job => jobs'[j] = jobs[j]
<1>1. CASE UNCHANGED jobs
  BY <1>1 DEF JobsKept, EarlyKept, Work, Admit, CheckStatus, Drop, Send, SendRefused, Record,
     Recount, AwaitFails, Retry, Fail
<1>2. CASE Drop(i) \/ Recount(i) \/ Retry(i) \/ Fail(i)
  BY <1>2, SettleKeepsJobs DEF Drop, Recount, Retry, Fail
<1> QED
  BY <1>1, <1>2 DEF Work, Admit, CheckStatus, Send, SendRefused, Record, AwaitFails

-----------------------------------------------------------------------------
\* A call that is not starting, or only lists what has no job, disturbs nothing.
LEMMA CallChange ==
    ASSUME TypeInv, OnceInv, JobsKept, NEW c \in Calls,
           \A d \in Calls : d # c => calls'[d] = calls[d],
           calls'[c].pc \in StartPc => c \in Starters,
           c \in Starters /\ calls'[c].pc \in {"new", "startList"} =>
               \A j \in Jobs : jobs[j].state = "free",
           calls'[c].pc = "startAdd" =>
               \A j \in Jobs : jobs[j].state # "free" => jobs[j].recip \notin calls'[c].todo,
           calls'[c].pc # "startMark"
    PROVE  OneStarter' /\ ListedFresh'
<1>1. OneStarter'
  <2>1. ASSUME NEW d \in Calls, calls'[d].pc \in StartPc
        PROVE  d \in Starters
    <3>1. CASE d = c
      BY <2>1, <3>1
    <3>2. CASE d # c
      BY <2>1, <3>2 DEF OnceInv, OneStarter
    <3> QED
      BY <3>1, <3>2
  <2>2. ASSUME NEW d \in Starters, calls'[d].pc \in {"new", "startList"}, NEW j \in Jobs
        PROVE  jobs'[j].state = "free"
    <3>1. jobs[j].state = "free"
      <4>1. CASE d = c
        BY <2>2, <4>1
      <4>2. CASE d # c
        BY <2>2, <4>2 DEF OnceInv, OneStarter, Starters
      <4> QED
        BY <4>1, <4>2
    <3> QED
      BY <3>1 DEF JobsKept
  <2> QED
    BY <2>1, <2>2 DEF OneStarter
<1>2. ASSUME NEW d \in Calls, NEW j \in Jobs,
             jobs'[j].state # "free", jobs'[j].recip \in calls'[d].todo
      PROVE  /\ calls'[d].pc # "startAdd"
             /\ calls'[d].pc = "startMark" => IsFirst(jobs'[j].recip, calls'[d].todo)
  <2>1. jobs[j].state # "free" /\ jobs'[j].recip = jobs[j].recip
    BY <1>2 DEF JobsKept
  <2>2. CASE d = c
    <3>1. calls'[c].pc \notin {"startAdd", "startMark"}
      BY <2>1, <2>2, <1>2
    <3> QED
      BY <2>2, <3>1
  <2>3. CASE d # c
    <3>1. calls'[d] = calls[d]
      BY <2>3
    <3> QED
      BY <2>1, <3>1, <1>2 DEF OnceInv, ListedFresh
  <2> QED
    BY <2>2, <2>3
<1>3. ListedFresh'
  BY <1>2 DEF ListedFresh, IsFirst
<1> QED
  BY <1>1, <1>3

LEMMA ReturnChange ==
    ASSUME TypeInv, OnceInv, JobsKept, NEW c \in Calls, Return(c)
    PROVE  OneStarter' /\ ListedFresh'
<1>1. /\ calls'[c].pc = "over"
      /\ \A d \in Calls : d # c => calls'[d] = calls[d]
  BY DEF Return, Request, TypeInv, TypeOK
<1> QED
  BY <1>1, CallChange DEF StartPc

LEMMA OtherChange ==
    ASSUME TypeInv, OnceInv, JobsKept, NEW c \in Calls,
           NEW l \in CallPc \ (StartPc \cup {"new"}),
           \A d \in Calls : d # c => calls'[d] = calls[d],
           calls'[c].pc = l
    PROVE  OneStarter' /\ ListedFresh'
BY CallChange DEF StartPc

LEMMA StartChange ==
    ASSUME TypeInv, OnceInv, JobsKept, NEW c \in Calls,
           StartList(c) \/ StartMark(c)
    PROVE  OneStarter' /\ ListedFresh'
<1>0. /\ calls \in [Calls -> CallRow] /\ calls[c] \in CallRow
      /\ calls[c].todo \subseteq Recipients /\ Recipients \subseteq Nat
  BY StarterTypes DEF TypeInv, TypeOK
<1>1. CASE StartList(c)
  <2>1. /\ calls[c].pc = "startList"
        /\ calls'[c].pc \in {"startEnd", "startAdd"}
        /\ \A d \in Calls : d # c => calls'[d] = calls[d]
    BY <1>0, <1>1 DEF StartList, At, CallRow
  <2>2. c \in Starters /\ \A j \in Jobs : jobs[j].state = "free"
    BY <2>1 DEF OnceInv, OneStarter, StartPc
  <2> QED
    BY <2>1, <2>2, CallChange
<1>2. CASE StartMark(c)
  <2>1. PICK r \in calls[c].todo :
          /\ IsFirst(r, calls[c].todo)
          /\ calls' = [calls EXCEPT
               ![c].todo = @ \ {r},
               ![c].pc = IF calls[c].todo = {r} THEN "startEnd" ELSE "startAdd"]
    BY <1>2 DEF StartMark
  <2>2. /\ calls[c].pc = "startMark"
        /\ calls'[c].pc \in {"startEnd", "startAdd"}
        /\ calls'[c].todo = calls[c].todo \ {r}
        /\ \A d \in Calls : d # c => calls'[d] = calls[d]
    BY <1>0, <1>2, <2>1 DEF StartMark, At, CallRow
  <2>3. c \in Starters
    BY <2>2 DEF OnceInv, OneStarter, StartPc
  <2>4. ASSUME NEW j \in Jobs, jobs[j].state # "free", jobs[j].recip \in calls'[c].todo
        PROVE  FALSE
    <3>1. jobs[j].recip \in calls[c].todo /\ jobs[j].recip # r
      BY <2>2, <2>4
    <3>2. IsFirst(jobs[j].recip, calls[c].todo)
      BY <2>2, <2>4, <3>1 DEF OnceInv, ListedFresh
    <3>3. jobs[j].recip <= r /\ r <= jobs[j].recip /\ r \in Nat /\ jobs[j].recip \in Nat
      BY <1>0, <2>1, <3>1, <3>2 DEF IsFirst
    <3> QED
      BY <3>1, <3>3
  <2> QED
    BY <2>2, <2>3, <2>4, CallChange
<1> QED
  BY <1>1, <1>2

\* A pause or cancellation on its way, once it has read whom it concerns.
StopPc == {"pauseRemove", "pauseMark", "pauseEnd", "cancelRemove", "cancelMark", "cancelEnd"}

LEMMA StopMoves ==
    ASSUME TypeInv, NEW c \in Calls,
           \/ PauseList(c) \/ PauseRemove(c) \/ PauseMark(c)
           \/ CancelList(c) \/ CancelRemove(c) \/ CancelMark(c)
    PROVE  calls'[c].pc \in StopPc /\ \A d \in Calls : d # c => calls'[d] = calls[d]
<1>0. calls \in [Calls -> CallRow] /\ calls[c] \in CallRow
  BY DEF TypeInv, TypeOK
<1>1. CASE PauseList(c)
  BY <1>0, <1>1 DEF PauseList, CallRow, StopPc
<1>2. CASE PauseRemove(c) \/ CancelMark(c)
  BY <1>0, <1>2 DEF PauseRemove, CancelMark, Goto, CallRow, StopPc
<1>3. CASE PauseMark(c)
  BY <1>0, <1>3 DEF PauseMark, CallRow, StopPc
<1>4. CASE CancelList(c)
  BY <1>0, <1>4 DEF CancelList, CallRow, StopPc
<1>5. CASE CancelRemove(c)
  BY <1>0, <1>5 DEF CancelRemove, At, CallRow, StopPc
<1> QED
  BY <1>1, <1>2, <1>3, <1>4, <1>5

LEMMA HandlerChange ==
    ASSUME TypeInv, OnceInv, NEW c \in Calls, Handler(c), ~StartAdd(c)
    PROVE  OneStarter' /\ ListedFresh'
<1>0. calls \in [Calls -> CallRow] /\ JobsKept
  BY HandlerKeepsJobs DEF TypeInv, TypeOK
<1>1. CASE StartEnd(c) \/ PauseEnd(c) \/ CancelEnd(c) \/ AddInsert(c) \/ PatchWrite(c)
  BY <1>0, <1>1, ReturnChange DEF StartEnd, PauseEnd, CancelEnd, AddInsert, PatchWrite
<1>2. CASE \/ PauseList(c) \/ PauseRemove(c) \/ PauseMark(c)
           \/ CancelList(c) \/ CancelRemove(c) \/ CancelMark(c)
  <2>1. calls'[c].pc \in StopPc /\ \A d \in Calls : d # c => calls'[d] = calls[d]
    BY <1>2, StopMoves
  <2>2. PICK l \in CallPc \ (StartPc \cup {"new"}) : calls'[c].pc = l
    BY <2>1 DEF CallPc, StartPc, StopPc
  <2> QED
    BY <1>0, <2>1, <2>2, OtherChange
<1> QED
  BY <1>0, <1>1, <1>2, StartChange DEF Handler

LEMMA ArriveChange ==
    ASSUME TypeInv, OnceInv, NEW c \in Calls, Arrive(c)
    PROVE  OneStarter' /\ ListedFresh'
<1>0. /\ calls \in [Calls -> CallRow] /\ UNCHANGED jobs
      /\ calls[c].pc = "new"
  BY DEF TypeInv, TypeOK, Arrive, StartRead, Open, At
<1>1. JobsKept
  BY <1>0 DEF JobsKept
<1>2. ASSUME NEW op \in Requests[c], StartRead(c, op)
      PROVE  OneStarter' /\ ListedFresh'
  <2>1. CASE MayStart(op)
    <3>1. /\ calls'[c].pc = "startList"
          /\ \A d \in Calls : d # c => calls'[d] = calls[d]
      BY <1>0, <1>2, <2>1 DEF StartRead, CallRow
    <3>2. c \in Starters
      BY <1>2 DEF StartRead, Starters
    <3>3. \A j \in Jobs : jobs[j].state = "free"
      BY <1>0, <3>2 DEF OnceInv, OneStarter
    <3> QED
      BY <1>1, <3>1, <3>2, <3>3, CallChange
  <2>2. CASE ~MayStart(op)
    BY <1>1, <1>2, <2>2, ReturnChange DEF StartRead
  <2> QED
    BY <2>1, <2>2
<1>3. ASSUME NEW op \in Requests[c], Open(c, op)
      PROVE  OneStarter' /\ ListedFresh'
  <2>1. PICK l : Goto(c, l) /\ l \in {"pauseList", "cancelList", "addInsert", "patchWrite", "over"}
    <3>1. Requests[c] \subseteq
            {"start", "senderStart", "pause", "cancel", "add", "senderAdd", "patch"}
      BY CampaignAssumption
    <3>2. op \in {"pause", "cancel", "add", "senderAdd", "patch"}
      BY <1>3, <3>1 DEF Open
    <3> QED
      BY <1>3, <3>2 DEF Open
  <2>2. calls'[c].pc = l /\ \A d \in Calls : d # c => calls'[d] = calls[d]
    BY <1>0, <2>1 DEF Goto, CallRow
  <2>3. l \in CallPc \ (StartPc \cup {"new"})
    BY <2>1 DEF CallPc, StartPc
  <2> QED
    BY <1>1, <2>2, <2>3, OtherChange
<1> QED
  BY <1>2, <1>3 DEF Arrive

\* The starter adds the job of the first recipient on its list, who has none.
LEMMA StartAddOnce ==
    ASSUME TypeInv, OnceInv, StartedOnce, NEW c \in Calls, StartAdd(c)
    PROVE  OneStarter' /\ ListedFresh' /\ OneJobEach'
<1>0. /\ calls \in [Calls -> CallRow] /\ calls[c] \in CallRow /\ jobs \in [Jobs -> JobRow]
      /\ calls[c].todo \subseteq Recipients /\ Recipients \subseteq Nat
  BY StarterTypes DEF TypeInv, TypeOK
<1>1. PICK r \in calls[c].todo, k \in Jobs :
        /\ IsFirst(r, calls[c].todo)
        /\ jobs[k].state = "free"
        /\ jobs' = [jobs EXCEPT ![k] =
             [state |-> "ready", recip |-> r, inst |-> calls[c].inst, made |-> 0, early |-> FALSE]]
        /\ calls' = [calls EXCEPT ![c].pc = "startMark", ![c].job[r] = k]
  BY DEF StartAdd
<1>2. /\ jobs'[k].state = "ready" /\ jobs'[k].recip = r
      /\ \A j \in Jobs : j # k => jobs'[j] = jobs[j]
  BY <1>0, <1>1
<1>3. /\ calls'[c].pc = "startMark" /\ calls'[c].todo = calls[c].todo
      /\ \A d \in Calls : d # c => calls'[d] = calls[d]
  BY <1>0, <1>1 DEF CallRow
<1>4. calls[c].pc = "startAdd" /\ c \in Starters
  BY DEF StartAdd, At, OnceInv, OneStarter, StartPc
<1>5. ASSUME NEW j \in Jobs, jobs[j].state # "free"
      PROVE  jobs[j].recip \notin calls[c].todo
  BY <1>4, <1>5 DEF OnceInv, ListedFresh
<1>6. OneStarter'
  <2>1. ASSUME NEW d \in Calls, calls'[d].pc \in StartPc
        PROVE  d \in Starters
    <3>1. CASE d = c
      BY <1>4, <3>1
    <3>2. CASE d # c
      BY <1>3, <2>1, <3>2 DEF OnceInv, OneStarter
    <3> QED
      BY <3>1, <3>2
  <2>2. ASSUME NEW d \in Starters
        PROVE  calls'[d].pc \notin {"new", "startList"}
    <3>1. d = c
      BY <1>4 DEF StartedOnce
    <3> QED
      BY <1>3, <3>1
  <2> QED
    BY <2>1, <2>2 DEF OneStarter
<1>7. ASSUME NEW d \in Calls, NEW j \in Jobs,
             jobs'[j].state # "free", jobs'[j].recip \in calls'[d].todo
      PROVE  /\ calls'[d].pc # "startAdd"
             /\ calls'[d].pc = "startMark" => IsFirst(jobs'[j].recip, calls'[d].todo)
  <2>1. CASE d = c
    <3>1. j = k
      BY <1>2, <1>3, <1>5, <1>7, <2>1
    <3> QED
      BY <1>1, <1>2, <1>3, <2>1, <3>1
  <2>2. CASE d # c
    <3>1. calls'[d].pc \notin StartPc
      <4>1. d \notin Starters
        BY <1>4, <2>2 DEF StartedOnce
      <4> QED
        BY <1>3, <2>2, <4>1 DEF OnceInv, OneStarter
    <3> QED
      BY <3>1 DEF StartPc
  <2> QED
    BY <2>1, <2>2
<1>8. ListedFresh'
  BY <1>7 DEF ListedFresh, IsFirst
<1>9. OneJobEach'
  <2> SUFFICES ASSUME NEW j \in Jobs, NEW l \in Jobs,
                      jobs'[j].state # "free", jobs'[l].state # "free",
                      jobs'[j].recip = jobs'[l].recip
               PROVE  j = l
    BY DEF OneJobEach
  <2>1. CASE j # k /\ l # k
    BY <1>2, <2>1 DEF OnceInv, OneJobEach
  <2>2. CASE j = k /\ l # k
    BY <1>1, <1>2, <1>5, <2>2
  <2>3. CASE j # k /\ l = k
    BY <1>1, <1>2, <1>5, <2>3
  <2> QED
    BY <2>1, <2>2, <2>3
<1> QED
  BY <1>6, <1>8, <1>9

LEMMA SameOneJob ==
    ASSUME OnceInv, JobsKept
    PROVE  OneJobEach'
BY DEF OnceInv, OneJobEach, JobsKept

-----------------------------------------------------------------------------
\* Steps that send nothing.
LEMMA SilentMessages ==
    ASSUME TypeInv, OnceInv, UNCHANGED sent,
           \A j \in Jobs : jobs[j].state # "free" =>
               jobs'[j].state # "free" /\ jobs'[j].recip = jobs[j].recip,
           \A j \in Jobs : jobs[j].state = "over" => jobs'[j].state = "over",
           \A j \in Jobs : Delivering(j) => jobs'[j].state = "over" \/ Delivering(j)'
    PROVE  OneMessageEach'
<1>1. \A m, n \in DOMAIN sent : sent[m].job = sent[n].job => m = n
  BY DEF OnceInv, OneMessageEach
<1>2. ASSUME NEW m \in DOMAIN sent
      PROVE  /\ sent[m].job \in Jobs
             /\ jobs'[sent[m].job].state # "free"
             /\ jobs'[sent[m].job].recip = sent[m].recip
             /\ jobs'[sent[m].job].state = "over" \/ Delivering(sent[m].job)'
  <2>1. PICK j \in Jobs : j = sent[m].job
    BY DEF OnceInv, OneMessageEach
  <2>2. /\ jobs[j].state # "free" /\ jobs[j].recip = sent[m].recip
        /\ jobs[j].state = "over" \/ Delivering(j)
    BY <2>1 DEF OnceInv, OneMessageEach
  <2>3. jobs'[j].state = "over" \/ Delivering(j)'
    BY <2>2
  <2> QED
    BY <2>1, <2>2, <2>3
<1> QED
  BY <1>1, <1>2, Zenon DEF OneMessageEach, Delivering

LEMMA HandlerMessages ==
    ASSUME TypeInv, OnceInv, NEW c \in Calls, Handler(c)
    PROVE  OneMessageEach'
<1>0. jobs \in [Jobs -> JobRow]
  BY DEF TypeInv, TypeOK
<1>1. UNCHANGED <<worker, sent>>
  BY DEF Handler, StartList, StartAdd, StartMark, StartEnd, PauseList,
     PauseRemove, PauseMark, PauseEnd, CancelList, CancelRemove, CancelMark, CancelEnd,
     AddInsert, PatchWrite
<1>2. \A j \in Jobs : Delivering(j)' <=> Delivering(j)
  BY <1>1 DEF Delivering
<1>3. \/ UNCHANGED jobs
      \/ \E k : Remove(k)
      \/ \E k \in Jobs : \E r, i :
                               /\ jobs[k].state = "free"
                               /\ jobs' = [jobs EXCEPT ![k] =
                                    [state |-> "ready", recip |-> r, inst |-> i, made |-> 0, early |-> FALSE]]
  <2>1. CASE StartAdd(c)
    <3>1. PICK r \in calls[c].todo, k \in Jobs :
            /\ jobs[k].state = "free"
            /\ jobs' = [jobs EXCEPT ![k] =
                 [state |-> "ready", recip |-> r, inst |-> calls[c].inst, made |-> 0, early |-> FALSE]]
      BY <2>1 DEF StartAdd
    <3> QED
      BY <3>1
  <2>2. CASE PauseRemove(c) \/ CancelRemove(c)
    BY <2>2 DEF PauseRemove, CancelRemove
  <2>3. CASE ~(StartAdd(c) \/ PauseRemove(c) \/ CancelRemove(c))
    BY <2>3 DEF Handler, StartList, StartMark, StartEnd, PauseList,
       PauseMark, PauseEnd, CancelList, CancelMark, CancelEnd, AddInsert, PatchWrite
  <2> QED
    BY <2>1, <2>2, <2>3
<1>4. /\ \A j \in Jobs : jobs[j].state # "free" =>
             jobs'[j].state # "free" /\ jobs'[j].recip = jobs[j].recip
      /\ \A j \in Jobs : jobs[j].state = "over" => jobs'[j].state = "over"
  <2>1. ASSUME NEW k, Remove(k)
        PROVE  /\ \A j \in Jobs : jobs[j].state # "free" =>
                     jobs'[j].state # "free" /\ jobs'[j].recip = jobs[j].recip
               /\ \A j \in Jobs : jobs[j].state = "over" => jobs'[j].state = "over"
    BY <1>0, <2>1 DEF Remove, JobRow
  <2>2. ASSUME NEW k \in Jobs, NEW r, NEW i, jobs[k].state = "free",
               jobs' = [jobs EXCEPT ![k] =
                 [state |-> "ready", recip |-> r, inst |-> i, made |-> 0, early |-> FALSE]]
        PROVE  \A j \in Jobs : jobs[j].state # "free" => jobs'[j] = jobs[j]
    BY <1>0, <2>2
  <2>3. CASE UNCHANGED jobs
    BY <2>3
  <2> QED
    BY <1>3, <2>1, <2>2, <2>3
<1> QED
  BY <1>1, <1>2, <1>4, SilentMessages

LEMMA QueueMessages ==
    ASSUME TypeInv, RetriesInv, OnceInv, NEW k \in Jobs, PickUp(k) \/ Enter(k)
    PROVE  JobsKept /\ OneMessageEach' /\ UNCHANGED calls
<1>0. jobs \in [Jobs -> JobRow] /\ worker \in [Instances -> WorkerRow]
  BY DEF TypeInv, TypeOK
<1>1. UNCHANGED <<sent, calls>>
  BY DEF PickUp, Enter
<1>2. JobsKept /\ \A j \in Jobs : jobs[j].state = "over" => jobs'[j].state = "over"
  <2>1. CASE PickUp(k)
    BY <2>1, PickedUp DEF TypeInv, JobsKept
  <2>2. CASE Enter(k)
    BY <2>2 DEF Enter, JobsKept
  <2> QED
    BY <2>1, <2>2
<1>3. ASSUME NEW j \in Jobs, Delivering(j)
      PROVE  Delivering(j)'
  <2>1. PICK i \in Instances : worker[i].job = j /\ worker[i].pc \in {"record", "recount"}
    BY <1>3 DEF Delivering
  <2>2. worker'[i] = worker[i]
    BY <1>0, <2>1 DEF PickUp, Enter
  <2> QED
    BY <2>1, <2>2 DEF Delivering
<1>4. OneMessageEach'
  BY <1>1, <1>2, <1>3, SilentMessages DEF JobsKept
<1> QED
  BY <1>1, <1>2, <1>4

\* A job is over when its attempt settles after sending.
LEMMA SettleMessages ==
    ASSUME TypeInv, RetriesInv, OnceInv, NEW i \in Instances,
           worker[i].pc # "idle", UNCHANGED sent,
           NEW s \in {"ready", "over"}, NEW m, Settle(i, s, m),
           worker[i].pc \in {"record", "recount"} => s = "over"
    PROVE  OneMessageEach'
<1>1. PICK k \in Jobs : k = worker[i].job /\ jobs[k].state = "active"
  BY DEF RetriesInv, OwnJob
<1>2. /\ JobsKept
      /\ \A j \in Jobs : j # k => jobs'[j] = jobs[j]
      /\ jobs'[k].state = s
      /\ \A l \in Instances : l # i => worker'[l] = worker[l]
  BY <1>1, SettleKeepsJobs
<1>3. ASSUME NEW j \in Jobs, Delivering(j)
      PROVE  jobs'[j].state = "over" \/ Delivering(j)'
  <2>1. PICK l \in Instances : worker[l].job = j /\ worker[l].pc \in {"record", "recount"}
    BY <1>3 DEF Delivering
  <2>2. CASE l = i
    BY <1>1, <1>2, <2>1, <2>2
  <2>3. CASE l # i
    BY <1>2, <2>1, <2>3 DEF Delivering
  <2> QED
    BY <2>2, <2>3
<1>4. \A j \in Jobs : jobs[j].state = "over" => jobs'[j].state = "over"
  BY <1>1, <1>2
<1> QED
  BY <1>2, <1>3, <1>4, SilentMessages DEF JobsKept

\* Who is about to send has not sent: a message would be held as delivered.
LEMMA SendMessages ==
    ASSUME TypeInv, RetriesInv, OnceInv, NEW i \in Instances, Send(i)
    PROVE  OneMessageEach'
<1>0. /\ jobs \in [Jobs -> JobRow] /\ worker \in [Instances -> WorkerRow]
      /\ sent \in Seq([recip : Recipients, job : Jobs])
  BY DEF TypeInv, TypeOK
<1>1. PICK k \in Jobs : /\ k = worker[i].job /\ jobs[k].state = "active"
                        /\ jobs[k].inst = i
  BY DEF RetriesInv, OwnJob, Send
<1>2. /\ worker[i].pc = "send" /\ UNCHANGED jobs
      /\ sent' = Append(sent, [recip |-> jobs[k].recip, job |-> k])
      /\ worker' = [worker EXCEPT ![i].pc = "record", ![i].msg = Len(sent) + 1]
  BY <1>1 DEF Send, Recipient
<1>3. /\ worker'[i].pc = "record" /\ worker'[i].job = k
      /\ \A l \in Instances : l # i => worker'[l] = worker[l]
  BY <1>0, <1>1, <1>2 DEF WorkerRow
<1>4. \A m \in DOMAIN sent : sent[m].job # k
  <2> SUFFICES ASSUME NEW m \in DOMAIN sent, sent[m].job = k
               PROVE  FALSE
    OBVIOUS
  <2>1. Delivering(k)
    BY <1>1 DEF OnceInv, OneMessageEach
  <2>2. PICK l \in Instances : worker[l].job = k /\ worker[l].pc \in {"record", "recount"}
    BY <2>1 DEF Delivering
  <2>3. l = i
    BY <1>1, <2>2 DEF RetriesInv, OwnJob
  <2> QED
    BY <1>2, <2>2, <2>3
<1> DEFINE n == Len(sent) + 1
<1>5. /\ DOMAIN sent = 1 .. Len(sent) /\ DOMAIN sent' = 1 .. n /\ Len(sent) \in Nat
      /\ sent'[n].job = k /\ sent'[n].recip = jobs[k].recip
      /\ \A m \in DOMAIN sent : sent'[m] = sent[m]
  BY <1>0, <1>2
<1>6. \A m \in DOMAIN sent' : m = n \/ m \in DOMAIN sent
  BY <1>5
<1> HIDE DEF n
<1>7. \A m, o \in DOMAIN sent' : sent'[m].job = sent'[o].job => m = o
  BY <1>4, <1>5, <1>6 DEF OnceInv, OneMessageEach
<1>8. ASSUME NEW m \in DOMAIN sent'
      PROVE  \E j \in Jobs :
               /\ j = sent'[m].job
               /\ jobs'[j].state # "free" /\ jobs'[j].recip = sent'[m].recip
               /\ jobs'[j].state = "over" \/ Delivering(j)'
  <2>1. CASE m = n
    <3>1. Delivering(k)'
      BY <1>3 DEF Delivering
    <3> QED
      BY <1>1, <1>2, <1>5, <2>1, <3>1
  <2>2. CASE m \in DOMAIN sent
    <3>1. PICK j \in Jobs : j = sent[m].job /\ sent'[m] = sent[m]
      BY <1>5, <2>2 DEF OnceInv, OneMessageEach
    <3>2. /\ jobs[j].state # "free" /\ jobs[j].recip = sent[m].recip
          /\ jobs[j].state = "over" \/ Delivering(j)
      BY <2>2, <3>1 DEF OnceInv, OneMessageEach
    <3>3. Delivering(j) => Delivering(j)'
      BY <1>2, <1>3 DEF Delivering
    <3>4. j = sent'[m].job /\ jobs'[j] = jobs[j] /\ sent'[m].recip = sent[m].recip
      BY <1>2, <3>1
    <3> QED
      BY <3>2, <3>3, <3>4
  <2> QED
    BY <1>6, <2>1, <2>2
<1> QED
  BY <1>7, <1>8, Zenon DEF OneMessageEach, Delivering

LEMMA WorkMessages ==
    ASSUME TypeInv, RetriesInv, OnceInv, StartedOnce, NEW i \in Instances, Work(i)
    PROVE  OneMessageEach'
<1>0. worker \in [Instances -> WorkerRow]
  BY DEF TypeInv, TypeOK
<1>1. ~AwaitFails(i)
  BY DEF AwaitFails, StartedOnce
<1>2. CASE Admit(i) \/ CheckStatus(i) \/ SendRefused(i) \/ Record(i)
  <2>1. UNCHANGED <<jobs, sent>>
    BY <1>2 DEF Admit, CheckStatus, SendRefused, Record
  <2>2. /\ worker'[i].job = worker[i].job
        /\ worker[i].pc \in {"record", "recount"} => worker'[i].pc = "recount"
        /\ \A l \in Instances : l # i => worker'[l] = worker[l]
    <3>1. \/ \E l \in {"check", "drop", "send"} :
                 Step(i, l) /\ worker[i].pc \notin {"record", "recount"}
          \/ \E e : Throw(i, e) /\ worker[i].pc \notin {"record", "recount"}
          \/ Step(i, "recount")
      BY <1>2 DEF Admit, CheckStatus, SendRefused, Record
    <3>2. ASSUME NEW l, Step(i, l)
          PROVE  /\ worker'[i].job = worker[i].job /\ worker'[i].pc = l
                 /\ \A n \in Instances : n # i => worker'[n] = worker[n]
      BY <1>0, <3>2 DEF Step, WorkerRow
    <3>3. ASSUME NEW e, Throw(i, e)
          PROVE  /\ worker'[i].job = worker[i].job
                 /\ \A n \in Instances : n # i => worker'[n] = worker[n]
      BY <1>0, <3>3 DEF Throw, WorkerRow
    <3> QED
      BY <3>1, <3>2, <3>3
  <2>3. \A j \in Jobs : Delivering(j) => Delivering(j)'
    BY <2>2 DEF Delivering
  <2> QED
    BY <2>1, <2>3, SilentMessages
<1>3. CASE Drop(i) \/ Recount(i) \/ Retry(i) \/ Fail(i)
  BY <1>3, SettleMessages DEF Drop, Recount, Retry, Fail
<1>4. CASE Send(i)
  BY <1>4, SendMessages
<1> QED
  BY <1>1, <1>2, <1>3, <1>4 DEF Work

-----------------------------------------------------------------------------
LEMMA InitOnce == ASSUME Init PROVE OnceInv
<1>1. OneStarter
  BY DEF Init, OneStarter, Request, StartPc
<1>2. ListedFresh /\ OneJobEach
  BY DEF Init, ListedFresh, OneJobEach
<1>3. OneMessageEach
  BY DEF Init, OneMessageEach
<1> QED
  BY <1>1, <1>2, <1>3 DEF OnceInv

LEMMA NextOnce ==
    ASSUME TypeInv, RetriesInv, OnceInv, StartedOnce, [Next]_vars
    PROVE  OnceInv'
<1>1. ASSUME UNCHANGED <<jobs, worker, sent>>
      PROVE  JobsKept /\ OneJobEach' /\ OneMessageEach'
  <2>1. JobsKept
    BY <1>1 DEF JobsKept
  <2>2. OneMessageEach'
    BY <1>1, SilentMessages DEF Delivering
  <2> QED
    BY <2>1, <2>2, SameOneJob
<1>2. ASSUME UNCHANGED calls, JobsKept
      PROVE  OneStarter' /\ ListedFresh'
  BY <1>2 DEF OnceInv, OneStarter, ListedFresh, JobsKept
<1>3. ASSUME NEW c \in Calls, Arrive(c)
      PROVE  OnceInv'
  BY <1>1, <1>3, ArriveChange DEF OnceInv, Arrive, StartRead, Open
<1>4. ASSUME NEW c \in Calls, Abort(c)
      PROVE  FALSE
  BY <1>4 DEF Abort, StartedOnce
<1>5. ASSUME NEW c \in Calls, Handler(c)
      PROVE  OnceInv'
  <2>1. CASE StartAdd(c)
    BY <1>5, <2>1, StartAddOnce, HandlerMessages DEF OnceInv
  <2>2. CASE ~StartAdd(c)
    BY <1>5, <2>2, HandlerChange, HandlerKeepsJobs, SameOneJob, HandlerMessages DEF OnceInv
  <2> QED
    BY <2>1, <2>2
<1>6. ASSUME NEW j \in Jobs, PickUp(j) \/ Enter(j)
      PROVE  OnceInv'
  BY <1>2, <1>6, QueueMessages, SameOneJob DEF OnceInv
<1>7. ASSUME NEW i \in Instances, Work(i)
      PROVE  OnceInv'
  BY <1>2, <1>7, WorkKeepsJobs, WorkMessages, SameOneJob DEF OnceInv
<1>8. ASSUME NEW e \in Receipts, Receive(e)
      PROVE  OnceInv'
  BY <1>1, <1>2, <1>8 DEF OnceInv, Receive, ReceiptFind, ReceiptMark, ReceiptRecount
<1>9. ~Crash
  BY DEF Crash, StartedOnce, TypeInv, TypeOK
<1>10. CASE UNCHANGED vars
  BY <1>1, <1>2, <1>10 DEF OnceInv, vars
<1> QED
  BY <1>3, <1>4, <1>5, <1>6, <1>7, <1>8, <1>9, <1>10 DEF Next

LEMMA OnceInvariant == ASSUME StartedOnce PROVE Spec => [](TypeInv /\ RetriesInv /\ OnceInv)
<1>1. Init => TypeInv /\ RetriesInv /\ OnceInv
  BY InitTypeInv, InitRetries, InitOnce
<1>2. TypeInv /\ RetriesInv /\ OnceInv /\ [Next]_vars => (TypeInv /\ RetriesInv /\ OnceInv)'
  BY NextTypeInv, NextRetries, NextOnce
<1> QED
  BY <1>1, <1>2, PTL DEF Spec

\* A campaign that one request starts sends nobody two messages, however it is
\* paused, cancelled and extended meanwhile, if no awaited call fails.
THEOREM NoSecondMessage == ASSUME StartedOnce PROVE Spec => []AtMostOnce
<1>1. TypeInv /\ OnceInv => AtMostOnce
  <2> SUFFICES ASSUME TypeInv, OnceInv, NEW r \in Recipients
               PROVE  Cardinality({m \in DOMAIN sent : sent[m].recip = r}) <= 1
    BY DEF AtMostOnce
  <2> DEFINE S == {m \in DOMAIN sent : sent[m].recip = r}
  <2>1. \A m, n \in S : m = n
    BY DEF OnceInv, OneMessageEach, OneJobEach
  <2>2. CASE S = {}
    BY <2>2, FS_EmptySet
  <2>3. CASE S # {}
    <3>1. PICK m : m \in S
      BY <2>3
    <3>2. S = {m}
      BY <2>1, <3>1
    <3> HIDE DEF S
    <3>3. Cardinality(S) = 1
      BY <3>2, FS_Singleton
    <3> QED
      BY <3>3 DEF S
  <2> QED
    BY <2>2, <2>3
<1> QED
  BY <1>1, OnceInvariant, PTL

-----------------------------------------------------------------------------
(* Why a campaign stays 'running' when one request started it.             *)

\* Nothing starts the campaign any more.
Over == \A c \in Starters : calls[c].pc \notin {"new"} \cup StartPc

\* It will not be 'running' again.
Finished == Over /\ campaign.status # "running"

\* A pause or cancellation is about to take the recipient out of the queue.
Removing(r) ==
    \E c \in Calls :
        \/ calls[c].pc \in {"pauseRemove", "pauseMark"} /\ r \in calls[c].todo
        \/ calls[c].pc \in {"cancelRemove", "cancelMark"}

Waiting(j) == j \in Jobs /\ jobs[j].state \in {"ready", "active"}

\* The job was handed out while its campaign was being started.
Rash(j) == j \in Jobs /\ jobs[j].early
RashRow(r) ==
    \E j \in Jobs : jobs[j].state # "free" /\ jobs[j].early /\ jobs[j].recip = r

\* A job that is over though no worker had it was taken out of the queue.
RemovedShown ==
    \A j \in Jobs : jobs[j].state = "over" /\ ~jobs[j].early =>
        \/ Removing(jobs[j].recip)
        \/ recip[jobs[j].recip].status \in {"pending", "cancelled"}

\* Until the starter is done, whatever happens to a row or to WhatsApp is the
\* doing of a job handed out early.
Underway ==
    ~Over =>
        /\ campaign.status # "running"
        /\ \A j \in Jobs : jobs[j].state = "active" => jobs[j].early
        /\ \A m \in DOMAIN sent : jobs[sent[m].job].early
        /\ \A r \in Recipients :
              RashRow(r) \/ recip[r].status \in {"none", "pending", "queued", "cancelled"}
        /\ RemovedShown

\* Requests list, and jobs are for, recipients that were inserted.
RowsThere ==
    /\ \A c \in Calls : \A r \in calls[c].todo : recip[r].status # "none"
    /\ \A j \in Jobs : jobs[j].state # "free" => recip[jobs[j].recip].status # "none"

\* The job ids kept in a row and in a list are of that recipient.
JobOf(r, j) == j \in Jobs => jobs[j].state # "free" /\ jobs[j].recip = r
OwnJobs ==
    \A r \in Recipients :
        /\ JobOf(r, recip[r].job)
        /\ \A c \in Calls : JobOf(r, calls[c].job[r])

\* The job just added waits or was handed out early, and no request knows it.
FreshJob ==
    \A c \in Calls : calls[c].pc = "startMark" =>
        \E r \in calls[c].todo :
            /\ IsFirst(r, calls[c].todo)
            /\ calls[c].job[r] \in Jobs
            /\ jobs[calls[c].job[r]].state = "ready" \/ jobs[calls[c].job[r]].early
            /\ \A d \in Calls \ {c} : calls[d].job[r] = None
            /\ recip[r].job = None

QueuedHaveJobs ==
    \A r \in Recipients : recip[r].status = "queued" =>
        Waiting(recip[r].job) \/ Rash(recip[r].job) \/ Removing(r) \/ Finished

\* What the running attempt knows about its recipient and the campaign.
AttemptKnows ==
    \A i \in Instances : worker[i].pc # "idle" =>
        /\ worker[i].pc = "recount" =>
              recip[Recipient(i)].status # "queued" \/ Finished \/ Rash(worker[i].job)
        /\ worker[i].err = "paused" => Finished \/ Rash(worker[i].job)

Busy ==
    \/ \E j \in Jobs : Waiting(j)
    \/ \E c \in Calls : calls[c].pc \in StopPc
    \/ \E e \in Receipts : receipts[e].pc = "recount"

Explains(r) ==
    \/ recip[r].status \in {"failed", "pending", "cancelled"}
    \/ recip[r].status = "queued" /\ Rash(recip[r].job)
Explained == \E r \in Recipients : Explains(r)

AllRash == \A j \in Jobs : jobs[j].state = "over" => jobs[j].early

Reason == Explained \/ Busy \/ AllRash
RunningHasReason == campaign.status = "running" => Reason

StuckInv ==
    /\ Underway /\ RowsThere /\ OwnJobs /\ FreshJob /\ QueuedHaveJobs
    /\ AttemptKnows /\ RunningHasReason

LEMMA StuckTypes ==
    ASSUME TypeInv
    PROVE  /\ recip \in [Recipients -> RecipientRow] /\ jobs \in [Jobs -> JobRow]
           /\ worker \in [Instances -> WorkerRow] /\ calls \in [Calls -> CallRow]
           /\ receipts \in [Receipts -> ReceiptRow] /\ campaign \in CampaignRow
           /\ \A c \in Calls : /\ calls[c].todo \subseteq Recipients
                               /\ calls[c].job \in [Recipients -> Jobs \cup {None}]
BY DEF TypeInv, TypeOK, CallRow

-----------------------------------------------------------------------------
\* Nobody begins to start once the starter is done.
LEMMA OverStays ==
    ASSUME TypeInv, OnceInv, StartedOnce, [Next]_vars, Over
    PROVE  Over'
<1>0. calls \in [Calls -> CallRow]
  BY StuckTypes
<1>1. \A c \in Calls : calls[c].pc \notin StartPc
  BY DEF OnceInv, OneStarter, Over
<1>2. CASE UNCHANGED calls
  BY <1>2 DEF Over
<1>3. ASSUME NEW c \in Calls, Arrive(c) \/ Handler(c)
      PROVE  Over'
  <2>1. \A d \in Calls : d # c => calls'[d] = calls[d]
    BY <1>0, <1>3 DEF Arrive, StartRead, Open, Return, Goto, Handler, StartList, StartAdd,
       StartMark, StartEnd, PauseList, PauseRemove, PauseMark, PauseEnd, CancelList,
       CancelRemove, CancelMark, CancelEnd, AddInsert, PatchWrite
  <2>2. c \in Starters => calls'[c].pc \notin {"new"} \cup StartPc
    <3> SUFFICES ASSUME c \in Starters
                 PROVE  calls'[c].pc \notin {"new"} \cup StartPc
      OBVIOUS
    <3>1. ~Arrive(c)
      BY DEF Over, Arrive, StartRead, Open, At
    <3>2. ~(StartList(c) \/ StartAdd(c) \/ StartMark(c) \/ StartEnd(c))
      BY <1>1 DEF StartList, StartAdd, StartMark, StartEnd, At, StartPc
    <3>3. CASE PauseEnd(c) \/ CancelEnd(c) \/ AddInsert(c) \/ PatchWrite(c)
      <4>1. calls'[c].pc = "over"
        BY <1>0, <3>3 DEF PauseEnd, CancelEnd, AddInsert, PatchWrite, Return, Request
      <4> QED
        BY <4>1 DEF StartPc
    <3>4. CASE \/ PauseList(c) \/ PauseRemove(c) \/ PauseMark(c)
               \/ CancelList(c) \/ CancelRemove(c) \/ CancelMark(c)
      <4>1. calls'[c].pc \in StopPc
        BY <3>4, StopMoves
      <4> QED
        BY <4>1 DEF StopPc, StartPc
    <3> QED
      BY <1>3, <3>1, <3>2, <3>3, <3>4 DEF Handler
  <2> QED
    BY <2>1, <2>2 DEF Over, Starters
<1>4. ASSUME NEW c \in Calls, Abort(c)
      PROVE  FALSE
  BY <1>4 DEF Abort, StartedOnce
<1>5. ASSUME NEW j \in Jobs, PickUp(j) \/ Enter(j)
      PROVE  UNCHANGED calls
  BY <1>5 DEF PickUp, Enter
<1>6. ASSUME NEW i \in Instances, Work(i)
      PROVE  UNCHANGED calls
  BY <1>6, WorkKeepsJobs
<1>7. ASSUME NEW e \in Receipts, Receive(e)
      PROVE  UNCHANGED calls
  BY <1>7 DEF Receive, ReceiptFind, ReceiptMark, ReceiptRecount
<1>8. (Crash \/ UNCHANGED vars) => UNCHANGED calls
  BY DEF Crash, vars
<1> QED
  BY <1>2, <1>3, <1>4, <1>5, <1>6, <1>7, <1>8 DEF Next

\* Only the end of a start writes 'running'.
LEMMA RunningWritten ==
    ASSUME TypeInv, [Next]_vars, campaign'.status = "running"
    PROVE  campaign.status = "running" \/ \E c \in Calls : StartEnd(c)
<1>0. campaign \in CampaignRow
  BY StuckTypes
<1>1. ASSUME NEW s, SetStatus(s)
      PROVE  campaign'.status = s
  BY <1>0, <1>1 DEF SetStatus, CampaignRow
<1>2. ASSUME NEW c \in Calls, Handler(c), ~StartEnd(c)
      PROVE  campaign.status = "running"
  <2>1. CASE PauseEnd(c) \/ CancelEnd(c)
    BY <1>1, <2>1 DEF PauseEnd, CancelEnd
  <2>2. CASE PatchWrite(c)
    <3>1. PICK i : campaign' = [campaign EXCEPT !.instance = i]
      BY <2>2 DEF PatchWrite
    <3> QED
      BY <1>0, <3>1 DEF CampaignRow
  <2>3. CASE UNCHANGED campaign
    BY <2>3
  <2> QED
    BY <1>2, <2>1, <2>2, <2>3 DEF Handler, StartList, StartAdd, StartMark, PauseList,
       PauseRemove, PauseMark, CancelList, CancelRemove, CancelMark, AddInsert
<1>3. ASSUME SetStatus(Recounted)
      PROVE  campaign.status = "running"
  BY <1>1, <1>3 DEF Recounted
<1>4. ASSUME NEW i \in Instances, Work(i)
      PROVE  campaign.status = "running"
  BY <1>3, <1>4 DEF Work, Admit, CheckStatus, Drop, Send, SendRefused, Record, Recount,
     AwaitFails, Retry, Fail
<1>5. ASSUME NEW e \in Receipts, Receive(e)
      PROVE  campaign.status = "running"
  BY <1>3, <1>5 DEF Receive, ReceiptFind, ReceiptMark, ReceiptRecount
<1>6. ASSUME NEW c \in Calls, Arrive(c) \/ Abort(c)
      PROVE  campaign.status = "running"
  BY <1>6 DEF Arrive, StartRead, Open, Abort
<1>7. ASSUME NEW j \in Jobs, PickUp(j) \/ Enter(j)
      PROVE  campaign.status = "running"
  BY <1>7 DEF PickUp, Enter
<1>8. Crash \/ UNCHANGED vars => campaign.status = "running"
  BY DEF Crash, vars
<1> QED
  BY <1>2, <1>4, <1>5, <1>6, <1>7, <1>8 DEF Next

LEMMA FinishedStays ==
    ASSUME TypeInv, OnceInv, StartedOnce, [Next]_vars, Finished
    PROVE  Finished'
<1>1. ASSUME NEW c \in Calls, StartEnd(c)
      PROVE  FALSE
  BY <1>1 DEF Finished, Over, OnceInv, OneStarter, StartEnd, At, StartPc
<1> QED
  BY <1>1, OverStays, RunningWritten DEF Finished

-----------------------------------------------------------------------------
\* What worker, queue and receipts never do to a row: they neither insert,
\* requeue nor change its job.
RowsKept ==
    \A r \in Recipients :
        /\ recip'[r].job = recip[r].job
        /\ recip'[r].status = "none" => recip[r].status = "none"
        /\ recip'[r].status = "queued" => recip[r].status = "queued"

LEMMA OwnersKept ==
    ASSUME TypeInv, StuckInv, UNCHANGED calls, JobsKept, RowsKept
    PROVE  RowsThere' /\ OwnJobs'
<1>1. \A c \in Calls : calls[c].todo \subseteq Recipients
  BY StuckTypes
<1>2. \A j \in Jobs : jobs[j].recip \in Recipients
  BY StarterTypes
<1>3. RowsThere'
  <2>1. ASSUME NEW c \in Calls, NEW r \in calls'[c].todo
        PROVE  recip'[r].status # "none"
    BY <1>1, <2>1 DEF StuckInv, RowsThere, RowsKept
  <2>2. ASSUME NEW j \in Jobs, jobs'[j].state # "free"
        PROVE  recip'[jobs'[j].recip].status # "none"
    <3>1. jobs[j].state # "free" /\ jobs'[j].recip = jobs[j].recip
      BY <2>2 DEF JobsKept
    <3>2. PICK r \in Recipients : r = jobs[j].recip
      BY <1>2
    <3>3. recip[r].status # "none"
      BY <3>1, <3>2 DEF StuckInv, RowsThere
    <3> QED
      BY <3>1, <3>2, <3>3 DEF RowsKept
  <2> QED
    BY <2>1, <2>2 DEF RowsThere
<1>4. OwnJobs'
  BY DEF StuckInv, OwnJobs, JobOf, RowsKept, JobsKept
<1> QED
  BY <1>3, <1>4

\* Until the starter is done, a step of worker, queue or receipts touches only
\* what belongs to a job handed out early.
LEMMA UnderwayStep ==
    ASSUME TypeInv, OnceInv, StuckInv, RetriesInv', StartedOnce, [Next]_vars, ~Over,
           UNCHANGED calls, JobsKept, RowsKept,
           \A j \in Jobs : jobs'[j] = jobs[j] \/ jobs'[j].early,
           \A m \in DOMAIN sent' : \/ m \in DOMAIN sent /\ sent'[m] = sent[m]
                                   \/ Rash(sent'[m].job),
           \A r \in Recipients : recip'[r].status # recip[r].status => RashRow(r)
    PROVE  StuckInv'
<1>0. ~Over'
  BY DEF Over
<1>1. campaign'.status # "running"
  <2> SUFFICES ASSUME campaign'.status = "running" PROVE FALSE
    OBVIOUS
  <2>1. PICK c \in Calls : StartEnd(c)
    BY RunningWritten DEF StuckInv, Underway
  <2>2. calls[c].pc = "startEnd" /\ calls'[c].pc = "over"
    BY <2>1, StuckTypes DEF StartEnd, At, Return, Request
  <2> QED
    BY <2>2
<1>2. ASSUME NEW j \in Jobs, jobs[j].early
      PROVE  jobs'[j].early
  BY <1>2
<1>3. ASSUME NEW j \in Jobs, jobs'[j].state = "active"
      PROVE  jobs'[j].early
  BY <1>3 DEF StuckInv, Underway
<1>4. \A m \in DOMAIN sent' : jobs'[sent'[m].job].early
  BY <1>2 DEF StuckInv, Underway, OnceInv, OneMessageEach, Rash
<1>5. ASSUME NEW r \in Recipients, RashRow(r)
      PROVE  RashRow(r)'
  BY <1>2, <1>5 DEF RashRow, JobsKept
<1>6. \A r \in Recipients :
         RashRow(r)' \/ recip'[r].status \in {"none", "pending", "queued", "cancelled"}
  BY <1>5 DEF StuckInv, Underway
<1>7. RemovedShown'
  <2> SUFFICES ASSUME NEW j \in Jobs, jobs'[j].state = "over", ~jobs'[j].early
               PROVE  \/ Removing(jobs[j].recip)'
                      \/ recip'[jobs'[j].recip].status \in {"pending", "cancelled"}
    BY DEF RemovedShown
  <2>1. jobs'[j] = jobs[j] /\ jobs[j].recip \in Recipients
    BY StarterTypes
  <2>2. \/ Removing(jobs[j].recip)
        \/ recip[jobs[j].recip].status \in {"pending", "cancelled"}
    BY <2>1 DEF StuckInv, Underway, RemovedShown
  <2>3. ~RashRow(jobs[j].recip)
    BY <2>1 DEF RashRow, OnceInv, OneJobEach
  <2>4. recip'[jobs[j].recip].status = recip[jobs[j].recip].status
    BY <2>1, <2>3
  <2> QED
    BY <2>1, <2>2, <2>4 DEF Removing
<1>8. Underway'
  BY <1>1, <1>3, <1>4, <1>6, <1>7 DEF Underway
<1>9. RowsThere' /\ OwnJobs'
  BY OwnersKept
<1>10. FreshJob'
  <2> SUFFICES ASSUME NEW c \in Calls, calls'[c].pc = "startMark"
               PROVE  \E r \in calls'[c].todo :
                        /\ IsFirst(r, calls'[c].todo)
                        /\ calls'[c].job[r] \in Jobs
                        /\ \/ jobs'[calls'[c].job[r]].state = "ready"
                           \/ jobs'[calls'[c].job[r]].early
                        /\ \A d \in Calls \ {c} : calls'[d].job[r] = None
                        /\ recip'[r].job = None
    BY DEF FreshJob, IsFirst
  <2>1. PICK r \in calls[c].todo :
          /\ IsFirst(r, calls[c].todo)
          /\ calls[c].job[r] \in Jobs
          /\ jobs[calls[c].job[r]].state = "ready" \/ jobs[calls[c].job[r]].early
          /\ \A d \in Calls \ {c} : calls[d].job[r] = None
          /\ recip[r].job = None
    BY DEF StuckInv, FreshJob
  <2>2. PICK k \in Jobs : k = calls[c].job[r]
    BY <2>1
  <2>3. jobs'[k].state = "ready" \/ jobs'[k].early
    BY <1>2, <2>1, <2>2
  <2>4. r \in Recipients
    BY StarterTypes
  <2> QED
    BY <2>1, <2>2, <2>3, <2>4 DEF RowsKept
<1>11. QueuedHaveJobs'
  <2> SUFFICES ASSUME NEW r \in Recipients, recip'[r].status = "queued"
               PROVE  (Waiting(recip[r].job) \/ Rash(recip[r].job) \/ Removing(r))'
    BY DEF QueuedHaveJobs
  <2>1. recip[r].status = "queued" /\ recip'[r].job = recip[r].job
    BY DEF RowsKept
  <2>2. Waiting(recip[r].job) \/ Rash(recip[r].job) \/ Removing(r)
    BY <2>1 DEF StuckInv, QueuedHaveJobs, Finished
  <2>3. CASE Waiting(recip[r].job) \/ Rash(recip[r].job)
    <3>1. PICK k \in Jobs : k = recip[r].job
      BY <2>3 DEF Waiting, Rash
    <3>2. jobs'[k].state \in {"ready", "active"} \/ jobs'[k].early
      BY <1>2, <2>3, <3>1 DEF Waiting, Rash
    <3> QED
      BY <2>1, <3>1, <3>2 DEF Waiting, Rash
  <2>4. CASE Removing(r)
    BY <2>4 DEF Removing
  <2> QED
    BY <2>2, <2>3, <2>4
<1>12. AttemptKnows'
  <2>1. ASSUME NEW i \in Instances, worker'[i].pc # "idle"
        PROVE  Rash(worker[i].job)'
    BY <1>3, <2>1 DEF RetriesInv, OwnJob, Rash
  <2> QED
    BY <2>1 DEF AttemptKnows
<1>13. RunningHasReason'
  BY <1>1 DEF RunningHasReason
<1> QED
  BY <1>8, <1>9, <1>10, <1>11, <1>12, <1>13 DEF StuckInv

\* Once the starter is done, a step of worker, queue or receipts has only to
\* leave a reason while the campaign runs.
LEMMA OverStep ==
    ASSUME TypeInv, OnceInv, StuckInv, StartedOnce, [Next]_vars, Over,
           UNCHANGED calls, JobsKept, RowsKept,
           campaign'.status = "running" => (QueuedHaveJobs /\ AttemptKnows /\ Reason)'
    PROVE  StuckInv'
<1>1. Over' /\ OneStarter'
  BY OverStays DEF OnceInv, OneStarter, JobsKept
<1>2. Underway'
  BY <1>1 DEF Underway
<1>3. RowsThere' /\ OwnJobs'
  BY OwnersKept
<1>5. FreshJob'
  BY <1>1 DEF FreshJob, OneStarter, Over, StartPc
<1>6. CASE campaign'.status = "running"
  BY <1>2, <1>3, <1>5, <1>6 DEF StuckInv, RunningHasReason
<1>7. CASE campaign'.status # "running"
  <2>1. Finished'
    BY <1>1, <1>7 DEF Finished
  <2>2. QueuedHaveJobs' /\ AttemptKnows'
    BY <2>1 DEF QueuedHaveJobs, AttemptKnows
  <2> QED
    BY <1>2, <1>3, <1>5, <1>7, <2>2 DEF StuckInv, RunningHasReason
<1> QED
  BY <1>6, <1>7

\* While the campaign runs nothing is Finished.
LEMMA RunningKnows ==
    ASSUME StuckInv, campaign.status = "running"
    PROVE  /\ ~Finished
           /\ \A r \in Recipients : recip[r].status = "queued" =>
                 Waiting(recip[r].job) \/ Rash(recip[r].job) \/ Removing(r)
           /\ \A i \in Instances : worker[i].pc # "idle" =>
                 /\ worker[i].pc = "recount" =>
                       recip[Recipient(i)].status # "queued" \/ Rash(worker[i].job)
                 /\ worker[i].err = "paused" => Rash(worker[i].job)
           /\ Reason
BY DEF StuckInv, Finished, QueuedHaveJobs, AttemptKnows, RunningHasReason

\* A recipient that is being taken out keeps its call busy.
LEMMA RemovingBusy ==
    ASSUME NEW r, Removing(r)
    PROVE  \E c \in Calls : calls[c].pc \in StopPc
BY DEF Removing, StopPc

LEMMA ExplainedKept ==
    ASSUME UNCHANGED recip, EarlyKept, Explained
    PROVE  Explained'
BY DEF EarlyKept, Explained, Explains, Rash

-----------------------------------------------------------------------------
\* The attempt goes on: its job stays active.
LEMMA GoOn ==
    ASSUME TypeInv, RetriesInv, OnceInv, StuckInv, StartedOnce, [Next]_vars, Over,
           UNCHANGED <<calls, jobs, campaign, receipts>>, RowsKept,
           NEW i \in Instances, worker[i].pc # "idle",
           \A k \in Instances : k # i => worker'[k] = worker[k],
           worker'[i].job = worker[i].job,
           campaign.status = "running" =>
               worker'[i].err # "paused" \/ Rash(worker[i].job),
           worker'[i].pc = "recount" =>
               recip'[Recipient(i)].status # "queued" \/ Rash(worker[i].job)
    PROVE  StuckInv'
<1>1. JobsKept
  BY DEF JobsKept
<1>2. ASSUME campaign'.status = "running"
      PROVE  (QueuedHaveJobs /\ AttemptKnows /\ Reason)'
  <2>1. Reason'
    BY DEF RetriesInv, OwnJob, Busy, Waiting, Reason
  <2>2. QueuedHaveJobs'
    BY <1>2, RunningKnows DEF QueuedHaveJobs, Waiting, Rash, Removing, RowsKept
  <2>3. AttemptKnows'
    <3> SUFFICES ASSUME NEW k \in Instances, worker'[k].pc # "idle"
                 PROVE  /\ worker'[k].pc = "recount" =>
                              (recip[Recipient(k)].status # "queued" \/ Rash(worker[k].job))'
                        /\ worker'[k].err = "paused" => Rash(worker[k].job)'
      BY DEF AttemptKnows
    <3>1. CASE k = i
      BY <1>2, <3>1 DEF Recipient, Rash
    <3>2. CASE k # i
      <4>1. /\ worker'[k] = worker[k] /\ Recipient(k)' = Recipient(k)
            /\ worker[k].pc = "recount" => Recipient(k) \in Recipients
        BY <3>2, StarterTypes DEF Recipient, TypeInv, HoldsJob
      <4>2. Rash(worker[k].job) => Rash(worker[k].job)'
        BY <4>1 DEF Rash
      <4> QED
        BY <1>2, <4>1, <4>2, RunningKnows DEF RowsKept
    <3> QED
      BY <3>1, <3>2
  <2> QED
    BY <2>1, <2>2, <2>3
<1> QED
  BY <1>1, <1>2, OverStep

\* The attempt ends: its recipient is not left queued without a job, unless the
\* job was handed out early.
LEMMA EndsWell ==
    ASSUME TypeInv, RetriesInv, OnceInv, StuckInv, StartedOnce, [Next]_vars, Over,
           UNCHANGED <<calls, receipts>>, RowsKept,
           NEW i \in Instances, worker[i].pc # "idle",
           NEW s \in {"ready", "over"}, NEW m, Settle(i, s, m),
           campaign'.status = "running" =>
               /\ campaign.status = "running"
               /\ s = "over" =>
                     recip'[Recipient(i)].status # "queued" \/ Rash(worker[i].job)
               /\ s = "over" => Reason'
    PROVE  StuckInv'
<1>0. /\ JobsKept /\ EarlyKept
      /\ \A j \in Jobs : j # worker[i].job => jobs'[j] = jobs[j]
      /\ jobs'[worker[i].job].state = s
      /\ worker'[i] = Idle
      /\ \A k \in Instances : k # i => worker'[k] = worker[k]
  BY SettleKeepsJobs
<1>1. worker[i].job \in Jobs
  BY DEF TypeInv, HoldsJob
<1>2. ASSUME campaign'.status = "running"
      PROVE  (QueuedHaveJobs /\ AttemptKnows /\ Reason)'
  <2>1. Reason'
    <3>1. CASE s = "ready"
      BY <1>0, <1>1, <3>1 DEF Busy, Waiting, Reason
    <3>2. CASE s = "over"
      BY <1>2, <3>2
    <3> QED
      BY <3>1, <3>2
  <2>2. QueuedHaveJobs'
    <3> SUFFICES ASSUME NEW r \in Recipients, recip'[r].status = "queued"
                 PROVE  (Waiting(recip[r].job) \/ Rash(recip[r].job) \/ Removing(r))'
      BY DEF QueuedHaveJobs
    <3>1. recip[r].status = "queued" /\ recip'[r].job = recip[r].job
      BY DEF RowsKept
    <3>2. Waiting(recip[r].job) \/ Rash(recip[r].job) \/ Removing(r)
      BY <1>2, <3>1, RunningKnows
    <3>3. Removing(r) => Removing(r)'
      BY DEF Removing
    <3>4. Rash(recip[r].job) => Rash(recip[r].job)'
      BY <1>0, <3>1 DEF Rash, EarlyKept
    <3>5. CASE recip[r].job = worker[i].job /\ s = "over"
      <4>1. jobs[worker[i].job].recip = r
        BY <1>1, <3>5 DEF StuckInv, OwnJobs, JobOf
      <4> QED
        BY <1>2, <3>4, <3>5, <4>1 DEF Recipient
    <3>6. CASE recip[r].job = worker[i].job /\ s = "ready"
      BY <1>0, <1>1, <3>1, <3>6 DEF Waiting
    <3>7. CASE recip[r].job # worker[i].job
      BY <1>0, <3>1, <3>2, <3>3, <3>4, <3>7 DEF Waiting
    <3> QED
      BY <3>5, <3>6, <3>7
  <2>3. AttemptKnows'
    <3> SUFFICES ASSUME NEW k \in Instances, worker'[k].pc # "idle"
                 PROVE  /\ worker'[k].pc = "recount" =>
                              (recip[Recipient(k)].status # "queued" \/ Rash(worker[k].job))'
                        /\ worker'[k].err = "paused" => Rash(worker[k].job)'
      BY DEF AttemptKnows
    <3>1. k # i
      BY <1>0, IdleType
    <3>2. /\ worker'[k] = worker[k]
          /\ Recipient(k)' = Recipient(k) /\ Recipient(k) \in Recipients
      BY <1>0, <3>1, StarterTypes DEF Recipient, TypeInv, HoldsJob, JobsKept
    <3>3. Rash(worker[k].job) => Rash(worker[k].job)'
      BY <1>0, <3>2 DEF Rash, EarlyKept
    <3> QED
      BY <1>2, <3>2, <3>3, RunningKnows DEF RowsKept
  <2> QED
    BY <2>1, <2>2, <2>3
<1> QED
  BY <1>0, <1>2, OverStep

-----------------------------------------------------------------------------
\* What the steps of the worker do to the rows.
LEMMA WorkRows ==
    ASSUME TypeInv, StartedOnce, NEW i \in Instances, Work(i)
    PROVE  /\ RowsKept
           /\ \A r \in Recipients : recip'[r] # recip[r] => r = Recipient(i)
<1>0. recip \in [Recipients -> RecipientRow] /\ ~AwaitFails(i)
  BY StuckTypes DEF AwaitFails, StartedOnce
<1>1. CASE Drop(i) \/ Record(i)
  BY <1>0, <1>1 DEF Drop, Record, RowsKept, RecipientRow
<1>2. CASE Fail(i)
  BY <1>0, <1>2 DEF Fail, RowsKept, RecipientRow
<1>3. CASE UNCHANGED recip
  BY <1>3 DEF RowsKept
<1> QED
  BY <1>0, <1>1, <1>2, <1>3 DEF Work, Admit, CheckStatus, Send, SendRefused, Recount,
     Retry

LEMMA Working ==
    ASSUME TypeInv, RetriesInv, StuckInv, NEW i \in Instances, worker[i].pc # "idle"
    PROVE  /\ worker[i].job \in Jobs /\ jobs[worker[i].job].state = "active"
           /\ Over \/ Rash(worker[i].job)
BY DEF RetriesInv, OwnJob, StuckInv, Underway, Rash

LEMMA RecountedReason ==
    ASSUME TypeInv, StuckInv, SetStatus(Recounted), campaign'.status = "running"
    PROVE  /\ campaign.status = "running"
           /\ \/ Explained
              \/ \E c \in Calls : calls[c].pc \in StopPc
              \/ \E r \in Recipients : recip[r].status = "queued" /\ Waiting(recip[r].job)
<1>1. campaign'.status = Recounted
  BY StuckTypes DEF SetStatus, CampaignRow
<1>2. /\ campaign.status = "running"
      /\ \E r \in Recipients : recip[r].status \in {"pending", "queued"}
  BY <1>1 DEF Recounted
<1>3. PICK r \in Recipients : recip[r].status \in {"pending", "queued"}
  BY <1>2
<1>4. CASE recip[r].status = "pending"
  BY <1>2, <1>4 DEF Explained, Explains
<1>5. CASE recip[r].status = "queued"
  BY <1>2, <1>5, RunningKnows, RemovingBusy DEF Explained, Explains
<1> QED
  BY <1>3, <1>4, <1>5

\* The recipient of an attempt that failed was inserted, and is not shown as
\* reached: no other job sends to it.
LEMMA NotReached ==
    ASSUME TypeInv, RetriesInv, ReportsInv, OnceInv, StuckInv,
           NEW i \in Instances, worker[i].pc = "catch"
    PROVE  recip[Recipient(i)].status \in {"pending", "queued", "failed", "cancelled"}
<1>1. worker[i].job \in Jobs /\ jobs[worker[i].job].state = "active"
  BY Working
<1>2. PICK r \in Recipients : r = Recipient(i)
  BY <1>1, StarterTypes DEF Recipient
<1>3. recip[r].status # "none"
  BY <1>1, <1>2 DEF StuckInv, RowsThere, Recipient
<1>4. recip[r].status \notin Reached
  <2> SUFFICES ASSUME recip[r].status \in Reached PROVE FALSE
    OBVIOUS
  <2>1. recip[r].msg \in 1 .. Len(sent) /\ sent[recip[r].msg].recip = r
    BY DEF ReportsInv, ReportsAreTrue
  <2>2. PICK m \in DOMAIN sent : sent[m].recip = r
    BY <2>1 DEF TypeInv, TypeOK
  <2>3. /\ sent[m].job \in Jobs /\ jobs[sent[m].job].state # "free"
        /\ jobs[sent[m].job].recip = r
        /\ jobs[sent[m].job].state = "over" \/ Delivering(sent[m].job)
    BY <2>2 DEF OnceInv, OneMessageEach
  <2>4. sent[m].job = worker[i].job
    BY <1>1, <1>2, <2>3 DEF OnceInv, OneJobEach, Recipient
  <2>5. PICK k \in Instances :
          worker[k].job = worker[i].job /\ worker[k].pc \in {"record", "recount"}
    BY <1>1, <2>3, <2>4 DEF Delivering
  <2>6. k = i
    BY <2>5 DEF RetriesInv, OwnJob
  <2> QED
    BY <2>5, <2>6
<1>5. recip[r].status \in RecipStatus
  BY StuckTypes DEF RecipientRow
<1> QED
  BY <1>2, <1>3, <1>4, <1>5 DEF RecipStatus, Reached

\* An attempt before the starter is done is one of a job handed out early.
LEMMA WorkUnderway ==
    ASSUME TypeInv, RetriesInv, RetriesInv', OnceInv, StuckInv, StartedOnce, ~Over,
           NEW i \in Instances, Work(i), [Next]_vars
    PROVE  StuckInv'
<1>1. worker[i].pc # "idle"
  BY DEF Work, Admit, CheckStatus, Drop, Send, SendRefused, Record, Recount, AwaitFails,
     Retry, Fail
<1>2. Rash(worker[i].job) /\ jobs[worker[i].job].state = "active"
  BY <1>1, Working
<1>3. UNCHANGED calls /\ JobsKept
  BY WorkKeepsJobs
<1>4. \A j \in Jobs : jobs'[j] = jobs[j] \/ jobs'[j].early
  <2> SUFFICES ASSUME NEW j \in Jobs
               PROVE  jobs'[j] = jobs[j] \/ jobs'[j].early
    OBVIOUS
  <2>1. CASE j = worker[i].job
    <3>1. jobs'[j].early = jobs[j].early /\ jobs[j].early
      BY <1>2, <2>1, WorkKeepsJobs DEF Rash, EarlyKept
    <3> QED
      BY <3>1
  <2>2. CASE j # worker[i].job
    BY <2>2, WorkKeepsJobs
  <2> QED
    BY <2>1, <2>2
<1>5. \A m \in DOMAIN sent' : \/ m \in DOMAIN sent /\ sent'[m] = sent[m]
                              \/ Rash(sent'[m].job)
  <2>1. CASE Send(i)
    <3>1. sent' = Append(sent, [recip |-> Recipient(i), job |-> worker[i].job])
      BY <2>1 DEF Send
    <3>2. sent \in Seq([recip : Recipients, job : Jobs])
      BY DEF TypeInv, TypeOK
    <3>3. /\ DOMAIN sent = 1 .. Len(sent) /\ DOMAIN sent' = 1 .. Len(sent) + 1
          /\ \A m \in 1 .. Len(sent) : sent'[m] = sent[m]
          /\ sent'[Len(sent) + 1] = [recip |-> Recipient(i), job |-> worker[i].job]
          /\ Len(sent) \in Nat
      BY <3>1, <3>2
    <3> QED
      BY <1>2, <3>3
  <2>2. CASE UNCHANGED sent
    BY <2>2
  <2> QED
    BY <2>1, <2>2 DEF Work, Admit, CheckStatus, Drop, SendRefused, Record, Recount,
       AwaitFails, Retry, Fail
<1>6. ASSUME NEW r \in Recipients, recip'[r].status # recip[r].status
      PROVE  RashRow(r)
  <2>1. r = Recipient(i)
    BY <1>6, WorkRows
  <2> QED
    BY <1>2, <2>1 DEF RashRow, Rash, Recipient
<1> QED
  BY <1>3, <1>4, <1>5, <1>6, WorkRows, UnderwayStep

LEMMA WorkStuck ==
    ASSUME TypeInv, RetriesInv, RetriesInv', ReportsInv, OnceInv, StuckInv, StartedOnce,
           NEW i \in Instances, Work(i), [Next]_vars
    PROVE  StuckInv'
<1> SUFFICES ASSUME Over PROVE StuckInv'
  BY WorkUnderway
<1>0. /\ worker[i].pc # "idle" /\ ~AwaitFails(i)
      /\ recip \in [Recipients -> RecipientRow] /\ worker \in [Instances -> WorkerRow]
      /\ UNCHANGED <<calls, receipts>> /\ EarlyKept
  BY StuckTypes, WorkKeepsJobs DEF AwaitFails, StartedOnce, Work, Admit, CheckStatus, Drop,
     Send, SendRefused, Record, Recount, Retry, Fail
<1>1. worker[i].job \in Jobs /\ jobs[worker[i].job].state = "active"
  BY <1>0, Working
<1>2. RowsKept
  BY WorkRows
<1>3. Recipient(i) \in Recipients
  BY <1>1, StarterTypes DEF Recipient
<1>4. CASE Admit(i) \/ CheckStatus(i) \/ Send(i) \/ SendRefused(i) \/ Record(i)
  <2>1. UNCHANGED <<jobs, campaign>>
    BY <1>4 DEF Admit, CheckStatus, Send, SendRefused, Record
  <2>2. ASSUME NEW l, Step(i, l)
        PROVE  /\ worker'[i].job = worker[i].job /\ worker'[i].pc = l
               /\ worker'[i].err = worker[i].err
               /\ \A n \in Instances : n # i => worker'[n] = worker[n]
    BY <1>0, <2>2 DEF Step, WorkerRow
  <2>3. ASSUME NEW e, Throw(i, e)
        PROVE  /\ worker'[i].job = worker[i].job /\ worker'[i].pc = "catch"
               /\ worker'[i].err = e
               /\ \A n \in Instances : n # i => worker'[n] = worker[n]
    BY <1>0, <2>3 DEF Throw, WorkerRow
  <2>4. campaign.status = "running" => worker[i].err # "paused" \/ Rash(worker[i].job)
    BY <1>0, RunningKnows
  <2>5. CASE Record(i)
    <3>1. recip'[Recipient(i)].status = "sent" /\ Step(i, "recount")
      BY <1>0, <1>3, <2>5 DEF Record, RecipientRow
    <3> QED
      BY <1>0, <1>1, <1>2, <2>1, <2>2, <2>4, <3>1, GoOn
  <2>6. CASE Send(i)
    <3>1. /\ worker'[i].job = worker[i].job /\ worker'[i].pc = "record"
          /\ worker'[i].err = worker[i].err
          /\ \A n \in Instances : n # i => worker'[n] = worker[n]
      BY <1>0, <2>6 DEF Send, WorkerRow
    <3> QED
      BY <1>0, <1>1, <1>2, <2>1, <2>4, <3>1, GoOn
  <2>7. CASE Admit(i) \/ CheckStatus(i) \/ SendRefused(i)
    <3>1. \/ \E l \in {"check", "drop", "send"} : Step(i, l)
          \/ Throw(i, "error")
          \/ Throw(i, "paused") /\ campaign.status = "paused"
      BY <2>7 DEF Admit, CheckStatus, SendRefused
    <3>2. /\ worker'[i].job = worker[i].job /\ worker'[i].pc # "recount"
          /\ \A n \in Instances : n # i => worker'[n] = worker[n]
      BY <2>2, <2>3, <3>1
    <3>3. campaign.status = "running" => worker'[i].err # "paused" \/ Rash(worker[i].job)
      BY <2>2, <2>3, <2>4, <3>1
    <3> QED
      BY <1>0, <1>1, <1>2, <2>1, <3>2, <3>3, GoOn
  <2> QED
    BY <1>4, <2>5, <2>6, <2>7
<1>5. CASE Drop(i)
  <2>1. recip'[Recipient(i)].status = "cancelled"
    BY <1>0, <1>3, <1>5 DEF Drop, RecipientRow
  <2>2. Reason'
    BY <1>3, <2>1 DEF Explained, Explains, Reason
  <2>3. UNCHANGED campaign /\ Settle(i, "over", jobs[worker[i].job].made)
    BY <1>5 DEF Drop
  <2> QED
    BY <1>0, <1>1, <1>2, <2>1, <2>2, <2>3, EndsWell
<1>6. CASE Retry(i)
  <2>1. UNCHANGED campaign /\ Settle(i, "ready", jobs[worker[i].job].made + 1)
    BY <1>6 DEF Retry
  <2> QED
    BY <1>0, <1>1, <1>2, <2>1, EndsWell
<1>7. CASE Fail(i)
  <2>1. /\ UNCHANGED campaign /\ Settle(i, "over", jobs[worker[i].job].made)
        /\ worker[i].pc = "catch"
    BY <1>7 DEF Fail
  <2>2. CASE recip' = [recip EXCEPT ![Recipient(i)].status = "failed"]
    <3>1. recip'[Recipient(i)].status = "failed"
      BY <1>0, <1>3, <2>2 DEF RecipientRow
    <3>2. Reason'
      BY <1>3, <3>1 DEF Explained, Explains, Reason
    <3> QED
      BY <1>0, <1>1, <1>2, <2>1, <3>1, <3>2, EndsWell
  <2>3. CASE worker[i].err = "paused" /\ UNCHANGED recip
    <3>1. ASSUME campaign.status = "running"
          PROVE  Rash(worker[i].job) /\ Reason'
      <4>1. Rash(worker[i].job)
        BY <1>0, <2>3, <3>1, RunningKnows
      <4>2. PICK r \in Recipients : r = Recipient(i)
        BY <1>3
      <4>3. CASE recip[r].status = "queued"
        <5>1. Waiting(recip[r].job) \/ Rash(recip[r].job) \/ Removing(r)
          BY <3>1, <4>3, RunningKnows
        <5>2. CASE Removing(r)
          BY <1>0, <4>1, <5>2, RemovingBusy DEF Busy, Reason
        <5>3. CASE Waiting(recip[r].job)
          <6>1. recip[r].job = worker[i].job
            BY <1>1, <4>2, <5>3 DEF Waiting, StuckInv, OwnJobs, JobOf, OnceInv,
               OneJobEach, Recipient
          <6>2. Explained
            BY <4>1, <4>3, <6>1 DEF Explained, Explains
          <6> QED
            BY <1>0, <2>3, <4>1, <6>2, ExplainedKept DEF Reason
        <5>4. CASE Rash(recip[r].job)
          <6>1. Explained
            BY <4>3, <5>4 DEF Explained, Explains
          <6> QED
            BY <1>0, <2>3, <4>1, <6>1, ExplainedKept DEF Reason
        <5>5. Reason'
          BY <5>1, <5>2, <5>3, <5>4
        <5> QED
          BY <4>1, <5>5
      <4>4. CASE recip[r].status # "queued"
        <5>1. recip[r].status \in {"failed", "pending", "cancelled"}
          BY <2>1, <4>2, <4>4, NotReached
        <5>2. Reason'
          BY <2>3, <5>1 DEF Explained, Explains, Reason
        <5> QED
          BY <4>1, <5>2
      <4> QED
        BY <4>3, <4>4
    <3> QED
      BY <1>0, <1>1, <1>2, <2>1, <3>1, EndsWell
  <2> QED
    BY <1>7, <2>2, <2>3 DEF Fail, StartedOnce
<1>8. CASE Recount(i)
  <2>1. /\ worker[i].pc = "recount" /\ SetStatus(Recounted) /\ UNCHANGED recip
        /\ Settle(i, "over", jobs[worker[i].job].made)
    BY <1>8 DEF Recount
  <2>2. ASSUME campaign'.status = "running"
        PROVE  /\ campaign.status = "running"
               /\ recip'[Recipient(i)].status # "queued" \/ Rash(worker[i].job)
               /\ Reason'
    <3>1. /\ campaign.status = "running"
          /\ \/ Explained
             \/ \E c \in Calls : calls[c].pc \in StopPc
             \/ \E r \in Recipients : recip[r].status = "queued" /\ Waiting(recip[r].job)
      BY <2>1, <2>2, RecountedReason
    <3>2. recip[Recipient(i)].status # "queued" \/ Rash(worker[i].job)
      BY <1>0, <2>1, <3>1, RunningKnows
    <3>3. CASE Explained
      BY <1>0, <2>1, <3>1, <3>2, <3>3, ExplainedKept DEF Reason
    <3>4. CASE \E c \in Calls : calls[c].pc \in StopPc
      BY <1>0, <2>1, <3>1, <3>2, <3>4 DEF Reason, Busy
    <3>5. CASE \E r \in Recipients : recip[r].status = "queued" /\ Waiting(recip[r].job)
      <4>1. PICK r \in Recipients : recip[r].status = "queued" /\ Waiting(recip[r].job)
        BY <3>5
      <4>2. PICK j \in Jobs : j = recip[r].job
        BY <4>1 DEF Waiting
      <4>3. jobs[j].recip = r
        BY <4>2 DEF StuckInv, OwnJobs, JobOf
      <4>4. CASE j = worker[i].job
        <5>1. Explained
          BY <3>2, <4>1, <4>2, <4>3, <4>4 DEF Explained, Explains, Recipient
        <5> QED
          BY <1>0, <2>1, <3>1, <3>2, <5>1, ExplainedKept DEF Reason
      <4>5. CASE j # worker[i].job
        <5>1. jobs'[j] = jobs[j]
          BY <1>0, <2>1, <4>5, SettleKeepsJobs
        <5>2. Reason'
          BY <4>1, <4>2, <5>1 DEF Busy, Waiting, Reason
        <5> QED
          BY <2>1, <3>1, <3>2, <5>2
      <4> QED
        BY <4>4, <4>5
    <3> QED
      BY <3>1, <3>3, <3>4, <3>5
  <2> QED
    BY <1>0, <1>1, <1>2, <2>1, <2>2, EndsWell
<1> QED
  BY <1>0, <1>4, <1>5, <1>6, <1>7, <1>8 DEF Work

-----------------------------------------------------------------------------
\* BullMQ hands out a job; receipts arrive.
LEMMA QueueStuck ==
    ASSUME TypeInv, RetriesInv, RetriesInv', OnceInv, StuckInv, StartedOnce,
           NEW j \in Jobs, PickUp(j) \/ Enter(j), [Next]_vars
    PROVE  StuckInv'
<1>0. /\ jobs \in [Jobs -> JobRow] /\ worker \in [Instances -> WorkerRow]
      /\ UNCHANGED <<calls, receipts, recip, campaign, sent>> /\ TypeOK
  BY StuckTypes DEF PickUp, Enter, TypeInv
<1>1. RowsKept
  BY <1>0 DEF RowsKept
<1>2. JobsKept
  <2>1. CASE PickUp(j)
    BY <1>0, <2>1, PickedUp DEF JobsKept
  <2>2. CASE Enter(j)
    BY <2>2 DEF Enter, JobsKept
  <2> QED
    BY <2>1, <2>2
<1>3. CASE ~Over
  <2>1. \A k \in Jobs : jobs'[k] = jobs[k] \/ jobs'[k].early
    <3>1. CASE PickUp(j)
      <4>1. PICK c \in Starters : calls[c].pc \in {"new"} \cup StartPc
        BY <1>3 DEF Over
      <4>2. calls[c].pc # "new"
        BY <1>0, <3>1, <4>1, PickedUp DEF OnceInv, OneStarter
      <4>3. Starting
        BY <4>1, <4>2 DEF Starting, Starters
      <4> QED
        BY <1>0, <3>1, <4>3, PickedUp
    <3>2. CASE Enter(j)
      BY <3>2 DEF Enter
    <3> QED
      BY <3>1, <3>2
  <2> QED
    BY <1>0, <1>1, <1>2, <1>3, <2>1, UnderwayStep
<1>4. CASE Over /\ PickUp(j)
  <2>1. ~Starting
    BY <1>4 DEF Starting, Over, OnceInv, OneStarter
  <2>2. /\ \A k \in Jobs : k # j => jobs'[k] = jobs[k]
        /\ jobs'[j].state = "active" /\ jobs'[j].recip = jobs[j].recip
        /\ jobs'[j].early = jobs[j].early
        /\ UNCHANGED worker
    BY <1>0, <1>4, <2>1, PickedUp DEF PickUp
  <2>3. \A k : (Waiting(k) => Waiting(k)') /\ (Rash(k) => Rash(k)')
    BY <2>2 DEF Waiting, Rash
  <2>4. ASSUME campaign'.status = "running"
        PROVE  (QueuedHaveJobs /\ AttemptKnows /\ Reason)'
    <3>1. Reason'
      BY <2>2 DEF Busy, Waiting, Reason
    <3>2. QueuedHaveJobs'
      <4> SUFFICES ASSUME NEW r \in Recipients, recip'[r].status = "queued"
                   PROVE  (Waiting(recip[r].job) \/ Rash(recip[r].job) \/ Removing(r))'
        BY DEF QueuedHaveJobs
      <4>1. Waiting(recip[r].job) \/ Rash(recip[r].job) \/ Removing(r)
        BY <1>0, <2>4, RunningKnows
      <4>2. PICK k : k = recip[r].job
        OBVIOUS
      <4>3. Removing(r) => Removing(r)'
        BY <1>0 DEF Removing
      <4>4. Waiting(k)' \/ Rash(k)' \/ Removing(r)'
        BY <2>3, <4>1, <4>2, <4>3
      <4> QED
        BY <1>0, <4>2, <4>4 DEF Waiting, Rash
    <3>3. AttemptKnows'
      <4> SUFFICES ASSUME NEW i \in Instances, worker'[i].pc # "idle"
                   PROVE  /\ worker'[i].pc = "recount" =>
                                (recip[Recipient(i)].status # "queued" \/ Rash(worker[i].job))'
                          /\ worker'[i].err = "paused" => Rash(worker[i].job)'
        BY DEF AttemptKnows
      <4>1. worker[i].pc # "idle" /\ worker[i].job \in Jobs
        BY <2>2 DEF TypeInv, HoldsJob
      <4>2. Recipient(i)' = Recipient(i)
        BY <1>2, <2>2, <4>1 DEF Recipient, JobsKept
      <4>3. PICK k \in Jobs : k = worker[i].job
        BY <4>1
      <4>4. Rash(worker[i].job) => Rash(worker[i].job)'
        BY <2>2, <4>3 DEF Rash
      <4> QED
        BY <1>0, <2>2, <2>4, <4>1, <4>2, <4>4, RunningKnows
    <3> QED
      BY <3>1, <3>2, <3>3
  <2> QED
    BY <1>0, <1>1, <1>2, <1>4, <2>4, OverStep
<1>5. CASE Over /\ Enter(j)
  <2>1. PICK i \in Instances :
          /\ jobs[j].state = "active" /\ UNCHANGED jobs
          /\ worker' = [worker EXCEPT ![i] = [Idle EXCEPT !.pc = "traffic", !.job = j]]
    BY <1>0, <1>5 DEF Enter, JobRow
  <2>2. /\ worker'[i].pc = "traffic" /\ worker'[i].err = ""
        /\ \A k \in Instances : k # i => worker'[k] = worker[k]
    BY <1>0, <2>1 DEF Idle
  <2>3. ASSUME campaign'.status = "running"
        PROVE  (QueuedHaveJobs /\ AttemptKnows /\ Reason)'
    <3>1. Reason'
      BY <2>1 DEF Busy, Waiting, Reason
    <3>2. QueuedHaveJobs'
      BY <1>0, <2>1, <2>3, RunningKnows DEF QueuedHaveJobs, Removing, Waiting, Rash
    <3>3. AttemptKnows'
      <4> SUFFICES ASSUME NEW k \in Instances, worker'[k].pc # "idle"
                   PROVE  /\ worker'[k].pc = "recount" =>
                                (recip[Recipient(k)].status # "queued" \/ Rash(worker[k].job))'
                          /\ worker'[k].err = "paused" => Rash(worker[k].job)'
        BY DEF AttemptKnows
      <4>1. CASE k = i
        BY <2>2, <4>1
      <4>2. CASE k # i
        <5>1. worker'[k] = worker[k] /\ Recipient(k)' = Recipient(k)
          BY <2>1, <2>2, <4>2 DEF Recipient
        <5>2. Rash(worker[k].job) => Rash(worker[k].job)'
          BY <2>1, <5>1 DEF Rash
        <5> QED
          BY <1>0, <2>3, <5>1, <5>2, RunningKnows
      <4> QED
        BY <4>1, <4>2
    <3> QED
      BY <3>1, <3>2, <3>3
  <2> QED
    BY <1>0, <1>1, <1>2, <1>5, <2>3, OverStep
<1> QED
  BY <1>3, <1>4, <1>5

LEMMA ReceiptStuck ==
    ASSUME TypeInv, RetriesInv, RetriesInv', ReportsInv, OnceInv, StuckInv, StartedOnce,
           NEW e \in Receipts, Receive(e), [Next]_vars
    PROVE  StuckInv'
<1>0. /\ receipts \in [Receipts -> ReceiptRow] /\ receipts[e] \in ReceiptRow
      /\ recip \in [Recipients -> RecipientRow]
      /\ UNCHANGED <<calls, jobs, worker, sent>>
  BY StuckTypes DEF Receive, ReceiptFind, ReceiptMark, ReceiptRecount
<1>1. JobsKept /\ EarlyKept
  BY <1>0 DEF JobsKept, EarlyKept
<1>2. RowsKept /\ \A r \in Recipients : recip'[r].status # recip[r].status =>
                     r = receipts[e].recip /\ receipts[e].pc = "mark"
  <2>1. CASE ReceiptMark(e)
    <3> DEFINE s == Receipted(recip[receipts[e].recip].status, receipts[e].kind)
    <3>1. s \in {"read", "delivered", "failed"}
      BY <1>0 DEF Receipted, ReceiptRow, ReceiptKind
    <3>2. recip' = [recip EXCEPT ![receipts[e].recip].status = s] /\ receipts[e].pc = "mark"
      BY <2>1 DEF ReceiptMark
    <3> HIDE DEF s
    <3> QED
      BY <1>0, <3>1, <3>2 DEF RowsKept, RecipientRow
  <2>2. CASE UNCHANGED recip
    BY <2>2 DEF RowsKept
  <2> QED
    BY <2>1, <2>2 DEF Receive, ReceiptFind, ReceiptRecount
<1>3. CASE ~Over
  <2>1. ASSUME NEW r \in Recipients, recip'[r].status # recip[r].status
        PROVE  RashRow(r)
    <3>1. recip[r].msg # 0
      BY <1>2, <2>1 DEF ReportsInv, MarksKnown
    <3>2. recip[r].msg \in 1 .. Len(sent) /\ sent[recip[r].msg].recip = r
      BY <3>1 DEF ReportsInv, ReportsAreTrue
    <3>3. PICK m \in DOMAIN sent : sent[m].recip = r
      BY <3>2 DEF TypeInv, TypeOK
    <3>4. /\ sent[m].job \in Jobs /\ jobs[sent[m].job].state # "free"
          /\ jobs[sent[m].job].recip = r /\ jobs[sent[m].job].early
      BY <1>3, <3>3 DEF OnceInv, OneMessageEach, StuckInv, Underway
    <3> QED
      BY <3>4 DEF RashRow
  <2> QED
    BY <1>0, <1>1, <1>2, <1>3, <2>1, UnderwayStep
<1>4. CASE Over
  <2>1. ASSUME campaign'.status = "running"
        PROVE  (QueuedHaveJobs /\ AttemptKnows /\ Reason)'
    <3>1. campaign.status = "running" /\ Reason'
      <4>1. CASE ReceiptFind(e)
        <5>1. /\ UNCHANGED <<campaign, recip>> /\ receipts[e].pc = "new"
              /\ \A f \in Receipts : f # e => receipts'[f] = receipts[f]
          BY <1>0, <4>1 DEF ReceiptFind
        <5>2. Reason /\ campaign.status = "running"
          BY <2>1, <5>1, RunningKnows
        <5>3. Explained => Explained'
          BY <1>1, <5>1, ExplainedKept
        <5>4. Busy => Busy'
          BY <1>0, <5>1 DEF Busy, Waiting
        <5> QED
          BY <1>0, <5>2, <5>3, <5>4 DEF Reason, AllRash
      <4>2. CASE ReceiptMark(e)
        <5>1. UNCHANGED campaign /\ receipts'[e].pc = "recount"
          BY <1>0, <4>2 DEF ReceiptMark, ReceiptRow
        <5> QED
          BY <2>1, <5>1 DEF Busy, Reason
      <4>3. CASE ReceiptRecount(e)
        <5>1. UNCHANGED recip /\ SetStatus(Recounted)
          BY <4>3 DEF ReceiptRecount
        <5>2. /\ campaign.status = "running"
              /\ \/ Explained
                 \/ \E c \in Calls : calls[c].pc \in StopPc
                 \/ \E r \in Recipients : recip[r].status = "queued" /\ Waiting(recip[r].job)
          BY <2>1, <5>1, RecountedReason
        <5>3. Explained => Explained'
          BY <1>1, <5>1, ExplainedKept
        <5> QED
          BY <1>0, <5>2, <5>3 DEF Busy, Waiting, Reason
      <4> QED
        BY <4>1, <4>2, <4>3 DEF Receive
    <3>2. QueuedHaveJobs'
      BY <1>0, <1>2, <3>1, RunningKnows DEF QueuedHaveJobs, RowsKept, Waiting, Rash, Removing
    <3>3. AttemptKnows'
      <4> SUFFICES ASSUME NEW i \in Instances, worker'[i].pc # "idle"
                   PROVE  /\ worker'[i].pc = "recount" =>
                                (recip[Recipient(i)].status # "queued" \/ Rash(worker[i].job))'
                          /\ worker'[i].err = "paused" => Rash(worker[i].job)'
        BY DEF AttemptKnows
      <4>1. Recipient(i)' = Recipient(i) /\ Recipient(i) \in Recipients
        BY <1>0, StarterTypes DEF Recipient, TypeInv, HoldsJob
      <4>2. Rash(worker[i].job) => Rash(worker[i].job)'
        BY <1>0 DEF Rash
      <4> QED
        BY <1>0, <1>2, <3>1, <4>1, <4>2, RunningKnows DEF RowsKept
    <3> QED
      BY <3>1, <3>2, <3>3
  <2> QED
    BY <1>0, <1>1, <1>2, <1>4, <2>1, OverStep
<1> QED
  BY <1>3, <1>4

-----------------------------------------------------------------------------
(* The requests.                                                           *)

\* What a request may write in the rows: nobody is requeued but by a start.
RowsHandled(c) ==
    \A r \in Recipients :
        /\ recip'[r].job \in {recip[r].job, calls[c].job[r], None}
        /\ recip'[r].status \in {recip[r].status, "pending", "queued", "cancelled"}
        /\ recip'[r].status = "queued" =>
              \/ recip[r].status = "queued" /\ recip'[r].job = recip[r].job
              \/ StartMark(c) /\ r \in calls[c].todo /\ IsFirst(r, calls[c].todo)
        /\ recip[r].status \in {"failed", "pending", "cancelled"} =>
              recip'[r].status \in {"failed", "pending", "cancelled"} \/ ~Over

\* It adds a job or removes one it was listed with, and then is not done.
JobsHandled(c) ==
    \A j \in Jobs :
        /\ jobs[j].state # "free" =>
              /\ jobs'[j].state # "free" /\ jobs'[j].recip = jobs[j].recip
              /\ jobs'[j].early = jobs[j].early
        /\ jobs[j].state = "free" /\ jobs'[j].state # "free" =>
              jobs'[j].recip \in calls[c].todo
        /\ (jobs'[j].state = "active") <=> (jobs[j].state = "active")
        /\ jobs'[j].state = "over" => jobs[j].state \in {"ready", "over"}
        /\ (jobs[j].state = "ready" /\ jobs'[j].state # "ready") =>
              /\ calls'[c].pc \in StopPc
              /\ \E r \in calls[c].todo : calls[c].job[r] = j

CallHandled(c) ==
    /\ \A d \in Calls : d # c => calls'[d] = calls[d]
    /\ calls[c].pc \in StopPc => calls'[c].pc \in StopPc \/ campaign'.status # "running"
    /\ \A r \in calls'[c].todo :
          r \in Recipients /\ (r \in calls[c].todo \/ recip[r].status # "none")

\* The row ids and lists that a request copies.
JobCopied(c) ==
    /\ calls'[c].pc # "startMark"
    /\ \A r \in Recipients : calls'[c].job[r] \in {calls[c].job[r], recip[r].job, None}

LEMMA StarterBusy ==
    ASSUME OnceInv, NEW c \in Calls, calls[c].pc \in StartPc
    PROVE  ~Over /\ c \in Starters
BY DEF OnceInv, OneStarter, Over

LEMMA HandlerKeeps ==
    ASSUME TypeInv, RetriesInv, OnceInv, StuckInv, StartedOnce, [Next]_vars,
           NEW c \in Calls, ~StartEnd(c), RowsHandled(c), JobsHandled(c), CallHandled(c),
           UNCHANGED <<worker, sent, receipts>>, ~Over => RemovedShown'
    PROVE  Underway' /\ RowsThere' /\ AttemptKnows' /\ RunningHasReason'
<1>1. campaign'.status = "running" => campaign.status = "running"
  <2> SUFFICES ASSUME campaign'.status = "running", campaign.status # "running"
               PROVE  FALSE
    OBVIOUS
  <2>1. PICK d \in Calls : StartEnd(d)
    BY RunningWritten
  <2>2. d # c /\ calls'[d] = calls[d]
    BY <2>1 DEF CallHandled
  <2>3. calls[d].pc = "startEnd" /\ calls'[d].pc = "over"
    BY <2>1, StuckTypes DEF StartEnd, At, Return, Request
  <2> QED
    BY <2>2, <2>3
<1>2. Underway'
  <2> SUFFICES ASSUME ~Over'
               PROVE  /\ campaign'.status # "running"
                      /\ \A j \in Jobs : jobs'[j].state = "active" => jobs'[j].early
                      /\ \A m \in DOMAIN sent' : jobs'[sent'[m].job].early
                      /\ \A r \in Recipients :
                            \/ RashRow(r)'
                            \/ recip'[r].status \in {"none", "pending", "queued", "cancelled"}
                      /\ RemovedShown'
    BY DEF Underway
  <2>1. ~Over
    BY OverStays
  <2>2. \A j \in Jobs : jobs'[j].state = "active" => jobs'[j].early
    BY <2>1 DEF StuckInv, Underway, JobsHandled
  <2>3. \A m \in DOMAIN sent' : jobs'[sent'[m].job].early
    BY <2>1 DEF StuckInv, Underway, JobsHandled, OnceInv, OneMessageEach
  <2>4. ASSUME NEW r \in Recipients, RashRow(r)
        PROVE  RashRow(r)'
    BY <2>4 DEF RashRow, JobsHandled
  <2>5. \A r \in Recipients :
           RashRow(r) \/ recip[r].status \in {"none", "pending", "queued", "cancelled"}
    BY <2>1 DEF StuckInv, Underway
  <2> QED
    BY <1>1, <2>1, <2>2, <2>3, <2>4, <2>5 DEF StuckInv, Underway, RowsHandled
<1>3. RowsThere'
  <2>1. \A r \in Recipients : recip[r].status # "none" => recip'[r].status # "none"
    BY DEF RowsHandled
  <2>2. ASSUME NEW d \in Calls, NEW r \in calls'[d].todo
        PROVE  recip'[r].status # "none"
    <3>1. CASE d = c
      <4>1. r \in Recipients /\ (r \in calls[c].todo \/ recip[r].status # "none")
        BY <2>2, <3>1 DEF CallHandled
      <4> QED
        BY <2>1, <4>1 DEF StuckInv, RowsThere
    <3>2. CASE d # c
      <4>1. r \in calls[d].todo /\ r \in Recipients
        BY <2>2, <3>2, StuckTypes DEF CallHandled
      <4> QED
        BY <2>1, <4>1 DEF StuckInv, RowsThere
    <3> QED
      BY <3>1, <3>2
  <2>3. ASSUME NEW j \in Jobs, jobs'[j].state # "free"
        PROVE  recip'[jobs'[j].recip].status # "none"
    <3>1. CASE jobs[j].state # "free"
      <4>1. jobs'[j].recip = jobs[j].recip /\ jobs[j].recip \in Recipients
        BY <3>1, StarterTypes DEF JobsHandled
      <4>2. recip[jobs[j].recip].status # "none"
        BY <3>1 DEF StuckInv, RowsThere
      <4> QED
        BY <2>1, <4>1, <4>2
    <3>2. CASE jobs[j].state = "free"
      <4>1. PICK r \in calls[c].todo : r = jobs'[j].recip
        BY <2>3, <3>2 DEF JobsHandled
      <4>2. r \in Recipients /\ recip[r].status # "none"
        BY <4>1, StuckTypes DEF StuckInv, RowsThere
      <4> QED
        BY <2>1, <4>1, <4>2
    <3> QED
      BY <3>1, <3>2
  <2> QED
    BY <2>2, <2>3 DEF RowsThere
<1>4. AttemptKnows'
  <2> SUFFICES ASSUME NEW i \in Instances, worker'[i].pc # "idle"
               PROVE  /\ worker'[i].pc = "recount" =>
                            (\/ recip[Recipient(i)].status # "queued"
                             \/ Finished \/ Rash(worker[i].job))'
                      /\ worker'[i].err = "paused" => (Finished \/ Rash(worker[i].job))'
    BY DEF AttemptKnows
  <2>1. worker[i].job \in Jobs /\ jobs[worker[i].job].state = "active"
    BY Working
  <2>2. PICK j \in Jobs : j = worker[i].job
    BY <2>1
  <2>3. Rash(worker[i].job) => Rash(worker[i].job)'
    BY <2>1, <2>2 DEF Rash, JobsHandled
  <2>4. CASE ~Over
    <3>1. Rash(worker[i].job)
      BY <2>4, Working
    <3> QED
      BY <2>3, <3>1
  <2>5. CASE Over
    <3>1. Finished => Finished'
      BY FinishedStays
    <3>2. Recipient(i)' = Recipient(i) /\ Recipient(i) \in Recipients
      BY <2>1, <2>2, StarterTypes DEF Recipient, JobsHandled
    <3>3. ~StartMark(c)
      BY <2>5, StarterBusy DEF StartMark, At, StartPc
    <3>4. recip'[Recipient(i)].status = "queued" => recip[Recipient(i)].status = "queued"
      BY <3>2, <3>3 DEF RowsHandled
    <3>5. /\ worker[i].pc = "recount" =>
                recip[Recipient(i)].status # "queued" \/ Finished \/ Rash(worker[i].job)
          /\ worker[i].err = "paused" => Finished \/ Rash(worker[i].job)
      BY DEF StuckInv, AttemptKnows
    <3>6. worker[i].pc = "recount" =>
            recip'[Recipient(i)].status # "queued" \/ Finished' \/ Rash(worker[i].job)'
      BY <2>3, <3>1, <3>4, <3>5
    <3>7. worker[i].pc = "recount" =>
            (\/ recip[Recipient(i)].status # "queued"
             \/ Finished \/ Rash(worker[i].job))'
      BY <3>2, <3>6
    <3> QED
      BY <2>3, <3>1, <3>5, <3>7
  <2> QED
    BY <2>4, <2>5
<1>5. RunningHasReason'
  <2> SUFFICES ASSUME campaign'.status = "running"
               PROVE  Reason'
    BY DEF RunningHasReason
  <2>1. Reason /\ Over
    BY <1>1 DEF StuckInv, RunningHasReason, Underway
  <2>2. CASE Explained
    <3>1. PICK r \in Recipients : Explains(r)
      BY <2>2 DEF Explained
    <3>2. ~StartMark(c)
      BY <2>1, StarterBusy DEF StartMark, At, StartPc
    <3>3. CASE recip[r].status \in {"failed", "pending", "cancelled"}
      <4>1. recip'[r].status \in {"failed", "pending", "cancelled"}
        BY <2>1, <3>3 DEF RowsHandled
      <4> QED
        BY <4>1 DEF Reason, Explained, Explains
    <3>4. CASE recip[r].status = "queued" /\ Rash(recip[r].job)
      <4>1. PICK j \in Jobs : j = recip[r].job /\ jobs[j].early
        BY <3>4 DEF Rash
      <4>2. jobs'[j].early
        BY <4>1 DEF StuckInv, OwnJobs, JobOf, JobsHandled
      <4>3. CASE recip'[r].status = "queued"
        <5>1. recip'[r].job = j
          BY <3>2, <4>1, <4>3 DEF RowsHandled
        <5> QED
          BY <4>2, <4>3, <5>1 DEF Reason, Explained, Explains, Rash
      <4>4. CASE recip'[r].status # "queued"
        <5>1. recip'[r].status \in {"pending", "cancelled"}
          BY <3>4, <4>4 DEF RowsHandled
        <5> QED
          BY <5>1 DEF Reason, Explained, Explains
      <4> QED
        BY <4>3, <4>4
    <3> QED
      BY <3>1, <3>3, <3>4 DEF Explains
  <2>3. CASE \E j \in Jobs : Waiting(j)
    <3>1. PICK j \in Jobs : jobs[j].state \in {"ready", "active"}
      BY <2>3 DEF Waiting
    <3>2. CASE jobs'[j].state \in {"ready", "active"}
      BY <3>2 DEF Reason, Busy, Waiting
    <3>3. CASE jobs'[j].state \notin {"ready", "active"}
      <4>1. calls'[c].pc \in StopPc
        BY <3>1, <3>3 DEF JobsHandled
      <4> QED
        BY <4>1 DEF Reason, Busy
    <3> QED
      BY <3>2, <3>3
  <2>4. CASE \E d \in Calls : calls[d].pc \in StopPc
    <3>1. PICK d \in Calls : calls[d].pc \in StopPc
      BY <2>4
    <3>2. calls'[d].pc \in StopPc
      BY <3>1 DEF CallHandled
    <3> QED
      BY <3>2 DEF Reason, Busy
  <2>5. CASE \E e \in Receipts : receipts[e].pc = "recount"
    BY <2>5 DEF Reason, Busy
  <2>6. CASE AllRash
    <3>1. ASSUME NEW j \in Jobs, jobs'[j].state = "over"
          PROVE  jobs'[j].early \/ calls'[c].pc \in StopPc
      BY <2>6, <3>1 DEF AllRash, JobsHandled
    <3> QED
      BY <3>1 DEF Reason, Busy, AllRash
  <2> QED
    BY <2>1, <2>2, <2>3, <2>4, <2>5, <2>6 DEF Reason, Busy
<1> QED
  BY <1>2, <1>3, <1>4, <1>5

LEMMA HandlerOwn ==
    ASSUME TypeInv, OnceInv, StuckInv,
           NEW c \in Calls, RowsHandled(c), JobsHandled(c), CallHandled(c), JobCopied(c)
    PROVE  OwnJobs' /\ FreshJob'
<1>0. None \notin Jobs
  BY CampaignAssumption
<1>1. ASSUME NEW r \in Recipients, NEW j, JobOf(r, j)
      PROVE  JobOf(r, j)'
  BY <1>1 DEF JobOf, JobsHandled
<1>2. OwnJobs'
  <2> SUFFICES ASSUME NEW r \in Recipients
               PROVE  JobOf(r, recip[r].job)' /\ \A d \in Calls : JobOf(r, calls[d].job[r])'
    BY DEF OwnJobs
  <2>1. ASSUME NEW j, j \in {recip[r].job, calls[c].job[r], None} PROVE JobOf(r, j)'
    <3>1. JobOf(r, j)
      BY <1>0, <2>1 DEF StuckInv, OwnJobs, JobOf
    <3> QED
      BY <1>1, <3>1
  <2>2. JobOf(r, recip[r].job)'
    <3>1. PICK j : j = recip'[r].job
      OBVIOUS
    <3>2. JobOf(r, j)'
      BY <2>1, <3>1 DEF RowsHandled
    <3> QED
      BY <3>1, <3>2 DEF JobOf
  <2>3. ASSUME NEW d \in Calls PROVE JobOf(r, calls[d].job[r])'
    <3>1. PICK j : j = calls'[d].job[r]
      OBVIOUS
    <3>2. CASE d = c
      <4>1. JobOf(r, j)'
        BY <2>1, <3>1, <3>2 DEF JobCopied
      <4> QED
        BY <3>1, <4>1 DEF JobOf
    <3>3. CASE d # c
      <4>1. JobOf(r, j)
        BY <3>1, <3>3 DEF CallHandled, StuckInv, OwnJobs
      <4> QED
        BY <1>1, <3>1, <4>1 DEF JobOf
    <3> QED
      BY <3>2, <3>3
  <2> QED
    BY <2>2, <2>3
<1>3. FreshJob'
  <2> SUFFICES ASSUME NEW d \in Calls, calls'[d].pc = "startMark"
               PROVE  \E r \in calls'[d].todo :
                        /\ IsFirst(r, calls'[d].todo)
                        /\ calls'[d].job[r] \in Jobs
                        /\ \/ jobs'[calls'[d].job[r]].state = "ready"
                           \/ jobs'[calls'[d].job[r]].early
                        /\ \A e \in Calls \ {d} : calls'[e].job[r] = None
                        /\ recip'[r].job = None
    BY DEF FreshJob, IsFirst
  <2>1. d # c /\ calls'[d] = calls[d]
    BY DEF JobCopied, CallHandled
  <2>2. PICK r \in calls[d].todo :
          /\ IsFirst(r, calls[d].todo)
          /\ calls[d].job[r] \in Jobs
          /\ jobs[calls[d].job[r]].state = "ready" \/ jobs[calls[d].job[r]].early
          /\ \A e \in Calls \ {d} : calls[e].job[r] = None
          /\ recip[r].job = None
    BY <2>1 DEF StuckInv, FreshJob
  <2>3. r \in Recipients /\ calls[c].todo \subseteq Recipients
    BY StarterTypes
  <2>4. PICK j \in Jobs : j = calls[d].job[r]
    BY <2>2
  <2>5. jobs'[j].state = "ready" \/ jobs'[j].early
    <3> SUFFICES ASSUME jobs'[j].state # "ready", ~jobs'[j].early
                 PROVE  FALSE
      OBVIOUS
    <3>0. jobs[j].state # "free"
      BY <2>3, <2>4 DEF StuckInv, OwnJobs, JobOf
    <3>1. PICK q \in calls[c].todo : calls[c].job[q] = j
      BY <2>2, <2>4, <3>0 DEF JobsHandled
    <3>2. jobs[j].recip = q /\ jobs[j].recip = r
      BY <2>3, <2>4, <3>1 DEF StuckInv, OwnJobs, JobOf
    <3> QED
      BY <1>0, <2>1, <2>2, <2>4, <3>1, <3>2
  <2>6. ASSUME NEW e \in Calls \ {d} PROVE calls'[e].job[r] = None
    <3>1. CASE e = c
      BY <2>2, <2>3, <3>1 DEF JobCopied
    <3>2. CASE e # c
      BY <2>2, <3>2 DEF CallHandled
    <3> QED
      BY <3>1, <3>2
  <2>7. recip'[r].job = None
    BY <2>1, <2>2, <2>3 DEF RowsHandled
  <2> QED
    BY <2>1, <2>2, <2>4, <2>5, <2>6, <2>7
<1> QED
  BY <1>2, <1>3

LEMMA HandlerRows ==
    ASSUME TypeInv, OnceInv, NEW c \in Calls, Handler(c)
    PROVE  RowsHandled(c)
<1>0. recip \in [Recipients -> RecipientRow] /\ calls[c].todo \subseteq Recipients
  BY StuckTypes
<1>1. CASE StartMark(c)
  <2>1. PICK r \in calls[c].todo :
          /\ IsFirst(r, calls[c].todo)
          /\ recip' = [recip EXCEPT ![r].status = "queued", ![r].job = calls[c].job[r]]
    BY <1>0, <1>1 DEF StartMark
  <2>2. ~Over
    BY <1>1, StarterBusy DEF StartMark, At, StartPc
  <2> QED
    BY <1>0, <1>1, <2>1, <2>2 DEF RowsHandled, RecipientRow
<1>2. CASE PauseMark(c)
  <2>1. PICK r \in Recipients :
          recip' = [recip EXCEPT ![r].status = "pending", ![r].job = None]
    BY <1>0, <1>2 DEF PauseMark
  <2> QED
    BY <1>0, <2>1 DEF RowsHandled, RecipientRow
<1>3. CASE CancelMark(c)
  BY <1>0, <1>3 DEF CancelMark, RowsHandled, RecipientRow
<1>4. CASE AddInsert(c)
  <2>1. PICK r \in WithStatus({"none"}) : recip' = [recip EXCEPT ![r].status = "pending"]
    BY <1>4 DEF AddInsert
  <2> QED
    BY <1>0, <2>1 DEF RowsHandled, RecipientRow, WithStatus
<1>5. CASE UNCHANGED recip
  BY <1>5 DEF RowsHandled
<1> QED
  BY <1>1, <1>2, <1>3, <1>4, <1>5 DEF Handler, StartList, StartAdd, StartEnd, PauseList,
     PauseRemove, PauseEnd, CancelList, CancelRemove, CancelEnd, PatchWrite

LEMMA HandlerJobs ==
    ASSUME TypeInv, NEW c \in Calls, Handler(c)
    PROVE  JobsHandled(c)
<1>0. jobs \in [Jobs -> JobRow]
  BY StuckTypes
<1>1. CASE StartAdd(c)
  <2>1. PICK r \in calls[c].todo, k \in Jobs :
          /\ jobs[k].state = "free"
          /\ jobs' = [jobs EXCEPT ![k] =
               [state |-> "ready", recip |-> r, inst |-> calls[c].inst, made |-> 0, early |-> FALSE]]
    BY <1>1 DEF StartAdd
  <2>2. /\ jobs'[k].state = "ready" /\ jobs'[k].recip = r
        /\ \A j \in Jobs : j # k => jobs'[j] = jobs[j]
    BY <1>0, <2>1
  <2> QED
    BY <2>1, <2>2 DEF JobsHandled
<1>2. CASE PauseRemove(c) \/ CancelRemove(c)
  <2>1. PICK r \in calls[c].todo : Remove(calls[c].job[r])
    BY <1>2 DEF PauseRemove, CancelRemove
  <2>2. PICK k : k = calls[c].job[r]
    OBVIOUS
  <2>3. \A j \in Jobs : /\ j # k => jobs'[j] = jobs[j]
                        /\ jobs'[j].recip = jobs[j].recip
                        /\ jobs'[j].early = jobs[j].early
                        /\ \/ jobs'[j].state = jobs[j].state
                           \/ jobs[j].state = "ready" /\ jobs'[j].state = "over"
    <3>1. CASE k \in Jobs /\ jobs[k].state = "ready"
      <4>1. jobs' = [jobs EXCEPT ![k].state = "over"]
        BY <2>1, <2>2, <3>1 DEF Remove
      <4> QED
        BY <1>0, <3>1, <4>1 DEF JobRow
    <3>2. CASE ~(k \in Jobs /\ jobs[k].state = "ready")
      <4>1. jobs' = jobs
        BY <2>1, <2>2, <3>2 DEF Remove
      <4> QED
        BY <4>1
    <3> QED
      BY <3>1, <3>2
  <2>4. calls'[c].pc \in StopPc
    BY <1>2, StopMoves
  <2> QED
    BY <2>2, <2>3, <2>4 DEF JobsHandled
<1>3. CASE UNCHANGED jobs
  BY <1>3 DEF JobsHandled
<1> QED
  BY <1>1, <1>2, <1>3 DEF Handler, StartList, StartMark, StartEnd, PauseList, PauseMark,
     PauseEnd, CancelList, CancelMark, CancelEnd, AddInsert, PatchWrite

LEMMA HandlerCalls ==
    ASSUME TypeInv, NEW c \in Calls, Handler(c)
    PROVE  CallHandled(c) /\ (~StartAdd(c) => JobCopied(c))
<1>0. /\ calls \in [Calls -> CallRow] /\ calls[c] \in CallRow
      /\ campaign \in CampaignRow
  BY StuckTypes DEF TypeInv, TypeOK
<1>1. \A d \in Calls : d # c => calls'[d] = calls[d]
  BY <1>0 DEF Return, Goto, Handler, StartList, StartAdd,
     StartMark, StartEnd, PauseList, PauseRemove, PauseMark, PauseEnd, CancelList,
     CancelRemove, CancelMark, CancelEnd, AddInsert, PatchWrite
<1>2. ASSUME calls[c].pc \in StopPc
      PROVE  calls'[c].pc \in StopPc \/ campaign'.status # "running"
  <2>1. CASE PauseEnd(c) \/ CancelEnd(c)
    <3>1. SetStatus("paused") \/ SetStatus("cancelled")
      BY <2>1 DEF PauseEnd, CancelEnd
    <3>2. campaign'.status \in {"paused", "cancelled"}
      BY <1>0, <3>1 DEF SetStatus, CampaignRow
    <3> QED
      BY <3>2
  <2>2. CASE \/ PauseList(c) \/ PauseRemove(c) \/ PauseMark(c)
             \/ CancelList(c) \/ CancelRemove(c) \/ CancelMark(c)
    BY <2>2, StopMoves
  <2>3. ~(\/ StartList(c) \/ StartAdd(c) \/ StartMark(c) \/ StartEnd(c)
          \/ AddInsert(c) \/ PatchWrite(c))
    BY <1>2 DEF StartList, StartAdd, StartMark, StartEnd, AddInsert, PatchWrite, At, StopPc
  <2> QED
    BY <2>1, <2>2, <2>3 DEF Handler
<1>4. \A r \in calls'[c].todo :
         r \in Recipients /\ (r \in calls[c].todo \/ recip[r].status # "none")
  <2>0. calls[c].todo \subseteq Recipients
    BY StuckTypes
  <2>1. CASE StartEnd(c) \/ PauseEnd(c) \/ CancelEnd(c) \/ AddInsert(c) \/ PatchWrite(c)
    <3>1. calls'[c] = Request("over")
      BY <1>0, <2>1 DEF StartEnd, PauseEnd, CancelEnd, AddInsert, PatchWrite, Return
    <3> QED
      BY <3>1 DEF Request
  <2>2. CASE StartList(c) \/ PauseList(c) \/ CancelList(c)
    <3>1. calls'[c].todo \in {WithStatus(Startable), WithStatus({"queued"}),
                              WithStatus({"pending", "queued"})}
      <4>1. CASE StartList(c)
        BY <1>0, <4>1 DEF StartList, CallRow
      <4>2. CASE PauseList(c)
        BY <1>0, <4>2 DEF PauseList, CallRow
      <4>3. CASE CancelList(c)
        BY <1>0, <4>3 DEF CancelList, CallRow
      <4> QED
        BY <2>2, <4>1, <4>2, <4>3
    <3> QED
      BY <3>1 DEF WithStatus, Startable
  <2>3. CASE StartMark(c) \/ PauseMark(c) \/ CancelRemove(c)
    <3>1. calls'[c].todo \subseteq calls[c].todo
      <4>1. CASE StartMark(c)
        BY <1>0, <4>1 DEF StartMark, CallRow
      <4>2. CASE PauseMark(c)
        BY <1>0, <4>2 DEF PauseMark, CallRow
      <4>3. CASE CancelRemove(c)
        BY <1>0, <4>3 DEF CancelRemove, CallRow
      <4> QED
        BY <2>3, <4>1, <4>2, <4>3
    <3> QED
      BY <2>0, <3>1
  <2>4. CASE StartAdd(c) \/ PauseRemove(c) \/ CancelMark(c)
    <3>1. calls'[c].todo = calls[c].todo
      <4>1. CASE StartAdd(c)
        BY <1>0, <4>1 DEF StartAdd, CallRow
      <4>2. CASE PauseRemove(c) \/ CancelMark(c)
        BY <1>0, <4>2 DEF PauseRemove, CancelMark, Goto, CallRow
      <4> QED
        BY <2>4, <4>1, <4>2
    <3> QED
      BY <2>0, <3>1
  <2> QED
    BY <2>1, <2>2, <2>3, <2>4 DEF Handler
<1>3. ASSUME ~StartAdd(c)
      PROVE  JobCopied(c)
  <2>1. CASE StartEnd(c) \/ PauseEnd(c) \/ CancelEnd(c) \/ AddInsert(c) \/ PatchWrite(c)
    <3>1. calls'[c] = Request("over")
      BY <1>0, <2>1 DEF StartEnd, PauseEnd, CancelEnd, AddInsert, PatchWrite, Return
    <3> QED
      BY <3>1 DEF JobCopied, Request
  <2>2. CASE StartList(c)
    BY <1>0, <2>2 DEF StartList, JobCopied, CallRow
  <2>3. CASE StartMark(c)
    <3>1. PICK r \in calls[c].todo :
            calls' = [calls EXCEPT
               ![c].todo = @ \ {r},
               ![c].pc = IF calls[c].todo = {r} THEN "startEnd" ELSE "startAdd"]
      BY <2>3 DEF StartMark
    <3> QED
      BY <1>0, <3>1 DEF JobCopied, CallRow
  <2>4. CASE \/ PauseList(c) \/ PauseRemove(c) \/ PauseMark(c)
             \/ CancelList(c) \/ CancelRemove(c) \/ CancelMark(c)
    <3>1. calls'[c].pc # "startMark"
      BY <2>4, StopMoves DEF StopPc
    <3>2. CASE PauseList(c) \/ CancelList(c)
      <4>1. calls'[c].job = [r \in Recipients |-> recip[r].job]
        <5>1. CASE PauseList(c)
          BY <1>0, <5>1 DEF PauseList, CallRow
        <5>2. CASE CancelList(c)
          BY <1>0, <5>2 DEF CancelList, CallRow
        <5> QED
          BY <3>2, <5>1, <5>2
      <4> QED
        BY <3>1, <4>1 DEF JobCopied
    <3>3. CASE PauseRemove(c) \/ PauseMark(c) \/ CancelRemove(c) \/ CancelMark(c)
      <4>1. calls'[c].job = calls[c].job
        <5>1. CASE PauseRemove(c) \/ CancelMark(c)
          BY <1>0, <5>1 DEF PauseRemove, CancelMark, Goto, CallRow
        <5>2. CASE PauseMark(c)
          BY <1>0, <5>2 DEF PauseMark, CallRow
        <5>3. CASE CancelRemove(c)
          BY <1>0, <5>3 DEF CancelRemove, CallRow
        <5> QED
          BY <3>3, <5>1, <5>2, <5>3
      <4> QED
        BY <3>1, <4>1 DEF JobCopied
    <3> QED
      BY <2>4, <3>2, <3>3
  <2> QED
    BY <1>3, <2>1, <2>2, <2>3, <2>4 DEF Handler
<1> QED
  BY <1>1, <1>2, <1>3, <1>4 DEF CallHandled

\* The job just added is its recipient's only one.
LEMMA StartAddOwn ==
    ASSUME TypeInv, OnceInv, StuckInv, StartedOnce, NEW c \in Calls, StartAdd(c)
    PROVE  OwnJobs' /\ FreshJob'
<1>0. /\ calls \in [Calls -> CallRow] /\ calls[c] \in CallRow /\ jobs \in [Jobs -> JobRow]
      /\ calls[c].todo \subseteq Recipients /\ None \notin Jobs
      /\ \A d \in Calls : calls[d].job \in [Recipients -> Jobs \cup {None}]
      /\ recip \in [Recipients -> RecipientRow] /\ UNCHANGED recip
  BY StuckTypes, CampaignAssumption DEF TypeInv, TypeOK, StartAdd
<1>1. PICK r \in calls[c].todo, k \in Jobs :
        /\ IsFirst(r, calls[c].todo)
        /\ jobs[k].state = "free"
        /\ jobs' = [jobs EXCEPT ![k] =
             [state |-> "ready", recip |-> r, inst |-> calls[c].inst, made |-> 0, early |-> FALSE]]
        /\ calls' = [calls EXCEPT ![c].pc = "startMark", ![c].job[r] = k]
  BY DEF StartAdd
<1>2. /\ jobs'[k].state = "ready" /\ jobs'[k].recip = r
      /\ \A j \in Jobs : j # k => jobs'[j] = jobs[j]
  BY <1>0, <1>1
<1>3. /\ calls'[c].todo = calls[c].todo
      /\ calls'[c].job[r] = k
      /\ \A q \in Recipients : q # r => calls'[c].job[q] = calls[c].job[q]
      /\ \A d \in Calls : d # c => calls'[d] = calls[d]
  BY <1>0, <1>1 DEF CallRow
<1>4. calls[c].pc = "startAdd" /\ c \in Starters
  BY StarterBusy DEF StartAdd, At, StartPc
<1>5. ASSUME NEW q \in Recipients, NEW j, JobOf(q, j)
      PROVE  JobOf(q, j)'
  BY <1>1, <1>2, <1>5 DEF JobOf
<1>6. OwnJobs'
  <2> SUFFICES ASSUME NEW q \in Recipients
               PROVE  JobOf(q, recip[q].job)' /\ \A d \in Calls : JobOf(q, calls[d].job[q])'
    BY DEF OwnJobs
  <2>1. JobOf(q, recip[q].job)'
    <3>1. JobOf(q, recip[q].job)
      BY DEF StuckInv, OwnJobs
    <3>2. PICK j : j = recip[q].job
      OBVIOUS
    <3> QED
      BY <1>0, <1>5, <3>1, <3>2 DEF JobOf
  <2>2. ASSUME NEW d \in Calls PROVE JobOf(q, calls[d].job[q])'
    <3>1. CASE d = c /\ q = r
      BY <1>2, <1>3, <3>1 DEF JobOf
    <3>2. CASE ~(d = c /\ q = r)
      <4>1. calls'[d].job[q] = calls[d].job[q]
        BY <1>3, <3>2
      <4>2. PICK j : j = calls[d].job[q]
        OBVIOUS
      <4>3. JobOf(q, j)'
        BY <1>5, <4>2 DEF StuckInv, OwnJobs
      <4> QED
        BY <4>1, <4>2, <4>3 DEF JobOf
    <3> QED
      BY <3>1, <3>2
  <2> QED
    BY <2>1, <2>2
<1>7. ASSUME NEW j \in Jobs, JobOf(r, j)
      PROVE  FALSE
  BY <1>4, <1>7 DEF JobOf, OnceInv, ListedFresh
<1>8. recip'[r].job = None /\ \A e \in Calls \ {c} : calls'[e].job[r] = None
  BY <1>0, <1>3, <1>7 DEF StuckInv, OwnJobs, RecipientRow
<1>9. FreshJob'
  <2> SUFFICES ASSUME NEW d \in Calls, calls'[d].pc = "startMark"
               PROVE  \E q \in calls'[d].todo :
                        /\ IsFirst(q, calls'[d].todo)
                        /\ calls'[d].job[q] \in Jobs
                        /\ \/ jobs'[calls'[d].job[q]].state = "ready"
                           \/ jobs'[calls'[d].job[q]].early
                        /\ \A e \in Calls \ {d} : calls'[e].job[q] = None
                        /\ recip'[q].job = None
    BY DEF FreshJob, IsFirst
  <2>1. d = c
    <3> SUFFICES ASSUME d # c PROVE FALSE
      OBVIOUS
    <3>1. calls[d].pc = "startMark"
      BY <1>3
    <3>2. d \in Starters
      BY <3>1, StarterBusy DEF StartPc
    <3> QED
      BY <1>4, <3>2 DEF StartedOnce
  <2>2. r \in calls'[d].todo /\ IsFirst(r, calls'[d].todo)
    BY <1>1, <1>3, <2>1
  <2>3. calls'[d].job[r] \in Jobs /\ jobs'[calls'[d].job[r]].state = "ready"
    BY <1>2, <1>3, <2>1
  <2> QED
    BY <1>8, <2>1, <2>2, <2>3
<1> QED
  BY <1>6, <1>9

\* The steps that take somebody out of the queue.
LEMMA StopSteps ==
    ASSUME TypeInv, NEW c \in Calls, Handler(c)
    PROVE  /\ calls[c].pc = "pauseRemove" => PauseRemove(c)
           /\ calls[c].pc = "pauseMark" => PauseMark(c)
           /\ calls[c].pc = "cancelRemove" => CancelRemove(c)
           /\ calls[c].pc = "cancelMark" => CancelMark(c)
           /\ PauseRemove(c) => calls'[c].pc = "pauseMark" /\ calls'[c].todo = calls[c].todo
           /\ CancelRemove(c) => calls'[c].pc \in {"cancelRemove", "cancelMark"}
<1>0. calls \in [Calls -> CallRow] /\ calls[c] \in CallRow
  BY StuckTypes DEF TypeInv, TypeOK
<1>1. /\ calls[c].pc = "pauseRemove" => PauseRemove(c)
      /\ calls[c].pc = "pauseMark" => PauseMark(c)
      /\ calls[c].pc = "cancelRemove" => CancelRemove(c)
      /\ calls[c].pc = "cancelMark" => CancelMark(c)
  BY DEF Handler, At, StartList, StartAdd, StartMark, StartEnd, PauseList, PauseRemove,
     PauseMark, PauseEnd, CancelList, CancelRemove, CancelMark, CancelEnd, AddInsert,
     PatchWrite
<1>2. PauseRemove(c) => calls'[c].pc = "pauseMark" /\ calls'[c].todo = calls[c].todo
  BY <1>0 DEF PauseRemove, Goto, CallRow
<1>3. CancelRemove(c) => calls'[c].pc \in {"cancelRemove", "cancelMark"}
  BY <1>0 DEF CancelRemove, At, CallRow
<1> QED
  BY <1>1, <1>2, <1>3

\* Who is being taken out still is, or is marked now.
LEMMA RemovingKept ==
    ASSUME TypeInv, NEW c \in Calls, Handler(c), NEW r \in Recipients, Removing(r)
    PROVE  Removing(r)' \/ recip'[r].status = "pending" \/ CancelMark(c)
<1>0. /\ calls \in [Calls -> CallRow] /\ calls[c] \in CallRow
      /\ recip \in [Recipients -> RecipientRow] /\ calls[c].todo \subseteq Recipients
      /\ CallHandled(c)
  BY StuckTypes, HandlerCalls DEF TypeInv, TypeOK
<1>1. PICK d \in Calls :
        \/ calls[d].pc \in {"pauseRemove", "pauseMark"} /\ r \in calls[d].todo
        \/ calls[d].pc \in {"cancelRemove", "cancelMark"}
  BY DEF Removing
<1>2. CASE d # c
  <2>1. calls'[d] = calls[d]
    BY <1>0, <1>2 DEF CallHandled
  <2> QED
    BY <1>1, <2>1 DEF Removing
<1>3. CASE d = c
  <2>1. CASE calls[c].pc = "pauseRemove" /\ r \in calls[c].todo
    BY <2>1, StopSteps DEF Removing
  <2>2. CASE calls[c].pc = "pauseMark" /\ r \in calls[c].todo
    <3>1. PICK q \in calls[c].todo :
            /\ recip' = [recip EXCEPT ![q].status = "pending", ![q].job = None]
            /\ calls' = [calls EXCEPT
                 ![c].todo = @ \ {q},
                 ![c].pc = IF calls[c].todo = {q} THEN "pauseEnd" ELSE "pauseRemove"]
      BY <2>2, StopSteps DEF PauseMark
    <3>2. recip'[q].status = "pending"
      BY <1>0, <3>1 DEF RecipientRow
    <3>3. CASE q # r
      <4>1. calls[c].todo # {q}
        BY <2>2, <3>3
      <4>2. calls'[c].pc = "pauseRemove" /\ r \in calls'[c].todo
        BY <1>0, <2>2, <3>1, <3>3, <4>1 DEF CallRow
      <4> QED
        BY <4>2 DEF Removing
    <3> QED
      BY <3>2, <3>3
  <2>3. CASE calls[c].pc = "cancelRemove"
    BY <2>3, StopSteps DEF Removing
  <2>4. CASE calls[c].pc = "cancelMark"
    BY <2>4, StopSteps
  <2> QED
    BY <1>1, <1>3, <2>1, <2>2, <2>3, <2>4
<1> QED
  BY <1>2, <1>3

\* A waiting job that a request takes from the queue is one of its list.
LEMMA RemovalKnown ==
    ASSUME TypeInv, StuckInv, NEW c \in Calls, Handler(c),
           NEW j \in Jobs, jobs[j].state = "ready", jobs'[j].state # "ready"
    PROVE  Removing(jobs[j].recip)'
<1>0. /\ calls \in [Calls -> CallRow] /\ calls[c] \in CallRow
      /\ calls[c].todo \subseteq Recipients /\ JobsHandled(c)
  BY StuckTypes, HandlerJobs DEF TypeInv, TypeOK
<1>1. PICK q \in calls[c].todo : calls[c].job[q] = j
  BY <1>0 DEF JobsHandled
<1>2. jobs[j].recip = q
  BY <1>0, <1>1 DEF StuckInv, OwnJobs, JobOf
<1>3. ~StartAdd(c)
  <2> SUFFICES ASSUME StartAdd(c) PROVE FALSE
    OBVIOUS
  <2>1. calls'[c].pc = "startMark"
    BY <1>0 DEF StartAdd, CallRow
  <2>2. calls'[c].pc \in StopPc
    BY <1>0 DEF JobsHandled
  <2> QED
    BY <2>1, <2>2 DEF StopPc
<1>4. PauseRemove(c) \/ CancelRemove(c)
  <2>1. jobs' # jobs
    OBVIOUS
  <2> QED
    BY <1>3, <2>1 DEF Handler, StartList, StartMark, StartEnd, PauseList,
       PauseMark, PauseEnd, CancelList, CancelMark, CancelEnd, AddInsert, PatchWrite
<1>5. jobs'[j].recip = q
  BY <1>0, <1>2 DEF JobsHandled
<1> QED
  BY <1>1, <1>4, <1>5, StopSteps DEF Removing

\* The job a start is about to mark is its recipient's only one.
LEMMA MarkedFresh ==
    ASSUME TypeInv, StuckInv, NEW c \in Calls, StartMark(c),
           NEW r \in calls[c].todo, IsFirst(r, calls[c].todo)
    PROVE  /\ calls[c].job[r] \in Jobs
           /\ \/ jobs[calls[c].job[r]].state = "ready"
              \/ jobs[calls[c].job[r]].early
<1>0. calls[c].todo \subseteq Recipients /\ Recipients \subseteq Nat
  BY StuckTypes, CampaignAssumption
<1>1. PICK p \in calls[c].todo :
        /\ IsFirst(p, calls[c].todo)
        /\ calls[c].job[p] \in Jobs
        /\ jobs[calls[c].job[p]].state = "ready" \/ jobs[calls[c].job[p]].early
  BY DEF StartMark, At, StuckInv, FreshJob
<1>2. p = r
  <2>1. p <= r /\ r <= p /\ p \in Nat /\ r \in Nat
    BY <1>0, <1>1 DEF IsFirst
  <2> QED
    BY <2>1
<1> QED
  BY <1>1, <1>2

\* What was taken out of the queue stays so until the starter is done: only a
\* start would requeue the recipient, and its own job is the only one.
LEMMA HandlerRemoved ==
    ASSUME TypeInv, OnceInv, StuckInv, StartedOnce, ~Over, NEW c \in Calls, Handler(c)
    PROVE  RemovedShown'
<1> SUFFICES ASSUME NEW j \in Jobs, jobs'[j].state = "over", ~jobs'[j].early
             PROVE  \/ Removing(jobs[j].recip)'
                    \/ recip'[jobs'[j].recip].status \in {"pending", "cancelled"}
  BY DEF RemovedShown
<1>0. /\ RowsHandled(c) /\ JobsHandled(c) /\ recip \in [Recipients -> RecipientRow]
      /\ calls[c].todo \subseteq Recipients
  BY StuckTypes, HandlerRows, HandlerJobs
<1>1. /\ jobs[j].state \in {"ready", "over"}
      /\ jobs'[j].recip = jobs[j].recip /\ jobs'[j].early = jobs[j].early
  BY <1>0 DEF JobsHandled
<1>2. PICK r \in Recipients : r = jobs[j].recip
  BY StarterTypes
<1>3. CASE jobs[j].state = "ready"
  BY <1>1, <1>3, RemovalKnown DEF Removing
<1>4. CASE jobs[j].state = "over"
  <2>1. ~jobs[j].early
    BY <1>1
  <2>2. Removing(r) \/ recip[r].status \in {"pending", "cancelled"}
    BY <1>2, <1>4, <2>1 DEF StuckInv, Underway, RemovedShown
  <2>3. recip[r].status \in {"pending", "queued", "cancelled"}
    <3>1. ~RashRow(r)
      BY <1>2, <1>4, <2>1 DEF RashRow, OnceInv, OneJobEach
    <3>2. recip[r].status # "none"
      BY <1>2, <1>4 DEF StuckInv, RowsThere
    <3> QED
      BY <3>1, <3>2 DEF StuckInv, Underway
  <2>4. CASE recip[r].status \in {"pending", "cancelled"}
    <3>1. recip'[r].status # "queued"
      <4> SUFFICES ASSUME recip'[r].status = "queued" PROVE FALSE
        OBVIOUS
      <4>1. StartMark(c) /\ r \in calls[c].todo /\ IsFirst(r, calls[c].todo)
        BY <1>0, <2>4 DEF RowsHandled
      <4>2. PICK k \in Jobs : /\ k = calls[c].job[r]
                              /\ jobs[k].state = "ready" \/ jobs[k].early
        BY <4>1, MarkedFresh
      <4>3. jobs[k].state # "free" /\ jobs[k].recip = r
        BY <4>2 DEF StuckInv, OwnJobs, JobOf
      <4>4. k = j
        BY <1>2, <1>4, <4>3 DEF OnceInv, OneJobEach
      <4> QED
        BY <1>4, <2>1, <4>2, <4>4
    <3>2. recip'[r].status \in {"pending", "cancelled"}
      BY <1>0, <2>4, <3>1 DEF RowsHandled
    <3> QED
      BY <1>1, <1>2, <3>2
  <2>5. CASE Removing(r)
    <3>1. CASE Removing(r)'
      BY <1>1, <1>2, <3>1 DEF Removing
    <3>2. CASE recip'[r].status = "pending"
      BY <1>1, <1>2, <3>2
    <3>3. CASE CancelMark(c)
      <4>1. recip'[r].status = "cancelled"
        BY <1>0, <2>3, <3>3 DEF CancelMark, RecipientRow
      <4> QED
        BY <1>1, <1>2, <4>1
    <3> QED
      BY <2>5, <3>1, <3>2, <3>3, RemovingKept
  <2> QED
    BY <2>2, <2>4, <2>5
<1> QED
  BY <1>1, <1>3, <1>4

\* Who stays queued keeps its job, or is still being taken out.
LEMMA QueuedStays ==
    ASSUME TypeInv, RetriesInv, OnceInv, StuckInv, StartedOnce, [Next]_vars,
           NEW c \in Calls, Handler(c),
           NEW r \in Recipients, recip[r].status = "queued",
           recip'[r].status = "queued", recip'[r].job = recip[r].job
    PROVE  (Waiting(recip[r].job) \/ Rash(recip[r].job) \/ Removing(r) \/ Finished)'
<1>0. recip \in [Recipients -> RecipientRow] /\ JobsHandled(c)
  BY StuckTypes, HandlerJobs
<1>1. Waiting(recip[r].job) \/ Rash(recip[r].job) \/ Removing(r) \/ Finished
  BY DEF StuckInv, QueuedHaveJobs
<1>2. CASE Finished
  BY <1>2, FinishedStays
<1>3. CASE Removing(r)
  <2>1. ~CancelMark(c)
    BY <1>0 DEF CancelMark, RecipientRow
  <2> QED
    BY <1>3, <2>1, RemovingKept
<1>4. CASE Waiting(recip[r].job) \/ Rash(recip[r].job)
  <2>1. PICK j \in Jobs : j = recip[r].job
    BY <1>4 DEF Waiting, Rash
  <2>2. jobs[j].state # "free" /\ jobs[j].recip = r
    BY <2>1 DEF StuckInv, OwnJobs, JobOf
  <2>3. CASE jobs[j].early
    <3>1. jobs'[j].early
      BY <1>0, <2>2, <2>3 DEF JobsHandled
    <3> QED
      BY <2>1, <3>1 DEF Rash
  <2>4. CASE jobs'[j].state \in {"ready", "active"}
    BY <2>1, <2>4 DEF Waiting
  <2>5. CASE ~jobs[j].early /\ jobs'[j].state \notin {"ready", "active"}
    <3>1. jobs[j].state = "ready" /\ jobs'[j].state # "ready"
      BY <1>0, <1>4, <2>1, <2>5 DEF Waiting, Rash, JobsHandled
    <3>2. Removing(jobs[j].recip)'
      BY <3>1, RemovalKnown
    <3>3. jobs'[j].recip = r
      BY <1>0, <2>2 DEF JobsHandled
    <3> QED
      BY <2>2, <3>2, <3>3 DEF Removing
  <2> QED
    BY <2>3, <2>4, <2>5
<1> QED
  BY <1>1, <1>2, <1>3, <1>4

LEMMA HandlerQueued ==
    ASSUME TypeInv, RetriesInv, OnceInv, StuckInv, StartedOnce, [Next]_vars,
           NEW c \in Calls, Handler(c)
    PROVE  QueuedHaveJobs'
<1> SUFFICES ASSUME NEW r \in Recipients, recip'[r].status = "queued"
             PROVE  (Waiting(recip[r].job) \/ Rash(recip[r].job) \/ Removing(r) \/ Finished)'
  BY DEF QueuedHaveJobs
<1>0. /\ recip \in [Recipients -> RecipientRow] /\ calls[c].todo \subseteq Recipients
      /\ Recipients \subseteq Nat /\ RowsHandled(c)
  BY StuckTypes, CampaignAssumption, HandlerRows
<1>1. CASE recip[r].status = "queued" /\ recip'[r].job = recip[r].job
  BY <1>1, QueuedStays
<1>2. CASE StartMark(c) /\ r \in calls[c].todo /\ IsFirst(r, calls[c].todo)
  <2>1. PICK q \in calls[c].todo :
          /\ IsFirst(q, calls[c].todo)
          /\ recip' = [recip EXCEPT ![q].status = "queued", ![q].job = calls[c].job[q]]
    BY <1>2 DEF StartMark
  <2>2. q = r
    <3>1. q <= r /\ r <= q /\ q \in Nat /\ r \in Nat
      BY <1>0, <1>2, <2>1 DEF IsFirst
    <3> QED
      BY <3>1
  <2>3. recip'[r].job = calls[c].job[r] /\ UNCHANGED jobs
    BY <1>0, <1>2, <2>1, <2>2 DEF StartMark, RecipientRow
  <2>4. PICK k \in Jobs : /\ k = calls[c].job[r]
                          /\ jobs[k].state = "ready" \/ jobs[k].early
    BY <1>2, MarkedFresh
  <2> QED
    BY <2>3, <2>4 DEF Waiting, Rash
<1> QED
  BY <1>0, <1>1, <1>2 DEF RowsHandled

\* The campaign becomes 'running' with a recipient that explains it, with work
\* left, or after jobs that were all handed out early.
LEMMA StartEndStuck ==
    ASSUME TypeInv, RetriesInv, OnceInv, StuckInv, StartedOnce, [Next]_vars,
           NEW c \in Calls, StartEnd(c)
    PROVE  StuckInv'
<1>0. /\ calls \in [Calls -> CallRow] /\ UNCHANGED <<recip, jobs, worker, receipts>>
      /\ Handler(c) /\ CallHandled(c) /\ RowsHandled(c) /\ JobsHandled(c) /\ JobCopied(c)
  BY StuckTypes, HandlerCalls, HandlerRows, HandlerJobs DEF StartEnd, Handler, StartAdd, At
<1>1. calls[c].pc = "startEnd" /\ calls'[c].pc = "over" /\ calls'[c].todo = {}
  BY <1>0 DEF StartEnd, At, Return, Request
<1>2. c \in Starters /\ ~Over
  BY <1>1, StarterBusy DEF StartPc
<1>3. Over'
  BY <1>1, <1>2 DEF Over, StartedOnce, StartPc
<1>4. Underway'
  BY <1>3 DEF Underway
<1>5. RowsThere'
  BY <1>0, <1>1 DEF RowsThere, CallHandled, StuckInv
<1>6. OwnJobs' /\ FreshJob' /\ QueuedHaveJobs'
  BY <1>0, HandlerOwn, HandlerQueued
<1>7. AttemptKnows'
  <2>1. ASSUME NEW i \in Instances, worker'[i].pc # "idle"
        PROVE  Rash(worker[i].job)'
    <3>1. Rash(worker[i].job)
      BY <1>0, <1>2, <2>1, Working
    <3> QED
      BY <1>0, <3>1 DEF Rash
  <2> QED
    BY <2>1 DEF AttemptKnows
<1>8. Reason'
  <2>1. CASE AllRash
    BY <1>0, <2>1 DEF Reason, AllRash
  <2>2. CASE ~AllRash
    <3>1. PICK j \in Jobs : jobs[j].state = "over" /\ ~jobs[j].early
      BY <2>2 DEF AllRash
    <3>2. PICK r \in Recipients : r = jobs[j].recip
      BY StarterTypes
    <3>3. Removing(r) \/ recip[r].status \in {"pending", "cancelled"}
      BY <1>2, <3>1, <3>2 DEF StuckInv, Underway, RemovedShown
    <3>4. CASE Removing(r)
      <4>1. PICK d \in Calls : calls[d].pc \in StopPc
        BY <3>4, RemovingBusy
      <4>2. d # c
        BY <1>1, <4>1 DEF StopPc
      <4>3. calls'[d].pc \in StopPc
        BY <1>0, <4>1, <4>2 DEF CallHandled
      <4> QED
        BY <4>3 DEF Reason, Busy
    <3>5. CASE recip[r].status \in {"pending", "cancelled"}
      BY <1>0, <3>5 DEF Reason, Explained, Explains
    <3> QED
      BY <3>3, <3>4, <3>5
  <2> QED
    BY <2>1, <2>2
<1> QED
  BY <1>4, <1>5, <1>6, <1>7, <1>8 DEF StuckInv, RunningHasReason

LEMMA HandlerStuck ==
    ASSUME TypeInv, RetriesInv, OnceInv, StuckInv, StartedOnce, [Next]_vars,
           NEW c \in Calls, Handler(c)
    PROVE  StuckInv'
<1>0. /\ RowsHandled(c) /\ JobsHandled(c) /\ CallHandled(c)
      /\ ~StartAdd(c) => JobCopied(c)
      /\ UNCHANGED <<worker, sent, receipts>>
  BY HandlerRows, HandlerJobs, HandlerCalls DEF Handler, StartList, StartAdd, StartMark,
     StartEnd, PauseList, PauseRemove, PauseMark, PauseEnd, CancelList, CancelRemove,
     CancelMark, CancelEnd, AddInsert, PatchWrite
<1>1. CASE StartEnd(c)
  BY <1>1, StartEndStuck
<1>2. CASE ~StartEnd(c)
  <2>1. Underway' /\ RowsThere' /\ AttemptKnows' /\ RunningHasReason'
    BY <1>0, <1>2, HandlerKeeps, HandlerRemoved
  <2>2. OwnJobs' /\ FreshJob'
    BY <1>0, HandlerOwn, StartAddOwn
  <2> QED
    BY <2>1, <2>2, HandlerQueued DEF StuckInv
<1> QED
  BY <1>1, <1>2

LEMMA ArriveStuck ==
    ASSUME TypeInv, RetriesInv, OnceInv, StuckInv, StartedOnce, [Next]_vars,
           NEW c \in Calls, Arrive(c)
    PROVE  StuckInv'
<1>0. /\ calls \in [Calls -> CallRow] /\ calls[c].todo \subseteq Recipients
      /\ UNCHANGED <<campaign, recip, jobs, worker, sent, receipts>>
      /\ calls[c].pc = "new"
  BY StuckTypes DEF Arrive, StartRead, Open, At
<1>1. PICK l \in CallPc \ {"startMark"} :
        \/ calls' = [calls EXCEPT ![c].pc = l, ![c].inst = campaign.instance]
        \/ Goto(c, l) \/ Return(c)
  <2>1. PICK op \in Requests[c] : StartRead(c, op) \/ Open(c, op)
    BY DEF Arrive
  <2>2. CASE StartRead(c, op)
    BY <2>2 DEF StartRead, CallPc, StartPc
  <2>3. CASE Open(c, op)
    <3>1. op \in {"pause", "cancel", "add", "senderAdd", "patch"}
      BY <2>1, <2>3, CampaignAssumption DEF Open
    <3> QED
      BY <2>3, <3>1 DEF Open, CallPc, StartPc
  <2> QED
    BY <2>1, <2>2, <2>3
<1>2. /\ calls'[c].pc # "startMark" /\ calls'[c].todo \subseteq calls[c].todo
      /\ \A d \in Calls : d # c => calls'[d] = calls[d]
      /\ \A r \in Recipients : calls'[c].job[r] \in {calls[c].job[r], None}
  BY <1>0, <1>1 DEF Goto, Return, Request, CallRow
<1>3. /\ RowsHandled(c) /\ JobsHandled(c) /\ CallHandled(c) /\ JobCopied(c)
      /\ ~StartEnd(c)
  BY <1>0, <1>2 DEF RowsHandled, JobsHandled, CallHandled, JobCopied, StopPc, StartEnd, At
<1>4. \A r : Removing(r) => Removing(r)'
  BY <1>0, <1>2 DEF Removing
<1>5. ~Over => RemovedShown'
  <2> SUFFICES ASSUME ~Over, NEW j \in Jobs, jobs[j].state = "over", ~jobs[j].early
               PROVE  \/ Removing(jobs[j].recip)'
                      \/ recip'[jobs'[j].recip].status \in {"pending", "cancelled"}
    BY <1>0 DEF RemovedShown
  <2>1. PICK r : r = jobs[j].recip
    OBVIOUS
  <2>2. Removing(r)' \/ recip[r].status \in {"pending", "cancelled"}
    BY <1>4, <2>1 DEF StuckInv, Underway, RemovedShown
  <2> QED
    BY <1>0, <2>1, <2>2 DEF Removing
<1>6. Underway' /\ RowsThere' /\ AttemptKnows' /\ RunningHasReason'
  BY <1>0, <1>3, <1>5, HandlerKeeps
<1>7. OwnJobs' /\ FreshJob'
  BY <1>3, HandlerOwn
<1>8. QueuedHaveJobs'
  BY <1>0, <1>4, FinishedStays DEF StuckInv, QueuedHaveJobs, Waiting, Rash
<1> QED
  BY <1>6, <1>7, <1>8 DEF StuckInv

-----------------------------------------------------------------------------
LEMMA InitStuck == ASSUME Init PROVE StuckInv
<1>1. Underway /\ RunningHasReason
  <2>1. campaign.status = "draft" /\ \A j \in Jobs : jobs[j].state = "free"
    BY DEF Init
  <2>2. \A r \in Recipients :
           recip[r].status \in {"none", "pending", "queued", "cancelled"}
    BY DEF Init
  <2>3. DOMAIN sent = {}
    BY DEF Init
  <2> QED
    BY <2>1, <2>2, <2>3 DEF Underway, RemovedShown, RunningHasReason
<1>2. RowsThere /\ QueuedHaveJobs
  BY CampaignAssumption DEF Init, RowsThere, QueuedHaveJobs, Request
<1>3. OwnJobs /\ FreshJob
  BY CampaignAssumption DEF Init, OwnJobs, FreshJob, JobOf, Request
<1>4. AttemptKnows
  BY DEF Init, AttemptKnows, Idle
<1> QED
  BY <1>1, <1>2, <1>3, <1>4 DEF StuckInv

LEMMA NextStuck ==
    ASSUME TypeInv, RetriesInv, RetriesInv', ReportsInv, OnceInv, StuckInv, StartedOnce,
           [Next]_vars
    PROVE  StuckInv'
<1>1. ASSUME NEW c \in Calls, Abort(c)
      PROVE  FALSE
  BY <1>1 DEF Abort, StartedOnce
<1>2. ~Crash
  BY DEF Crash, StartedOnce, TypeInv, TypeOK
<1>3. CASE UNCHANGED vars
  BY <1>3 DEF vars, StuckInv, Underway, Over, RashRow, RemovedShown, RowsThere, OwnJobs,
     JobOf, FreshJob, QueuedHaveJobs, Waiting, Rash, Removing, Finished, AttemptKnows,
     Recipient, RunningHasReason, Reason, Explained, Explains, Busy, AllRash
<1> QED
  BY <1>1, <1>2, <1>3, ArriveStuck, HandlerStuck, QueueStuck, WorkStuck, ReceiptStuck DEF Next

\* If one request starts the campaign and no awaited call fails, a campaign that
\* stays 'running' with nothing left to do shows why, whatever the delay of its
\* jobs, through pauses, cancellations, additions, refusals and receipts: a
\* recipient explains it, or a job that was handed out while the start request
\* was still enqueueing left its recipient queued or left no job to complete it.
THEOREM StuckIsExplained == ASSUME StartedOnce PROVE Spec => []StuckHasReason
<1>1. Init => TypeInv /\ RetriesInv /\ ReportsInv /\ OnceInv /\ StuckInv
  BY InitTypeInv, InitRetries, InitReports, InitOnce, InitStuck
<1>2. TypeInv /\ RetriesInv /\ ReportsInv /\ OnceInv /\ StuckInv /\ [Next]_vars
        => (TypeInv /\ RetriesInv /\ ReportsInv /\ OnceInv /\ StuckInv)'
  BY NextTypeInv, NextRetries, NextReports, NextOnce, NextStuck
<1>3. StuckInv => StuckHasReason
  <2> SUFFICES ASSUME StuckInv, Quiescent, campaign.status = "running"
               PROVE  \/ WithStatus({"failed", "pending", "cancelled"}) # {}
                      \/ \E r \in WithStatus({"queued"}) : jobs[recip[r].job].early
                      \/ \A j \in Jobs : jobs[j].state = "over" => jobs[j].early
    BY DEF StuckHasReason
  <2>1. Explained \/ AllRash
    BY DEF StuckInv, RunningHasReason, Reason, Busy, Waiting, Quiescent, StopPc
  <2> QED
    BY <2>1 DEF Explained, Explains, AllRash, Rash, WithStatus
<1> QED
  BY <1>1, <1>2, <1>3, PTL DEF Spec
=============================================================================
