----------------------- MODULE DatabaseCampaign_proofs -----------------------
(***************************************************************************)
(* What holds of a campaign on the database driver for any number of       *)
(* recipients, requests, receipts and restarts.                            *)
(***************************************************************************)
EXTENDS DatabaseCampaign, FiniteSetTheorems, TLAPS

LEMMA AnyInDomain == AnyRecipient \in Recipients
BY DatabaseCampaignAssumption DEF AnyRecipient

LEMMA IdleTypes ==
    /\ NoTick \in PollRow /\ NoTick.pc = "idle"
    /\ \A l \in {"new", "over"} : Request(l) \in CallRow /\ Receipt(l) \in ReceiptRow
BY AnyInDomain DEF NoTick, PollRow, Request, CallRow, Receipt, ReceiptRow, ReceiptKind

LEMMA InitTypeOK == Init => TypeOK
<1> SUFFICES ASSUME Init PROVE TypeOK
  OBVIOUS
<1>1. recip \in [Recipients -> RecipientRow]
  BY DEF Init, RecipientRow, RecipStatus
<1>2. /\ calls \in [Calls -> CallRow]
      /\ receipts \in [Receipts -> ReceiptRow]
      /\ poll \in PollRow
  BY IdleTypes DEF Init
<1>3. /\ campaign \in CampaignStatus
      /\ sent \in Seq(Recipients)
      /\ marks \in [Recipients -> Nat]
      /\ crashes \in Nat
  BY DEF Init, CampaignStatus
<1> QED
  BY <1>1, <1>2, <1>3 DEF TypeOK

-----------------------------------------------------------------------------
LEMMA ReturnType ==
    ASSUME TypeOK, NEW c \in Calls, Return(c)
    PROVE  calls' \in [Calls -> CallRow]
BY IdleTypes DEF TypeOK, Return

LEMMA GotoType ==
    ASSUME TypeOK, NEW c \in Calls, NEW l \in {"over", "startList", "pauseList", "cancelMark",
                      "cancelEnd", "addInsert"}, Goto(c, l)
    PROVE  calls' \in [Calls -> CallRow]
BY DEF TypeOK, Goto, CallRow

LEMMA ListRowsType ==
    ASSUME TypeOK, NEW c \in Calls, NEW S \in SUBSET Recipients,
           NEW body \in {"startMark", "pauseMark"},
           NEW after \in {"startEnd", "pauseEnd"}, ListRows(c, S, body, after)
    PROVE  calls' \in [Calls -> CallRow]
BY DEF TypeOK, ListRows, CallRow

LEMMA EachListedType ==
    ASSUME TypeOK, NEW c \in Calls, NEW r,
           NEW body \in {"startMark", "pauseMark"},
           NEW after \in {"startEnd", "pauseEnd"}, EachListed(c, r, body, after)
    PROVE  calls' \in [Calls -> CallRow] /\ r \in Recipients
BY DEF TypeOK, EachListed, IsFirst, CallRow

LEMMA SetRecipientType ==
    ASSUME TypeOK, NEW r, NEW s \in RecipStatus, SetRecipient(r, s)
    PROVE  /\ recip' \in [Recipients -> RecipientRow]
           /\ \A q \in Recipients : recip'[q].msg = recip[q].msg
           /\ \A q \in Recipients \ {r} : recip'[q] = recip[q]
           /\ r \in Recipients => recip'[r].status = s
BY DEF TypeOK, SetRecipient, RecipientRow

LEMMA PollGotoType ==
    ASSUME TypeOK, NEW l \in {"send", "record", "fail", "recount"}, PollGoto(l)
    PROVE  /\ poll' \in PollRow
           /\ poll'.pc = l /\ poll'.recip = poll.recip /\ poll'.msg = poll.msg
BY DEF TypeOK, PollGoto, PollRow

\* A step of a request keeps the types of the rows it writes.
LEMMA HandlerTypeOK ==
    ASSUME TypeOK, NEW c \in Calls, Handler(c)
    PROVE  TypeOK'
<1>0. \A S : WithStatus(S) \subseteq Recipients
  BY DEF WithStatus
<1>1. CASE StartList(c) \/ PauseList(c)
  <2>1. calls' \in [Calls -> CallRow]
    BY <1>0, <1>1, ListRowsType DEF StartList, PauseList
  <2> QED
    BY <1>1, <2>1 DEF StartList, PauseList, TypeOK
<1>2. CASE StartMark(c)
  <2>1. PICK r \in calls[c].todo :
          /\ EachListed(c, r, "startMark", "startEnd")
          /\ SetRecipient(r, "queued")
          /\ marks' = [marks EXCEPT ![r] = @ + 1]
    BY <1>2 DEF StartMark
  <2>2. calls' \in [Calls -> CallRow] /\ r \in Recipients
    BY <2>1, EachListedType
  <2>3. recip' \in [Recipients -> RecipientRow]
    BY <2>1, SetRecipientType DEF RecipStatus
  <2>4. marks' \in [Recipients -> Nat]
    BY <2>1, <2>2 DEF TypeOK
  <2> QED
    BY <1>2, <2>2, <2>3, <2>4 DEF StartMark, TypeOK
<1>3. CASE PauseMark(c)
  <2>1. PICK r \in calls[c].todo :
          /\ EachListed(c, r, "pauseMark", "pauseEnd")
          /\ SetRecipient(r, "pending")
    BY <1>3 DEF PauseMark
  <2>2. calls' \in [Calls -> CallRow]
    BY <2>1, EachListedType
  <2>3. recip' \in [Recipients -> RecipientRow]
    BY <2>1, SetRecipientType DEF RecipStatus
  <2> QED
    BY <1>3, <2>2, <2>3 DEF PauseMark, TypeOK
<1>4. CASE StartEnd(c) \/ PauseEnd(c) \/ CancelEnd(c)
  <2>1. calls' \in [Calls -> CallRow]
    BY <1>4, ReturnType DEF StartEnd, PauseEnd, CancelEnd
  <2>2. campaign' \in CampaignStatus
    BY <1>4 DEF StartEnd, PauseEnd, CancelEnd, CampaignStatus
  <2> QED
    BY <1>4, <2>1, <2>2 DEF StartEnd, PauseEnd, CancelEnd, TypeOK
<1>5. CASE CancelMark(c)
  <2>1. calls' \in [Calls -> CallRow]
    BY <1>5, GotoType DEF CancelMark
  <2>2. recip' \in [Recipients -> RecipientRow]
    BY <1>5 DEF CancelMark, TypeOK, RecipientRow, RecipStatus
  <2> QED
    BY <1>5, <2>1, <2>2 DEF CancelMark, TypeOK
<1>6. CASE AddInsert(c)
  <2>1. calls' \in [Calls -> CallRow]
    BY <1>6, ReturnType DEF AddInsert
  <2>2. recip' \in [Recipients -> RecipientRow]
    BY <1>6, SetRecipientType DEF AddInsert, RecipStatus
  <2> QED
    BY <1>6, <2>1, <2>2 DEF AddInsert, TypeOK
<1> QED
  BY <1>1, <1>2, <1>3, <1>4, <1>5, <1>6 DEF Handler

LEMMA RecountedType ==
    ASSUME TypeOK, NEW S
    PROVE  Recounted(S) \in CampaignStatus
BY DEF TypeOK, Recounted, CampaignStatus

LEMMA TickTypeOK ==
    ASSUME TypeOK, Tick
    PROVE  TypeOK'
<1>1. CASE Poll
  <2>1. poll' \in PollRow
    BY <1>1 DEF Poll, WithStatus, PollRow
  <2> QED
    BY <1>1, <2>1 DEF Poll, TypeOK
<1>2. CASE Claim
  <2>1. poll' \in PollRow
    BY <1>2, PollGotoType DEF Claim
  <2>2. recip' \in [Recipients -> RecipientRow]
    BY <1>2 DEF Claim, TypeOK, RecipientRow, RecipStatus
  <2> QED
    BY <1>2, <2>1, <2>2 DEF Claim, TypeOK
<1>3. CASE Send
  <2>1. sent' \in Seq(Recipients)
    BY <1>3 DEF Send, TypeOK, PollRow
  <2>2. poll' \in PollRow
    <3>1. CASE PollGoto("fail")
      BY <3>1, PollGotoType
    <3>2. CASE poll' = [poll EXCEPT !.pc = "record", !.msg = Len(sent) + 1]
      <4>1. Len(sent) + 1 \in Nat
        BY DEF TypeOK
      <4> QED
        BY <3>2, <4>1 DEF TypeOK, PollRow
    <3> QED
      BY <1>3, <3>1, <3>2 DEF Send
  <2> QED
    BY <1>3, <2>1, <2>2 DEF Send, TypeOK
<1>4. CASE SendRefused \/ RecordFails
  <2>1. poll' \in PollRow
    BY <1>4, PollGotoType DEF SendRefused, RecordFails
  <2> QED
    BY <1>4, <2>1 DEF SendRefused, RecordFails, TypeOK
<1>5. CASE Record
  <2>1. poll' \in PollRow
    BY <1>5, PollGotoType DEF Record
  <2>2. recip' \in [Recipients -> RecipientRow]
    BY <1>5 DEF Record, TypeOK, RecipientRow, RecipStatus, PollRow
  <2> QED
    BY <1>5, <2>1, <2>2 DEF Record, TypeOK
<1>6. CASE Fail
  <2>1. poll' \in PollRow
    BY <1>6, PollGotoType DEF Fail
  <2>2. recip' \in [Recipients -> RecipientRow]
    BY <1>6, SetRecipientType DEF Fail, RecipStatus
  <2> QED
    BY <1>6, <2>1, <2>2 DEF Fail, TypeOK
<1>7. CASE Recount
  BY <1>7, IdleTypes, RecountedType DEF Recount, TypeOK
<1>8. CASE TickFails
  BY <1>8, IdleTypes DEF TickFails, TypeOK
<1> QED
  BY <1>1, <1>2, <1>3, <1>4, <1>5, <1>6, <1>7, <1>8 DEF Tick

LEMMA ReceiptTypeOK ==
    ASSUME TypeOK, NEW e \in Receipts,
           ReceiptFind(e) \/ ReceiptMark(e) \/ ReceiptRecount(e)
    PROVE  TypeOK'
<1>1. CASE ReceiptFind(e)
  <2>1. receipts' \in [Receipts -> ReceiptRow]
    <3>1. PICK row \in ReceiptRow : receipts' = [receipts EXCEPT ![e] = row]
      <4>1. ASSUME NEW r \in Recipients, NEW k \in ReceiptKind
            PROVE  [pc |-> "mark", recip |-> r, kind |-> k] \in ReceiptRow
        BY DEF ReceiptRow
      <4> QED
        BY <1>1, <4>1, IdleTypes DEF ReceiptFind
    <3> QED
      BY <3>1 DEF TypeOK
  <2> QED
    BY <1>1, <2>1 DEF ReceiptFind, TypeOK
<1>2. CASE ReceiptMark(e)
  <2>1. receipts' \in [Receipts -> ReceiptRow]
    BY <1>2 DEF ReceiptMark, TypeOK, ReceiptRow
  <2>2. PICK s \in RecipStatus : SetRecipient(receipts[e].recip, s)
    BY <1>2 DEF ReceiptMark, TypeOK, ReceiptRow, ReceiptKind, RecipStatus
  <2>3. recip' \in [Recipients -> RecipientRow]
    BY <2>2, SetRecipientType
  <2> QED
    BY <1>2, <2>1, <2>3 DEF ReceiptMark, TypeOK
<1>3. CASE ReceiptRecount(e)
  <2>1. receipts' \in [Receipts -> ReceiptRow]
    BY <1>3, IdleTypes DEF ReceiptRecount, TypeOK
  <2> QED
    BY <1>3, <2>1, RecountedType DEF ReceiptRecount, TypeOK
<1> QED
  BY <1>1, <1>2, <1>3

LEMMA NextTypeOK == TypeOK /\ [Next]_vars => TypeOK'
<1> SUFFICES ASSUME TypeOK, [Next]_vars
             PROVE  TypeOK'
  OBVIOUS
<1>1. ASSUME NEW c \in Calls, Arrive(c)
      PROVE  TypeOK'
  <2>0. PICK l \in {"over", "startList", "pauseList", "cancelMark", "addInsert"} :
          Goto(c, l)
    <3>1. PICK op \in {"start", "senderStart", "pause", "cancel", "add", "senderAdd"} :
            Goto(c, CASE op = "senderStart" -> "startList"
                      [] op = "start" -> IF campaign = "cancelled" THEN "over" ELSE "startList"
                      [] op = "pause" -> "pauseList"
                      [] op = "cancel" -> "cancelMark"
                      [] op = "senderAdd" -> "addInsert"
                      [] op = "add" -> IF Editable THEN "addInsert" ELSE "over")
      BY <1>1, DatabaseCampaignAssumption DEF Arrive
    <3> QED
      BY <3>1
  <2>1. calls' \in [Calls -> CallRow]
    BY <2>0, GotoType
  <2> QED
    BY <1>1, <2>1 DEF Arrive, TypeOK
<1>2. ASSUME NEW c \in Calls, Abort(c)
      PROVE  TypeOK'
  BY <1>2, ReturnType DEF Abort, TypeOK
<1>3. CASE Crash
  BY <1>3, IdleTypes DEF Crash, TypeOK
<1>4. CASE UNCHANGED vars
  BY <1>4 DEF vars, TypeOK
<1> QED
  BY <1>1, <1>2, <1>3, <1>4, HandlerTypeOK, TickTypeOK, ReceiptTypeOK DEF Next

\* Requests, tick, receipts and restarts keep every row and counter typed.
THEOREM DatabaseTypes == Spec => []TypeOK
BY InitTypeOK, NextTypeOK, PTL DEF Spec

-----------------------------------------------------------------------------
\* The tick about to record a message sent it to the recipient it holds.
RecordsOwn ==
    PollAt("record") => poll.msg \in DOMAIN sent /\ sent[poll.msg] = poll.recip

\* A receipt about to be marked was matched to a recipient by message id.
MarksKnown ==
    \A e \in Receipts :
        receipts[e].pc = "mark" => recip[receipts[e].recip].msg # 0

ReportsInv == ReportsAreTrue /\ RecordsOwn /\ MarksKnown

\* No row loses its message id, none reaches 'sent' without one.
KeepsIds ==
    \A r \in Recipients :
        /\ recip'[r].msg = recip[r].msg
        /\ recip'[r].status \in Reached =>
             recip[r].status \in Reached \/ recip[r].msg # 0

LEMMA KeepReports ==
    ASSUME TypeOK, ReportsInv, KeepsIds, UNCHANGED <<sent, receipts>>,
           PollAt("record")' => UNCHANGED poll
    PROVE  ReportsInv'
<1>1. ReportsAreTrue'
  BY DEF ReportsInv, ReportsAreTrue, KeepsIds
<1>2. RecordsOwn'
  BY DEF ReportsInv, RecordsOwn, PollAt
<1>3. MarksKnown'
  BY DEF ReportsInv, MarksKnown, KeepsIds, TypeOK, ReceiptRow
<1> QED
  BY <1>1, <1>2, <1>3 DEF ReportsInv

LEMMA SetKeepsIds ==
    ASSUME TypeOK, NEW r, NEW s \in RecipStatus \ Reached, SetRecipient(r, s)
    PROVE  KeepsIds
<1>1. /\ \A q \in Recipients : recip'[q].msg = recip[q].msg
      /\ \A q \in Recipients \ {r} : recip'[q] = recip[q]
      /\ r \in Recipients => recip'[r].status = s
  BY SetRecipientType
<1> QED
  BY <1>1 DEF KeepsIds

\* Requests put rows back to states that are not reached, and send nothing.
LEMMA HandlerReports ==
    ASSUME TypeOK, ReportsInv, NEW c \in Calls, Handler(c)
    PROVE  ReportsInv'
<1>1. UNCHANGED <<sent, receipts, poll>>
  BY DEF Handler, StartList, StartMark, StartEnd, PauseList, PauseMark, PauseEnd,
     CancelMark, CancelEnd, AddInsert
<1>2. KeepsIds
  <2>1. CASE StartMark(c) \/ PauseMark(c) \/ AddInsert(c)
    <3>1. (\E r : SetRecipient(r, "queued")) \/ (\E r : SetRecipient(r, "pending"))
      BY <2>1 DEF StartMark, PauseMark, AddInsert
    <3>2. {"queued", "pending"} \subseteq RecipStatus \ Reached
      BY DEF RecipStatus, Reached
    <3> QED
      BY <3>1, <3>2, SetKeepsIds
  <2>2. CASE CancelMark(c)
    BY <2>2 DEF CancelMark, KeepsIds, TypeOK, RecipientRow, Reached
  <2>3. CASE UNCHANGED recip
    BY <2>3 DEF KeepsIds
  <2> QED
    BY <2>1, <2>2, <2>3 DEF Handler, StartList, StartEnd, PauseList, PauseEnd, CancelEnd
<1> QED
  BY <1>1, <1>2, KeepReports

LEMMA TickReports ==
    ASSUME TypeOK, ReportsInv, Tick
    PROVE  ReportsInv'
<1>1. CASE Poll \/ SendRefused \/ RecordFails \/ Recount \/ TickFails
  <2>1. UNCHANGED <<recip, sent, receipts>> /\ ~PollAt("record")'
    BY <1>1 DEF Poll, SendRefused, RecordFails, Recount, TickFails, PollAt, PollGoto,
       NoTick, TypeOK, PollRow
  <2> QED
    BY <2>1, KeepReports DEF KeepsIds
<1>2. CASE Claim
  <2>1. KeepsIds
    BY <1>2 DEF Claim, KeepsIds, Reached, TypeOK, RecipientRow
  <2>2. ~PollAt("record")'
    BY <1>2 DEF Claim, PollAt, PollGoto, TypeOK, PollRow
  <2> QED
    BY <1>2, <2>1, <2>2, KeepReports DEF Claim
<1>3. CASE Send
  <2> DEFINE n == Len(sent) + 1
  <2>1. /\ DOMAIN sent = 1 .. Len(sent) /\ Len(sent) \in Nat
        /\ DOMAIN sent' = 1 .. n
        /\ sent'[n] = poll.recip
        /\ \A m \in DOMAIN sent : m \in DOMAIN sent' /\ sent'[m] = sent[m]
    BY <1>3 DEF Send, TypeOK, PollRow
  <2>2. UNCHANGED <<recip, receipts>> /\ poll'.recip = poll.recip
    BY <1>3 DEF Send, PollGoto, TypeOK, PollRow
  <2>3. ReportsAreTrue'
    BY <2>1, <2>2 DEF ReportsInv, ReportsAreTrue
  <2>4. MarksKnown'
    BY <2>2 DEF ReportsInv, MarksKnown
  <2>5. RecordsOwn'
    <3>1. PollAt("record")' => poll'.msg = n
      BY <1>3 DEF Send, PollGoto, PollAt, TypeOK, PollRow
    <3>2. n \in 1 .. n
      BY <2>1
    <3> QED
      BY <2>1, <2>2, <3>1, <3>2 DEF RecordsOwn
  <2> QED
    BY <2>3, <2>4, <2>5 DEF ReportsInv
<1>4. CASE Record
  <2> DEFINE r == poll.recip
  <2>1. /\ poll.msg \in DOMAIN sent /\ sent[poll.msg] = r
        /\ poll.msg # 0
        /\ r \in Recipients
    BY <1>4 DEF Record, ReportsInv, RecordsOwn, TypeOK, PollRow
  <2>2. /\ recip'[r].msg = poll.msg
        /\ \A q \in Recipients \ {r} : recip'[q] = recip[q]
    BY <1>4, <2>1 DEF Record, TypeOK, RecipientRow
  <2>3. UNCHANGED <<sent, receipts>> /\ ~PollAt("record")'
    BY <1>4 DEF Record, PollAt, PollGoto, TypeOK, PollRow
  <2>4. ReportsAreTrue'
    BY <2>1, <2>2, <2>3 DEF ReportsInv, ReportsAreTrue
  <2>5. MarksKnown'
    BY <2>1, <2>2, <2>3 DEF ReportsInv, MarksKnown, TypeOK, ReceiptRow
  <2> QED
    BY <2>3, <2>4, <2>5 DEF ReportsInv, RecordsOwn
<1>5. CASE Fail
  <2>1. KeepsIds
    BY <1>5, SetKeepsIds DEF Fail, RecipStatus, Reached
  <2>2. ~PollAt("record")'
    BY <1>5 DEF Fail, PollAt, PollGoto, TypeOK, PollRow
  <2> QED
    BY <1>5, <2>1, <2>2, KeepReports DEF Fail
<1> QED
  BY <1>1, <1>2, <1>3, <1>4, <1>5 DEF Tick

LEMMA ReceiptReports ==
    ASSUME TypeOK, ReportsInv, NEW e \in Receipts,
           ReceiptFind(e) \/ ReceiptMark(e) \/ ReceiptRecount(e)
    PROVE  ReportsInv'
<1>1. UNCHANGED <<sent, poll>>
  BY DEF ReceiptFind, ReceiptMark, ReceiptRecount
<1>2. CASE ReceiptFind(e)
  <2>1. UNCHANGED recip
    BY <1>2 DEF ReceiptFind
  <2>2. ASSUME NEW d \in Receipts, receipts'[d].pc = "mark"
        PROVE  recip[receipts'[d].recip].msg # 0
    <3>1. CASE d = e
      BY <1>2, <2>2, <3>1 DEF ReceiptFind, Receipt, TypeOK
    <3>2. CASE d # e
      BY <1>2, <2>2, <3>2 DEF ReceiptFind, ReportsInv, MarksKnown, TypeOK
    <3> QED
      BY <3>1, <3>2
  <2>3. MarksKnown'
    BY <2>1, <2>2 DEF MarksKnown
  <2> QED
    BY <1>1, <2>1, <2>3 DEF ReportsInv, ReportsAreTrue, RecordsOwn, PollAt
<1>3. CASE ReceiptMark(e)
  <2> DEFINE r == receipts[e].recip
  <2>1. r \in Recipients /\ recip[r].msg # 0
    BY <1>3 DEF ReceiptMark, ReportsInv, MarksKnown, TypeOK, ReceiptRow
  <2>2. PICK s \in RecipStatus : SetRecipient(r, s)
    BY <1>3 DEF ReceiptMark, TypeOK, ReceiptRow, ReceiptKind, RecipStatus
  <2>3. /\ \A q \in Recipients : recip'[q].msg = recip[q].msg
        /\ \A q \in Recipients \ {r} : recip'[q] = recip[q]
    BY <2>2, SetRecipientType
  <2>4. \A d \in Receipts : receipts'[d].recip = receipts[d].recip
                            /\ (receipts'[d].pc = "mark" => receipts[d].pc = "mark")
    BY <1>3 DEF ReceiptMark, TypeOK, ReceiptRow
  <2>5. ReportsAreTrue'
    BY <1>1, <2>1, <2>3 DEF ReportsInv, ReportsAreTrue
  <2>6. MarksKnown'
    BY <2>3, <2>4 DEF ReportsInv, MarksKnown, TypeOK, ReceiptRow
  <2> QED
    BY <1>1, <2>5, <2>6 DEF ReportsInv, RecordsOwn, PollAt
<1>4. CASE ReceiptRecount(e)
  <2>1. UNCHANGED recip
    BY <1>4 DEF ReceiptRecount
  <2>2. \A d \in Receipts : receipts'[d].pc = "mark" => receipts'[d] = receipts[d]
    BY <1>4 DEF ReceiptRecount, Receipt, TypeOK
  <2>3. MarksKnown'
    BY <2>1, <2>2 DEF ReportsInv, MarksKnown
  <2> QED
    BY <1>1, <2>1, <2>3 DEF ReportsInv, ReportsAreTrue, RecordsOwn, PollAt
<1> QED
  BY <1>2, <1>3, <1>4

LEMMA NextReports == TypeOK /\ ReportsInv /\ [Next]_vars => ReportsInv'
<1> SUFFICES ASSUME TypeOK, ReportsInv, [Next]_vars
             PROVE  ReportsInv'
  OBVIOUS
<1>1. ASSUME NEW c \in Calls, Arrive(c) \/ Abort(c)
      PROVE  ReportsInv'
  BY <1>1, KeepReports DEF Arrive, Abort, KeepsIds
<1>2. CASE Crash
  <2>1. UNCHANGED <<recip, sent>> /\ ~PollAt("record")'
    BY <1>2 DEF Crash, PollAt, NoTick
  <2>2. \A d \in Receipts : receipts'[d].pc # "mark"
    BY <1>2 DEF Crash, Receipt
  <2> QED
    BY <2>1, <2>2 DEF ReportsInv, ReportsAreTrue, RecordsOwn, MarksKnown
<1>3. CASE UNCHANGED vars
  BY <1>3, KeepReports DEF vars, KeepsIds
<1> QED
  BY <1>1, <1>2, <1>3, HandlerReports, TickReports, ReceiptReports DEF Next

\* Whoever is reported as sent, delivered or read carries the id of a message
\* that WhatsApp accepted for him, through requeues, errors and restarts.
THEOREM DatabaseTrueReports == Spec => []ReportsAreTrue
<1>1. Init => ReportsInv
  BY IdleTypes DEF Init, ReportsInv, ReportsAreTrue, RecordsOwn, MarksKnown, PollAt,
     Reached, Receipt
<1>2. Spec => []ReportsInv
  BY <1>1, InitTypeOK, NextTypeOK, NextReports, PTL DEF Spec
<1>3. ReportsInv => ReportsAreTrue
  BY DEF ReportsInv
<1> QED
  BY <1>2, <1>3, PTL

-----------------------------------------------------------------------------
\* The tick holds r and may still send to it.
MaySend(r) == poll.pc \in {"claim", "send"} /\ poll.recip = r
Queued(r) == recip[r].status = "queued"

\* A mark pays for one message: the one already sent, the one the tick may
\* still send, or the one a queued row may lead to.  The tick that has not
\* claimed yet and the queued row it read share a mark.
Paid(r) ==
    /\ SendsTo(r) <= marks[r]
    /\ Queued(r) \/ MaySend(r) => SendsTo(r) + 1 <= marks[r]
    /\ Queued(r) /\ MaySend(r) /\ PollAt("send") => SendsTo(r) + 2 <= marks[r]

PaidInv == \A r \in Recipients : Paid(r)

LEMMA SendsToType ==
    ASSUME TypeOK, NEW r
    PROVE  SendsTo(r) \in Nat /\ IsFiniteSet({m \in DOMAIN sent : sent[m] = r})
<1>1. {m \in DOMAIN sent : sent[m] = r} \subseteq 1 .. Len(sent) /\ Len(sent) \in Nat
  BY DEF TypeOK
<1>2. IsFiniteSet({m \in DOMAIN sent : sent[m] = r})
  BY <1>1, FS_Interval, FS_Subset
<1> QED
  BY <1>2, FS_CardinalityType DEF SendsTo

LEMMA SendCounts ==
    ASSUME TypeOK, NEW k, sent' = Append(sent, k)
    PROVE  /\ SendsTo(k)' = SendsTo(k) + 1
           /\ \A r : r # k => SendsTo(r)' = SendsTo(r)
<1> DEFINE S(r) == {m \in DOMAIN sent : sent[m] = r}
           T(r) == {m \in DOMAIN sent' : sent'[m] = r}
           n == Len(sent) + 1
<1>1. Len(sent) \in Nat /\ DOMAIN sent = 1 .. Len(sent)
  BY DEF TypeOK
<1>2. /\ DOMAIN sent' = 1 .. n
      /\ sent'[n] = k
      /\ \A m \in 1 .. Len(sent) : sent'[m] = sent[m]
  BY DEF TypeOK
<1>3. T(k) = S(k) \cup {n} /\ n \notin S(k)
  BY <1>1, <1>2
<1>4. Cardinality(T(k)) = Cardinality(S(k)) + 1
  <2>1. IsFiniteSet(S(k))
    BY SendsToType
  <2> HIDE DEF S, T, n
  <2>2. Cardinality(S(k) \cup {n}) = Cardinality(S(k)) + 1
    BY <1>3, <2>1, FS_AddElement
  <2> QED
    BY <1>3, <2>2
<1>5. ASSUME NEW r, r # k
      PROVE  T(r) = S(r)
  BY <1>1, <1>2, <1>5
<1> QED
  BY <1>4, <1>5 DEF SendsTo

LEMMA SameSends ==
    ASSUME UNCHANGED sent
    PROVE  \A r : SendsTo(r)' = SendsTo(r)
BY DEF SendsTo

\* Rows leave 'queued', the tick moves on or ends: nobody owes more than before.
LEMMA KeepPaid ==
    ASSUME TypeOK, PaidInv, UNCHANGED <<sent, marks>>,
           \A r \in Recipients :
              /\ Queued(r)' => Queued(r)
              /\ MaySend(r)' => MaySend(r) \/ Queued(r)
              /\ MaySend(r)' /\ PollAt("send")' /\ Queued(r)' =>
                    MaySend(r) /\ PollAt("send") /\ Queued(r)
    PROVE  PaidInv'
<1> SUFFICES ASSUME NEW r \in Recipients
             PROVE  Paid(r)'
  BY DEF PaidInv
<1>1. Paid(r) /\ SendsTo(r)' = SendsTo(r) /\ marks'[r] = marks[r]
  BY SameSends DEF PaidInv
<1> QED
  BY <1>1 DEF Paid

LEMMA HandlerPaid ==
    ASSUME TypeOK, PaidInv, NEW c \in Calls, Handler(c)
    PROVE  PaidInv'
<1>1. UNCHANGED <<sent, poll>>
  BY DEF Handler, StartList, StartMark, StartEnd, PauseList, PauseMark, PauseEnd,
     CancelMark, CancelEnd, AddInsert
<1>2. ASSUME UNCHANGED marks, \A r \in Recipients : Queued(r)' => Queued(r)
      PROVE  PaidInv'
  BY <1>1, <1>2, KeepPaid DEF MaySend, PollAt
<1>3. CASE StartMark(c)
  <2>1. PICK k \in Recipients :
          SetRecipient(k, "queued") /\ marks' = [marks EXCEPT ![k] = @ + 1]
    BY <1>3, EachListedType DEF StartMark
  <2>2. \A q \in Recipients \ {k} : recip'[q] = recip[q]
    BY <2>1, SetRecipientType DEF RecipStatus
  <2>3. ASSUME NEW r \in Recipients
        PROVE  Paid(r)'
    <3>1. /\ Paid(r) /\ SendsTo(r)' = SendsTo(r)
          /\ SendsTo(r) \in Nat /\ marks[r] \in Nat
          /\ MaySend(r)' <=> MaySend(r)
      BY <1>1, SameSends, SendsToType DEF PaidInv, TypeOK, MaySend
    <3>2. CASE r = k
      <4>1. marks'[r] = marks[r] + 1
        BY <2>1, <3>2 DEF TypeOK
      <4> QED
        BY <3>1, <4>1 DEF Paid
    <3>3. CASE r # k
      <4>1. marks'[r] = marks[r] /\ recip'[r] = recip[r]
        BY <2>1, <2>2, <3>3 DEF TypeOK
      <4> QED
        BY <1>1, <3>1, <4>1 DEF Paid, Queued, PollAt
    <3> QED
      BY <3>2, <3>3
  <2> QED
    BY <2>3 DEF PaidInv
<1>4. CASE PauseMark(c) \/ AddInsert(c)
  <2>1. PICK k : SetRecipient(k, "pending")
    BY <1>4 DEF PauseMark, AddInsert
  <2>2. \A r \in Recipients : Queued(r)' => Queued(r)
    BY <2>1 DEF SetRecipient, Queued, TypeOK, RecipientRow
  <2> QED
    BY <1>2, <1>4, <2>2 DEF PauseMark, AddInsert
<1>5. CASE CancelMark(c)
  BY <1>2, <1>5 DEF CancelMark, Queued, TypeOK, RecipientRow
<1> QED
  BY <1>2, <1>3, <1>4, <1>5 DEF Handler, StartList, StartEnd, PauseList, PauseEnd,
     CancelEnd, Queued

LEMMA TickPaid ==
    ASSUME TypeOK, PaidInv, Tick
    PROVE  PaidInv'
<1>1. CASE Poll
  <2>1. /\ UNCHANGED <<recip, sent, marks>>
        /\ poll'.pc = "claim"
        /\ Queued(poll'.recip)
    BY <1>1 DEF Poll, WithStatus, Queued
  <2> QED
    BY <2>1, KeepPaid DEF Queued, MaySend, PollAt
<1>2. CASE Claim
  <2>1. poll'.pc = "send" /\ poll'.recip = poll.recip /\ poll.pc = "claim"
    BY <1>2, PollGotoType DEF Claim, PollAt
  <2>2. \A r \in Recipients : Queued(r)' => Queued(r) /\ r # poll.recip
    BY <1>2 DEF Claim, Queued, TypeOK, RecipientRow
  <2>3. UNCHANGED <<sent, marks>>
    BY <1>2 DEF Claim
  <2> QED
    BY <2>1, <2>2, <2>3, KeepPaid DEF MaySend, PollAt
<1>3. CASE Send
  <2> DEFINE k == poll.recip
  <2>1. /\ PollAt("send") /\ k \in Recipients /\ MaySend(k)
        /\ sent' = Append(sent, k)
        /\ UNCHANGED <<recip, marks>>
    BY <1>3 DEF Send, PollAt, MaySend, TypeOK, PollRow
  <2>2. \A r \in Recipients : ~MaySend(r)'
    BY <1>3 DEF Send, PollGoto, MaySend, TypeOK, PollRow
  <2>3. ASSUME NEW r \in Recipients
        PROVE  Paid(r)'
    <3>1. /\ SendsTo(r) \in Nat /\ marks[r] \in Nat
          /\ marks'[r] = marks[r] /\ (Queued(r)' <=> Queued(r))
          /\ Paid(r)
      BY <2>1, SendsToType DEF TypeOK, PaidInv, Queued
    <3>2. CASE r = k
      <4>1. SendsTo(r)' = SendsTo(r) + 1
        BY <2>1, <3>2, SendCounts
      <4> QED
        BY <2>1, <2>2, <3>1, <3>2, <4>1 DEF Paid
    <3>3. CASE r # k
      <4>1. SendsTo(r)' = SendsTo(r)
        BY <2>1, <3>3, SendCounts
      <4> QED
        BY <2>2, <3>1, <4>1 DEF Paid
    <3> QED
      BY <3>2, <3>3
  <2> QED
    BY <2>3 DEF PaidInv
<1>4. CASE SendRefused \/ RecordFails \/ Recount \/ TickFails
  <2>1. UNCHANGED <<recip, sent, marks>> /\ poll'.pc \notin {"claim", "send"}
    BY <1>4, IdleTypes DEF SendRefused, RecordFails, Recount, TickFails, PollGoto,
       TypeOK, PollRow
  <2> QED
    BY <2>1, KeepPaid DEF MaySend, Queued, PollAt
<1>5. CASE Record \/ Fail
  <2>1. UNCHANGED <<sent, marks>> /\ poll'.pc = "recount"
    BY <1>5, PollGotoType DEF Record, Fail
  <2>2. \A r \in Recipients : Queued(r)' => Queued(r)
    BY <1>5 DEF Record, Fail, SetRecipient, Queued, TypeOK, RecipientRow
  <2> QED
    BY <2>1, <2>2, KeepPaid DEF MaySend
<1> QED
  BY <1>1, <1>2, <1>3, <1>4, <1>5 DEF Tick

LEMMA NextPaid == TypeOK /\ PaidInv /\ [Next]_vars => PaidInv'
<1> SUFFICES ASSUME TypeOK, PaidInv, [Next]_vars
             PROVE  PaidInv'
  OBVIOUS
<1>1. ASSUME UNCHANGED <<sent, marks, poll>>,
             \A r \in Recipients : Queued(r)' => Queued(r)
      PROVE  PaidInv'
  BY <1>1, KeepPaid DEF MaySend, PollAt
<1>2. ASSUME NEW c \in Calls, Arrive(c) \/ Abort(c)
      PROVE  PaidInv'
  BY <1>1, <1>2 DEF Arrive, Abort, Queued
<1>3. ASSUME NEW e \in Receipts,
             ReceiptFind(e) \/ ReceiptMark(e) \/ ReceiptRecount(e)
      PROVE  PaidInv'
  <2>1. \A r \in Recipients : Queued(r)' => Queued(r)
    <3>1. CASE UNCHANGED recip
      BY <3>1 DEF Queued
    <3>2. CASE ReceiptMark(e)
      <4>1. PICK s \in {"delivered", "read", "failed"} :
              SetRecipient(receipts[e].recip, s)
        BY <3>2 DEF ReceiptMark, TypeOK, ReceiptRow, ReceiptKind
      <4> QED
        BY <4>1 DEF SetRecipient, Queued, TypeOK, RecipientRow
    <3> QED
      BY <1>3, <3>1, <3>2 DEF ReceiptFind, ReceiptRecount
  <2> QED
    BY <1>1, <1>3, <2>1 DEF ReceiptFind, ReceiptMark, ReceiptRecount
<1>4. CASE Crash
  BY <1>4, IdleTypes, KeepPaid DEF Crash, MaySend, Queued
<1>5. CASE UNCHANGED vars
  BY <1>1, <1>5 DEF vars, Queued
<1> QED
  BY <1>2, <1>3, <1>4, <1>5, HandlerPaid, TickPaid DEF Next

\* Errors, lost answers and restarts never repeat a message on the database
\* driver: each message to a recipient has its own start request behind it.
THEOREM MessagesNeedStarts == Spec => []RepeatsNeedStarts
<1>1. Init => PaidInv
  <2> SUFFICES ASSUME Init, NEW r \in Recipients
               PROVE  Paid(r)
    BY DEF PaidInv
  <2>1. SendsTo(r) = 0
    <3>1. {m \in DOMAIN sent : sent[m] = r} = {}
      BY DEF Init
    <3> QED
      BY <3>1, FS_EmptySet DEF SendsTo
  <2>2. ~Queued(r) /\ ~MaySend(r) /\ marks[r] = 0
    BY IdleTypes DEF Init, Queued, MaySend
  <2> QED
    BY <2>1, <2>2 DEF Paid
<1>2. Spec => []PaidInv
  BY <1>1, InitTypeOK, NextTypeOK, NextPaid, PTL DEF Spec
<1>3. PaidInv => RepeatsNeedStarts
  BY DEF PaidInv, Paid, RepeatsNeedStarts
<1> QED
  BY <1>2, <1>3, PTL

-----------------------------------------------------------------------------
\* The tick between its SELECT and its send, as the gate sees it.
Admitted == IF poll.pc \in {"claim", "send"} THEN {"poll"} ELSE {}

LEMMA GateStep ==
    TypeOK /\ [Next]_vars => [Gate!Next]_(Gate!vars)
<1> SUFFICES ASSUME TypeOK, [Next]_vars
             PROVE  Gate!Next \/ UNCHANGED Gate!vars
  BY DEF Gate!vars
<1>1. ASSUME UNCHANGED <<campaign, sent>>, Admitted' \subseteq Admitted
      PROVE  Gate!Next
  <2>1. PICK S \in SUBSET {"poll"} : Admitted' = Admitted \ S
    BY <1>1 DEF Admitted
  <2>2. Gate!Withdraw(S)
    BY <1>1, <2>1 DEF Admitted, Gate!Withdraw
  <2> QED
    BY <2>2 DEF Gate!Next
<1>2. ASSUME UNCHANGED sent, Admitted' = Admitted
      PROVE  Gate!Next
  <2>1. Gate!Switch
    BY <1>2 DEF Admitted, Gate!Switch
  <2> QED
    BY <2>1 DEF Gate!Next
<1>3. ASSUME NEW c \in Calls, Arrive(c) \/ Handler(c) \/ Abort(c)
      PROVE  Gate!Next
  <2>1. UNCHANGED <<sent, poll>>
    BY <1>3 DEF Arrive, Abort, Handler, StartList, StartMark, StartEnd, PauseList,
       PauseMark, PauseEnd, CancelMark, CancelEnd, AddInsert
  <2> QED
    BY <1>2, <2>1 DEF Admitted
<1>4. ASSUME NEW e \in Receipts,
             ReceiptFind(e) \/ ReceiptMark(e) \/ ReceiptRecount(e)
      PROVE  Gate!Next
  BY <1>2, <1>4 DEF ReceiptFind, ReceiptMark, ReceiptRecount, Admitted
<1>5. CASE Crash
  BY <1>1, <1>5, IdleTypes DEF Crash, Admitted
<1>6. CASE Tick
  <2>1. CASE Poll
    <3>1. /\ campaign \notin Stopped
          /\ Admitted = {} /\ Admitted' = {"poll"}
          /\ UNCHANGED <<campaign, sent>>
      BY <2>1 DEF Poll, PollAt, Stopped, Admitted
    <3>2. Gate!Admit("poll")
      BY <3>1 DEF Admitted, Gate!Admit
    <3> QED
      BY <3>2 DEF Gate!Next
  <2>2. CASE Send
    <3>1. Admitted = {"poll"} /\ Admitted' = {} /\ UNCHANGED campaign
      BY <2>2 DEF Send, PollAt, PollGoto, Admitted, TypeOK, PollRow
    <3>2. Len(sent') = Len(sent) + 1
      BY <2>2 DEF Send, TypeOK, PollRow
    <3>3. Gate!Emit("poll")
      BY <3>1, <3>2 DEF Admitted, Gate!Emit
    <3> QED
      BY <3>3 DEF Gate!Next
  <2>3. CASE Claim
    <3>1. Admitted' = Admitted
      BY <2>3 DEF Claim, PollAt, PollGoto, Admitted, TypeOK, PollRow
    <3> QED
      BY <1>2, <2>3, <3>1 DEF Claim
  <2>4. CASE SendRefused \/ RecordFails \/ Record \/ Fail \/ TickFails
    <3>1. Admitted' = {} /\ UNCHANGED <<campaign, sent>>
      BY <2>4, IdleTypes DEF SendRefused, RecordFails, Record, Fail, TickFails,
         PollGoto, Admitted, TypeOK, PollRow
    <3> QED
      BY <1>1, <3>1
  <2>5. CASE Recount
    BY <1>2, <2>5, IdleTypes DEF Recount, PollAt, Admitted
  <2> QED
    BY <1>6, <2>1, <2>2, <2>3, <2>4, <2>5 DEF Tick
<1> QED
  BY <1>3, <1>4, <1>5, <1>6 DEF Next, vars, Gate!vars

\* Pausing and cancelling stop the poll but for the tick in progress, through
\* every error and restart.
THEOREM DatabaseImplementsGate == Spec => ImplementsGate
<1>1. Init => Gate!Init
  <2>1. ASSUME Init
        PROVE  /\ (campaign \notin Stopped) = TRUE
               /\ (IF poll.pc \in {"claim", "send"} THEN {"poll"} ELSE {}) = {}
               /\ Len(sent) = 0
    BY <2>1, IdleTypes DEF Init, Stopped
  <2> QED
    BY <2>1 DEF Gate!Init
<1>2. Spec => []TypeOK
  BY InitTypeOK, NextTypeOK, PTL DEF Spec
<1> QED
  BY <1>1, <1>2, GateStep, PTL DEF Spec, ImplementsGate, Gate!Spec
=============================================================================
