-------------------------------- MODULE Inbox ---------------------------------
(***************************************************************************)
(* The conversations and messages of one chat of one instance: messages    *)
(* and receipts the bridge posts to /api/bridge/event, and messages sent   *)
(* by handleSend or, for it, by the message worker.  Nothing in the        *)
(* database keeps two conversations of a chat, or two rows of a message,   *)
(* apart: every call looks first and writes later.                         *)
(***************************************************************************)
EXTENDS Naturals, FiniteSets

CONSTANTS
    Calls,       \* requests and jobs under way together
    Msgs,        \* identifiers that WhatsApp gives to messages
    Rows,        \* bound: rows of messages
    Convs,       \* bound: rows of conversations
    Tries,       \* attempts of a queued message
    MaxPosts     \* bound: events and receipts the bridge posts

ASSUME InboxAssumption ==
    /\ {"none", "out"} \cap Msgs = {}
    /\ 0 \notin Rows
    /\ Tries \in Nat \ {0} /\ MaxPosts \in Nat

VARIABLES
    convs,       \* conversations of the chat
    rows,        \* rows of messages
    call,        \* what each call is doing, and what it has read
    wired,       \* messages sent by us that reached WhatsApp
    posts,       \* bound
    overlapped,  \* history: messages stored by a call that another was storing
    racing       \* history: rows marked by a receipt while another call had them

inboxVars == <<convs, rows, call, wired, posts, overlapped, racing>>

Pending == "out"        \* out_<time>, the identifier of a row not sent yet
NoRow == [msg |-> "none", status |-> "none"]
Delivery == {"pending", "sent", "delivered", "read", "failed", "received"}
Ahead == {"find", "open", "look", "insert", "row", "wire", "record", "fail",
          "receipt", "mark"}

InboxTypeOK ==
    /\ convs \subseteq Convs
    /\ rows \in [Rows -> {NoRow} \cup [msg : Msgs \cup {Pending}, status : Delivery]]
    /\ call \in [Calls -> [pc : Ahead \cup {"idle"}, kind : {"message", "send", "receipt"},
                           msg : Msgs \cup {Pending}, mine : BOOLEAN, conv : Convs \cup {0},
                           row : Rows \cup {0}, status : Delivery, left : 0..Tries]]
    /\ wired \subseteq Msgs
    /\ posts \in 0..MaxPosts
    /\ overlapped \subseteq Msgs
    /\ racing \subseteq Rows

Resting == [pc |-> "idle", kind |-> "message", msg |-> Pending, mine |-> FALSE,
            conv |-> 0, row |-> 0, status |-> "pending", left |-> 0]

InboxInit ==
    /\ convs = {}
    /\ rows = [i \in Rows |-> NoRow]
    /\ call = [c \in Calls |-> Resting]
    /\ wired = {}
    /\ posts = 0
    /\ overlapped = {}
    /\ racing = {}

-----------------------------------------------------------------------------
Step(c, pc) == call' = [call EXCEPT ![c].pc = pc]
Rests(c) == call' = [call EXCEPT ![c] = Resting]
\* Row numbers that no call still names (a new row has a new number).
Free == {i \in Rows : rows[i] = NoRow /\ \A c \in Calls : call[c].row # i}
RowsOf(m) == {i \in Rows : rows[i].msg = m}
\* Other calls that are about to write row i.
Touching(c, i) == {d \in Calls \ {c} : call[d].row = i /\ call[d].pc # "idle"}

\* deliveryStatusRank
Rank(status) ==
    CASE status = "pending" -> 0 [] status = "sent" -> 1 [] status = "delivered" -> 2
      [] status = "read" -> 3 [] OTHER -> 4

\* The bridge posts a message: of the contact, or our own, sent here or from
\* another device.
MessageEvent(c) ==
    /\ call[c].pc = "idle"
    /\ posts < MaxPosts
    /\ posts' = posts + 1
    /\ \E m \in Msgs, mine \in BOOLEAN :
         /\ m \in wired => mine
         /\ call' = [call EXCEPT ![c] = [Resting EXCEPT !.pc = "find", !.msg = m, !.mine = mine]]
    /\ UNCHANGED <<convs, rows, wired, overlapped, racing>>

\* handleSend; left is 1 unless the message is queued for the worker.
SendAsked(c) ==
    /\ call[c].pc = "idle"
    /\ \E left \in {1, Tries} :
         call' = [call EXCEPT ![c] = [Resting EXCEPT !.pc = "find", !.kind = "send", !.left = left]]
    /\ UNCHANGED <<convs, rows, wired, posts, overlapped, racing>>

AfterConv(c) == IF call[c].kind = "send" THEN "row" ELSE "look"

\* ensureConversation
FindConversation(c) ==
    /\ call[c].pc = "find"
    /\ \/ convs = {} /\ Step(c, "open")
       \/ \E v \in convs : call' = [call EXCEPT ![c].pc = AfterConv(c), ![c].conv = v]
    /\ UNCHANGED <<convs, rows, wired, posts, overlapped, racing>>

OpenConversation(c) ==
    /\ call[c].pc = "open"
    /\ \E v \in Convs \ convs :
         /\ convs' = convs \cup {v}
         /\ call' = [call EXCEPT ![c].pc = AfterConv(c), ![c].conv = v]
    /\ UNCHANGED <<rows, wired, posts, overlapped, racing>>

\* Mutant: the message is not looked for after the media and the profile.
LookNot(c) ==
    /\ call[c].pc = "look"
    /\ Step(c, "insert")
    /\ UNCHANGED <<convs, rows, wired, posts, overlapped, racing>>

\* Media and profile are fetched before this, for seconds perhaps.
LookDuplicate(c) ==
    /\ call[c].pc = "look"
    /\ LET m == call[c].msg
           others == {d \in Calls \ {c} : call[d].msg = m /\ call[d].pc \in {"insert", "record"}}
       IN  IF RowsOf(m) # {}
           THEN Rests(c) /\ UNCHANGED overlapped
           ELSE /\ Step(c, "insert")
                /\ overlapped' = IF others # {} THEN overlapped \cup {m} ELSE overlapped
    /\ UNCHANGED <<convs, rows, wired, posts, racing>>

\* A conversation that was deleted meanwhile: PostgreSQL refuses the row,
\* SQLite stores it where nobody sees it.
InsertMessage(c) ==
    /\ call[c].pc = "insert"
    /\ \/ \E i \in Free :
            rows' = [rows EXCEPT ![i] = [msg |-> call[c].msg,
                        status |-> IF call[c].mine THEN "sent" ELSE "received"]]
       \/ call[c].conv \notin convs /\ UNCHANGED rows
    /\ Rests(c)
    /\ UNCHANGED <<convs, wired, posts, overlapped, racing>>

-----------------------------------------------------------------------------
InsertPending(c) ==
    /\ call[c].pc = "row"
    /\ \E i \in Free :
         /\ rows' = [rows EXCEPT ![i] = [msg |-> Pending, status |-> "pending"]]
         /\ call' = [call EXCEPT ![c].pc = "wire", ![c].row = i]
    /\ UNCHANGED <<convs, wired, posts, overlapped, racing>>

\* The worker tries again, handleSend does not; the message may have left.
Again(c) == [call[c] EXCEPT !.left = @ - 1, !.msg = Pending,
                            !.pc = IF @ # "fail" /\ call[c].left > 1 THEN "wire" ELSE "fail"]

SendToBridge(c) ==
    /\ call[c].pc = "wire"
    /\ \/ \E m \in Msgs \ wired :
            /\ RowsOf(m) = {}
            /\ \A d \in Calls : call[d].msg # m
            /\ wired' = wired \cup {m}
            /\ \/ call' = [call EXCEPT ![c].pc = "record", ![c].msg = m]
               \/ call' = [call EXCEPT ![c] = Again(c)]
       \/ call' = [call EXCEPT ![c] = Again(c)] /\ UNCHANGED wired
    /\ UNCHANGED <<convs, rows, posts, overlapped, racing>>

\* An UPDATE by id: of nothing, when the user deleted the row.
Write(i, r) == rows' = [rows EXCEPT ![i] = IF @ = NoRow THEN NoRow ELSE r]

RecordSent(c) ==
    /\ call[c].pc = "record"
    /\ \/ /\ Write(call[c].row, [msg |-> call[c].msg, status |-> "sent"])
          /\ \/ Rests(c)
             \/ call' = [call EXCEPT ![c] = Again(c)]
       \/ UNCHANGED rows /\ call' = [call EXCEPT ![c] = Again(c)]
    /\ UNCHANGED <<convs, wired, posts, overlapped, racing>>

\* The catch block, of the last attempt.
MarkFailed(c) ==
    /\ call[c].pc = "fail"
    /\ Write(call[c].row, [rows[call[c].row] EXCEPT !.status = "failed"])
    /\ Rests(c)
    /\ UNCHANGED <<convs, wired, posts, overlapped, racing>>

-----------------------------------------------------------------------------
\* receiptDeliveryStatus: receipts of a message, repeated and in any order.
ReceiptEvent(c) ==
    /\ call[c].pc = "idle"
    /\ posts < MaxPosts
    /\ posts' = posts + 1
    /\ \E m \in Msgs, s \in {"delivered", "read", "failed"} :
         call' = [call EXCEPT ![c] = [Resting EXCEPT !.pc = "receipt", !.kind = "receipt",
                                      !.msg = m, !.status = s]]
    /\ UNCHANGED <<convs, rows, wired, overlapped, racing>>

\* Mutant: a status of the same row is taken whatever it was.
NotBehind(old, new) == FALSE
Behind(old, new) == new # "failed" /\ Rank(old) >= Rank(new)

ReceiptLooks(c) ==
    /\ call[c].pc = "receipt"
    /\ \/ RowsOf(call[c].msg) = {} /\ Rests(c) /\ UNCHANGED racing
       \/ \E i \in RowsOf(call[c].msg) :
            IF Behind(rows[i].status, call[c].status)
            THEN Rests(c) /\ UNCHANGED racing
            ELSE /\ call' = [call EXCEPT ![c].pc = "mark", ![c].row = i]
                 /\ racing' = IF Touching(c, i) # {} THEN racing \cup {i} ELSE racing
    /\ UNCHANGED <<convs, rows, wired, posts, overlapped>>

ReceiptMarksMessage(c) ==
    /\ call[c].pc = "mark"
    /\ Write(call[c].row, [rows[call[c].row] EXCEPT !.status = call[c].status])
    /\ Rests(c)
    /\ UNCHANGED <<convs, wired, posts, overlapped, racing>>

-----------------------------------------------------------------------------
\* A statement fails, or the process ends: nobody posts the event again.
CallDies(c) ==
    /\ call[c].pc # "idle"
    /\ Rests(c)
    /\ UNCHANGED <<convs, rows, wired, posts, overlapped, racing>>

\* DELETE /api/messages/:id, or the messages of a conversation.
DeleteMessage(i) ==
    /\ rows[i] # NoRow
    /\ rows' = [rows EXCEPT ![i] = NoRow]
    /\ racing' = racing \ {i}
    /\ UNCHANGED <<convs, call, wired, posts, overlapped>>
DeleteConversation(v) ==
    /\ v \in convs
    /\ convs' = convs \ {v}
    /\ UNCHANGED <<rows, call, wired, posts, overlapped, racing>>

InboxNext ==
    \/ \E c \in Calls :
         \/ MessageEvent(c) \/ SendAsked(c) \/ FindConversation(c) \/ OpenConversation(c)
         \/ LookDuplicate(c) \/ InsertMessage(c) \/ InsertPending(c) \/ SendToBridge(c)
         \/ RecordSent(c) \/ MarkFailed(c) \/ ReceiptEvent(c) \/ ReceiptLooks(c)
         \/ ReceiptMarksMessage(c) \/ CallDies(c)
    \/ \E i \in Rows : DeleteMessage(i)
    \/ \E v \in Convs : DeleteConversation(v)

InboxSpec == InboxInit /\ [][InboxNext]_inboxVars

-----------------------------------------------------------------------------
\* A message the bridge posts again, or posts while it is being sent, has one
\* row, unless the calls that store it overlapped between looking and writing.
StoredOnce == \A m \in Msgs : Cardinality(RowsOf(m)) > 1 => m \in overlapped

\* Receipts come in any order and repeated, yet the status of a message never
\* goes back (read to delivered, failed to sent), unless two calls had read the
\* same row before either of them wrote it.
StatusAdvances ==
    [][\A i \in Rows :
         (rows'[i].msg = rows[i].msg /\ Rank(rows'[i].status) < Rank(rows[i].status))
             => i \in racing]_inboxVars
=============================================================================
