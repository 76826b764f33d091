------------------------------ MODULE PanelChat -------------------------------
(***************************************************************************)
(* The open conversation of the web panel (src/App.tsx) while it sends:    *)
(* the same message reaches the list of bubbles as an optimistic bubble,   *)
(* as socket events, as the answer of the POST and as rows of a fetch, and *)
(* those travel independently.                                             *)
(***************************************************************************)
EXTENDS Naturals, Sequences, FiniteSets, SequencesExt

CONSTANTS
    Sends,      \* messages the panel sends, numbered in that order
    Chats,      \* conversations
    Text,       \* Text[m]: what message m says
    Nobody,     \* no conversation is open
    MaxWire     \* bound: events under way to the socket

ASSUME PanelAssumption ==
    /\ Sends \subseteq Nat /\ IsFiniteSet(Sends)
    /\ Nobody \notin Chats
    /\ MaxWire \in Nat

VARIABLES
    bubbles,     \* chatMessages
    openChat,    \* activeConversationId, Nobody: none
    fetch,       \* fetch[c]: GET /conversations/c/messages under way
    post,        \* post[m]: POST /whatsapp/send of message m
    row,         \* row[m]: the row of messages, as the server has it
    wire         \* events on their way to the socket, in order

panelVars == <<bubbles, openChat, fetch, post, row, wire>>

Label == {"optimistic", "pending", "provider"}     \* which message_id a bubble has
Shown == {"pending", "sent", "read", "failed"}     \* delivery_status
Bubble == [msg : Sends, id : Label, status : Shown, chat : Chats]
Event == [kind : {"new", "status"}, msg : Sends, id : Label, status : Shown]
NoMessage == [id |-> "none", status |-> "none", chat |-> Nobody]

PanelTypeOK ==
    /\ bubbles \in Seq(Bubble)
    /\ openChat \in Chats \cup {Nobody}
    /\ \A c \in Chats : fetch[c].pc \in {"none", "asked", "answered"} /\ fetch[c].rows \in Seq(Bubble)
    /\ post \in [Sends -> {"none", "asked", "inserted", "ok", "error", "over"}]
    /\ row \in [Sends -> [id : Label \cup {"none"}, status : Shown \cup {"none", "deleted"},
                         chat : Chats \cup {Nobody}]]
    /\ wire \in Seq(Event)

NoFetch == [pc |-> "none", rows |-> <<>>]
PanelInit ==
    /\ bubbles = <<>> /\ openChat = Nobody
    /\ fetch = [c \in Chats |-> NoFetch]
    /\ post = [m \in Sends |-> "none"] /\ row = [m \in Sends |-> NoMessage]
    /\ wire = <<>>

-----------------------------------------------------------------------------
(* The server                                                                *)

Emit(kind, m, id, status) ==
    /\ Len(wire) < MaxWire
    /\ wire' = Append(wire, [kind |-> kind, msg |-> m, id |-> id, status |-> status])

\* handleSend refuses a message (no such instance, not connected).
Refuse(m) ==
    /\ post[m] = "asked"
    /\ post' = [post EXCEPT ![m] = "error"]
    /\ UNCHANGED <<bubbles, openChat, fetch, row, wire>>

\* The row is inserted with an id out_..., and announced with it.
InsertOut(m) ==
    /\ post[m] = "asked"
    /\ post' = [post EXCEPT ![m] = "inserted"]
    /\ row' = [row EXCEPT ![m].id = "pending", ![m].status = "pending"]
    /\ Emit("new", m, "pending", "pending")
    /\ UNCHANGED <<bubbles, openChat, fetch>>

\* The bridge accepts it: the row takes the id of the provider, and so does the
\* event.
Accept(m) ==
    /\ post[m] = "inserted"
    /\ post' = [post EXCEPT ![m] = "ok"]
    /\ row' = [row EXCEPT ![m].id = "provider",
                          ![m].status = IF @ = "deleted" THEN @ ELSE "sent"]
    /\ Emit("status", m, "provider", "sent")
    /\ UNCHANGED <<bubbles, openChat, fetch>>

RejectSend(m) ==
    /\ post[m] = "inserted"
    /\ post' = [post EXCEPT ![m] = "error"]
    /\ row' = [row EXCEPT ![m].status = IF @ = "deleted" THEN @ ELSE "failed"]
    /\ Emit("status", m, "pending", "failed")
    /\ UNCHANGED <<bubbles, openChat, fetch>>

\* A receipt; the rows it looks for have the id of the provider.
Receipt(m) ==
    /\ row[m].id = "provider" /\ row[m].status = "sent"
    /\ row' = [row EXCEPT ![m].status = "read"]
    /\ Emit("status", m, "provider", "read")
    /\ UNCHANGED <<bubbles, openChat, fetch, post>>

Listed(c) ==
    LET here == {m \in Sends : row[m].chat = c /\ row[m].status \in Shown}
    IN  SetToSeq({[msg |-> m, id |-> row[m].id, status |-> row[m].status, chat |-> c] : m \in here})

AnswerFetch(c) ==
    /\ fetch[c].pc = "asked"
    /\ fetch' = [fetch EXCEPT ![c] = [pc |-> "answered", rows |-> Listed(c)]]
    /\ UNCHANGED <<bubbles, openChat, post, row, wire>>

-----------------------------------------------------------------------------
(* The panel                                                                 *)

Fetching(c) == fetch' = [fetch EXCEPT ![c] = [pc |-> "asked", rows |-> <<>>]]

\* The effect on activeConversationId fetches; the old bubbles stay until then.
OpenChat(c) ==
    /\ openChat # c /\ fetch[c].pc = "none"
    /\ openChat' = c
    /\ Fetching(c)
    /\ UNCHANGED <<bubbles, post, row, wire>>

\* fetchChatMessages shows whatever it gets, whichever conversation is open by
\* then; a call that fails shows nothing new.
ShowFetch(c) ==
    /\ fetch[c].pc = "answered"
    /\ bubbles' \in {fetch[c].rows, bubbles}
    /\ fetch' = [fetch EXCEPT ![c] = NoFetch]
    /\ UNCHANGED <<openChat, post, row, wire>>

\* sendMessage and sendMediaMessage: an optimistic bubble, and the POST.
SendMessage(m) ==
    /\ openChat # Nobody /\ post[m] = "none"
    /\ \A k \in Sends : k < m => post[k] # "none"
    /\ bubbles' = Append(bubbles, [msg |-> m, id |-> "optimistic", status |-> "pending",
                                   chat |-> openChat])
    /\ post' = [post EXCEPT ![m] = "asked"]
    /\ row' = [row EXCEPT ![m].chat = openChat]
    /\ UNCHANGED <<openChat, fetch, wire>>

\* bubbles with the id of b changed to have id and status.
Marked(m, id, newId, status) ==
    [i \in DOMAIN bubbles |->
        IF bubbles[i].msg = m /\ bubbles[i].id = id
        THEN [bubbles[i] EXCEPT !.id = newId, !.status = status] ELSE bubbles[i]]

\* Mutant: an answer that holds an error is taken for a success.
ReplySent(m) ==
    /\ post[m] \in {"ok", "error"}
    /\ bubbles' = Marked(m, "optimistic", "provider", "sent")
    /\ post' = [post EXCEPT ![m] = "over"]
    /\ UNCHANGED <<openChat, fetch, row, wire>>

\* The answer of the POST is written into the optimistic bubble, if that is
\* still there; an answer that gets lost (apiFetch gives null) changes nothing.
PostReturns(m) ==
    /\ \/ post[m] = "ok" /\ bubbles' = Marked(m, "optimistic", "provider", "sent")
       \/ post[m] = "error" /\ bubbles' = Marked(m, "optimistic", "optimistic", "failed")
       \/ post[m] \in {"ok", "error"} /\ UNCHANGED bubbles
    /\ post' = [post EXCEPT ![m] = "over"]
    /\ UNCHANGED <<openChat, fetch, row, wire>>

\* message.new: nothing if a bubble has the id; the first optimistic bubble with
\* the same text is replaced; otherwise the message is added.
NewBubble(e) ==
    LET b == [msg |-> e.msg, id |-> e.id, status |-> e.status, chat |-> row[e.msg].chat]
        same == {i \in DOMAIN bubbles : /\ bubbles[i].id = "optimistic"
                                        /\ bubbles[i].chat = b.chat
                                        /\ Text[bubbles[i].msg] = Text[e.msg]}
    IN  IF b.chat # openChat THEN bubbles
        ELSE IF \E i \in DOMAIN bubbles : bubbles[i].msg = e.msg /\ bubbles[i].id = e.id THEN bubbles
        ELSE IF same = {} THEN Append(bubbles, b)
        ELSE [bubbles EXCEPT ![CHOOSE i \in same : \A j \in same : i <= j] = b]

\* message.status: every bubble with the id, in whichever conversation.
SocketDelivers ==
    /\ wire # <<>>
    /\ wire' = Tail(wire)
    /\ LET e == Head(wire) IN
       bubbles' = IF e.kind = "new" THEN NewBubble(e) ELSE Marked(e.msg, e.id, e.id, e.status)
    /\ UNCHANGED <<openChat, fetch, post, row>>

\* What is emitted while the socket is away is lost; nothing is fetched again
\* when it is back.
EventLost ==
    /\ wire # <<>>
    /\ wire' = Tail(wire)
    /\ UNCHANGED <<bubbles, openChat, fetch, post, row>>

\* deleteChatMessage deletes the row a bubble shows (an optimistic bubble has no
\* row number) and fetches the open conversation.
DeleteBubble(m) ==
    /\ openChat # Nobody /\ fetch[openChat].pc = "none"
    /\ row[m].status \in Shown
    /\ \E i \in DOMAIN bubbles : bubbles[i].msg = m /\ bubbles[i].id # "optimistic"
    /\ row' = [row EXCEPT ![m].status = "deleted"]
    /\ Fetching(openChat)
    /\ UNCHANGED <<bubbles, openChat, post, wire>>

PanelNext ==
    \/ \E m \in Sends :
         \/ Refuse(m) \/ InsertOut(m) \/ Accept(m) \/ RejectSend(m) \/ Receipt(m)
         \/ SendMessage(m) \/ PostReturns(m) \/ DeleteBubble(m)
    \/ \E c \in Chats : AnswerFetch(c) \/ OpenChat(c) \/ ShowFetch(c)
    \/ SocketDelivers \/ EventLost

PanelSpec == PanelInit /\ [][PanelNext]_panelVars

-----------------------------------------------------------------------------
\* Events, answers and fetches overtake each other, and messages with the same
\* text are confused when they are announced: still no bubble says that a
\* message was sent which the bridge has not accepted.
SentIsTrue ==
    \A i \in DOMAIN bubbles :
        bubbles[i].status \in {"sent", "read"} => row[bubbles[i].msg].id = "provider"
=============================================================================
