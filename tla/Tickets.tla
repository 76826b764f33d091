------------------------------- MODULE Tickets --------------------------------
(***************************************************************************)
(* The support tickets of one account in server.ts: opened by customers,   *)
(* by the chat with the support agent, and by administrators who escalate  *)
(* an alert.  An alert has at most one ticket by a SELECT before the       *)
(* INSERT; an edit writes back what it has read.                           *)
(***************************************************************************)
EXTENDS Naturals, FiniteSets

CONSTANTS
    Admins,       \* administrators, each with one request at a time
    Chatters,     \* chats with the support agent under way together
    MaxTickets    \* bound: tickets opened

ASSUME TicketsAssumption == IsFiniteSet(Admins) /\ MaxTickets \in Nat

VARIABLES
    desk,      \* desk[i]: ticket i, where it came from and its status
    admin,     \* admin[g]: what the request of g does, to which ticket
    chat       \* chats that found nothing and are to open a ticket

ticketVars == <<desk, admin, chat>>

Ids == 1..MaxTickets
Status == {"open", "in_progress", "resolved"}
NoTicket == [from |-> "nowhere", status |-> "open"]

TicketsTypeOK ==
    /\ desk \in [Ids -> [from : {"nowhere", "alert", "customer"}, status : Status]]
    /\ admin \in [Admins -> [pc : {"idle", "escalate", "edit", "reply"},
                             on : Ids \cup {0}]]
    /\ chat \subseteq Chatters

NoRequest == [pc |-> "idle", on |-> 0]

TicketsInit ==
    /\ desk = [i \in Ids |-> NoTicket]
    /\ admin = [g \in Admins |-> NoRequest]
    /\ chat = {}

-----------------------------------------------------------------------------
Opened == {i \in Ids : desk[i] # NoTicket}
Escalated == {i \in Ids : desk[i].from = "alert"}
Quits(g) == admin' = [admin EXCEPT ![g] = NoRequest]

\* createSupportTicket
Opens(from) ==
    \E i \in Ids : /\ desk[i] = NoTicket
                   /\ \A j \in Ids : j < i => desk[j] # NoTicket
                   /\ desk' = [desk EXCEPT ![i] = [from |-> from, status |-> "open"]]

\* POST /api/support/tickets
CustomerOpens == Opens("customer") /\ UNCHANGED <<admin, chat>>

\* supportAgentReply.  What the customer writes about, whether the instance is
\* connected, disconnected or neither, and whether its log shows failures.
Solved(topic, conn, failures) ==
    IF topic = "connection" \/ conn = "off" THEN conn = "on"
    ELSE topic \in {"webhook", "sending"} /\ ~failures

\* The customer asked for a human, and the agent has no answer.
ChatEscalates(c) ==
    /\ c \notin chat
    /\ \E topic \in {"connection", "webhook", "sending", "other"},
          conn \in {"on", "off", "neither"}, failures \in BOOLEAN :
            ~Solved(topic, conn, failures)
    /\ chat' = chat \cup {c}
    /\ UNCHANGED <<desk, admin>>
ChatOpens(c) ==
    /\ c \in chat
    /\ chat' = chat \ {c}
    /\ Opens("customer") \/ UNCHANGED desk
    /\ UNCHANGED admin

\* ai-resolve: a ticket for the alert, unless it has one.
LookForTicket(g) ==
    /\ admin[g].pc = "idle"
    /\ Escalated = {}
    /\ admin' = [admin EXCEPT ![g].pc = "escalate"]
    /\ UNCHANGED <<desk, chat>>

CreateTicket(g) ==
    /\ admin[g].pc = "escalate"
    /\ Opens("alert") \/ UNCHANGED desk      \* the statement fails
    /\ Quits(g)
    /\ UNCHANGED chat

ReadTicket(g) ==
    /\ admin[g].pc = "idle"
    /\ \E i \in Opened, pc \in {"edit", "reply"} :
         admin' = [admin EXCEPT ![g] = [pc |-> pc, on |-> i]]
    /\ UNCHANGED <<desk, chat>>

\* Any status; without one in the body the one that was read, which a reply may
\* have replaced since.
EditTicket(g) ==
    /\ admin[g].pc = "edit"
    /\ \E s \in Status : desk' = [desk EXCEPT ![admin[g].on].status = s]
    /\ Quits(g)
    /\ UNCHANGED chat

\* Only a reply of an administrator takes the ticket up.
ReplyTicket(g) ==
    /\ admin[g].pc = "reply"
    /\ desk' = [desk EXCEPT ![admin[g].on].status = IF @ = "open" THEN "in_progress" ELSE @]
    /\ Quits(g)
    /\ UNCHANGED chat

TicketsNext ==
    \/ CustomerOpens
    \/ \E c \in Chatters : ChatEscalates(c) \/ ChatOpens(c)
    \/ \E g \in Admins : LookForTicket(g) \/ CreateTicket(g) \/ ReadTicket(g)
                         \/ EditTicket(g) \/ ReplyTicket(g)

TicketsSpec == TicketsInit /\ [][TicketsNext]_ticketVars

-----------------------------------------------------------------------------
\* No column keeps two tickets of an alert apart.  However often it is escalated,
\* and whatever the tickets go through meanwhile, there are no more of them than
\* administrators who escalated it together.
TicketsBounded == Cardinality(Escalated) <= Cardinality(Admins)
=============================================================================
