------------------------------ MODULE DirectSend -------------------------------
(***************************************************************************)
(* The endpoints of server.ts that hand a message to the bridge before     *)
(* anything is stored: text, media, buttons, menus, and the operations     *)
(* forwarded to callAdvancedBridge.  Buttons and menus that the bridge     *)
(* does not take are sent once more, as text.  Only then is a row stored,  *)
(* while the bridge may post the same message, its receipts, and whatever  *)
(* a later request edits or deletes.                                       *)
(***************************************************************************)
EXTENDS Naturals, FiniteSets

CONSTANTS
    Orders,        \* requests to send
    Native,        \* EXPERIMENTAL_INTERACTIVE_MESSAGES
    MaxReceipts    \* bound: receipts the bridge posts

ASSUME DirectSendAssumption == Native \in BOOLEAN /\ MaxReceipts \in Nat

VARIABLES
    order,       \* order[o]: where request o is, and the form it sends last
    reached,     \* reached[o]: the forms in which the contact got it
    changed,     \* changed[o]: what was done to it in WhatsApp afterwards
    unheard,     \* history: requests to which the bridge's answer was lost
    kept,        \* rows of messages, one by the request and one by the bridge's event
    echo,        \* events that found no row and are about to insert one
    marks,       \* receipts that found a row and are about to write it
    amends,      \* edits and deletions that are done in WhatsApp and not yet here
    receipts     \* bound

directVars == <<order, reached, changed, unheard, kept, echo, marks, amends, receipts>>

Forms == {"interactive", "plain"}
Storing == {"ifNew", "always", "quietly", "never"}
Changes == {"edited", "deleted"}
KeptRow == [order : Orders, form : Forms, by : {"request", "event"},
            status : {"sent", "delivered", "read", "failed", "deleted"},
            amended : SUBSET Changes]

DirectTypeOK ==
    /\ order \in [Orders -> [pc : {"idle", "post", "look", "store", "answered", "error"},
                             form : Forms, storing : Storing]]
    /\ reached \in [Orders -> SUBSET Forms]
    /\ changed \in [Orders -> [Forms -> SUBSET Changes]]
    /\ unheard \subseteq Orders
    /\ kept \subseteq KeptRow
    /\ echo \subseteq Orders \X Forms
    /\ marks \subseteq KeptRow \X {"delivered", "read", "failed"}
    /\ amends \subseteq Orders \X Forms \X Changes
    /\ receipts \in 0..MaxReceipts

DirectInit ==
    /\ order = [o \in Orders |-> [pc |-> "idle", form |-> "plain", storing |-> "never"]]
    /\ reached = [o \in Orders |-> {}]
    /\ changed = [o \in Orders |-> [f \in Forms |-> {}]]
    /\ unheard = {} /\ kept = {} /\ echo = {} /\ marks = {} /\ amends = {}
    /\ receipts = 0

-----------------------------------------------------------------------------
(* What may be asked.  Every endpoint first refuses an instance that is    *)
(* not connected, and a request without contact or content.                *)

Asked(o, form, storing) ==
    /\ order[o].pc = "idle"
    /\ order' = [order EXCEPT ![o] = [pc |-> "post", form |-> form, storing |-> storing]]
    /\ UNCHANGED <<reached, changed, unheard, kept, echo, marks, amends, receipts>>

Menu == IF Native THEN "interactive" ELSE "plain"

UazText(o)      == Asked(o, "plain", "ifNew")
UazMedia(o)     == Asked(o, "plain", "ifNew")
UazButtons(o)   == Native /\ Asked(o, "interactive", "always")
UazMenu(o)      == Asked(o, Menu, "always")
PanelButtons(o) == Native /\ Asked(o, "interactive", "always")
PanelMenu(o)    == Asked(o, Menu, "always")
V1Buttons(o)    == Native /\ Asked(o, "interactive", "never")
V1Menu(o)       == Asked(o, Menu, "never")
\* Locations, contacts and replies, over either API.
UazAdvanced(o)  == Asked(o, "plain", "quietly")
V1Advanced(o)   == Asked(o, "plain", "quietly")
\* A reply of an agent in Chatwoot, posted to the webhook registered there.
ChatwootWebhook(o) == Asked(o, "plain", "ifNew")

AskOrder(o) ==
    \/ UazText(o) \/ UazMedia(o) \/ UazButtons(o) \/ UazMenu(o)
    \/ PanelButtons(o) \/ PanelMenu(o) \/ V1Buttons(o) \/ V1Menu(o)
    \/ UazAdvanced(o) \/ V1Advanced(o) \/ ChatwootWebhook(o)

-----------------------------------------------------------------------------
Told(o) == CASE order[o].storing = "ifNew" -> "look"
             [] order[o].storing = "never" -> "answered"
             [] OTHER -> "store"

\* The bridge takes the message, refuses it, or takes it and its answer is lost.
\* Anything but an answer makes an interactive message a text, and ends a text.
Post(o) ==
    /\ order[o].pc = "post"
    /\ LET f == order[o].form
           gone == [order EXCEPT ![o].pc = IF f = "plain" THEN "error" ELSE "post",
                                 ![o].form = "plain"]
       IN  \/ /\ order' = [order EXCEPT ![o].pc = Told(o)]
              /\ reached' = [reached EXCEPT ![o] = @ \cup {f}]
              /\ UNCHANGED unheard
           \/ /\ order' = gone
              /\ reached' = [reached EXCEPT ![o] = @ \cup {f}]
              /\ unheard' = unheard \cup {o}
           \/ order' = gone /\ UNCHANGED <<reached, unheard>>
    /\ UNCHANGED <<changed, kept, echo, marks, amends, receipts>>

RowsFor(o, f) == {x \in kept : x.order = o /\ x.form = f}
NewRow(o, f, by) ==
    [order |-> o, form |-> f, by |-> by, status |-> "sent", amended |-> {}]
Ends(o, pc) == order' = [order EXCEPT ![o].pc = pc]

\* persistOutboundMessage: a row with this identifier may be there already.
LooksStored(o) ==
    /\ order[o].pc = "look"
    /\ Ends(o, IF RowsFor(o, order[o].form) = {} THEN "store" ELSE "answered")
    /\ UNCHANGED <<reached, changed, unheard, kept, echo, marks, amends, receipts>>

\* Mutant: the row says what was asked for, whatever was sent in its place.
StoresAsAsked(o) ==
    /\ order[o].pc = "store"
    /\ kept' = kept \cup {NewRow(o, IF order[o].storing = "always" THEN "interactive"
                                   ELSE order[o].form, "request")}
    /\ Ends(o, "answered")
    /\ UNCHANGED <<reached, changed, unheard, echo, marks, amends, receipts>>

StoresSent(o) ==
    /\ order[o].pc = "store"
    /\ kept' = kept \cup {NewRow(o, order[o].form, "request")}
    /\ Ends(o, "answered")
    /\ UNCHANGED <<reached, changed, unheard, echo, marks, amends, receipts>>

\* A statement is rejected: the request is answered with an error, or as if
\* nothing had happened.
StoringFails(o) ==
    /\ order[o].pc \in {"look", "store"}
    /\ Ends(o, IF order[o].storing = "quietly" THEN "answered" ELSE "error")
    /\ UNCHANGED <<reached, changed, unheard, kept, echo, marks, amends, receipts>>

-----------------------------------------------------------------------------
(* The bridge's events: message.any of WAHA for our own message, posted    *)
(* once, looked up and inserted; and receipts.                             *)

EchoLooks(o, f) ==
    /\ f \in reached[o] /\ <<o, f>> \notin echo
    /\ RowsFor(o, f) = {}
    /\ echo' = echo \cup {<<o, f>>}
    /\ UNCHANGED <<order, reached, changed, unheard, kept, marks, amends, receipts>>

EchoInserts(o, f) ==
    /\ <<o, f>> \in echo
    /\ kept' = kept \cup {NewRow(o, f, "event")}
    /\ echo' = echo \ {<<o, f>>}
    /\ UNCHANGED <<order, reached, changed, unheard, marks, amends, receipts>>

\* deliveryStatusRank; a deleted message has none.
StatusRank(status) ==
    CASE status = "sent" -> 1 [] status = "delivered" -> 2 [] status = "read" -> 3
      [] status = "failed" -> 4 [] OTHER -> 0

\* One row with that identifier.  A receipt that finds none is forgotten.
ReceiptFinds(o, f, status) ==
    /\ receipts < MaxReceipts /\ f \in reached[o]
    /\ receipts' = receipts + 1
    /\ \E x \in RowsFor(o, f) :
         /\ status = "failed" \/ StatusRank(x.status) < StatusRank(status)
         /\ marks' = marks \cup {<<x, status>>}
    /\ UNCHANGED <<order, reached, changed, unheard, kept, echo, amends>>

SameRow(x, y) == x.order = y.order /\ x.form = y.form /\ x.by = y.by

ReceiptWrites ==
    \E m \in marks :
      /\ marks' = marks \ {m}
      /\ kept' = {IF SameRow(x, m[1]) THEN [x EXCEPT !.status = m[2]] ELSE x : x \in kept}
      /\ UNCHANGED <<order, reached, changed, unheard, echo, amends, receipts>>

-----------------------------------------------------------------------------
\* /messages/edit and /messages/delete: WhatsApp first, and if its answer
\* arrives, every row with the identifier.
Amend(o, f, change) ==
    /\ f \in reached[o]
    /\ change \notin changed[o][f]
    /\ changed' = [changed EXCEPT ![o][f] = @ \cup {change}]
    /\ amends' \in {amends, amends \cup {<<o, f, change>>}}
    /\ UNCHANGED <<order, reached, unheard, kept, echo, marks, receipts>>

AmendWrites ==
    \E a \in amends :
      /\ amends' = amends \ {a}
      /\ kept' = {IF x.order = a[1] /\ x.form = a[2]
                  THEN [x EXCEPT !.amended = @ \cup {a[3]},
                                 !.status = IF a[3] = "deleted" THEN "deleted" ELSE @]
                  ELSE x : x \in kept}
      /\ UNCHANGED <<order, reached, changed, unheard, echo, marks, receipts>>

DirectNext ==
    \/ \E o \in Orders : AskOrder(o) \/ Post(o) \/ LooksStored(o) \/ StoresSent(o) \/ StoringFails(o)
    \/ \E o \in Orders, f \in Forms :
         \/ EchoLooks(o, f) \/ EchoInserts(o, f)
         \/ \E s \in {"delivered", "read", "failed"} : ReceiptFinds(o, f, s)
         \/ \E c \in Changes : Amend(o, f, c)
    \/ ReceiptWrites \/ AmendWrites

DirectSpec == DirectInit /\ [][DirectNext]_directVars

-----------------------------------------------------------------------------
\* What is stored reached the contact in that form, and is marked edited or
\* deleted only when it was; a request answered with success reached the contact
\* and, where rows are kept, left one; and the contact gets a message in two
\* forms only when the bridge's answer to the first was lost.
AnswersAreTrue ==
    /\ \A x \in kept : /\ x.form \in reached[x.order]
                       /\ x.amended \subseteq changed[x.order][x.form]
                       /\ x.status = "deleted" => "deleted" \in x.amended
    /\ \A o \in Orders :
         /\ Cardinality(reached[o]) = 2 => o \in unheard
         /\ order[o].pc = "answered" =>
              /\ order[o].form \in reached[o]
              /\ order[o].storing \in {"ifNew", "always"} => RowsFor(o, order[o].form) # {}
=============================================================================
