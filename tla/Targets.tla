------------------------------- MODULE Targets --------------------------------
(***************************************************************************)
(* Where the events of one instance go: the webhooks of the instance, the  *)
(* one URL in its own row (legacy) and the one of the whole installation   *)
(* (global).  dispatchWebhook reads the three and queues a delivery for    *)
(* each, one after the other; meanwhile the panel, the API and the trigger *)
(* node of n8n create, edit, delete and test webhooks.  An edit reads the  *)
(* row, and writes every column of what it read.                           *)
(***************************************************************************)
EXTENDS Naturals, FiniteSets

CONSTANTS
    Hooks,        \* identifiers of webhooks, never used twice
    Editors,      \* edits of a webhook, which may overlap
    NoWebhook,       \* no webhook
    MaxOrders     \* bound: requests that change or test something

ASSUME TargetsAssumption ==
    /\ Hooks \cap {"legacy", "global"} = {}
    /\ NoWebhook \notin Hooks \cup {"legacy", "global"}
    /\ MaxOrders \in Nat

VARIABLES
    webhooks,     \* the rows of instance_webhooks
    legacy,       \* the URL in the row of the instance
    global,       \* the setting global_webhook
    edit,         \* what each edit has read, and what it is asked
    sending,      \* the dispatch of the event
    noted,        \* targets with a row in webhook_events
    queued,       \* targets with a delivery job
    silenced,     \* history: targets switched off, and by nobody on again
    orders        \* bound

targetVars ==
    <<webhooks, legacy, global, edit, sending, noted, queued, silenced, orders>>

\* A list of events has the one that happens (an empty list allows every event),
\* or has others only.
Filters == {"this", "others"}
HookRow == [is : {"none", "live", "deleted"}, on : BOOLEAN, hears : Filters]
NoHook == [is |-> "none", on |-> FALSE, hears |-> "others"]
Off == [on |-> FALSE, hears |-> "this"]
AllTargets == Hooks \cup {"legacy", "global"}
Stages == {"idle", "hooks", "global", "next", "queue", "done"}
NoEdit == [of |-> NoWebhook, row |-> NoHook, ask |-> "rename"]

TargetsTypeOK ==
    /\ webhooks \in [Hooks -> HookRow]
    /\ legacy \in [url : BOOLEAN, enabled : BOOLEAN, hears : Filters]
    /\ global \in [on : BOOLEAN, hears : Filters]
    /\ edit \in [Editors -> [of : Hooks \cup {NoWebhook}, row : HookRow,
                             ask : {"rename", "on", "off"} \cup Filters]]
    /\ sending \in [pc : Stages, only : Hooks \cup {NoWebhook}, bypass : BOOLEAN,
                    legacy : BOOLEAN, left : SUBSET AllTargets,
                    now : AllTargets \cup {NoWebhook}, quiet : SUBSET AllTargets]
    /\ noted \subseteq AllTargets /\ queued \subseteq AllTargets
    /\ silenced \subseteq AllTargets
    /\ orders \in 0..MaxOrders

TargetsInit ==
    /\ webhooks = [h \in Hooks |-> NoHook]
    /\ legacy = [url |-> FALSE, enabled |-> TRUE, hears |-> "this"]
    /\ global = Off
    /\ edit = [e \in Editors |-> NoEdit]
    /\ sending = [pc |-> "idle", only |-> NoWebhook, bypass |-> FALSE, legacy |-> FALSE,
                  left |-> {}, now |-> NoWebhook, quiet |-> {}]
    /\ noted = {} /\ queued = {}
    /\ silenced = {"legacy", "global"}
    /\ orders = 0

-----------------------------------------------------------------------------
Live(h) == webhooks[h].is = "live"
Order == orders < MaxOrders /\ orders' = orders + 1
SendingSame == UNCHANGED <<noted, queued>>

\* What is written from now on; a dispatch no longer owes silence to a target
\* that is switched on before it ends.
Silence(ts) == silenced' = silenced \cup ts /\ UNCHANGED sending
Revive(ts) == /\ silenced' = silenced \ ts
              /\ sending' = [sending EXCEPT !.quiet = @ \ ts]

-----------------------------------------------------------------------------
(* Webhooks of the instance.                                               *)

Inserts(h, hears) ==
    /\ Order
    /\ webhooks[h] = NoHook
    /\ webhooks' = [webhooks EXCEPT ![h] = [is |-> "live", on |-> TRUE, hears |-> hears]]
    /\ UNCHANGED <<legacy, global, edit, sending, silenced>> /\ SendingSame

DefaultWebhook(h)    == (\A x \in Hooks : webhooks[x] = NoHook) /\ Inserts(h, "this")
PanelCreates(h)      == \E hears \in Filters : Inserts(h, hears)
V1Creates(h)         == \E hears \in Filters : Inserts(h, hears)
\* Each time its workflow is activated: it neither looks nor takes it back.
N8nRegisters(h)      == \E hears \in Filters : Inserts(h, hears)

\* An edit of a webhook; what its form does not name is taken from the row.
ReadsHook(e, h, ask) ==
    /\ Order
    /\ edit[e] = NoEdit /\ Live(h)
    /\ edit' = [edit EXCEPT ![e] = [of |-> h, row |-> webhooks[h], ask |-> ask]]
    /\ UNCHANGED <<webhooks, legacy, global, sending, silenced>> /\ SendingSame

WaysToEdit == {"rename", "on", "off"} \cup Filters
PanelEdits(e, h) == \E ask \in WaysToEdit : ReadsHook(e, h, ask)
V1Edits(e, h)    == \E ask \in WaysToEdit : ReadsHook(e, h, ask)

\* Mutant: what is not named is switched on, as in a new webhook.
EditedAnew(r, ask) ==
    [r EXCEPT !.on = ask # "off", !.hears = IF ask \in Filters THEN ask ELSE @]
Edited(r, ask) ==
    [r EXCEPT !.on = CASE ask = "on" -> TRUE [] ask = "off" -> FALSE [] OTHER -> @,
              !.hears = IF ask \in Filters THEN ask ELSE @]

\* UPDATE WHERE id: of nothing, when the webhook was deleted.  The last word is
\* that of an edit that no other overlaps.
WritesHook(e) ==
    LET h == edit[e].of
        new == Edited(edit[e].row, edit[e].ask)
        alone == \A d \in Editors \ {e} : edit[d].of # h
    IN  /\ h # NoWebhook
        /\ webhooks' = IF Live(h) THEN [webhooks EXCEPT ![h] = new] ELSE webhooks
        /\ edit' = [edit EXCEPT ![e] = NoEdit]
        /\ CASE edit[e].ask = "on" /\ Live(h) -> Revive({h})
             [] edit[e].ask = "off" /\ alone -> Silence({h})
             [] OTHER -> UNCHANGED <<silenced, sending>>
        /\ UNCHANGED <<legacy, global, orders>> /\ SendingSame

DeletesHook(h) ==
    /\ Order
    /\ Live(h)
    /\ webhooks' = [webhooks EXCEPT ![h].is = "deleted"]
    /\ Silence({h})
    /\ UNCHANGED <<legacy, global, edit>> /\ SendingSame
PanelDeletes(h) == DeletesHook(h)
V1Deletes(h)    == DeletesHook(h)

-----------------------------------------------------------------------------
(* The URL of the instance and the one of the installation: one UPDATE     *)
(* each, and a form that leaves out the URL takes it away.                 *)

SetsLegacy(new) ==
    /\ Order
    /\ legacy' = new
    /\ IF new.url /\ new.enabled THEN Revive({"legacy"}) ELSE Silence({"legacy"})
    /\ UNCHANGED <<webhooks, global, edit>> /\ SendingSame

PanelSetsUrl   == \E u \in BOOLEAN : SetsLegacy([legacy EXCEPT !.url = u])
V1SetsWebhook  == \E u, enabled \in BOOLEAN, hears \in Filters :
                      SetsLegacy([url |-> u, enabled |-> enabled, hears |-> hears])
UazSetsWebhook == V1SetsWebhook

SetsGlobal ==
    /\ Order
    /\ global' \in [on : BOOLEAN, hears : Filters]
    /\ IF global'.on THEN Revive({"global"}) ELSE Silence({"global"})
    /\ UNCHANGED <<webhooks, legacy, edit>> /\ SendingSame

-----------------------------------------------------------------------------
(* dispatchWebhook.                                                        *)

Settings == <<webhooks, legacy, global, edit, silenced>>
\* webhookEventAllowed, unless it is bypassed.
Hears(t) == sending.bypass \/ t.hears = "this"

\* A test names one webhook, or none when it is of the instance; it is not
\* filtered by what the webhook hears of.
Dispatch(only, bypass) ==
    /\ sending.pc = "idle"
    /\ sending' = [sending EXCEPT !.pc = "hooks", !.only = only, !.bypass = bypass,
           !.quiet = silenced,
           !.legacy = only = NoWebhook /\ legacy.url /\ legacy.enabled
                      /\ (bypass \/ legacy.hears = "this")]
    /\ UNCHANGED Settings /\ SendingSame
    /\ IF bypass THEN Order ELSE UNCHANGED orders

EventHappens    == Dispatch(NoWebhook, FALSE)
PanelTests(h)   == Live(h) /\ Dispatch(h, TRUE)
V1Tests(h)      == Live(h) /\ Dispatch(h, TRUE)
V1TestsAll      == Dispatch(NoWebhook, TRUE)

Reached(h) == Live(h) /\ webhooks[h].on /\ Hears(webhooks[h])

\* The rows of instance_webhooks.
ReadsTargets ==
    /\ sending.pc = "hooks"
    /\ sending' = [sending EXCEPT
           !.pc = IF sending.only = NoWebhook THEN "global" ELSE "next",
           !.left = {h \in Hooks : Reached(h) /\ sending.only \in {NoWebhook, h}}
                    \cup IF sending.legacy THEN {"legacy"} ELSE {}]
    /\ UNCHANGED <<Settings, orders>> /\ SendingSame

\* The setting, read last.
ReadsGlobal ==
    /\ sending.pc = "global"
    /\ sending' = [sending EXCEPT !.pc = "next",
           !.left = IF global.on /\ Hears(global) THEN @ \cup {"global"} ELSE @]
    /\ UNCHANGED <<Settings, orders>> /\ SendingSame

NotesEvent(t) ==
    /\ sending.pc = "next" /\ t \in sending.left
    /\ noted' = noted \cup {t}
    /\ sending' = [sending EXCEPT !.pc = "queue", !.left = @ \ {t}, !.now = t]
    /\ UNCHANGED <<Settings, queued, orders>>

\* The job, with the URL of the event; or an error in its row.
QueuesEvent ==
    /\ sending.pc = "queue"
    /\ queued' \in {queued, queued \cup {sending.now}}
    /\ sending' = [sending EXCEPT !.pc = "next", !.now = NoWebhook]
    /\ UNCHANGED <<Settings, noted, orders>>

\* The last target, or a statement that fails and leaves the others out.
DispatchEnds ==
    /\ sending.pc \notin {"idle", "done"}
    /\ sending' = [sending EXCEPT !.pc = "done", !.left = {}, !.now = NoWebhook]
    /\ UNCHANGED <<Settings, orders>> /\ SendingSame

\* A retry asked for, or the sweep: whatever became of the webhook since.
RetriesEvent(t) ==
    /\ t \in noted \ queued
    /\ queued' = queued \cup {t}
    /\ UNCHANGED <<Settings, sending, noted, orders>>

-----------------------------------------------------------------------------
TargetsNext ==
    \/ \E h \in Hooks :
         \/ DefaultWebhook(h) \/ PanelCreates(h) \/ V1Creates(h) \/ N8nRegisters(h)
         \/ PanelDeletes(h) \/ V1Deletes(h) \/ PanelTests(h) \/ V1Tests(h)
         \/ \E e \in Editors : PanelEdits(e, h) \/ V1Edits(e, h)
    \/ \E e \in Editors : WritesHook(e)
    \/ PanelSetsUrl \/ V1SetsWebhook \/ UazSetsWebhook \/ SetsGlobal
    \/ EventHappens \/ V1TestsAll \/ ReadsTargets \/ ReadsGlobal
    \/ QueuesEvent \/ DispatchEnds
    \/ \E t \in AllTargets : NotesEvent(t) \/ RetriesEvent(t)

TargetsSpec == TargetsInit /\ [][TargetsNext]_targetVars

-----------------------------------------------------------------------------
\* A target that was switched off or deleted, with no other edit of it under
\* way, is silent: whatever edits follow (unless one switches it on), an event
\* that happens afterwards, or a test, is not queued for it, not even by a retry.
OffMeansOff == sending.quiet \cap queued = {}
=============================================================================
