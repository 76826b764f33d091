----------------------------- MODULE Integrations -----------------------------
(***************************************************************************)
(* Chatwoot and Typebot of one instance: the dispatch of server.ts, the    *)
(* worker of workers/chatwoot.worker.ts and the registration of the        *)
(* Chatwoot webhook.  Each of them looks something up in another service   *)
(* or table and creates it later when it was not there.                    *)
(***************************************************************************)
EXTENDS Naturals, FiniteSets

CONSTANTS
    Contacts,        \* phone numbers
    Handlers,        \* requests that dispatch a message event
    SyncSlots,       \* jobs the Chatwoot worker runs at a time
    Savers,          \* requests that save the Chatwoot settings
    MaxEvents,       \* bound: messages, receipts and saves
    MaxLosses        \* bound: failures of another service, stalls of the worker

ASSUME IntegrationsAssumption ==
    /\ IsFiniteSet(Handlers) /\ IsFiniteSet(SyncSlots) /\ IsFiniteSet(Savers)
    /\ Contacts # {} /\ MaxEvents \in Nat /\ MaxLosses \in Nat

VARIABLES
    enabled,     \* integration_settings: enabled[p] of each provider
    handler,     \* handler[h]: the message event h is dispatching
    session,     \* session[c]: the Typebot session stored for c, 0: none
    started,     \* history: Typebot chats started for c
    jobs,        \* jobs[<<k, c>>]: jobs of kind k waiting in chatwoot-sync
    sync,        \* sync[w]: the job slot w of the worker runs
    people,      \* people[c]: contacts Chatwoot has with the phone of c
    talks,       \* talks[c]: those of them with a conversation in the inbox
    hooks,       \* times the webhook of the instance is registered in Chatwoot
    saver,       \* saver[v]: what the save v is doing
    events,      \* messages, receipts and saves so far
    losses       \* failures and stalls so far

integrationVars == <<enabled, handler, session, started, jobs, sync, people, talks,
                     hooks, saver, events, losses>>
chatVars   == <<handler, session, started>>
remoteVars == <<people, talks>>
saveVars   == <<hooks, saver>>

Provider == {"chatwoot", "typebot"}
JobKind == {"message", "status"}
SyncStep == {"free", "config", "contact", "newContact", "talk", "newTalk", "post", "link"}
AtRest == [pc |-> "idle", contact |-> CHOOSE c \in Contacts : TRUE, had |-> 0]
FreeSlot == [pc |-> "free", kind |-> "message", contact |-> AtRest.contact, person |-> 0]

IntegrationsTypeOK ==
    /\ enabled \in [Provider -> BOOLEAN]
    /\ handler \in [Handlers -> [pc : {"idle", "lookup", "call", "store", "queue"},
                                 contact : Contacts, had : Nat]]
    /\ session \in [Contacts -> Nat] /\ started \in [Contacts -> Nat]
    /\ jobs \in [JobKind \X Contacts -> Nat]
    /\ sync \in [SyncSlots -> [pc : SyncStep, kind : JobKind, contact : Contacts, person : Nat]]
    /\ people \in [Contacts -> Nat] /\ talks \in [Contacts -> SUBSET Nat]
    /\ hooks \in Nat /\ saver \in [Savers -> {"idle", "list", "register"}]
    /\ events \in 0..MaxEvents /\ losses \in 0..MaxLosses

IntegrationsInit ==
    /\ enabled = [p \in Provider |-> FALSE]
    /\ handler = [h \in Handlers |-> AtRest]
    /\ session = [c \in Contacts |-> 0] /\ started = [c \in Contacts |-> 0]
    /\ jobs = [k \in JobKind \X Contacts |-> 0]
    /\ sync = [w \in SyncSlots |-> FreeSlot]
    /\ people = [c \in Contacts |-> 0] /\ talks = [c \in Contacts |-> {}]
    /\ hooks = 0 /\ saver = [v \in Savers |-> "idle"]
    /\ events = 0 /\ losses = 0

Lost == losses < MaxLosses /\ losses' = losses + 1

-----------------------------------------------------------------------------
(* dispatchIntegrations, callTypebot and dispatchIntegrationsStatus          *)

HandlerAt(h, l) == handler[h].pc = l
HandlerGoes(h, l) == handler' = [handler EXCEPT ![h].pc = l]

\* A message event, of a contact or of the account itself: only a text goes to
\* Typebot, everything goes to Chatwoot.
MessageDispatched(h) ==
    /\ HandlerAt(h, "idle")
    /\ events < MaxEvents /\ events' = events + 1
    /\ \E c \in Contacts, l \in {"lookup", "queue"} :
         handler' = [handler EXCEPT ![h] = [AtRest EXCEPT !.pc = l, !.contact = c]]
    /\ UNCHANGED <<enabled, session, started, jobs, sync, remoteVars, saveVars, losses>>

\* Mutant: the stored session is not looked for.
LookAway(h) ==
    /\ HandlerAt(h, "lookup")
    /\ IF enabled["typebot"]
       THEN handler' = [handler EXCEPT ![h].pc = "call", ![h].had = 0]
       ELSE HandlerGoes(h, "queue")
    /\ UNCHANGED <<enabled, session, started, jobs, sync, remoteVars, saveVars, events, losses>>

LookSession(h) ==
    /\ HandlerAt(h, "lookup")
    /\ IF enabled["typebot"]
       THEN handler' = [handler EXCEPT ![h].pc = "call", ![h].had = session[handler[h].contact]]
       ELSE HandlerGoes(h, "queue")
    /\ UNCHANGED <<enabled, session, started, jobs, sync, remoteVars, saveVars, events, losses>>

\* continueChat with the session that was found, startChat without one.
CallBot(h) ==
    /\ HandlerAt(h, "call")
    /\ LET c == handler[h].contact IN
       \/ /\ handler[h].had = 0
          /\ started' = [started EXCEPT ![c] = @ + 1]
          /\ handler' = [handler EXCEPT ![h].pc = "store", ![h].had = started[c] + 1]
       \/ /\ handler[h].had # 0
          /\ HandlerGoes(h, "store")
          /\ UNCHANGED started
    /\ UNCHANGED <<enabled, session, jobs, sync, remoteVars, saveVars, events, losses>>

\* The upsert keeps the session of whichever call stores last; the replies of
\* the bot are sent after it.
StoreSession(h) ==
    /\ HandlerAt(h, "store")
    /\ session' = [session EXCEPT ![handler[h].contact] = handler[h].had]
    /\ HandlerGoes(h, "queue")
    /\ UNCHANGED <<enabled, started, jobs, sync, remoteVars, saveVars, events, losses>>

\* Typebot, the database or the bridge fails: an 'integration.typebot.failed'
\* event is stored and the message still goes to Chatwoot.
BotFails(h) ==
    /\ HandlerAt(h, "call") \/ HandlerAt(h, "store")
    /\ Lost
    /\ HandlerGoes(h, "queue")
    /\ UNCHANGED <<enabled, session, started, jobs, sync, remoteVars, saveVars, events>>

\* The job is added without looking at the settings, and lost without Redis.
QueueMessage(h) ==
    /\ HandlerAt(h, "queue")
    /\ \/ /\ jobs' = [jobs EXCEPT ![<<"message", handler[h].contact>>] = @ + 1]
          /\ UNCHANGED losses
       \/ Lost /\ UNCHANGED jobs
    /\ handler' = [handler EXCEPT ![h] = AtRest]
    /\ UNCHANGED <<enabled, session, started, sync, remoteVars, saveVars, events>>

\* A receipt 'read' that changed the status of a stored message.
StatusDispatched(c) ==
    /\ events < MaxEvents /\ events' = events + 1
    /\ enabled["chatwoot"]
    /\ \/ /\ jobs' = [jobs EXCEPT ![<<"status", c>>] = @ + 1]
          /\ UNCHANGED losses
       \/ Lost /\ UNCHANGED jobs
    /\ UNCHANGED <<enabled, chatVars, sync, remoteVars, saveVars>>

-----------------------------------------------------------------------------
(* The worker: every job runs processChatwootSync, whatever its name         *)

SyncAt(w, l) == sync[w].pc = l
SyncGoes(w, l) == sync' = [sync EXCEPT ![w].pc = l]

TakeJob(w) ==
    /\ SyncAt(w, "free")
    /\ \E k \in JobKind, c \in Contacts :
         /\ jobs[<<k, c>>] > 0
         /\ jobs' = [jobs EXCEPT ![<<k, c>>] = @ - 1]
         /\ sync' = [sync EXCEPT ![w] = [pc |-> "config", kind |-> k, contact |-> c, person |-> 0]]
    /\ UNCHANGED <<enabled, chatVars, remoteVars, saveVars, events, losses>>

\* A job of a disabled integration completes as skipped.
ReadConfig(w) ==
    /\ SyncAt(w, "config")
    /\ sync' = [sync EXCEPT ![w] = IF enabled["chatwoot"] THEN [@ EXCEPT !.pc = "contact"]
                                   ELSE FreeSlot]
    /\ UNCHANGED <<enabled, jobs, chatVars, remoteVars, saveVars, events, losses>>

\* Of several contacts with the phone, any may come first in the search.
FindContact(w) ==
    /\ SyncAt(w, "contact")
    /\ LET n == people[sync[w].contact] IN
       IF n = 0 THEN SyncGoes(w, "newContact")
       ELSE \E k \in 1..n : sync' = [sync EXCEPT ![w].pc = "talk", ![w].person = k]
    /\ UNCHANGED <<enabled, jobs, chatVars, remoteVars, saveVars, events, losses>>

CreateContact(w) ==
    /\ SyncAt(w, "newContact")
    /\ people' = [people EXCEPT ![sync[w].contact] = @ + 1]
    /\ sync' = [sync EXCEPT ![w].pc = "talk", ![w].person = people[sync[w].contact] + 1]
    /\ UNCHANGED <<enabled, jobs, chatVars, talks, saveVars, events, losses>>

LookForConversation(w) ==
    /\ SyncAt(w, "talk")
    /\ SyncGoes(w, IF sync[w].person \in talks[sync[w].contact] THEN "post" ELSE "newTalk")
    /\ UNCHANGED <<enabled, jobs, chatVars, remoteVars, saveVars, events, losses>>

CreateConversation(w) ==
    /\ SyncAt(w, "newTalk")
    /\ talks' = [talks EXCEPT ![sync[w].contact] = @ \cup {sync[w].person}]
    /\ SyncGoes(w, "post")
    /\ UNCHANGED <<enabled, jobs, chatVars, people, saveVars, events, losses>>

\* The data of a status job holds no text and no media: nothing is posted.
PostMessage(w) ==
    /\ SyncAt(w, "post")
    /\ SyncGoes(w, "link")
    /\ UNCHANGED <<enabled, jobs, chatVars, remoteVars, saveVars, events, losses>>

\* The row in integration_sessions is written and never read.
SyncEnds(w) ==
    /\ SyncAt(w, "link")
    /\ sync' = [sync EXCEPT ![w] = FreeSlot]
    /\ UNCHANGED <<enabled, jobs, chatVars, remoteVars, saveVars, events, losses>>

\* The queue has no options of its own: a job has one attempt.
SyncFails(w) ==
    /\ ~SyncAt(w, "free")
    /\ Lost
    /\ sync' = [sync EXCEPT ![w] = FreeSlot]
    /\ UNCHANGED <<enabled, jobs, chatVars, remoteVars, saveVars, events>>

\* The worker dies: BullMQ finds the job stalled and starts it again.
SyncStalls(w) ==
    /\ ~SyncAt(w, "free")
    /\ Lost
    /\ jobs' = [jobs EXCEPT ![<<sync[w].kind, sync[w].contact>>] = @ + 1]
    /\ sync' = [sync EXCEPT ![w] = FreeSlot]
    /\ UNCHANGED <<enabled, chatVars, remoteVars, saveVars, events>>

-----------------------------------------------------------------------------
(* Saving the settings                                                       *)

Saves(v, p, on, then) ==
    /\ saver[v] = "idle"
    /\ events < MaxEvents /\ events' = events + 1
    /\ enabled' = [enabled EXCEPT ![p] = on]
    /\ saver' = [saver EXCEPT ![v] = then]
    /\ UNCHANGED <<jobs, sync, chatVars, remoteVars, hooks, losses>>

\* The panel goes on to register the webhook when it switches Chatwoot on and
\* names the inbox, /chatwoot/config whenever it switches Chatwoot on, the v1
\* API never.
SaveSettings(v, p, on) ==
    \E then \in {"idle", "list"} :
      (then = "list" => p = "chatwoot" /\ on) /\ Saves(v, p, on, then)
SaveChatwootConfig(v, on) == Saves(v, "chatwoot", on, IF on THEN "list" ELSE "idle")
SaveV1Settings(v, p, on) == Saves(v, p, on, "idle")

\* A list that cannot be read counts as an empty one.
ListHooks(v) ==
    /\ saver[v] = "list"
    /\ \/ /\ saver' = [saver EXCEPT ![v] = IF hooks > 0 THEN "idle" ELSE "register"]
          /\ UNCHANGED losses
       \/ Lost /\ saver' = [saver EXCEPT ![v] = "register"]
    /\ UNCHANGED <<enabled, jobs, sync, chatVars, remoteVars, hooks, events>>

RegisterHook(v) ==
    /\ saver[v] = "register"
    /\ \/ hooks' = hooks + 1 /\ UNCHANGED losses
       \/ Lost /\ UNCHANGED hooks
    /\ saver' = [saver EXCEPT ![v] = "idle"]
    /\ UNCHANGED <<enabled, jobs, sync, chatVars, remoteVars, events>>

IntegrationsNext ==
    \/ \E h \in Handlers :
         \/ MessageDispatched(h) \/ LookSession(h) \/ CallBot(h)
         \/ StoreSession(h) \/ BotFails(h) \/ QueueMessage(h)
    \/ \E c \in Contacts : StatusDispatched(c)
    \/ \E w \in SyncSlots :
         \/ TakeJob(w) \/ ReadConfig(w) \/ FindContact(w) \/ CreateContact(w)
         \/ LookForConversation(w) \/ CreateConversation(w) \/ PostMessage(w)
         \/ SyncEnds(w) \/ SyncFails(w) \/ SyncStalls(w)
    \/ \E v \in Savers :
         \/ \E p \in Provider, on \in BOOLEAN : SaveSettings(v, p, on) \/ SaveV1Settings(v, p, on)
         \/ \E on \in BOOLEAN : SaveChatwootConfig(v, on)
         \/ ListHooks(v) \/ RegisterHook(v)

IntegrationsSpec == IntegrationsInit /\ [][IntegrationsNext]_integrationVars

-----------------------------------------------------------------------------
\* Nothing that is looked up first and created later is created without bound:
\* a contact appears in Chatwoot once for each job the worker runs at a time,
\* a Typebot chat is started once for each message under way and each session
\* that was not stored, and the webhook is registered once for each save under
\* way and each list that could not be read (every agent reply is posted to
\* every registration).
CreatedBounded ==
    /\ \A c \in Contacts : people[c] <= Cardinality(SyncSlots)
    /\ \A c \in Contacts : started[c] <= Cardinality(Handlers) + losses
    /\ hooks <= Cardinality(Savers) + losses
=============================================================================
