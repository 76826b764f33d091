# WooAPI in TLA+

WooAPI is a WhatsApp gateway: an Express server (`src/server.ts`), workers
behind BullMQ queues (`src/src/workers/`), Go bridges that hold the WhatsApp
sessions (`src/go-bridge/`, `src/engine-v2/`), a bridge process for another
engine (`src/src/engines/wozapi-v2-bridge.ts`), a web panel (`src/src/App.tsx`)
and a database that is PostgreSQL or SQLite. Nothing in it is a transaction:
every handler is a chain of awaited statements on rows that others write too.
This directory models the parts where several actors meet on the same rows,
model-checks the models on small instances, and proves the safety properties
that matter most for every size.

Contents: 1 the system, 2 the modules, 3 the runs, 4 fairness, 5 what is
proved, 6 bounds and assumptions, 7 what is left out, 8 what remains to be done.

## 1. The system

| Component | State it keeps | Hard because | Correct if | Modules |
|---|---|---|---|---|
| Bulk campaigns (`server.ts` 5923–5978, 6970–7219) | `campaigns`, `campaign_recipients` | start, pause, cancel, patch and receipts are chains of statements on rows that the worker writes too | stopping is prompt; nobody gets a message twice without a reason; the report is true; a campaign ends or says why not | `Campaign`, `SendGate` |
| Message worker (`message.worker.ts`) | `instanceSendChains` in memory, jobs in Redis | lost answers, stalled jobs, a status read long before the send | one message at a time for each instance, in order; bounded repetition | `Campaign`, `SendChain`, `SendMutex` |
| Campaigns on the database driver (`server.ts` 7124–7181) | the same rows, `databaseCampaignBusy` | the poll is a second writer; a restart loses it | as above, without a queue | `DatabaseCampaign`, `SendGate` |
| Webhook delivery (`server.ts` 913–989, 7601–7610; `webhook.worker.ts`) | `webhook_events`, `webhook_delivery_logs`, jobs | adds race the worker, whose writes nobody awaits; Redis fails | no invented delivery, bounded posts, one job per request, outcomes are final, events conclude | `WebhookDelivery` |
| Webhook targets (`server.ts` 4975–5053, 6111–6282; n8n trigger) | `webhooks`, URLs of the instance and the installation | an edit writes back every column it read | a target that is off gets nothing | `Targets` |
| Bridge events and instance status (`server.ts` 7290–7428, `orchestrator.ts`, `monitor.worker.ts`) | the `instances` row, `core_nodes` | events are separate requests; decisions are made on rows read earlier | 'open' names a phone; row and bridge come to agree; a draining node takes on no more | `InstanceStatus`, `Nodes` |
| Engine v2 sessions (`wozapi-v2-bridge.ts`) | the upstream session | every call ensures the session first | a session that was logged out stays so | `WozapiBridge` |
| Traffic control and reputation (`platform/`) | `traffic_buckets`, scores | read, decide, write without a transaction | limits are exceeded by a bounded number; a block is deserved | `TrafficControl`, `Reputation` |
| Rate limits and quotas (`rate-limit.ts`, `server.ts`) | windows in memory; counts of rows | a plan's limit is read first; counts precede inserts | bursts and overruns are bounded | `RateLimit`, `Quota`, `Limits` |
| Inbox, leads, CRM and agents (`server.ts` 2332–3170, 5172–5395, 7429–7541) | conversations, messages, groups | messages are looked up before they are stored, and sent before they are stored | one row per message; stored is what was sent; moderation is deserved | `Inbox`, `DirectSend`, `Groups` |
| Alerts, monitor, clean-up (`alert.worker.ts`, `monitor.worker.ts`, `server.ts` 4118–4278) | alerts, tickets | looked for in one statement, created in another | duplicates are bounded | `Support`, `Tickets`, `Retention` |
| Chatwoot and integrations (`chatwoot.worker.ts`, `server.ts` 3199–3288, 5065–5102) | contacts and sessions in other services | looked for there, created later | creations are bounded | `Integrations` |
| Billing and trials (`billing.ts`, `server.ts` 1309–1523, 4630–4734) | accounts, plans | the sweep deletes accounts from a list while payments change them; a start is cut off | who paid is kept; trials conclude; plans in use exist | `Accounts`, `Plans` |
| Accounts, authentication, administration (`server.ts` 1778–1796, 3541–3603, 4500–4627) | accounts, users, referrals | registrations without a transaction | one credit per account | `Signup`, `Accounts`, `Plans`, `Quota` |
| Data protection and retention (`server.ts` 7713–7824, `cleanup.worker.ts`) | consents, policies | grants race revokes; deletions by several criteria | a revoke holds; only what is old is deleted | `Consent`, `Retention` |
| Live streams (`server.ts` 1531–1603, 2997–3015) | Sets of sockets and pages | one failure is handled twice | an open stream is sent its events | `Streams` |
| Web panel (`App.tsx`) | what is shown | answers overtake each other and outlive the selection | what is shown is true, or asked for | `PanelChat`, `PanelViews`, `PanelDialog` |
| Go bridge sessions (`go-bridge/main.go`) | `clients`, `connecting`, `lastQR` | – | – | external actions of `InstanceStatus` |
| Go bridge message cache, database adapter, event envelope, MCP server and n8n nodes, documentation and deployment | – | – | – | not modelled (section 7) |

`PROJECT.json` lists the same components with their sources, and 40 hazards,
each at its line with the properties that would catch it.

**How they interact.** The server and the workers share the database and Redis.
A start request *adds* jobs; BullMQ hands them to the message worker, which asks
the bridge over HTTP to send and then updates the recipient's row; WhatsApp's
receipts come back from the bridge as HTTP requests to the server, which update
the same row by message id. The message worker emits webhook events by adds it
does not await; the webhook worker posts them and updates their rows without
awaiting that either. The bridge posts events about sessions; server, monitor,
orchestrator and workers all write the status they take from them. The panel
learns of everything by fetches, socket events and a poll. Each awaited call is
a step of its own in the models, and everything else may run in between.

## 2. The modules

Every module begins with a comment that says what it is about; every property
is preceded by what it says of the code. A definition preceded by `Mutant:` is a
plausible bug, used to see that a property notices it. `CONSTANTS` are the actors
(requests, workers, administrators), the rows they meet on, and bounds on what
they may do, each named and commented in its module.

| Module | Models | State and steps |
|---|---|---|
| `Campaign` | one campaign under `QUEUE_DRIVER=bullmq` | `calls[c]` is a request with a program counter, `jobs[j]` a job, `worker[i]` the `sendMessage` that holds instance `i`'s chain, `sent` WhatsApp's own list. `Start*`, `Pause*`, `Cancel*`, `AddInsert`, `PatchWrite` are the awaits of the handlers in order; `Admit`, `CheckStatus`, `Drop`, `Send`, `Record`, `Recount`, `Retry`, `Fail` those of the worker; `Receipt*` the receipts; `Crash` the worker's death, `Abort` and `AwaitFails` rejected awaits |
| `SendGate` | what stopping promises: an open gate admits instances, an admitted one may emit once, even after closing | abstract; implemented by `Campaign` and `DatabaseCampaign` |
| `SendChain` | `sendMessagePerInstance`: the promise chain of each instance | `last[i]` is the entry of `instanceSendChains`, `task[t].prev` what a task awaits; `Arrive`, `Begin`, `Finish` |
| `SendMutex` | one sender for each instance | abstract; implemented by `SendChain`, assumed by `Campaign` |
| `DatabaseCampaign` | the same campaign with the one-second poll | `poll` is the tick between its `SELECT` and its last `UPDATE`; `TickFails`, `Crash` |
| `WebhookDelivery` | event rows, threads that enqueue, the sweep, jobs, statements under way | `thread[x]` is a call of `enqueueWebhookDeliveryByEventId`, `writes` the statements issued and not awaited; `Land`, `Rejected` |
| `InstanceStatus` | the row of one instance and everyone who writes it | handlers that ask the bridge and store the answer later; the session is external |
| `Nodes` | placement of instances on core nodes, heartbeats, draining | a placement chooses by a row and writes later |
| `TrafficControl` | the buckets of `canSendMessage` | each caller reads and writes each bucket in two statements |
| `Reputation` | the scores and the blocks decided on them | scores computed once and read for ever |
| `RateLimit` | windows in the server's memory | requests pass the middlewares of their route one by one |
| `Quota`, `Limits` | a reseller's instances; a plan's leads, agents, campaigns | count, compare, insert |
| `Streams` | sockets and pages of one instance | `error` and `close` of a client both remove it |
| `Support`, `Tickets` | alerts and tickets | a `SELECT`, then an `INSERT` |
| `Retention`, `Consent` | deletion by policy; grants, revokes, anonymisation | one statement after the other, each may be rejected |
| `Integrations` | Typebot, Chatwoot and its webhook | look up in another service, create later |
| `Accounts`, `Plans` | trials, payments, sweeps, edits; the plans each start rewrites | a start is a list of statements that may end anywhere |
| `Inbox` | conversations and messages of one chat | every call looks first and writes later |
| `DirectSend` | endpoints that send before they store | refusals, lost answers, the text sent instead, later edits and deletions |
| `Groups` | one group: its copy and its moderation | a message may be posted again, and two posts may both store it; each then moderates it, in a handler nobody awaits, with rules edited under it |
| `Signup` | registrations and who is credited | a rejected statement ends the process |
| `Targets` | where events go | three kinds of target, read one after the other |
| `PanelChat`, `PanelViews`, `PanelDialog` | bubbles, lists, the QR dialog | clicks, answers, socket events, polls |
| `WozapiBridge` | the bridge to the other engine | `ensureSession` before every request |
| `MC*` | values for the constants | see section 3 |
| `*_proofs` | theorems and their proofs | see section 5 |

A request of the panel and of the compatible `/sender` endpoints differ only in
their checks (`MayStart`, `Editable`). Counts that the code keeps beside the
state (`late`, `marks`, `passes`, `overlapped`, `asked`, `left`, ...) are history
variables; their declarations say so.

## 3. The runs

`CHECK_DEADLOCK FALSE` everywhere: requests, receipts, events and jobs are
one-shot, and the system is at rest when they are served.

| Run | Question | Distinct states |
|---|---|---|
| `campaign_restart` | what a pause or cancellation lets out, and whether reports name the right recipient's message, while a campaign is started twice, extended and moved to another instance | 1 669 629 |
| `campaign_once` | for a campaign started once, with delays of any length: one message each, no silent stall, a cancellation drains | 582 841 |
| `campaign_failing` | how often one job repeats its message when every await may fail and the worker dies | 28 188 |
| `campaign_cancelled` | does a cancelled campaign stay stopped? **No** (finding) | – |
| `polls` | what a poll drives: the database driver under failing calls and a restart; the row of an instance while the panel asks for its status | 228 094 |
| `webhook_asked` | one job for each request and outcomes that stay, with a sweep, a retry and an outage of Redis | 1 731 567 |
| `webhook_faults` | true deliveries and bounded posts with all faults at once | 1 113 396 |
| `webhook_logged` | does every attempt leave a line? **No** (finding) | – |
| `lifecycles` | does what was begun end: webhook events, trials, jobs on a chain | 24 388 |
| `services` | what overlapping requests do to counts, duplicates and switches | 830 939 |
| `platform` | whether actors who act on what others said record, remove, block or show what did not happen | 943 561 |
| `data_retention` | is only what is old deleted? **No** (finding) | – |

Each run takes between three seconds and three minutes.

**Several components in one run.** `MCPolls`, `MCLifecycles`, `MCServices` and
`MCPlatform` hold two, three, thirteen and nine components. They share no
variable, so letting them interleave would only multiply their states: the variable `moving` chooses one of
them at the start, that one takes all the steps of the behaviour, and the others
rest at their initial state. A behaviour of a component alone is a behaviour of
the run and the other way round; a property of one component is checked on
exactly its own behaviours. `Groups` moves twice, once for its copy and once for
its moderation, which share only the handlers' code.

### What each property says

*Campaigns.* `ImplementsGate`: pausing or cancelling lets out
at most the message each instance had already committed to (the status is read
at `message.worker.ts:197`), however requests overlap; the database driver keeps
the same promise with its single tick. `ReportsAreTrue`: a recipient shown as
sent, delivered or read carries the id of a message WhatsApp accepted for *that*
recipient. `AtMostOnce`: started once and with no failing call, nobody is sent two
messages. `StuckHasReason`: a quiet campaign that says `running` shows a failed,
pending or cancelled recipient, or a job came *early*: its delay did not outlast the
start request, whose `queued` or `running` then overwrote what the worker had
written. `RetriesBoundSends`: a job repeats its message at
most `Attempts` times and once more for each crash. `RepeatsNeedStarts`: on the
database driver no failure repeats a message. `CancelDrains`, `QueueDrains`: a
lasting cancellation leaves nobody queued but recipients of early jobs; a running
database campaign serves everybody.

*Message worker.* `ImplementsMutex`, `EveryoneSends`: the chain of an instance is a
mutex in which every job has its turn.

*Webhooks.* `DeliveredIsTrue`, `PostsBounded`: no fault invents a delivery or
repeats one without bound. `OneJobPerRequest`: one job for each time somebody
asked. `FinalIsFinal`: an outcome is taken back by nothing but the `UPDATE` (`server.ts:955`)
of the call that added the job, which comes late where the worker is faster. `EventsConclude`: an outage
only delays. `OffMeansOff`: a target switched off or deleted gets nothing queued
by a later dispatch, test or retry.

*Counting.* `CountBounded` (traffic buckets), `RateHeld` (requests for one key in
any stretch of time as long as a window, on `platform`), `LimitsBounded` (plan
limits), `CreatedBounded` (contacts, chats and registrations in other services),
`DrainHolds` (a draining node): whatever is looked up in one statement and written
in another is exceeded by less than the number of callers, or by one batch for
each. `QuotaOverrun`: a reseller's instances and what it granted to its clients
exceed its quota by less than one grant *and* one instance for each request under
way. The obvious bound, one grant for each request after the first, is false:
of three requests with grants of one, an instance counted before two others were
inserted passes once a client is lowered, and an edit that had read the client
before restores it. Two requests never show it; the attempt to prove the
bound did, and TLC confirmed it with three.

*One of each.* `StoredOnce`: a message has one row unless the calls that store it
overlapped. `StatusAdvances`: receipts come in any order and repeated, and the
status of a message never goes back, unless two calls held its row at once.
`CreditedOnce`: a partner is credited once for an account.
`ConsentHolds`: after a revoke nobody's consent is current until it is granted.

*Status and sessions.* `OpenHasIdentity`: a row that says 'open' names a phone or
jid. `PollSettles`: while the panel polls, row and bridge come to agree.
`LogoutLasts`: a session that was logged out does not run again until somebody
connects. `StreamsLast`: an open stream is among those that events go to, unless a
failed client took away the entry of those who came after it (the code removes a
socket on `error` and again on `close`; the property states that case as its
exception).

*What is told is true.* `AnswersAreTrue` (a request answered with success reached
the contact in the form that is stored), `SentIsTrue` (bubbles of the panel),
`DialogTrue` (the QR dialog), `ViewFollows` (the lists), `RemovalDeserved` (nobody
is warned, loses a message or is removed from a group before as many of their own
messages as the rule's threshold violated it, and a rule that deletes or removes is
the last to act on a message unless one of its calls failed; a message that two
overlapping posts stored counts twice, which is its stated exception), `BlockDeserved` (no instance is blocked without a bad node or its own
failures), `UpgradedKept` (no sweep deletes an account that left its trial before
the sweep), `TrialsConclude`, `PlansKept` (the plan of an account exists, a start
takes it away only for a retired name, and there is one owner).

Each property has a mutant that breaks it under its run's own `.cfg`.
`AtMostOneLateSend` (what `ImplementsGate` comes to for one instance), `ConnectStarts`
(a connect call answered undisturbed leaves the session running), `InOrder`,
`EntryMeansWork`, `LoggedOnce`, `TicketsBounded`, `DuplicatesBounded`,
`WindowOverrun` and the `ReportsAreTrue` of `DatabaseCampaign` are in no run: they are proved for
every size (section 5).

### Findings

* `CancelledStaysStopped`: the panel's start endpoint refuses a cancelled campaign
  (`server.ts:7187`), but `enqueueCampaign` ends by writing `running`
  unconditionally, over a cancellation that completed meanwhile, and
  `POST /sender/:id/start` does not look at the status.
* `EveryAttemptLogged`: `docs/wooapi-webhooks.md:97` promises a log line for each
  attempt; `logAttempt` is neither awaited nor caught, so a rejected `INSERT` loses
  the line.
* `OnlyOldDeleted`: `docs/security-lgpd-audit.md:354` says that the retention
  scheduler deletes old messages; in the statement at `server.ts:7810` `AND` binds
  before `OR`, and a policy without an instance deletes every message of the
  account.

Weaknesses that no document contradicts are notes on the hazards, or visible in
the models: on the database driver a restart leaves a recipient `processing` for
ever; an event whose unawaited add was rejected stays `pending`; an `UPDATE` after
the add may overwrite the outcome of a fast worker; with a short delay the start of
a campaign may overwrite the worker's `sent` with `queued` and its `completed` with
`running`; a redelivered message whose posts overlap is moderated twice, so that
its author may be removed a message early; two overlapping sweeps enqueue
an event twice; when the last recipient of a campaign fails, it stays `running`;
nothing limits the team (`POST /api/team` counts users and inserts into
`team_members`, 7235); `POST /crm/lead` (5860) and `POST /sender/create` (5908)
insert leads and campaigns without looking at the plan, so that the number of
either is bounded by nothing and `LimitsBounded` speaks of the other rows; every start of the server rewrites prices and limits that
an administrator edited on the default plans; anonymisation that fails midway
leaves its request `processing`; two edits of a webhook at a time switch a target
on again; a receipt that comes before its row is stored is dropped.

## 4. Fairness

Node runs every continuation whose promise is settled, so each handler that has
begun, each receipt after its first step, each worker step and each issued
statement is weakly fair. BullMQ hands out jobs while there is a slot: `PickUp`
and `Enter` are weakly fair, and so are `Begin` and `Finish` of a chain. `Poll`, the
sweeps and `Elapse` are timers. Strong fairness is assumed where a step may be
refused again and again but not for ever: `Add` to Redis (`EventsConclude`), the
`Claim` of a row (`QueueDrains`), `DeleteAccount` (`TrialsConclude`: a
sweep may fail, but not always before it comes to the same account), and `AskStatus` of the panel's poll
(`PollSettles`: the bridge answers now and then). Nothing is owed by requests that
have not arrived, by failures, crashes, `Abort`, administrators, customers or
WhatsApp. `PollSettles` assumes nobody but the poll: of the handlers in
`InstanceStatus` only the panel's are fair. The components of `services` and
`platform` are checked for safety only.

## 5. What is proved

TLAPS proves the theorems below for every value of the constants that satisfies
the modules' assumptions (`CampaignAssumption` and so on: identifiers are
ordered, bounds are natural numbers, sets of actors are finite where they are
counted). Each proof names an inductive invariant, shows that `Init` implies it
and that every action keeps it (one step for each action), and concludes. None
of the properties is inductive as it stands: each says something of what is
stored or sent, and nothing of what a handler holds between two awaits. The
strengthenings say exactly that.

| Theorems | Module | Inductive invariant, and why it is needed |
|---|---|---|
| `Types` | `Campaign_proofs` | `TypeInv`: a worker that is not idle holds a job that was added, so that its recipient means something |
| `StopIsPrompt`, `CampaignImplementsGate` | `Campaign_proofs` | `LateInv`: while the campaign is stopped, an instance that has been late is not about to send. Every action is quiet, switching, committing or sending, and only the check commits |
| `TrueReports` | `Campaign_proofs` | `ReportsInv`: a worker about to record holds its own message (`RecordsOwn`), a receipt about to be marked found a stored id (`MarksKnown`) |
| `BoundedRepeats` | `Campaign_proofs` | `RetriesInv`: each finished attempt and each crash pays for one message, the running attempt for one more |
| `NoSecondMessage` | `Campaign_proofs` | `OnceInv`: one request may still start, what it has listed is fresh, a recipient has one job, and that job one message. Assumes `StartedOnce`: one start request, no failing await and no crash – with two starts or a repeated attempt the code does send twice |
| `StuckIsExplained` | `Campaign_proofs` | `StuckInv`: until the start is done only early jobs touch rows or WhatsApp, and a job that is over without having been early was taken out by a pause or cancellation; queued recipients have a waiting job or an early one; an attempt knows its recipient; a running campaign shows a reason or somebody is busy. Assumes `StartedOnce` and nothing about delays |
| `DatabaseTypes`, `DatabaseTrueReports`, `MessagesNeedStarts`, `DatabaseImplementsGate` | `DatabaseCampaign_proofs` | `PaidInv`: a mark pays for the message sent, the one the tick may still send, or the one a queued row may lead to; the tick that has not claimed its row shares a mark with it |
| `MessagesInOrder`, `MapIsExact`, `ChainImplementsMutex` | `Lifecycles_proofs` | `ChainInv`: ranks follow arrival, a waiting task's predecessor is the nearest earlier one of its instance, and the stored entry is the latest |
| `UpgradesKept` | `Lifecycles_proofs` | `UpgradeInv`: an account that left its trial cleanly is `Spared`: no longer a trial, and on no sweep's list |
| `RemovalsDeserved` | `Lifecycles_proofs` | `GroupsInv`: an event is determined by its post and rule, and posts of messages that nobody stored twice are as many messages; what a handler has counted but not yet done anything about is remembered. The finite induction it needs is `UpTo` of `Sums_proofs` |
| `RateHolds` | `Lifecycles_proofs` | `RateInv`: a window with `l` units left was opened `Span - l` units ago by a request that passed; what passed since fits the largest limit, and what passed before it is less than another one. The recursive sum over the past units exists, by the same finite induction |
| `BlocksAreDeserved` | `Lifecycles_proofs` | `ReputationInv`: a low score, stored or in a call's hands, comes from a phone that is remembered as failing, the account's score is never below 40, and a call that decides knows all three scores. The formulas are bounded one by one (`PhoneScoreIs`, `TenantScoreIs`): what is taken off without a third of failures leaves 40 |
| `DeliveriesAreTrue`, `BoundedPosts`, `NoDoubleLog` | `WebhookDelivery_proofs` | `DeliveryInv`: every statement under way that reports a delivery is preceded by an acceptance; attempts and crashes account for posts; posts account for log lines written and on their way |
| `OneJobEach` | `WebhookDelivery_proofs` | `ClaimsInv`: jobs, threads about to add and the row if it is up for a sweep together are paid for by those who asked. Assumes `Undisturbed`: one sweep, and no fault but `redis` and `lost`; two sweeps, an `UPDATE` that rejects or a crash do lead to a second job |
| `OutcomesStay` | `WebhookDelivery_proofs` | `FinalInv`: an event asked for once has one job and that job one statement about the row under way, and the statement that settles the outcome is the last. Assumes `Undisturbed`; that the enqueuer's `UPDATE` may overwrite a fast worker's outcome is part of the statement (`EndsMarking`) |
| `FewTickets`, `FewAlerts` | `Bounds_proofs` | `TicketsInv`, `SupportInv`: whoever is about to insert counts as if it had |
| `LimitsHold` | `Bounds_proofs` | `LimitsInv`: every request that was let through reserves what it has left to insert; all but the last to be let through fit beside the limit |
| `CountsBounded` | `Bounds_proofs` | `TrafficInv`: a caller about to count has been counted, and one not yet decided has room |
| `WindowsHold` | `Bounds_proofs` | `WindowInv`: `passes` is bounded by what the callers that may still open the window again have left to pay for: with `m` of them, a window of limit `l` and the callers that overrun it stay below `Twice(l, n) - Twice(l, m)` |
| `DrainsHold` | `Bounds_proofs` | `DrainInv`: a caller that has chosen the node counts as if it had placed |
| `CreationsBounded` | `Bounds_proofs` | `CreationsInv`: who is about to create counts as if it had created; a chat that was started and not yet stored stands for the missing session; a lost answer pays for what it leaves behind |
| `QuotaHolds` | `Bounds_proofs` | `QuotaInv`: there is a history of the counts (who counted before whom) and a level for each client that no edit under way can exceed. Levels, instances about to be inserted and a grant for each request whose count is older than the last one let through stay within the bound; a younger count is wrong by at most one instance for each request ahead of it. That `MapThenSumSet` adds up what it should is proved by a finite induction (`Taking`) |
| `OneCredit` | `Services_proofs` | `SignupInv`: who is about to insert a commission inserted the referral, alone, and there is none yet |
| `ConsentIsRight` | `Services_proofs` | `ConsentInv`: an insert that a revoke may have overlapped is remembered |
| `SilentTargets` | `Services_proofs` | `TargetsInv`: a dispatch under way does not hold the targets that were silent when it began; edits under way are of live targets |
| `OneRowEach` | `Services_proofs` | `StoredInv`: of a message nobody overlapped, there is a row or one call about to store it |
| `StatusNeverBack` | `Services_proofs` | `AdvanceInv`: while a receipt is about to mark a row, the row fits and nobody else touches it, or it is remembered as raced for; one sender has a row; a call that records a message writes it over another |
| `NoReturn` | `Services_proofs` | `LogoutInv`: a connect call being served is wanted, and only connect calls start a session |
| `AnsweredConnectRuns` | `Services_proofs` | `ConnectInv`: a connect call that nothing disturbed and that has started the session finds it running, has a session in place before it starts it, and is not past its first `ensureSession` before |
| `ViewsFollow` | `Services_proofs` | `ViewInv`: a load that is due was asked for late enough |
| `SentHeld` | `Services_proofs` | `PanelInv`: whatever says 'sent' – bubbles, events on the wire, answers to fetches – is about a row with the provider's id, and a row keeps its id |
| `OpenIsIdentified` | `Platform_proofs` | `IdentityInv`: an orchestrator about to store has not been told 'open' |
| `EventsReach` | `Platform_proofs` | `StreamsInv`: a client is in the Set its handlers hold, and that is the Set of the map while nothing tangled it |
| `SuccessIsTrue` | `Platform_proofs` | `DirectInv`: what an order is about to store reached the contact in that form; every echo, row, edit and deletion is of a form that did |
| `DialogIsTrue` | `Platform_proofs` | `DialogInv`: every frame in the socket, in a poll's answer or scheduled for later holds a code of its own instance |
| `PlansStay` | `Platform_proofs` | `PlansInv`: what a start has left to do is plain steps, or the move and the deletion of a retired plan just found; no administrator's request runs meanwhile, and one under way names a plan that exists |

The refinements (`CampaignImplementsGate`, `DatabaseImplementsGate`,
`ChainImplementsMutex`) follow from the same invariants: the initial states map
to initial states, and every step to a step of the abstract module or a stutter.

`Sums_proofs` holds what several of them share. The library's induction theorems
take an operator as a parameter, which the provers cannot instantiate; what takes
their place is `UpTo` (a set of numbers up to `n` that holds 0 and is closed under
the successor holds `n`, by counting), and from it that sums over finite sets exist,
grow with their terms, and are what the folds of the community modules compute
(`Taking`, `FoldExists`, `MapSumIs`, `FoldSumIs`).

**Only model-checked.** Liveness under fairness: `CancelDrains`, `QueueDrains`,
`EveryoneSends`, `EventsConclude`, `TrialsConclude`, `PollSettles`. The prover has no
`ENABLED`, so a weak or strong fairness condition cannot be used in a proof. Every
invariant and every action property of the passing runs is stated by a theorem.
What the three runs that expect a violation show is a counterexample, found by TLC.

## 6. Bounds and assumptions

**Why the bounds are enough to be interesting.** Every race in the code is between
two or three parties about one row, so the instances have one or two rows and at
least two parties of each kind that can race. What grows beyond them is the
subject of the proofs; what the bounds rest on, run by run:

* *Campaigns.* Two instances are needed for "one message *per instance*" after a
  stop and for `PATCH` moving a campaign, and two recipients for one's message to be
  attached to the other: `campaign_restart` and `campaign_once` have two, one of them
  added while the campaign is under way. Free jobs are alike: the runs of safety
  interchange them (`SYMMETRY`), `campaign_once` takes the first free one
  (`FirstFree`), because symmetry would be unsound for `CancelDrains`. Two jobs for one recipient, three
  attempts so that one is neither first nor last, one crash, which is BullMQ's
  default `maxStalledCount`: a job that stalls twice is failed by BullMQ itself.
* *`webhook_asked`.* One event of the server, one of the message worker, one manual
  retry, one sweep, and Redis rejecting as often as it likes; the enqueuer's `UPDATE` may
  come before or after the worker's outcome. `Limit` 1 stands for `LIMIT 25`.
* *`lifecycles`.* Two events (one of them the server's) and a Redis outage, with
  `MarkFirst`: the enqueuer's `UPDATE` comes before the worker's outcome, because a
  row that is marked late says `pending` for ever (a hazard) and `EventsConclude`
  speaks of the others; one
  account, two overlapping clean-ups, two starts of the server; three jobs on two
  instances, so that an arrival falls between a release and a delete.
* *`services`.* Two callers of each kind, three for the traffic buckets and the
  registrations. `Total` = 1 is the reseller's quota, `MaxHosted` = 2 with one node
  of `Capacity` 1 lets the node be overfull, `Savers` has one element (the other parties
  of `Integrations` are pairs), `MaxBatch` = 2 leads per import, `MaxTickets` = 3 and
  `MaxTeam` = 2 end growth that nothing in the code ends, `CleanupDays` = 1 and
  `MaxDay` = 2 make a day that is old and one that is not.
* *`polls`.* For the campaign two recipients, one of them added meanwhile, three
  requests, failing calls and one restart; for the status one caller besides the
  panel and the monitor, who may ask for any route, and one change of the session
  nobody asked for.
* *`platform`.* One order; two messages of the same text, and `MaxWire` = 2 on
  their way to the panel at a time; two requests to the other engine's bridge; two
  people, two messages and two posts, which may be of one message or of both, and
  rules that warn, delete and remove at the second violation;
  three starts of the server with one retired plan; two devices, one of which is
  created under the dialog; one line whose volume is bad on one day; two keys of
  `RateLimit` stand for its six labels, because the windows of different keys never
  meet (`accountRateLimit` is imported by `server.ts` and used by no route); three
  sockets, a page and three Sets, so that a Set can be replaced twice.

**Assumptions about the system.**

* A request the crashed message worker had sent to the bridge finishes or is
  dropped before the restarted worker picks the job up (30 s).
* One message-worker process and one server process: `instanceSendChains`,
  `databaseCampaignBusy`, rate-limit windows and timers are per process. Alert,
  chatwoot and orchestrator jobs run several at a time, as configured.
* Nothing is assumed of the delay a start gives to its jobs: BullMQ may hand one
  out as soon as it is added, as with `min_delay_ms` 0, which
  `PATCH /api/campaigns/:id` accepts. `jobs[j].early` remembers that it did so before
  the start request was done, and `StuckHasReason` and `CancelDrains` name these jobs
  as their exception.
* The instance and the template of a campaign are configured, and the bridge
  returns an id with every message it accepts.
* Webhooks: the reads of the row and its target are merged with the POST; a retry
  starts after its 30 s backoff, when earlier statements of the job have landed.
* Passes of a bucket that were granted because a statement failed are not counted
  by `WindowOverrun`: nothing bounds them.

## 7. What is left out

* `src/db` (translation of SQL): every awaited query is one atomic step. Two of
  its queries are wrong on PostgreSQL and noted at their hazards.
* The maps and locks of the Go bridges: `InstanceStatus` and `WozapiBridge` take
  sessions as external and let them open, close, be logged out and lose events at
  any time. The message cache is one process under one mutex. That
  `handleListSessions` locks its mutex twice is a hazard without a model, which
  would only restate it.
* What is rendered, formatted, signed or encrypted; tokens and passwords; the
  event envelope; the clients of the API (MCP server, n8n nodes but for the
  trigger's webhook registration); documentation and deployment.
* CRUD over single rows: tags, notes, custom fields, templates, creating and
  deleting campaigns; the figures of the health check, invoices, the decision
  log, the export of data. Failover of a whole node, and the reseller's screens.
* `Reputation` leaves out that the node's score is stored, because only lists read
  it. `Retention` and `Accounts` leave out tables nothing else looks at.

## 8. What remains to be done

A failover of a whole node (section 7) is the largest behaviour without a module.
