---------------------------- MODULE InstanceStatus ----------------------------
(***************************************************************************)
(* The status of one WhatsApp instance, written by everyone: the handlers  *)
(* of server.ts, the events the bridge posts, the health check of          *)
(* monitor.worker.ts, the orchestrator and the message worker.  Each asks  *)
(* or looks first and writes the row later; most writes name the row only. *)
(*                                                                         *)
(* Spellings the readers treat alike are one value: qr and qr_pending;     *)
(* connecting and reconnecting; none and created; close, disconnected,     *)
(* error and degraded; the passkey states.                                 *)
(***************************************************************************)
EXTENDS Naturals, FiniteSets

CONSTANTS
    Callers,      \* requests and one-shot jobs, one route each
    Panel,        \* the QR dialog of the panel, which polls
    Monitor,      \* the health check, which repeats
    Routes,       \* what the callers may ask for
    Blank,        \* no snapshot
    MaxChanges    \* bound: changes of the session nobody here asked for

Agents == Callers \cup {Panel, Monitor}

Connects == {"connect", "panelConnect", "freshConnect", "startup"}
Resets == {"reset"}
Logouts == {"panelLogout", "uazDisconnect", "v1Logout", "uazDelete", "startupLogout"}
Passkeys == {"passkeyResponse", "passkeyConfirm"}
Others == {"panelDelete", "sync", "transition", "workerBlock"}
AllRoutes == Connects \cup Resets \cup Logouts \cup Passkeys \cup Others

ASSUME InstanceAssumption ==
    /\ Routes \subseteq AllRoutes
    /\ Panel \notin Callers /\ Monitor \notin Callers /\ Panel # Monitor
    /\ MaxChanges \in Nat

VARIABLES
    row,        \* the instances row; known: it names a phone or a jid
    session,    \* the session the bridge holds
    events,     \* events posted to /api/bridge/event, not yet handled
    job,        \* job[a]: where a is in its handler, and what it read
    snap,       \* the row as the health check read it
    changes     \* bound: changes of the session so far

instanceVars == <<row, session, events, job, snap, changes>>

Statuses == {"none", "connecting", "qr", "expired", "passkey", "open", "connected",
             "close", "paused", "blocked", "banned"}
Sessions == {"none", "connecting", "qr", "open", "close"}
StatusEvents == {"open", "openAgain", "bareOpen", "close", "none", "qr"}
EventKinds == StatusEvents \cup {"qrImage", "passkey", "passkeyError"}
Row == [conn : Statuses, status : Statuses, known : BOOLEAN, gone : BOOLEAN]
Job == [pc : {"idle", "mark", "connect", "answer", "refused", "logout", "write",
              "ask", "store", "judge", "look", "done"},
        route : AllRoutes \cup {"none", "expire", "orphan", "revive"},
        got : Statuses \cup Sessions]

InstanceTypeOK ==
    /\ row \in Row
    /\ session \in Sessions
    /\ events \subseteq EventKinds
    /\ job \in [Agents -> Job]
    /\ snap \in [conn : {"qr", "connecting", "offline"}, known : BOOLEAN] \cup {Blank}
    /\ changes \in 0..MaxChanges

Idle == [pc |-> "idle", route |-> "none", got |-> "none"]

InstanceInit ==
    /\ row \in {[conn |-> c, status |-> c, known |-> c = "open", gone |-> FALSE] :
                  c \in {"none", "open"}}
    /\ session = row.conn
    /\ events = {}
    /\ job = [a \in Agents |-> Idle]
    /\ snap = Blank
    /\ changes = 0

-----------------------------------------------------------------------------
(* Helpers.                                                                *)

Go(a, pc) == job' = [job EXCEPT ![a].pc = pc]
GoWith(a, pc, got) == job' = [job EXCEPT ![a].pc = pc, ![a].got = got]
At(a, pc, routes) == job[a].pc = pc /\ job[a].route \in routes

\* The end of a request, or of one poll.
Finish(a) == job' = [job EXCEPT ![a] = IF a \in Callers THEN [Idle EXCEPT !.pc = "done"]
                                                        ELSE Idle]

Begin(a, route, pc) ==
    /\ job[a].pc = "idle"
    /\ IF a = Panel THEN route = "sync" ELSE a \in Callers /\ route \in Routes
    /\ job' = [job EXCEPT ![a] = [pc |-> pc, route |-> route, got |-> "none"]]
    /\ UNCHANGED <<row, session, events, snap, changes>>

Both(s) == [row EXCEPT !.conn = s, !.status = s]
WriteRow(r) == row' = r /\ UNCHANGED <<session, events, snap, changes>>

\* "open" counts only with an identity in the payload.
StoredStatus(r) == CASE r \in {"open", "openAgain"} -> "open"
                     [] r = "bareOpen" -> "close"
                     [] OTHER -> r

\* Mutant: an open without identity is stored as it came.
TrustOpen(r) == IF r = "bareOpen" THEN [Both("open") EXCEPT !.known = FALSE]
                ELSE [Both(StoredStatus(r)) EXCEPT !.known = (StoredStatus(r) = "open")]

\* What a status event, or the answer to a poll, makes of the row.
Reported(r) == [Both(StoredStatus(r)) EXCEPT !.known = (StoredStatus(r) = "open")]

-----------------------------------------------------------------------------
(* Calls to the bridge.  A call may fail before or after it took effect.   *)

\* Pairing starts when the bridge has no device, or is told to forget it.
SessionsAfter(route) ==
    IF route = "freshConnect" \/ session = "none" THEN {"connecting", "qr"}
    ELSE IF session = "close" THEN {"connecting"} ELSE {session}

AskConnect(a) ==
    /\ a # Monitor /\ job[a].pc = "connect"
    /\ \/ session' \in SessionsAfter(job[a].route) /\ GoWith(a, "answer", session')
       \/ session' \in SessionsAfter(job[a].route) \cup {session} /\ Go(a, "refused")
    /\ UNCHANGED <<row, events, snap, changes>>

\* Everyone who logs out swallows the error.
AskLogout(a) ==
    /\ job[a].pc = "logout"
    /\ session' \in {"none", session}
    /\ Go(a, CASE job[a].route \in Resets -> "mark"
               [] job[a].route = "expire" -> "look"
               [] OTHER -> "write")
    /\ UNCHANGED <<row, events, snap, changes>>

\* A poll revives a stored device that has no client.
AskStatus(a) ==
    /\ At(a, "ask", {"sync"})
    /\ session' \in (IF session = "close" THEN {"close", "open"} ELSE {session})
    /\ GoWith(a, "store", session')
    /\ UNCHANGED <<row, events, snap, changes>>
AskStatusFails(a) ==
    /\ At(a, "ask", {"sync"})
    /\ Finish(a)
    /\ UNCHANGED <<row, session, events, snap, changes>>

-----------------------------------------------------------------------------
(* The handlers of server.ts.                                              *)

Active == ~row.gone

ConnectBegins(a) == \E r \in Connects : Active /\ Begin(a, r, "mark")

\* connectInstance: the row says connecting before the bridge is asked.
MarkConnecting(a) ==
    /\ job[a].pc = "mark"
    /\ row' = IF row.gone THEN row
              ELSE [Both("connecting") EXCEPT !.known = @ /\ job[a].route # "freshConnect"]
    /\ Go(a, "connect")
    /\ UNCHANGED <<session, events, snap, changes>>

\* An answer that is not open leaves the identity in the row.
StoreAnswer(a) ==
    /\ At(a, "answer", Connects \cup Resets)
    /\ WriteRow(IF row.gone THEN row
                ELSE [Both(StoredStatus(job[a].got)) EXCEPT !.known = @ \/ job[a].got = "open"])
    /\ Finish(a)

\* The panel and the startup write what failed; the APIs answer an error.
ConnectFails(a) ==
    /\ At(a, "refused", {"connect", "reset"})
    /\ WriteRow(row) /\ Finish(a)
PanelConnectFails(a) ==
    /\ At(a, "refused", {"panelConnect", "freshConnect"})
    /\ WriteRow(IF row.gone THEN row ELSE Both("close"))
    /\ Finish(a)
StartupConnectFails(a) ==
    /\ At(a, "refused", {"startup"})
    /\ WriteRow(Both("close")) /\ Finish(a)

\* Log out at the bridge, then connect.
ResetBegins(a) == Active /\ Begin(a, "reset", "logout")

\* Log out at the bridge, then write; at startup only what cannot be restored.
LogoutBegins(a) ==
    \E r \in Logouts : /\ Active
                       /\ r = "startupLogout" => (~row.known /\ row.status \in {"connecting", "qr"})
                       /\ Begin(a, r, "logout")

PanelLogout(a) ==
    /\ At(a, "write", {"panelLogout"})
    /\ WriteRow([Both("none") EXCEPT !.known = FALSE]) /\ Finish(a)
UazDisconnect(a) ==
    /\ At(a, "write", {"uazDisconnect"})
    /\ WriteRow(Both("none")) /\ Finish(a)
V1Logout(a) ==
    /\ At(a, "write", {"v1Logout"})
    /\ WriteRow([row EXCEPT !.status = "none"]) /\ Finish(a)
StartupLogout(a) ==
    /\ At(a, "write", {"startupLogout"})
    /\ WriteRow(Both("close")) /\ Finish(a)
UazDelete(a) ==
    /\ At(a, "write", {"uazDelete"})
    /\ WriteRow([Both("close") EXCEPT !.gone = TRUE]) /\ Finish(a)
PanelDeleteBegins(a) == Active /\ Begin(a, "panelDelete", "write")
PanelDelete(a) ==
    /\ At(a, "write", {"panelDelete"})
    /\ WriteRow([Both("close") EXCEPT !.gone = TRUE]) /\ Finish(a)

\* The bridge's answer writes, unless the call fails.
PasskeyBegins(a) == \E r \in Passkeys : Active /\ Begin(a, r, "ask")
PasskeySent(a) ==
    /\ At(a, "ask", Passkeys)
    /\ \/ WriteRow(row)
       \/ WriteRow(Both(IF job[a].route = "passkeyResponse" THEN "passkey" ELSE "connecting"))
    /\ Finish(a)

\* GET of one instance, which the QR dialog repeats, and the startup.
SyncBegins(a) == Active /\ Begin(a, "sync", "ask")
\* Mutant: only a connected answer is stored.
StoreOpenOnly(a) ==
    /\ At(a, "store", {"sync"})
    /\ WriteRow(IF job[a].got = "open" THEN Reported("open") ELSE row) /\ Finish(a)
StoreStatus(a) ==
    /\ At(a, "store", {"sync"})
    /\ WriteRow(Reported(job[a].got)) /\ Finish(a)

-----------------------------------------------------------------------------
(* POST /api/bridge/event.  The events are separate requests: they arrive  *)
(* in any order, and a lost one is never taken.                            *)

Take(e, r) == e \in events /\ events' = events \ {e} /\ row' = r
              /\ UNCHANGED <<session, job, snap, changes>>

StatusEvent == \E e \in StatusEvents : Take(e, Reported(e))
QrEvent == Take("qrImage", Both("qr"))
PasskeyEvent == Take("passkey", Both("passkey"))
PasskeyErrorEvent == Take("passkeyError", Both("close"))
Deliver == StatusEvent \/ QrEvent \/ PasskeyEvent \/ PasskeyErrorEvent

\* What the phone and the network do.  An open connection is reported twice,
\* the second time two seconds later.
Becomes(from, to, reports) ==
    /\ session = from /\ session' = to
    /\ events' = events \cup reports

SessionChanges ==
    /\ changes < MaxChanges
    /\ changes' = changes + 1
    /\ \/ Becomes("connecting", "qr", {"qrImage"})
       \/ \E s \in {"connecting", "qr", "close"}, b \in {{}, {"bareOpen"}} :
            Becomes(s, "open", {"open", "openAgain"} \cup b)
       \/ \E r \in {"passkey", "passkeyError", "qr"} : Becomes("qr", "qr", {r})
       \/ Becomes("qr", "none", {})
       \/ Becomes("open", "close", {"close"})
       \/ Becomes("open", "none", {"none"})
    /\ UNCHANGED <<row, job, snap>>

-----------------------------------------------------------------------------
(* The state machine of platform/state-machine.ts.                         *)

Transitions ==
    {<<"CREATED", "CONNECTING">>, <<"CONNECTING", "QR_PENDING">>,
     <<"CONNECTING", "ACTIVE">>, <<"CONNECTING", "DEGRADED">>,
     <<"QR_PENDING", "ACTIVE">>, <<"QR_PENDING", "COOLDOWN">>,
     <<"ACTIVE", "DEGRADED">>, <<"ACTIVE", "COOLDOWN">>, <<"ACTIVE", "BLOCKED">>,
     <<"DEGRADED", "ACTIVE">>, <<"DEGRADED", "COOLDOWN">>, <<"DEGRADED", "BLOCKED">>,
     <<"COOLDOWN", "ACTIVE">>, <<"COOLDOWN", "BLOCKED">>, <<"BLOCKED", "COOLDOWN">>}
    \cup {<<s, "BANNED">> : s \in {"CONNECTING", "QR_PENDING", "ACTIVE", "DEGRADED",
                                   "COOLDOWN", "BLOCKED"}}

StateOf(s) == CASE s = "none" -> "CREATED"
                [] s = "connecting" -> "CONNECTING"
                [] s \in {"qr", "expired", "passkey"} -> "QR_PENDING"
                [] s \in {"open", "connected"} -> "ACTIVE"
                [] s = "close" -> "DEGRADED"
                [] s = "paused" -> "COOLDOWN"
                [] s = "blocked" -> "BLOCKED"
                [] s = "banned" -> "BANNED"

StatusOf == [CREATED |-> "none", CONNECTING |-> "connecting", QR_PENDING |-> "qr",
             ACTIVE |-> "connected", DEGRADED |-> "close", COOLDOWN |-> "paused",
             BLOCKED |-> "blocked", BANNED |-> "banned"]

\* transitionInstance, asked for by an administrator or by the reconciliation
\* of the orchestrator: it reads the status, checks the table, and writes.
TransitionBegins(a) == Begin(a, "transition", "ask")
ReadState(a) ==
    /\ At(a, "ask", {"transition"})
    /\ \/ \E s \in DOMAIN StatusOf : /\ <<StateOf(row.conn), s>> \in Transitions
                                     /\ GoWith(a, "store", StatusOf[s])
       \/ Finish(a)
    /\ UNCHANGED <<row, session, events, snap, changes>>
WriteState(a) ==
    /\ At(a, "store", {"transition"})
    /\ WriteRow(Both(job[a].got)) /\ Finish(a)

\* canSendMessage read an active instance, then a reputation below 40.
BlockBegins(a) == Active /\ StateOf(row.conn) = "ACTIVE" /\ Begin(a, "workerBlock", "write")
WorkerBlocks(a) ==
    /\ At(a, "write", {"workerBlock"})
    /\ WriteRow(Both("blocked")) /\ Finish(a)

-----------------------------------------------------------------------------
(* checkInstanceHealth of monitor.worker.ts: every decision reads the      *)
(* snapshot the cycle began with.  Ages are not modelled: each threshold   *)
(* may or may not have passed.                                             *)

\* What a decision may follow from, as the cycle read it.
Tells(conn) == IF conn \in {"open", "connected", "passkey"} THEN "alive"
               ELSE IF conn \in {"qr", "connecting"} THEN conn ELSE "offline"
Alarming(s) == s.conn = "qr" \/ (s.conn = "connecting" /\ ~s.known)
                             \/ (s.conn = "offline" /\ s.known)

\* A cycle that finds nothing to do is no step.
MonitorReads ==
    /\ job[Monitor].pc = "idle"
    /\ Active
    /\ snap' = [conn |-> Tells(row.conn), known |-> row.known]
    /\ Alarming(snap')
    /\ Go(Monitor, "judge")
    /\ UNCHANGED <<row, session, events, changes>>

\* A QR code nobody scanned: the UPDATE looks again, the logout does not.
ExpireQr ==
    /\ job[Monitor].pc = "judge"
    /\ snap.conn = "qr"
    /\ row' = IF row.conn \in {"qr", "connecting"} THEN Both("expired") ELSE row
    /\ job' = [job EXCEPT ![Monitor] = [@ EXCEPT !.pc = "logout", !.route = "expire"]]
    /\ UNCHANGED <<session, events, snap, changes>>

Judging == job[Monitor].pc \in {"judge", "look"}

\* A pairing without identity that got stuck: logged out, then written.
OrphanFound ==
    /\ Judging
    /\ ~snap.known /\ snap.conn \in {"connecting", "qr"}
    /\ job' = [job EXCEPT ![Monitor] = [@ EXCEPT !.pc = "logout", !.route = "orphan"]]
    /\ snap' = Blank
    /\ UNCHANGED <<row, session, events, changes>>
MarkOrphan ==
    /\ At(Monitor, "write", {"orphan"})
    /\ row' = Both("close")
    /\ Finish(Monitor)
    /\ UNCHANGED <<session, events, snap, changes>>

\* The statuses the check does not recognise are offline like the others.
Revive ==
    /\ Judging
    /\ snap.known /\ snap.conn = "offline"
    /\ row' = Both("connecting")
    /\ job' = [job EXCEPT ![Monitor] = [@ EXCEPT !.pc = "connect", !.route = "revive"]]
    /\ snap' = Blank
    /\ UNCHANGED <<session, events, changes>>
\* Whether it answers or fails is only logged.
ReviveAsks ==
    /\ job[Monitor].pc = "connect"
    /\ session' \in SessionsAfter("revive") \cup {session}
    /\ Finish(Monitor)
    /\ UNCHANGED <<row, events, snap, changes>>

\* No age has passed.
MonitorEnds ==
    /\ Judging
    /\ Finish(Monitor) /\ snap' = Blank
    /\ UNCHANGED <<row, session, events, changes>>

-----------------------------------------------------------------------------
Asks(a) == AskConnect(a) \/ AskLogout(a) \/ AskStatus(a) \/ AskStatusFails(a)
Handles(a) ==
    \/ MarkConnecting(a) \/ StoreAnswer(a)
    \/ ConnectFails(a) \/ PanelConnectFails(a) \/ StartupConnectFails(a)
    \/ PanelLogout(a) \/ UazDisconnect(a) \/ V1Logout(a) \/ StartupLogout(a)
    \/ UazDelete(a) \/ PanelDelete(a) \/ PasskeySent(a) \/ StoreStatus(a)
    \/ ReadState(a) \/ WriteState(a) \/ WorkerBlocks(a)
Begins(a) ==
    \/ ConnectBegins(a) \/ ResetBegins(a) \/ LogoutBegins(a) \/ PanelDeleteBegins(a)
    \/ PasskeyBegins(a) \/ SyncBegins(a) \/ TransitionBegins(a) \/ BlockBegins(a)
Monitors ==
    \/ MonitorReads \/ ExpireQr \/ OrphanFound \/ MarkOrphan
    \/ Revive \/ ReviveAsks \/ MonitorEnds

InstanceNext ==
    \/ \E a \in Agents : Begins(a) \/ Handles(a) \/ Asks(a)
    \/ Deliver
    \/ SessionChanges
    \/ Monitors

InstanceSpec == InstanceInit /\ [][InstanceNext]_instanceVars

\* Only the dialog must go on: it polls, and is answered now and then.  Nobody
\* else owes anything, and no event has to arrive.
InstanceFairness ==
    /\ WF_instanceVars(SyncBegins(Panel))
    /\ SF_instanceVars(AskStatus(Panel))
    /\ WF_instanceVars(StoreStatus(Panel))
InstanceFairSpec == InstanceSpec /\ InstanceFairness

-----------------------------------------------------------------------------
\* Bridge answers, late events, failed calls, administrators and the health
\* check all write the row.  Whatever the order, a row that says "open" names a
\* phone or a jid: the bridge's word alone, without identity, is never stored.
OpenHasIdentity == row.conn = "open" => row.known

\* While the QR dialog polls, the row and the bridge come to agree on whether
\* the instance is connected, whatever was lost, late or overwritten before.
PollSettles == <>[](~row.gone => (row.conn = "open" <=> session = "open"))
=============================================================================
