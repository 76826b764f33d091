----------------------------- MODULE WozapiBridge -----------------------------
(***************************************************************************)
(* engines/wozapi-v2-bridge.ts: the bridge of one instance to the WAHA     *)
(* server upstream.  Every request makes sure that the upstream session    *)
(* exists (ensureSession) before it does its own work, with an await       *)
(* between any two calls upstream, so requests overlap in every way.       *)
(***************************************************************************)
EXTENDS Naturals

CONSTANTS
    Requests,     \* concurrent requests to the bridge, one each
    Readings,     \* readings of the QR code by one connect call
    MaxTurns      \* bound: changes upstream that no request made

ASSUME BridgeAssumption == Readings \in Nat \ {0} /\ MaxTurns \in Nat

VARIABLES
    up,          \* the upstream session
    req,         \* req[r]: where r is, and what it has seen
    lastStatus,  \* the Map of the last status, the answer when upstream fails
    lastQR,      \* whether the Map of QR codes has one
    posted,       \* statuses posted to the webhook, not yet handled
    wanted,      \* history: a connect came after, or during, the last logout
    turns        \* bound

bridgeVars == <<up, req, lastStatus, lastQR, posted, wanted, turns>>

Kinds == {"connect", "fresh", "status", "send", "logout"}
Normal == {"absent", "close", "qr", "open"}      \* normalizeStatus
Places == {"idle", "wipe", "erase", "look", "create", "start", "read", "code",
           "send", "answered", "failed"}

BridgeTypeOK ==
    /\ up \in Normal
    /\ req \in [Requests -> [pc : Places, kind : Kinds, started : BOOLEAN,
                             tries : 0..Readings, clean : BOOLEAN]]
    /\ lastStatus \in Normal
    /\ lastQR \in BOOLEAN
    /\ posted \subseteq Normal
    /\ wanted \in BOOLEAN
    /\ turns \in 0..MaxTurns

BridgeInit ==
    /\ up \in {"absent", "open"}
    /\ req = [r \in Requests |-> [pc |-> "idle", kind |-> "send", started |-> FALSE,
                                  tries |-> 0, clean |-> TRUE]]
    /\ lastStatus = "absent"        \* none: answered as closed
    /\ lastQR = FALSE
    /\ posted = {}
    /\ wanted = (up = "open")
    /\ turns = 0

-----------------------------------------------------------------------------
Connecting(r) == req[r].kind \in {"connect", "fresh"}
Serving(r) == req[r].pc \notin {"idle", "answered", "failed"}
\* Only the first ensureSession of a connect call is to start the session.
Starting(r) == Connecting(r) /\ ~req[r].started

To(r, pc) == req' = [req EXCEPT ![r].pc = pc]
\* An upstream call of a connect call failed, or the session changed under it.
Stained(q) == [req[q] EXCEPT !.clean = ~Connecting(q)]
Spoil(r, pc) == req' = [req EXCEPT ![r] = [Stained(r) EXCEPT !.pc = pc]]
AfterEnsure(r) == IF req[r].kind = "send" THEN "send" ELSE "read"

\* Inside waitForQR the error of a status reading is caught, and the loop goes
\* on; a status request answers what it knew last.
LookAgain(r) == IF req[r].tries < Readings THEN "code" ELSE "answered"
Throw(r) ==
    Spoil(r, IF req[r].tries > 0 THEN LookAgain(r) ELSE "failed")

Arrives(r) ==
    /\ req[r].pc = "idle"
    /\ \E k \in Kinds :
         /\ req' = [req EXCEPT ![r].kind = k,
                               ![r].pc = IF k \in {"fresh", "logout"} THEN "wipe" ELSE "look"]
         /\ wanted' = (wanted \/ k \in {"connect", "fresh"})
    /\ UNCHANGED <<up, lastStatus, lastQR, posted, turns>>

\* Logout and force_new_qr: POST logout, which pairs again, then DELETE; both
\* swallow errors.
LogoutUpstream(r) ==
    /\ req[r].pc = "wipe"
    /\ up' \in {up, IF up = "open" THEN "qr" ELSE up}
    /\ To(r, "erase")
    /\ UNCHANGED <<lastStatus, lastQR, posted, wanted, turns>>

DeleteUpstream(r) ==
    /\ req[r].pc = "erase"
    /\ LET others == {q \in Requests \ {r} : Connecting(q) /\ Serving(q)}
           next == IF req[r].kind = "fresh" THEN "look" ELSE "answered"
       IN  \/ /\ up' = "absent"
              /\ wanted' = (others # {} \/ req[r].kind = "fresh")
              /\ req' = [q \in Requests |->
                           IF q = r THEN [req[r] EXCEPT !.pc = next]
                           ELSE Stained(q)]
           \/ Spoil(r, next) /\ UNCHANGED <<up, wanted>>
    /\ lastQR' = FALSE
    /\ lastStatus' = IF req[r].kind = "fresh" THEN "absent" ELSE "close"
    /\ UNCHANGED <<posted, turns>>

-----------------------------------------------------------------------------
(* ensureSession: GET, then PUT and POST start, or POST create.            *)

GetSession(r) ==
    /\ req[r].pc = "look"
    /\ \/ up = "absent" /\ To(r, "create")
       \/ up # "absent" /\ To(r, IF Starting(r) THEN "start" ELSE AfterEnsure(r))
       \/ Spoil(r, "create")
       \/ Throw(r)                       \* ensureUpstreamReady
    /\ UNCHANGED <<up, lastStatus, lastQR, posted, wanted, turns>>

\* A create fails when the session exists by now.
CreateAs(r, status) ==
    /\ req[r].pc = "create"
    /\ \/ /\ up = "absent"
          /\ up' = status
          /\ req' = [req EXCEPT ![r].pc = IF Starting(r) THEN "look" ELSE AfterEnsure(r),
                                ![r].started = Connecting(r)]
       \/ Throw(r) /\ UNCHANGED up
    /\ UNCHANGED <<lastStatus, lastQR, posted, wanted, turns>>

\* Mutant: a session is created running, whoever asks.
CreateRunning(r) == CreateAs(r, "qr")
CreateSession(r) == CreateAs(r, IF Starting(r) THEN "qr" ELSE "close")

\* Then readStatus makes sure of the session once more.
StartSession(r) ==
    /\ req[r].pc = "start"
    /\ \/ /\ up' = IF up = "close" THEN "qr" ELSE up
          /\ req' = [req EXCEPT ![r].pc = "look", ![r].started = TRUE]
       \/ /\ UNCHANGED up
          /\ req' = [req EXCEPT ![r] = [Stained(r) EXCEPT !.pc = "look", !.started = TRUE]]
    /\ UNCHANGED <<lastStatus, lastQR, posted, wanted, turns>>

-----------------------------------------------------------------------------
\* readStatus, for a poll, a connect, or a turn of waitForQR.
ReadStatus(r) ==
    /\ req[r].pc = "read"
    /\ \/ /\ up # "absent"
          /\ lastStatus' = up
          /\ To(r, IF Connecting(r) /\ up # "open" THEN LookAgain(r) ELSE "answered")
       \/ Throw(r) /\ UNCHANGED lastStatus
    /\ UNCHANGED <<up, lastQR, posted, wanted, turns>>

\* waitForQR: a code ends it, no code means another look at the status.
ReadQR(r) ==
    /\ req[r].pc = "code"
    /\ \/ /\ up = "qr"
          /\ lastQR' = TRUE
          /\ To(r, "answered")
       \/ /\ UNCHANGED lastQR
          /\ req' = [req EXCEPT ![r].tries = @ + 1, ![r].pc = "look"]
    /\ UNCHANGED <<up, lastStatus, posted, wanted, turns>>

\* The other endpoints: one upstream call that leaves the session alone.
SendUpstream(r) ==
    /\ req[r].pc = "send"
    /\ \E pc \in {"answered", "failed"} : To(r, pc)
    /\ UNCHANGED <<up, lastStatus, lastQR, posted, wanted, turns>>

\* The phone, the network and the upstream server; each change is posted.
UpstreamTurns ==
    /\ turns < MaxTurns
    /\ turns' = turns + 1
    /\ up \in {"qr", "open"}
    /\ up' \in {"qr", "open", "close"} \ {up}
    /\ posted' = posted \cup {up'}
    /\ req' = [q \in Requests |-> Stained(q)]
    /\ UNCHANGED <<lastStatus, lastQR, wanted>>

Webhook ==
    /\ \E s \in posted : lastStatus' = s /\ posted' = posted \ {s}
    /\ UNCHANGED <<up, req, lastQR, wanted, turns>>

Proceeds(r) ==
    \/ LogoutUpstream(r) \/ DeleteUpstream(r) \/ GetSession(r) \/ CreateSession(r)
    \/ StartSession(r) \/ ReadStatus(r) \/ ReadQR(r) \/ SendUpstream(r)

BridgeNext ==
    \/ \E r \in Requests : Arrives(r) \/ Proceeds(r)
    \/ UpstreamTurns \/ Webhook

BridgeSpec == BridgeInit /\ [][BridgeNext]_bridgeVars

-----------------------------------------------------------------------------
\* Polls and sends create the session again after a logout, even while the
\* logout is still under way; but a session runs only when a connect came after
\* the last logout that reached the server, or overlapped it.
LogoutLasts == up \in {"qr", "open"} => wanted

\* A connect call that is answered, with nothing failing, nobody logging out and
\* no change upstream meanwhile, leaves the session running: a poll that creates
\* the session stopped in between makes the call fail instead.
ConnectStarts ==
    \A r \in Requests :
        (req[r].pc = "answered" /\ Connecting(r) /\ req[r].clean) => up \in {"qr", "open"}
=============================================================================
