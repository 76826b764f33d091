---------------------------- MODULE Platform_proofs ----------------------------
(***************************************************************************)
(* Proofs about the rows and the screens that many handlers write, each    *)
(* from what it has read earlier: the status of an instance, the streams   *)
(* of its events, the messages that are sent before they are stored, the   *)
(* panel's dialog, and the plans that every start of the server rewrites.  *)
(***************************************************************************)
EXTENDS InstanceStatus, DirectSend, Streams, PanelDialog, Plans, FiniteSetTheorems,
        SequenceTheorems, TLAPS

-----------------------------------------------------------------------------
(* The status of an instance: only a word of the bridge that comes with an *)
(* identity makes the row 'open', and what takes the identity away writes  *)
(* another status.                                                         *)

\* The state machine has another word for an instance that is active.
IdentityInv ==
    /\ row \in Row
    /\ job \in [Agents -> Job]
    /\ \A a \in Agents : At(a, "store", {"transition"}) => job[a].got # "open"
    /\ OpenHasIdentity

\* A step of agent a that leaves the row alone, or writes it and ends.
LEMMA JobMoves ==
    ASSUME IdentityInv, NEW a \in Agents, row' \in Row, row'.conn = "open" => row'.known,
           \A b \in Agents : b # a => job'[b] = job[b],
           job' \in [Agents -> Job],
           (job'[a].pc = "store" /\ job'[a].route = "transition") => job'[a].got # "open"
    PROVE  IdentityInv'
BY DEF IdentityInv, OpenHasIdentity, At

LEMMA FinishMoves ==
    ASSUME IdentityInv, NEW a \in Agents, Finish(a)
    PROVE  /\ \A b \in Agents : b # a => job'[b] = job[b]
           /\ job' \in [Agents -> Job] /\ job'[a].pc # "store"
<1>1. Idle \in Job /\ [Idle EXCEPT !.pc = "done"] \in Job
  BY DEF Idle, Job, Statuses
<1>2. PICK new \in {Idle, [Idle EXCEPT !.pc = "done"]} : job' = [job EXCEPT ![a] = new]
  BY DEF Finish
<1>3. new \in Job /\ new.pc # "store"
  BY <1>1 DEF Idle
<1> QED
  BY <1>2, <1>3 DEF IdentityInv

LEMMA WrittenRow ==
    ASSUME IdentityInv, NEW a \in Agents, NEW r \in Row, WriteRow(r), Finish(a),
           r.conn = "open" => r.known
    PROVE  IdentityInv'
BY FinishMoves, JobMoves DEF WriteRow

LEMMA BothRow ==
    ASSUME IdentityInv, NEW s \in Statuses
    PROVE  Both(s) \in Row /\ Both(s).conn = s
BY DEF IdentityInv, Both, Row

LEMMA ReportedRow ==
    ASSUME IdentityInv, NEW r \in StatusEvents \cup Statuses \cup Sessions
    PROVE  Reported(r) \in Row /\ (Reported(r).conn = "open" => Reported(r).known)
<1>1. StoredStatus(r) \in Statuses
  BY DEF StoredStatus, StatusEvents, Statuses, Sessions
<1> QED
  BY <1>1 DEF IdentityInv, Reported, Both, Row

LEMMA BeginMoves ==
    ASSUME IdentityInv, NEW a \in Agents, NEW r \in AllRoutes,
           NEW pc \in {"mark", "logout", "write", "ask"}, Begin(a, r, pc)
    PROVE  IdentityInv'
<1>1. /\ \A b \in Agents : b # a => job'[b] = job[b]
      /\ job' \in [Agents -> Job] /\ job'[a].pc # "store" /\ row' = row
  BY DEF IdentityInv, Begin, Job, Statuses
<1> QED
  BY <1>1, JobMoves DEF IdentityInv, OpenHasIdentity

LEMMA BeginsKeep ==
    ASSUME IdentityInv, InstanceAssumption, NEW a \in Agents, Begins(a)
    PROVE  IdentityInv'
BY BeginMoves DEF Begins, ConnectBegins, ResetBegins, LogoutBegins, PanelDeleteBegins,
   PasskeyBegins, SyncBegins, TransitionBegins, BlockBegins, AllRoutes, Connects, Resets,
   Logouts, Passkeys, Others

LEMMA GoMoves ==
    ASSUME IdentityInv, NEW a \in Agents, UNCHANGED row,
           NEW pc \in {"mark", "connect", "refused", "write", "look", "judge", "logout"},
           Go(a, pc)
    PROVE  IdentityInv'
<1>1. /\ \A b \in Agents : b # a => job'[b] = job[b]
      /\ job' \in [Agents -> Job] /\ job'[a].pc # "store"
  BY DEF IdentityInv, Go, Job
<1> QED
  BY <1>1, JobMoves DEF IdentityInv, OpenHasIdentity

LEMMA AsksKeep ==
    ASSUME IdentityInv, session \in Sessions, session' \in Sessions,
           NEW a \in Agents, Asks(a)
    PROVE  IdentityInv'
<1>1. UNCHANGED row
  BY DEF Asks, AskConnect, AskLogout, AskStatus, AskStatusFails
<1>2. ASSUME NEW pc \in {"answer", "store"}, GoWith(a, pc, session'),
             pc = "store" => job[a].route = "sync"
      PROVE  IdentityInv'
  <2>1. /\ \A b \in Agents : b # a => job'[b] = job[b]
        /\ job' \in [Agents -> Job] /\ job'[a].pc = pc /\ job'[a].route = job[a].route
    BY <1>2 DEF IdentityInv, GoWith, Job
  <2> QED
    BY <1>1, <1>2, <2>1, JobMoves DEF IdentityInv, OpenHasIdentity
<1>3. CASE AskConnect(a)
  BY <1>1, <1>2, <1>3, GoMoves DEF AskConnect
<1>4. CASE AskLogout(a)
  BY <1>1, <1>4, GoMoves DEF AskLogout
<1>5. CASE AskStatus(a)
  BY <1>2, <1>5 DEF AskStatus, At
<1>6. CASE AskStatusFails(a)
  BY <1>1, <1>6, FinishMoves, JobMoves DEF AskStatusFails, IdentityInv, OpenHasIdentity
<1> QED
  BY <1>3, <1>4, <1>5, <1>6 DEF Asks

LEMMA HandlesKeep ==
    ASSUME IdentityInv, NEW a \in Agents, Handles(a)
    PROVE  IdentityInv'
<1>0. /\ row \in Row /\ (row.conn = "open" => row.known) /\ job \in [Agents -> Job]
      /\ job[a].got \in Statuses \cup Sessions
  BY DEF IdentityInv, OpenHasIdentity, Job
<1>1. CASE MarkConnecting(a)
  <2>1. row' \in Row /\ (row'.conn = "open" => row'.known)
    BY <1>0, <1>1, BothRow DEF MarkConnecting, Both, Row, Statuses
  <2>2. /\ \A b \in Agents : b # a => job'[b] = job[b]
        /\ job' \in [Agents -> Job] /\ job'[a].pc # "store"
    BY <1>0, <1>1 DEF MarkConnecting, Go, Job
  <2> QED
    BY <2>1, <2>2, JobMoves
<1>2. CASE StoreAnswer(a)
  <2> DEFINE s == StoredStatus(job[a].got)
             new == [Both(s) EXCEPT !.known = @ \/ job[a].got = "open"]
  <2>1. s \in Statuses /\ (s = "open" => job[a].got = "open")
    BY <1>0 DEF StoredStatus, Statuses, Sessions
  <2>2. new \in Row /\ (new.conn = "open" => new.known)
    BY <1>0, <2>1 DEF Both, Row
  <2>3. row.gone \in BOOLEAN
    BY <1>0 DEF Row
  <2>4. CASE row.gone
    BY <1>0, <1>2, <2>4, WrittenRow DEF StoreAnswer
  <2>5. CASE ~row.gone
    BY <1>2, <2>2, <2>5, WrittenRow DEF StoreAnswer
  <2> QED
    BY <2>4, <2>5
<1>3. CASE ConnectFails(a)
  BY <1>0, <1>3, WrittenRow DEF ConnectFails
<1>4. CASE PanelConnectFails(a)
  <2>1. Both("close") \in Row /\ Both("close").conn = "close"
    BY BothRow DEF Statuses
  <2>2. CASE row.gone
    BY <1>0, <1>4, <2>2, WrittenRow DEF PanelConnectFails
  <2>3. CASE ~row.gone
    BY <1>4, <2>1, <2>3, WrittenRow DEF PanelConnectFails
  <2> QED
    BY <2>2, <2>3
<1>5. CASE StartupConnectFails(a) \/ StartupLogout(a)
  <2>1. Both("close") \in Row /\ Both("close").conn = "close"
    BY BothRow DEF Statuses
  <2> QED
    BY <1>5, <2>1, WrittenRow DEF StartupConnectFails, StartupLogout
<1>6. CASE PanelLogout(a) \/ UazDisconnect(a)
  <2>1. /\ Both("none") \in Row /\ Both("none").conn = "none"
        /\ [Both("none") EXCEPT !.known = FALSE] \in Row
        /\ [Both("none") EXCEPT !.known = FALSE].conn = "none"
    BY <1>0 DEF Both, Row, Statuses
  <2> QED
    BY <1>6, <2>1, WrittenRow DEF PanelLogout, UazDisconnect
<1>7. CASE V1Logout(a)
  <2>1. /\ [row EXCEPT !.status = "none"] \in Row
        /\ [row EXCEPT !.status = "none"].conn = row.conn
        /\ [row EXCEPT !.status = "none"].known = row.known
    BY <1>0 DEF Row, Statuses
  <2> QED
    BY <1>0, <1>7, <2>1, WrittenRow DEF V1Logout
<1>8. CASE UazDelete(a) \/ PanelDelete(a)
  <2>1. /\ [Both("close") EXCEPT !.gone = TRUE] \in Row
        /\ [Both("close") EXCEPT !.gone = TRUE].conn = "close"
    BY <1>0 DEF Both, Row, Statuses
  <2> QED
    BY <1>8, <2>1, WrittenRow DEF UazDelete, PanelDelete
<1>9. CASE PasskeySent(a)
  <2> DEFINE s == IF job[a].route = "passkeyResponse" THEN "passkey" ELSE "connecting"
  <2>1. s \in Statuses /\ s # "open"
    BY DEF Statuses
  <2>2. Both(s) \in Row /\ Both(s).conn = s
    BY <2>1, BothRow
  <2>3. WriteRow(row) \/ WriteRow(Both(s))
    BY <1>9 DEF PasskeySent
  <2>4. Finish(a)
    BY <1>9 DEF PasskeySent
  <2> HIDE DEF s
  <2> QED
    BY <1>0, <2>1, <2>2, <2>3, <2>4, WrittenRow
<1>10. CASE StoreStatus(a)
  BY <1>0, <1>10, ReportedRow, WrittenRow DEF StoreStatus
<1>11. CASE ReadState(a)
  <2>1. CASE Finish(a)
    BY <1>0, <1>11, <2>1, FinishMoves, JobMoves DEF ReadState
  <2>2. CASE ~Finish(a)
    <3>1. PICK s \in DOMAIN StatusOf : GoWith(a, "store", StatusOf[s])
      BY <1>11, <2>2 DEF ReadState
    <3>2. StatusOf[s] \in Statuses /\ StatusOf[s] # "open"
      BY DEF StatusOf, Statuses
    <3>3. /\ \A b \in Agents : b # a => job'[b] = job[b]
          /\ job' \in [Agents -> Job] /\ job'[a].got # "open"
      BY <1>0, <3>1, <3>2 DEF GoWith, Job
    <3>4. UNCHANGED row
      BY <1>11 DEF ReadState
    <3> QED
      BY <1>0, <3>3, <3>4, JobMoves
  <2> QED
    BY <2>1, <2>2
<1>12. CASE WriteState(a)
  <2>1. job[a].got # "open" /\ job[a].got \in Statuses
    BY <1>0, <1>12 DEF WriteState, IdentityInv, Statuses, Sessions
  <2>2. Both(job[a].got) \in Row /\ Both(job[a].got).conn # "open"
    BY <2>1, BothRow
  <2> QED
    BY <1>12, <2>2, WrittenRow DEF WriteState
<1>13. CASE WorkerBlocks(a)
  <2>1. Both("blocked") \in Row /\ Both("blocked").conn = "blocked"
    BY BothRow DEF Statuses
  <2> QED
    BY <1>13, <2>1, WrittenRow DEF WorkerBlocks
<1> QED
  BY <1>1, <1>2, <1>3, <1>4, <1>5, <1>6, <1>7, <1>8, <1>9, <1>10, <1>11, <1>12, <1>13
     DEF Handles

LEMMA SameJobs ==
    ASSUME IdentityInv, job' = job, row' \in Row, row'.conn = "open" => row'.known
    PROVE  IdentityInv'
BY DEF IdentityInv, OpenHasIdentity, At

LEMMA DeliverKeeps ==
    ASSUME IdentityInv, Deliver
    PROVE  IdentityInv'
<1>1. CASE StatusEvent
  BY <1>1, ReportedRow, SameJobs DEF StatusEvent, Take
<1>2. CASE QrEvent \/ PasskeyEvent \/ PasskeyErrorEvent
  <2>1. \A s \in {"qr", "passkey", "close"} : Both(s) \in Row /\ Both(s).conn = s
    BY BothRow DEF Statuses
  <2> QED
    BY <1>2, <2>1, SameJobs DEF QrEvent, PasskeyEvent, PasskeyErrorEvent, Take
<1> QED
  BY <1>1, <1>2 DEF Deliver

\* The health check writes the row at most once a cycle, and never 'open'.
LEMMA MonitorMoves ==
    ASSUME IdentityInv, Monitor \in Agents, row' \in Row,
           row' = row \/ row'.conn # "open",
           NEW new, new \in Job /\ new.pc # "store", job' = [job EXCEPT ![Monitor] = new]
    PROVE  IdentityInv'
<1>1. /\ \A b \in Agents : b # Monitor => job'[b] = job[b]
      /\ job' \in [Agents -> Job] /\ job'[Monitor].pc # "store"
  BY DEF IdentityInv
<1> QED
  BY <1>1, JobMoves DEF IdentityInv, OpenHasIdentity

LEMMA MonitorsKeep ==
    ASSUME IdentityInv, Monitors
    PROVE  IdentityInv'
<1>1. Monitor \in Agents
  BY DEF Agents
<1>2. /\ row \in Row /\ job[Monitor] \in Job /\ Idle \in Job
      /\ [Idle EXCEPT !.pc = "done"] \in Job
  BY <1>1 DEF IdentityInv, Idle, Job, Statuses
<1>3. \A s \in {"expired", "close", "connecting"} : Both(s) \in Row /\ Both(s).conn # "open"
  BY BothRow DEF Statuses
<1>4. ASSUME Finish(Monitor), row' \in Row, row' = row \/ row'.conn # "open"
      PROVE  IdentityInv'
  <2>1. PICK new \in {Idle, [Idle EXCEPT !.pc = "done"]} :
          job' = [job EXCEPT ![Monitor] = new]
    BY <1>4 DEF Finish
  <2>2. new \in Job /\ new.pc # "store"
    BY <1>2, <2>1 DEF Idle
  <2> QED
    BY <1>1, <1>4, <2>1, <2>2, MonitorMoves
<1>5. ASSUME NEW r \in {"expire", "orphan", "revive"}, NEW pc \in {"logout", "connect"},
             job' = [job EXCEPT ![Monitor] = [@ EXCEPT !.pc = pc, !.route = r]],
             row' \in Row, row' = row \/ row'.conn # "open"
      PROVE  IdentityInv'
  <2> DEFINE new == [job[Monitor] EXCEPT !.pc = pc, !.route = r]
  <2>1. new \in Job /\ new.pc # "store"
    BY <1>2 DEF Job
  <2>2. job' = [job EXCEPT ![Monitor] = new]
    BY <1>5
  <2> HIDE DEF new
  <2> QED
    BY <1>1, <1>5, <2>1, <2>2, MonitorMoves
<1>6. CASE MonitorReads
  BY <1>1, <1>6, GoMoves DEF MonitorReads
<1>7. CASE ExpireQr
  BY <1>2, <1>3, <1>5, <1>7 DEF ExpireQr
<1>8. CASE OrphanFound
  BY <1>2, <1>5, <1>8 DEF OrphanFound
<1>9. CASE MarkOrphan
  BY <1>3, <1>4, <1>9 DEF MarkOrphan
<1>10. CASE Revive
  BY <1>3, <1>5, <1>10 DEF Revive
<1>11. CASE ReviveAsks \/ MonitorEnds
  BY <1>2, <1>4, <1>11 DEF ReviveAsks, MonitorEnds
<1> QED
  BY <1>6, <1>7, <1>8, <1>9, <1>10, <1>11 DEF Monitors

LEMMA SessionTyped ==
    ASSUME InstanceAssumption, session \in Sessions, [InstanceNext]_instanceVars
    PROVE  session' \in Sessions
<1>0. \A r : SessionsAfter(r) \subseteq Sessions
  BY DEF SessionsAfter, Sessions
<1>1. ASSUME NEW a \in Agents, Asks(a)
      PROVE  session' \in Sessions
  BY <1>0, <1>1 DEF Asks, AskConnect, AskLogout, AskStatus, AskStatusFails, Sessions
<1>2. ASSUME NEW a \in Agents, Begins(a)
      PROVE  session' = session
  BY <1>2 DEF Begins, Begin, ConnectBegins, ResetBegins, LogoutBegins, PanelDeleteBegins,
     PasskeyBegins, SyncBegins, TransitionBegins, BlockBegins
<1>3. ASSUME NEW a \in Agents, Handles(a)
      PROVE  session' = session
  BY <1>3 DEF Handles, WriteRow, MarkConnecting, StoreAnswer, ConnectFails, PanelConnectFails,
     StartupConnectFails, PanelLogout, UazDisconnect, V1Logout, StartupLogout, UazDelete,
     PanelDelete, PasskeySent, StoreStatus, ReadState, WriteState, WorkerBlocks
<1>4. CASE Deliver
  BY <1>4 DEF Deliver, StatusEvent, QrEvent, PasskeyEvent, PasskeyErrorEvent, Take
<1>5. CASE SessionChanges
  BY <1>5 DEF SessionChanges, Becomes, Sessions
<1>6. CASE Monitors
  BY <1>0, <1>6 DEF Monitors, MonitorReads, ExpireQr, OrphanFound, MarkOrphan, Revive,
     ReviveAsks, MonitorEnds
<1>7. CASE UNCHANGED instanceVars
  BY <1>7 DEF instanceVars
<1> QED
  BY <1>1, <1>2, <1>3, <1>4, <1>5, <1>6, <1>7 DEF InstanceNext

LEMMA IdentityKept ==
    ASSUME InstanceAssumption, IdentityInv, session \in Sessions, [InstanceNext]_instanceVars
    PROVE  IdentityInv' /\ session' \in Sessions
<1>1. session' \in Sessions
  BY SessionTyped
<1>2. CASE SessionChanges
  <2>1. job' = job /\ row' = row
    BY <1>2 DEF SessionChanges
  <2> QED
    BY <1>1, <2>1, SameJobs DEF IdentityInv, OpenHasIdentity
<1>3. CASE UNCHANGED instanceVars
  BY <1>1, <1>3, SameJobs DEF instanceVars, IdentityInv, OpenHasIdentity
<1> QED
  BY <1>1, <1>2, <1>3, BeginsKeep, HandlesKeep, AsksKeep, DeliverKeeps, MonitorsKeep
     DEF InstanceNext

LEMMA IdentityStarts ==
    ASSUME InstanceInit
    PROVE  IdentityInv /\ session \in Sessions
<1>1. Idle \in Job /\ Idle.pc = "idle"
  BY DEF Idle, Job, Statuses
<1>2. \A a \in Agents : job[a] = Idle
  BY DEF InstanceInit
<1>3. row \in Row /\ (row.conn = "open" => row.known) /\ session \in Sessions
  <2>1. PICK c \in {"none", "open"} :
          row = [conn |-> c, status |-> c, known |-> c = "open", gone |-> FALSE]
    BY DEF InstanceInit
  <2>2. row.conn = c /\ row.known = (c = "open") /\ session = c
    BY <2>1 DEF InstanceInit
  <2>3. (c = "open") \in BOOLEAN
    OBVIOUS
  <2>4. row \in Row
    BY <2>1, <2>3 DEF Row, Statuses
  <2> QED
    BY <2>2, <2>4 DEF Sessions
<1>4. job \in [Agents -> Job]
  BY <1>1 DEF InstanceInit
<1> QED
  BY <1>1, <1>2, <1>3, <1>4 DEF IdentityInv, OpenHasIdentity, At

\* Whatever the order of answers, late events, failed calls, administrators and
\* health checks: a row that says 'open' names a phone or a jid.
THEOREM OpenIsIdentified == InstanceSpec => []OpenHasIdentity
<1>1. InstanceInit => IdentityInv /\ session \in Sessions
  BY IdentityStarts
<1>2. (IdentityInv /\ session \in Sessions) /\ [InstanceNext]_instanceVars
        => (IdentityInv /\ session \in Sessions)'
  BY IdentityKept, InstanceAssumption
<1>3. IdentityInv => OpenHasIdentity
  BY DEF IdentityInv
<1> QED
  BY <1>1, <1>2, <1>3, PTL DEF InstanceSpec

-----------------------------------------------------------------------------
(* The streams of events: a client is in the Set its handlers hold, and    *)
(* that Set is the one of the map as long as nothing tangled the kind.     *)

Listening(c) == stream[c].is \in {"open", "gone"}
Placed(c) ==
    /\ c \in audience[stream[c].set]
    /\ entry[KindOf(c)] = stream[c].set \/ KindOf(c) \in tangled
StreamsInv ==
    /\ StreamsTypeOK
    /\ \A c \in Listeners :
         /\ stream[c].is \in {"open", "gone", "failed"} => stream[c].set \in Sets
         /\ Listening(c) => Placed(c)

LEMMA Kinds == \A c \in Listeners : KindOf(c) \in StreamKinds
BY DEF KindOf, StreamKinds

LEMMA StreamsInvLast ==
    ASSUME StreamsInv
    PROVE  StreamsLast
BY StreamsAssumption, Kinds DEF StreamsInv, StreamsLast, Listening, Placed

LEMMA StreamTurns ==
    ASSUME NEW r \in Stream, NEW is
    PROVE  [r EXCEPT !.is = is].is = is /\ [r EXCEPT !.is = is].set = r.set
BY DEF Stream

\* A step that only changes what one client is, and no further than "gone".
LEMMA TurnsKeep ==
    ASSUME StreamsInv, NEW c \in Listeners, NEW is, TurnsInto(c, is),
           \/ is \in {"none", "asking", "late"}
           \/ is = "gone" /\ stream[c].is = "open"
    PROVE  StreamsInv'
<1>1. /\ stream' = [stream EXCEPT ![c].is = is]
      /\ entry' = entry /\ audience' = audience /\ tangled' = tangled
  BY DEF TurnsInto
<1>2. StreamsTypeOK'
  BY <1>1 DEF StreamsInv, StreamsTypeOK, Stream
<1>3. ASSUME NEW d \in Listeners
      PROVE  /\ stream'[d].set = stream[d].set
             /\ stream'[d].is = stream[d].is \/ (d = c /\ stream'[d].is = is)
  <2>1. stream[d] \in Stream /\ stream[c] \in Stream
    BY DEF StreamsInv, StreamsTypeOK
  <2>2. d # c => stream'[d] = stream[d]
    BY <1>1 DEF StreamsInv, StreamsTypeOK
  <2>3. stream'[c] = [stream[c] EXCEPT !.is = is]
    BY <1>1 DEF StreamsInv, StreamsTypeOK
  <2> QED
    <3>1. CASE d = c
      <4>1. stream'[d] = [stream[d] EXCEPT !.is = is]
        BY <2>3, <3>1
      <4>2. stream'[d].is = is /\ stream'[d].set = stream[d].set
        BY <2>1, <4>1, StreamTurns
      <4> QED
        BY <3>1, <4>2
    <3>2. CASE d # c
      BY <2>2, <3>2
    <3> QED
      BY <3>1, <3>2
<1>4. KindOf(c)' = KindOf(c) /\ \A d \in Listeners : KindOf(d)' = KindOf(d)
  BY DEF KindOf
<1> QED
  BY <1>1, <1>2, <1>3, <1>4 DEF StreamsInv, Listening, Placed

\* What joining does to the map and to the Sets.
LEMMA JoinsMove ==
    ASSUME StreamsInv, NEW k \in StreamKinds, NEW who \in Listeners \cup {Ghost},
           Joins(k, who)
    PROVE  /\ entry' \in [StreamKinds -> Sets \cup {NoSet}]
           /\ audience' \in [Sets -> SUBSET (Listeners \cup {Ghost})]
           /\ tangled' = tangled
           /\ entry'[k] \in Sets /\ who \in audience'[entry'[k]]
           /\ \A s \in Sets : audience[s] \subseteq audience'[s]
           /\ \A j \in StreamKinds : entry[j] # NoSet => entry'[j] = entry[j]
<1> DEFINE s == IF entry[k] = NoSet THEN CHOOSE x \in Sets : Unused(x) ELSE entry[k]
<1>1. entry[k] \in Sets \cup {NoSet}
  BY DEF StreamsInv, StreamsTypeOK
<1>2. s \in Sets
  BY <1>1 DEF Joins
<1>3. /\ audience' = [audience EXCEPT ![s] = @ \cup {who}]
      /\ entry' = [entry EXCEPT ![k] = s] /\ tangled' = tangled
  BY DEF Joins
<1>4. entry[k] # NoSet => s = entry[k]
  OBVIOUS
<1> HIDE DEF s
<1> QED
  BY <1>2, <1>3, <1>4 DEF StreamsInv, StreamsTypeOK

\* Those who listen already stay where they are.
LEMMA JoinsKeep ==
    ASSUME StreamsInv, NEW k \in StreamKinds, NEW who \in Listeners \cup {Ghost},
           Joins(k, who), NEW d \in Listeners, stream'[d] = stream[d]
    PROVE  /\ stream'[d].is \in {"open", "gone", "failed"} => stream'[d].set \in Sets
           /\ Listening(d)' => Placed(d)'
<1>1. KindOf(d) \in StreamKinds /\ KindOf(d)' = KindOf(d)
  BY Kinds DEF KindOf
<1>2. stream'[d].is \in {"open", "gone", "failed"} => stream'[d].set \in Sets
  BY DEF StreamsInv
<1>3. ASSUME Listening(d)
      PROVE  /\ d \in audience'[stream[d].set]
             /\ entry'[KindOf(d)] = stream[d].set \/ KindOf(d) \in tangled'
  <2>1. Placed(d) /\ stream[d].set \in Sets
    BY <1>3 DEF StreamsInv, Listening
  <2>2. stream[d].set # NoSet
    BY <2>1, StreamsAssumption
  <2> QED
    BY <1>1, <2>1, <2>2, JoinsMove DEF Placed
<1> QED
  BY <1>1, <1>2, <1>3 DEF Listening, Placed

LEMMA JoinedKeeps ==
    ASSUME StreamsInv, NEW c \in Listeners, Joined(c)
    PROVE  StreamsInv'
<1>1. /\ KindOf(c) \in StreamKinds /\ Joins(KindOf(c), c) /\ KindOf(c)' = KindOf(c)
      /\ stream' = [stream EXCEPT ![c] = [is |-> "open", set |-> entry'[KindOf(c)]]]
  BY Kinds DEF Joined, KindOf
<1>2. /\ entry' \in [StreamKinds -> Sets \cup {NoSet}]
      /\ audience' \in [Sets -> SUBSET (Listeners \cup {Ghost})]
      /\ tangled' = tangled
      /\ entry'[KindOf(c)] \in Sets /\ c \in audience'[entry'[KindOf(c)]]
  BY <1>1, JoinsMove
<1>3. /\ stream'[c] = [is |-> "open", set |-> entry'[KindOf(c)]]
      /\ \A d \in Listeners : d # c => stream'[d] = stream[d]
  BY <1>1 DEF StreamsInv, StreamsTypeOK
<1>4. stream'[c].is = "open" /\ stream'[c].set = entry'[KindOf(c)]
  BY <1>3
<1>5. StreamsTypeOK'
  <2>1. [is |-> "open", set |-> entry'[KindOf(c)]] \in Stream
    BY <1>2 DEF Stream
  <2>2. stream' \in [Listeners -> Stream]
    BY <1>1, <2>1 DEF StreamsInv, StreamsTypeOK
  <2> QED
    BY <1>2, <2>2 DEF StreamsInv, StreamsTypeOK
<1>6. ASSUME NEW d \in Listeners
      PROVE  /\ stream'[d].is \in {"open", "gone", "failed"} => stream'[d].set \in Sets
             /\ Listening(d)' => Placed(d)'
  <2>1. CASE d = c
    BY <1>1, <1>2, <1>4, <2>1 DEF Placed, Listening
  <2>2. CASE d # c
    BY <1>1, <1>3, <2>2, JoinsKeep
  <2> QED
    BY <2>1, <2>2
<1> QED
  BY <1>5, <1>6 DEF StreamsInv

LEMMA JoinsClosedKeeps ==
    ASSUME StreamsInv, NEW c \in Listeners, JoinsClosed(c)
    PROVE  StreamsInv'
<1>1. Joins("ws", Ghost) /\ "ws" \in StreamKinds /\ stream' = [stream EXCEPT ![c] = NoStream]
  BY DEF JoinsClosed, StreamKinds
<1>2. /\ stream'[c] = NoStream /\ \A d \in Listeners : d # c => stream'[d] = stream[d]
      /\ stream' \in [Listeners -> Stream] /\ NoStream.is = "none"
  BY <1>1 DEF StreamsInv, StreamsTypeOK, NoStream, Stream
<1>3. StreamsTypeOK'
  BY <1>1, <1>2, JoinsMove DEF StreamsInv, StreamsTypeOK
<1>4. ASSUME NEW d \in Listeners
      PROVE  /\ stream'[d].is \in {"open", "gone", "failed"} => stream'[d].set \in Sets
             /\ Listening(d)' => Placed(d)'
  <2>1. CASE d = c
    BY <1>2, <2>1 DEF Listening
  <2>2. CASE d # c
    BY <1>1, <1>2, <2>2, JoinsKeep
  <2> QED
    BY <2>1, <2>2
<1> QED
  BY <1>3, <1>4 DEF StreamsInv

LEMMA ErrorKeeps ==
    ASSUME StreamsInv, NEW c \in Listeners, WsError(c)
    PROVE  StreamsInv'
<1>1. /\ stream[c].is \in {"open", "gone"} /\ entry' = entry /\ tangled' = tangled
      /\ audience' = [audience EXCEPT ![stream[c].set] = @ \ {c}]
      /\ stream' = [stream EXCEPT ![c].is = "failed"]
  BY DEF WsError
<1>2. stream[c].set \in Sets
  BY <1>1 DEF StreamsInv
<1>3. StreamsTypeOK'
  BY <1>1, <1>2 DEF StreamsInv, StreamsTypeOK, Stream
<1>4. /\ stream'[c].is = "failed" /\ stream'[c].set = stream[c].set
      /\ \A d \in Listeners : d # c => stream'[d] = stream[d]
  BY <1>1 DEF StreamsInv, StreamsTypeOK, Stream
<1>5. \A s \in Sets, d \in Listeners : d # c /\ d \in audience[s] => d \in audience'[s]
  BY <1>1 DEF StreamsInv, StreamsTypeOK
<1> QED
  BY <1>1, <1>2, <1>3, <1>4, <1>5 DEF StreamsInv, Listening, Placed, KindOf

\* The entry goes with the last client of the Set; whoever is in another Set of
\* that kind was tangled already, or is tangled now.
LEMMA ClosesKeeps ==
    ASSUME StreamsInv, NEW c \in Listeners, Closes(c)
    PROVE  StreamsInv'
<1> DEFINE k == KindOf(c)
           s == stream[c].set
           last == audience[s] \ {c} = {}
           tangles == stream[c].is = "failed" /\ last /\ entry[k] \notin {s, NoSet}
<1>1. /\ stream[c].is \in {"gone", "failed"}
      /\ audience' = [audience EXCEPT ![s] = @ \ {c}]
      /\ stream' = [stream EXCEPT ![c] = NoStream]
      /\ entry' = IF last THEN [entry EXCEPT ![k] = NoSet] ELSE entry
      /\ tangled' = IF tangles THEN tangled \cup {k} ELSE tangled
  BY DEF Closes
<1>2. s \in Sets /\ k \in StreamKinds
  BY <1>1, Kinds DEF StreamsInv
<1>3. /\ stream'[c] = NoStream /\ \A d \in Listeners : d # c => stream'[d] = stream[d]
      /\ stream' \in [Listeners -> Stream] /\ NoStream.is = "none"
  BY <1>1 DEF StreamsInv, StreamsTypeOK, NoStream, Stream
<1>4. StreamsTypeOK'
  BY <1>1, <1>2, <1>3 DEF StreamsInv, StreamsTypeOK
<1>5. ASSUME NEW d \in Listeners, d # c, Listening(d)
      PROVE  Placed(d)'
  <2>1. /\ stream[d].set \in Sets /\ stream[d].set # NoSet /\ stream'[d] = stream[d]
        /\ Placed(d) /\ KindOf(d)' = KindOf(d) /\ KindOf(d) \in StreamKinds
    BY <1>3, <1>5, StreamsAssumption, Kinds DEF StreamsInv, Listening, KindOf
  <2>2. d \in audience'[stream[d].set]
    BY <1>1, <1>2, <1>5, <2>1 DEF Placed, StreamsInv, StreamsTypeOK
  <2>3. CASE KindOf(d) \in tangled
    BY <1>1, <2>1, <2>2, <2>3 DEF Placed
  <2>4. CASE entry[KindOf(d)] = stream[d].set
    <3>1. CASE KindOf(d) # k \/ ~last
      <4>1. entry'[KindOf(d)] = entry[KindOf(d)]
        BY <1>1, <1>2, <2>1, <3>1 DEF StreamsInv, StreamsTypeOK
      <4> QED
        BY <2>1, <2>2, <2>4, <4>1 DEF Placed
    <3>2. CASE KindOf(d) = k /\ last
      <4>1. stream[d].set # s
        BY <1>5, <2>1, <3>2 DEF Placed
      <4>2. entry[k] \notin {s, NoSet}
        BY <2>1, <2>4, <3>2, <4>1
      <4>3. k \in tangled'
        <5>1. CASE stream[c].is = "failed"
          BY <1>1, <3>2, <4>2, <5>1
        <5>2. CASE stream[c].is = "gone"
          BY <1>1, <4>2, <5>2 DEF StreamsInv, Listening, Placed
        <5> QED
          BY <1>1, <5>1, <5>2
      <4> QED
        BY <2>1, <2>2, <3>2, <4>3 DEF Placed
    <3> QED
      BY <3>1, <3>2
  <2> QED
    BY <2>1, <2>3, <2>4 DEF Placed
<1>6. ASSUME NEW d \in Listeners
      PROVE  /\ stream'[d].is \in {"open", "gone", "failed"} => stream'[d].set \in Sets
             /\ Listening(d)' => Placed(d)'
  <2>1. CASE d = c
    BY <1>3, <2>1 DEF Listening
  <2>2. CASE d # c
    BY <1>3, <1>5, <2>2 DEF Listening, StreamsInv
  <2> QED
    BY <2>1, <2>2
<1> QED
  BY <1>4, <1>6 DEF StreamsInv

LEMMA EmitKeeps ==
    ASSUME StreamsInv, NEW k \in StreamKinds, EmitTo(k)
    PROVE  StreamsInv'
<1>1. PICK threw \in SUBSET {c \in audience[entry[k]] \ {Ghost} : stream[c].is = "gone"} :
         /\ audience' = [audience EXCEPT ![entry[k]] = @ \ threw]
         /\ stream' = [c \in Listeners |-> IF c \in threw THEN [stream[c] EXCEPT !.is = "failed"]
                                         ELSE stream[c]]
  BY DEF EmitTo
<1>2. /\ entry' = entry /\ tangled' = tangled /\ entry[k] \in Sets
  BY DEF EmitTo, StreamsInv, StreamsTypeOK
<1>3. ASSUME NEW d \in Listeners
      PROVE  /\ stream'[d] \in Stream /\ stream'[d].set = stream[d].set
             /\ stream'[d] = stream[d] \/ (stream'[d].is = "failed" /\ stream[d].is = "gone")
             /\ d \in threw => stream'[d].is = "failed"
  <2>1. stream[d] \in Stream
    BY DEF StreamsInv, StreamsTypeOK
  <2>2. CASE d \in threw
    <3>1. stream'[d] = [stream[d] EXCEPT !.is = "failed"] /\ stream[d].is = "gone"
      BY <1>1, <2>2
    <3>2. stream'[d].is = "failed" /\ stream'[d].set = stream[d].set
      BY <2>1, <3>1, StreamTurns
    <3>3. stream'[d] \in Stream
      BY <2>1, <3>1 DEF Stream
    <3> QED
      BY <2>2, <3>1, <3>2, <3>3
  <2>3. CASE d \notin threw
    <3>1. stream'[d] = stream[d]
      BY <1>1, <2>3
    <3> QED
      BY <2>1, <2>3, <3>1
  <2> QED
    BY <2>2, <2>3
<1>4. StreamsTypeOK'
  <2>1. stream' \in [Listeners -> Stream]
    BY <1>1, <1>3
  <2> QED
    BY <1>1, <1>2, <2>1 DEF StreamsInv, StreamsTypeOK
<1>5. \A s \in Sets, d \in Listeners : d \notin threw /\ d \in audience[s] => d \in audience'[s]
  BY <1>1, <1>2 DEF StreamsInv, StreamsTypeOK
<1> QED
  BY <1>2, <1>3, <1>4, <1>5 DEF StreamsInv, Listening, Placed, KindOf

\* A stream that is open is one of those that events are sent to, unless a failed
\* client took away the entry of those who came after it.
THEOREM EventsReach == StreamsSpec => []StreamsLast
<1>1. StreamsInit => StreamsInv
  BY DEF StreamsInit, StreamsInv, StreamsTypeOK, NoStream, Stream, Listening
<1>2. StreamsInv /\ [StreamsNext]_streamVars => StreamsInv'
  <2> SUFFICES ASSUME StreamsInv, [StreamsNext]_streamVars
               PROVE  StreamsInv'
    OBVIOUS
  <2>1. ASSUME NEW c \in Listeners, Connection(c) \/ Unauthorized(c) \/ AuthTimeout(c)
               \/ Leaves(c)
        PROVE  StreamsInv'
    BY <2>1, TurnsKeep DEF Connection, Unauthorized, AuthTimeout, Leaves
  <2>2. ASSUME NEW c \in Listeners, Authorized(c) \/ Sse(c)
        PROVE  StreamsInv'
    BY <2>2, JoinedKeeps DEF Authorized, Sse
  <2>3. ASSUME NEW c \in Listeners, JoinsClosed(c) \/ WsError(c) \/ WsClose(c) \/ SseClose(c)
        PROVE  StreamsInv'
    BY <2>3, JoinsClosedKeeps, ErrorKeeps, ClosesKeeps DEF WsClose, SseClose
  <2>4. CASE EmitInstanceWs \/ EmitUazSse
    BY <2>4, EmitKeeps DEF EmitInstanceWs, EmitUazSse, StreamKinds
  <2>5. CASE UNCHANGED streamVars
    BY <2>5 DEF streamVars, StreamsInv, StreamsTypeOK, Listening, Placed, KindOf
  <2> QED
    BY <2>1, <2>2, <2>3, <2>4, <2>5 DEF StreamsNext
<1> QED
  BY <1>1, <1>2, StreamsInvLast, PTL DEF StreamsSpec

-----------------------------------------------------------------------------
(* Requests that send before anything is stored.                           *)

\* What a request has done, by where it is.
OrderTrue(o) ==
    /\ order[o].pc = "idle" => reached[o] = {}
    /\ order[o].pc = "post" =>
         IF order[o].form = "interactive" THEN reached[o] = {}
         ELSE reached[o] \subseteq {"interactive"} /\ (reached[o] # {} => o \in unheard)
    /\ order[o].pc \in {"look", "store", "answered"} => order[o].form \in reached[o]
    /\ reached[o] = Forms => o \in unheard
AnswerKept(o) ==
    (order[o].pc = "answered" /\ order[o].storing \in {"ifNew", "always"})
        => \E x \in kept : x.order = o /\ x.form = order[o].form
RowTrue(x) ==
    /\ x.form \in reached[x.order]
    /\ x.amended \subseteq changed[x.order][x.form]
    /\ x.status = "deleted" => "deleted" \in x.amended
DirectInv ==
    /\ DirectTypeOK
    /\ \A o \in Orders : OrderTrue(o) /\ AnswerKept(o)
    /\ \A x \in kept : RowTrue(x)
    /\ \A o \in Orders, f \in Forms : <<o, f>> \in echo => f \in reached[o]
    /\ \A a \in amends : a[3] \in changed[a[1]][a[2]]

LEMMA DirectInvTrue ==
    ASSUME DirectInv
    PROVE  AnswersAreTrue
<1>1. ASSUME NEW o \in Orders, Cardinality(reached[o]) = 2
      PROVE  o \in unheard
  <2>1. reached[o] \subseteq {"interactive", "plain"}
    BY DEF DirectInv, DirectTypeOK, Forms
  <2>2. CASE reached[o] = {}
    BY <1>1, <2>2, FS_EmptySet
  <2>3. CASE \E f \in Forms : reached[o] = {f}
    <3>1. PICK f \in Forms : reached[o] = {f}
      BY <2>3
    <3>2. Cardinality({f}) = 1
      BY FS_Singleton
    <3> QED
      BY <1>1, <3>1, <3>2
  <2>5. CASE reached[o] = Forms
    BY <2>5 DEF DirectInv, OrderTrue
  <2> QED
    BY <2>1, <2>2, <2>3, <2>5 DEF Forms
<1>2. ASSUME NEW o \in Orders, order[o].pc = "answered"
      PROVE  /\ order[o].form \in reached[o]
             /\ order[o].storing \in {"ifNew", "always"} => RowsFor(o, order[o].form) # {}
  BY <1>2 DEF DirectInv, OrderTrue, AnswerKept, RowsFor
<1> QED
  BY <1>1, <1>2 DEF AnswersAreTrue, DirectInv, RowTrue

OrderRow == [pc : {"idle", "post", "look", "store", "answered", "error"},
             form : Forms, storing : Storing]

\* A step of one request that reaches or loses nobody else, and takes no row away.
LEMMA OrderMoves ==
    ASSUME DirectInv, NEW o \in Orders,
           \A p \in Orders : p # o => order'[p] = order[p] /\ reached'[p] = reached[p],
           order' \in [Orders -> OrderRow], reached' \in [Orders -> SUBSET Forms],
           reached[o] \subseteq reached'[o],
           unheard \subseteq unheard', unheard' \subseteq Orders,
           kept \subseteq kept', kept' \subseteq KeptRow,
           \A x \in kept' : x \in kept \/ RowTrue(x)',
           UNCHANGED <<changed, echo, marks, amends, receipts>>,
           OrderTrue(o)', AnswerKept(o)'
    PROVE  DirectInv'
<1>1. \A p \in Orders : reached[p] \subseteq reached'[p]
  OBVIOUS
<1>2. DirectTypeOK'
  BY DEF DirectInv, DirectTypeOK, OrderRow
<1>3. ASSUME NEW x \in kept'
      PROVE  RowTrue(x)'
  BY <1>1, <1>3 DEF DirectInv, RowTrue, DirectTypeOK, KeptRow
<1>4. ASSUME NEW p \in Orders
      PROVE  OrderTrue(p)' /\ AnswerKept(p)'
  BY <1>4 DEF DirectInv, OrderTrue, AnswerKept
<1> QED
  BY <1>1, <1>2, <1>3, <1>4 DEF DirectInv

\* A step that rewrites rows, each into one for the same request and form.
LEMMA RowsMove ==
    ASSUME DirectInv, UNCHANGED <<order, reached, unheard, receipts, echo>>,
           changed' \in [Orders -> [Forms -> SUBSET Changes]],
           kept' \subseteq KeptRow, marks' \subseteq KeptRow \X {"delivered", "read", "failed"},
           amends' \subseteq Orders \X Forms \X Changes,
           \A x \in kept' : RowTrue(x)',
           \A x \in kept : \E y \in kept' : y.order = x.order /\ y.form = x.form,
           \A a \in amends' : a[3] \in changed'[a[1]][a[2]]
    PROVE  DirectInv'
<1>1. DirectTypeOK'
  BY DEF DirectInv, DirectTypeOK
<1>2. ASSUME NEW o \in Orders
      PROVE  OrderTrue(o)' /\ AnswerKept(o)'
  BY <1>2 DEF DirectInv, OrderTrue, AnswerKept
<1> QED
  BY <1>1, <1>2 DEF DirectInv

LEMMA EndsMoves ==
    ASSUME DirectInv, NEW o \in Orders,
           NEW pc \in {"idle", "post", "look", "store", "answered", "error"}, Ends(o, pc)
    PROVE  /\ order' \in [Orders -> OrderRow]
           /\ \A p \in Orders : p # o => order'[p] = order[p]
           /\ order'[o].pc = pc /\ order'[o].form = order[o].form
           /\ order'[o].storing = order[o].storing
<1>1. order' = [order EXCEPT ![o].pc = pc] /\ order \in [Orders -> OrderRow]
  BY DEF Ends, DirectInv, DirectTypeOK, OrderRow
<1> QED
  BY <1>1 DEF OrderRow

LEMMA AskedKeeps ==
    ASSUME DirectInv, NEW o \in Orders, NEW form \in Forms, NEW storing \in Storing,
           Asked(o, form, storing)
    PROVE  DirectInv'
<1> DEFINE new == [pc |-> "post", form |-> form, storing |-> storing]
<1>1. order' = [order EXCEPT ![o] = new] /\ new \in OrderRow /\ order[o].pc = "idle"
      /\ UNCHANGED <<reached, changed, unheard, kept, echo, marks, amends, receipts>>
  BY DEF Asked, OrderRow
<1>2. /\ order' \in [Orders -> OrderRow] /\ order'[o] = new
      /\ \A p \in Orders : p # o => order'[p] = order[p]
  BY <1>1 DEF DirectInv, DirectTypeOK, OrderRow
<1>3. reached[o] = {} /\ reached' = reached
  BY <1>1 DEF DirectInv, OrderTrue
<1>4. order'[o].pc = "post"
  BY <1>2
<1>5. OrderTrue(o)' /\ AnswerKept(o)'
  BY <1>3, <1>4 DEF OrderTrue, AnswerKept, Forms
<1> QED
  BY <1>1, <1>2, <1>3, <1>5, OrderMoves DEF DirectInv, DirectTypeOK

LEMMA AskKeeps ==
    ASSUME DirectInv, NEW o \in Orders, AskOrder(o)
    PROVE  DirectInv'
BY AskedKeeps DEF AskOrder, UazText, UazMedia, UazButtons, UazMenu, PanelButtons, PanelMenu,
   V1Buttons, V1Menu, UazAdvanced, V1Advanced, ChatwootWebhook, Menu, Forms, Storing

LEMMA PostKeeps ==
    ASSUME DirectInv, NEW o \in Orders, Post(o)
    PROVE  DirectInv'
<1> DEFINE f == order[o].form
           gone == [order EXCEPT ![o].pc = IF f = "plain" THEN "error" ELSE "post",
                                 ![o].form = "plain"]
<1>0. /\ order \in [Orders -> OrderRow] /\ order[o] \in OrderRow
      /\ f \in {"interactive", "plain"} /\ order[o].pc = "post"
      /\ order[o].storing \in {"ifNew", "always", "quietly", "never"}
      /\ UNCHANGED <<changed, kept, echo, marks, amends, receipts>>
      /\ reached \in [Orders -> SUBSET Forms] /\ unheard \subseteq Orders
      /\ kept \subseteq KeptRow
  BY DEF Post, DirectInv, DirectTypeOK, OrderRow, Forms, Storing
<1>1. IF f = "interactive" THEN reached[o] = {}
      ELSE reached[o] \subseteq {"interactive"} /\ (reached[o] # {} => o \in unheard)
  BY <1>0 DEF DirectInv, OrderTrue
<1>2. CASE /\ order' = [order EXCEPT ![o].pc = Told(o)]
           /\ reached' = [reached EXCEPT ![o] = @ \cup {f}]
           /\ UNCHANGED unheard
  <2>1. /\ Told(o) \in {"look", "store", "answered"}
        /\ Told(o) = "answered" => order[o].storing = "never"
    BY <1>0 DEF Told
  <2>2. /\ order' \in [Orders -> OrderRow]
        /\ \A p \in Orders : p # o => order'[p] = order[p]
        /\ order'[o].pc = Told(o) /\ order'[o].form = f
        /\ order'[o].storing = order[o].storing
    BY <1>2, <2>1, EndsMoves DEF Ends
  <2>3. /\ reached' \in [Orders -> SUBSET Forms] /\ reached'[o] = reached[o] \cup {f}
        /\ \A p \in Orders : p # o => reached'[p] = reached[p]
    BY <1>0, <1>2 DEF Forms
  <2>4. OrderTrue(o)'
    <3>1. reached'[o] = Forms => o \in unheard
      BY <1>0, <1>1, <2>3 DEF Forms
    <3> QED
      BY <1>2, <2>1, <2>2, <2>3, <3>1 DEF OrderTrue
  <2>5. AnswerKept(o)'
    BY <2>1, <2>2 DEF AnswerKept
  <2> QED
    BY <1>0, <1>2, <2>2, <2>3, <2>4, <2>5, OrderMoves
<1>3. CASE /\ order' = gone
           /\ \/ reached' = [reached EXCEPT ![o] = @ \cup {f}] /\ unheard' = unheard \cup {o}
              \/ UNCHANGED <<reached, unheard>>
  <2>1. /\ order' \in [Orders -> OrderRow]
        /\ \A p \in Orders : p # o => order'[p] = order[p]
        /\ order'[o].pc = IF f = "plain" THEN "error" ELSE "post"
        /\ order'[o].form = "plain"
    BY <1>0, <1>3 DEF OrderRow, Forms
  <2>2. ASSUME reached' = [reached EXCEPT ![o] = @ \cup {f}], unheard' = unheard \cup {o}
        PROVE  DirectInv'
    <3>1. /\ reached' \in [Orders -> SUBSET Forms] /\ reached'[o] = reached[o] \cup {f}
          /\ \A p \in Orders : p # o => reached'[p] = reached[p]
      BY <1>0, <2>2 DEF Forms
    <3>2. OrderTrue(o)'
      BY <1>0, <1>1, <2>1, <2>2, <3>1 DEF OrderTrue
    <3>3. AnswerKept(o)'
      BY <2>1 DEF AnswerKept
    <3> QED
      BY <1>0, <2>1, <2>2, <3>1, <3>2, <3>3, OrderMoves
  <2>3. ASSUME UNCHANGED <<reached, unheard>>
        PROVE  DirectInv'
    <3>1. OrderTrue(o)'
      BY <1>0, <1>1, <2>1, <2>3 DEF OrderTrue, Forms
    <3>2. AnswerKept(o)'
      BY <2>1 DEF AnswerKept
    <3> QED
      BY <1>0, <2>1, <2>3, <3>1, <3>2, OrderMoves
  <2> QED
    BY <1>3, <2>2, <2>3
<1> QED
  BY <1>2, <1>3 DEF Post

\* What comes after the contact has got the message.
LEMMA StoringKeeps ==
    ASSUME DirectInv, NEW o \in Orders, LooksStored(o) \/ StoresSent(o) \/ StoringFails(o)
    PROVE  DirectInv'
<1>0. /\ order[o] \in OrderRow /\ order[o].form \in Forms
      /\ reached \in [Orders -> SUBSET Forms] /\ unheard \subseteq Orders
      /\ kept \subseteq KeptRow /\ order[o].pc \in {"look", "store"}
      /\ order[o].form \in reached[o] /\ (reached[o] = Forms => o \in unheard)
      /\ UNCHANGED <<reached, changed, unheard, echo, marks, amends, receipts>>
  BY DEF LooksStored, StoresSent, StoringFails, DirectInv, OrderTrue, DirectTypeOK, OrderRow
<1>1. CASE LooksStored(o)
  <2> DEFINE pc == IF RowsFor(o, order[o].form) = {} THEN "store" ELSE "answered"
  <2>1. Ends(o, pc) /\ kept' = kept
    BY <1>1 DEF LooksStored
  <2>2. pc \in {"store", "answered"}
    OBVIOUS
  <2>3. /\ order' \in [Orders -> OrderRow]
        /\ \A p \in Orders : p # o => order'[p] = order[p]
        /\ order'[o].pc = pc /\ order'[o].form = order[o].form
    BY <2>1, <2>2, EndsMoves
  <2>4. pc = "answered" => \E x \in kept : x.order = o /\ x.form = order[o].form
    BY DEF RowsFor
  <2> HIDE DEF pc
  <2>5. OrderTrue(o)' /\ AnswerKept(o)'
    BY <1>0, <2>1, <2>2, <2>3, <2>4 DEF OrderTrue, AnswerKept
  <2> QED
    BY <1>0, <2>1, <2>3, <2>5, OrderMoves
<1>2. CASE StoresSent(o)
  <2>1. Ends(o, "answered")
    BY <1>2 DEF StoresSent
  <2>2. PICK new \in KeptRow : /\ kept' = kept \cup {new}
                               /\ new.order = o /\ new.form = order[o].form
                               /\ new.amended = {} /\ new.status = "sent"
    <3>1. NewRow(o, order[o].form, "request") \in KeptRow
      BY <1>0 DEF NewRow, KeptRow
    <3> QED
      BY <1>2, <3>1 DEF StoresSent, NewRow
  <2>3. /\ order' \in [Orders -> OrderRow]
        /\ \A p \in Orders : p # o => order'[p] = order[p]
        /\ order'[o].pc = "answered" /\ order'[o].form = order[o].form
    BY <2>1, EndsMoves
  <2>4. RowTrue(new)'
    BY <1>0, <2>2 DEF RowTrue
  <2>5. OrderTrue(o)' /\ AnswerKept(o)'
    BY <1>0, <2>1, <2>2, <2>3 DEF OrderTrue, AnswerKept
  <2>6. /\ kept \subseteq kept' /\ kept' \subseteq KeptRow
        /\ \A x \in kept' : x \in kept \/ RowTrue(x)'
    BY <1>0, <2>2, <2>4
  <2> QED
    BY <1>0, <2>3, <2>5, <2>6, OrderMoves
<1>3. CASE StoringFails(o)
  <2> DEFINE pc == IF order[o].storing = "quietly" THEN "answered" ELSE "error"
  <2>1. Ends(o, pc) /\ kept' = kept
    BY <1>3 DEF StoringFails
  <2>2. pc \in {"answered", "error"} /\ (pc = "answered" => order[o].storing = "quietly")
    OBVIOUS
  <2> HIDE DEF pc
  <2>3. /\ order' \in [Orders -> OrderRow]
        /\ \A p \in Orders : p # o => order'[p] = order[p]
        /\ order'[o].pc = pc /\ order'[o].form = order[o].form
        /\ order'[o].storing = order[o].storing
    BY <2>1, <2>2, EndsMoves
  <2>4. OrderTrue(o)' /\ AnswerKept(o)'
    BY <1>0, <2>2, <2>3 DEF OrderTrue, AnswerKept
  <2> QED
    BY <1>0, <2>1, <2>3, <2>4, OrderMoves
<1> QED
  BY <1>1, <1>2, <1>3

LEMMA EchoKeeps ==
    ASSUME DirectInv, NEW o \in Orders, NEW f \in Forms, EchoLooks(o, f) \/ EchoInserts(o, f)
    PROVE  DirectInv'
<1>1. /\ f \in reached[o]
      /\ echo' = echo \cup {<<o, f>>} \/ echo' = echo \ {<<o, f>>}
      /\ UNCHANGED <<order, reached, changed, unheard, marks, amends, receipts>>
  BY DEF EchoLooks, EchoInserts, DirectInv
<1>2. PICK new \in KeptRow : /\ kept' = kept \/ kept' = kept \cup {new}
                             /\ new.order = o /\ new.form = f
                             /\ new.amended = {} /\ new.status = "sent"
  <2>1. NewRow(o, f, "event") \in KeptRow
    BY DEF NewRow, KeptRow
  <2> QED
    BY <2>1 DEF EchoLooks, EchoInserts, NewRow
<1>3. RowTrue(new)'
  BY <1>1, <1>2 DEF RowTrue
<1>4. DirectTypeOK'
  BY <1>1, <1>2 DEF DirectInv, DirectTypeOK
<1>5. ASSUME NEW p \in Orders
      PROVE  OrderTrue(p)' /\ AnswerKept(p)'
  BY <1>1, <1>2 DEF DirectInv, OrderTrue, AnswerKept
<1>6. ASSUME NEW x \in kept'
      PROVE  RowTrue(x)'
  BY <1>1, <1>2, <1>3 DEF DirectInv, RowTrue
<1>7. ASSUME NEW p \in Orders, NEW g \in Forms, <<p, g>> \in echo'
      PROVE  g \in reached'[p]
  BY <1>1, <1>7 DEF DirectInv
<1> QED
  BY <1>1, <1>4, <1>5, <1>6, <1>7 DEF DirectInv

LEMMA ReceiptFindsKeeps ==
    ASSUME DirectInv, DirectSendAssumption, NEW o \in Orders, NEW f \in Forms,
           NEW s \in {"delivered", "read", "failed"}, ReceiptFinds(o, f, s)
    PROVE  DirectInv'
<1>1. PICK x \in RowsFor(o, f) : marks' = marks \cup {<<x, s>>}
  BY DEF ReceiptFinds
<1>2. /\ x \in kept /\ receipts < MaxReceipts /\ receipts' = receipts + 1
      /\ UNCHANGED <<order, reached, changed, unheard, kept, echo, amends>>
  BY <1>1 DEF ReceiptFinds, RowsFor
<1>3. DirectTypeOK'
  BY <1>1, <1>2 DEF DirectInv, DirectTypeOK, DirectSendAssumption
<1> QED
  BY <1>2, <1>3 DEF DirectInv, OrderTrue, AnswerKept, RowTrue

LEMMA ReceiptWritesKeeps ==
    ASSUME DirectInv, ReceiptWrites
    PROVE  DirectInv'
<1>1. PICK m \in marks :
        /\ marks' = marks \ {m}
        /\ kept' = {IF SameRow(x, m[1]) THEN [x EXCEPT !.status = m[2]] ELSE x : x \in kept}
        /\ UNCHANGED <<order, reached, changed, unheard, echo, amends, receipts>>
  BY DEF ReceiptWrites
<1>2. m[2] \in {"delivered", "read", "failed"} /\ kept \subseteq KeptRow
  BY DEF DirectInv, DirectTypeOK
<1>3. ASSUME NEW x \in kept
      PROVE  LET y == IF SameRow(x, m[1]) THEN [x EXCEPT !.status = m[2]] ELSE x
             IN  y \in KeptRow /\ RowTrue(y)' /\ y.order = x.order /\ y.form = x.form
  <2>1. x \in KeptRow /\ RowTrue(x)
    BY <1>2 DEF DirectInv
  <2>2. RowTrue(x)'
    BY <1>1, <2>1 DEF RowTrue
  <2> DEFINE z == [x EXCEPT !.status = m[2]]
  <2>3. /\ z \in KeptRow /\ z.order = x.order /\ z.form = x.form
        /\ z.amended = x.amended /\ z.status # "deleted"
    BY <1>2, <2>1 DEF KeptRow
  <2> HIDE DEF z
  <2>4. RowTrue(z)'
    BY <1>1, <2>1, <2>3 DEF RowTrue
  <2> USE DEF z
  <2> QED
    BY <2>1, <2>2, <2>3, <2>4
<1>4. /\ kept' \subseteq KeptRow /\ \A y \in kept' : RowTrue(y)'
      /\ \A x \in kept : \E y \in kept' : y.order = x.order /\ y.form = x.form
  BY <1>1, <1>3
<1> QED
  BY <1>1, <1>4, RowsMove DEF DirectInv, DirectTypeOK

LEMMA AmendKeeps ==
    ASSUME DirectInv, NEW o \in Orders, NEW f \in Forms, NEW c \in Changes, Amend(o, f, c)
    PROVE  DirectInv'
<1>1. /\ changed' = [changed EXCEPT ![o][f] = @ \cup {c}]
      /\ amends' = amends \/ amends' = amends \cup {<<o, f, c>>}
      /\ UNCHANGED <<order, reached, unheard, kept, echo, marks, receipts>>
  BY DEF Amend
<1>2. /\ changed' \in [Orders -> [Forms -> SUBSET Changes]]
      /\ c \in changed'[o][f]
      /\ \A p \in Orders, g \in Forms : changed[p][g] \subseteq changed'[p][g]
  BY <1>1 DEF DirectInv, DirectTypeOK
<1>3. amends' \subseteq Orders \X Forms \X Changes
  BY <1>1 DEF DirectInv, DirectTypeOK
<1>4. ASSUME NEW a \in amends'
      PROVE  a[3] \in changed'[a[1]][a[2]]
  <2>1. CASE a \in amends
    BY <1>2, <2>1 DEF DirectInv, DirectTypeOK
  <2>2. CASE a = <<o, f, c>>
    BY <1>2, <2>2
  <2> QED
    BY <1>1, <2>1, <2>2
<1>5. ASSUME NEW x \in kept'
      PROVE  RowTrue(x)'
  <2>1. x \in kept /\ x.order \in Orders /\ x.form \in Forms
    BY <1>1 DEF DirectInv, DirectTypeOK, KeptRow
  <2> QED
    BY <1>1, <1>2, <2>1 DEF DirectInv, RowTrue
<1> QED
  BY <1>1, <1>2, <1>3, <1>4, <1>5, RowsMove DEF DirectInv, DirectTypeOK

LEMMA AmendWritesKeeps ==
    ASSUME DirectInv, AmendWrites
    PROVE  DirectInv'
<1>1. PICK a \in amends :
        /\ amends' = amends \ {a}
        /\ kept' = {IF x.order = a[1] /\ x.form = a[2]
                    THEN [x EXCEPT !.amended = @ \cup {a[3]},
                                   !.status = IF a[3] = "deleted" THEN "deleted" ELSE @]
                    ELSE x : x \in kept}
        /\ UNCHANGED <<order, reached, changed, unheard, echo, marks, receipts>>
  BY DEF AmendWrites
<1>2. a[3] \in Changes /\ a[3] \in changed[a[1]][a[2]] /\ kept \subseteq KeptRow
  BY DEF DirectInv, DirectTypeOK
<1>3. ASSUME NEW x \in kept
      PROVE  LET y == IF x.order = a[1] /\ x.form = a[2]
                      THEN [x EXCEPT !.amended = @ \cup {a[3]},
                                     !.status = IF a[3] = "deleted" THEN "deleted" ELSE @]
                      ELSE x
             IN  y \in KeptRow /\ RowTrue(y)' /\ y.order = x.order /\ y.form = x.form
  <2>1. x \in KeptRow /\ RowTrue(x)
    BY <1>2 DEF DirectInv
  <2>2. RowTrue(x)'
    BY <1>1, <2>1 DEF RowTrue
  <2>3. CASE x.order = a[1] /\ x.form = a[2]
    <3> DEFINE z == [x EXCEPT !.amended = @ \cup {a[3]},
                              !.status = IF a[3] = "deleted" THEN "deleted" ELSE @]
    <3>1. /\ z \in KeptRow /\ z.order = x.order /\ z.form = x.form
          /\ z.amended = x.amended \cup {a[3]}
          /\ z.status = "deleted" => (a[3] = "deleted" \/ x.status = "deleted")
      BY <1>2, <2>1 DEF KeptRow
    <3> HIDE DEF z
    <3>2. RowTrue(z)'
      BY <1>1, <1>2, <2>1, <2>3, <3>1 DEF RowTrue
    <3> USE DEF z
    <3> QED
      BY <2>3, <3>1, <3>2
  <2> QED
    BY <2>1, <2>2, <2>3
<1>4. ASSUME NEW y \in kept'
      PROVE  y \in KeptRow /\ RowTrue(y)'
  BY <1>1, <1>3, <1>4
<1>5. ASSUME NEW x \in kept
      PROVE  \E y \in kept' : y.order = x.order /\ y.form = x.form
  BY <1>1, <1>3, <1>5
<1> QED
  BY <1>1, <1>4, <1>5, RowsMove DEF DirectInv, DirectTypeOK

\* An answer of success, and every row that is stored, says what the contact got.
THEOREM SuccessIsTrue == DirectSpec => []AnswersAreTrue
<1>1. DirectInit => DirectInv
  BY DirectSendAssumption DEF DirectInit, DirectInv, DirectTypeOK, OrderTrue, AnswerKept,
     DirectSendAssumption, Forms, Storing, Changes
<1>2. DirectInv /\ [DirectNext]_directVars => DirectInv'
  <2> SUFFICES ASSUME DirectInv, [DirectNext]_directVars
               PROVE  DirectInv'
    OBVIOUS
  <2>1. CASE UNCHANGED directVars
    BY <2>1 DEF directVars, DirectInv, DirectTypeOK, OrderTrue, AnswerKept, RowTrue
  <2> QED
    BY <2>1, DirectSendAssumption, AskKeeps, PostKeeps, StoringKeeps, EchoKeeps,
       ReceiptFindsKeeps, ReceiptWritesKeeps, AmendKeeps, AmendWritesKeeps DEF DirectNext
<1> QED
  BY <1>1, <1>2, DirectInvTrue, PTL DEF DirectSpec

-----------------------------------------------------------------------------
(* The panel's dialog: wherever a code is kept or under way, it is kept    *)
(* with the instance it is of, and an image in progress is of the code     *)
(* that the dialog holds.                                                  *)

OwnCode(i, qr) == qr # NoCode => qr[1] = i
KnownOf(i) == {k \in KnownInstance : OwnCode(i, k.qr)}
OwnFrame == {f \in Frame : OwnCode(f.id, f.qr)}
Posted == {f \in OwnFrame : f.id \in Devices}
ClickRow == [pc : {"rest", "connect", "create", "confirm"}, id : Devices \cup {Shut},
             listed : BOOLEAN, got : States, qr : Codes \cup {NoCode}]
OwnClick == {c \in ClickRow : /\ OwnCode(c.id, c.qr)
                              /\ c.pc # "rest" => c.id \in Devices
                              /\ c.got # "gone" => c.pc # "rest"}

ListsTrue(what) ==
    what \in [Devices -> KnownInstance] /\ \A i \in Devices : what[i] \in KnownOf(i)
PaintTrue ==
    /\ (dialog.status = "qr" /\ image # NoCode) => (image = dialog.qr \/ painting = dialog.qr)
    /\ painting # NoCode => (painting = dialog.qr /\ dialog.status = "qr")
DialogInv ==
    /\ ListsTrue(server) /\ ListsTrue(list)
    /\ feed \in Seq(Posted) /\ polls \subseteq Posted /\ later \subseteq Posted
    /\ dialog \in OwnFrame /\ PaintTrue
    /\ click \in [Clicks -> OwnClick]
    /\ reports \in 0..MaxReports

LEMMA SetKeeps ==
    ASSUME DialogInv, NEW d \in OwnFrame, NEW rest \in SUBSET Posted, DialogBecomes(d, rest)
    PROVE  PaintTrue' /\ dialog' \in OwnFrame /\ polls' \subseteq Posted
<1>1. dialog' = d /\ polls' \subseteq Posted
  BY DEF DialogBecomes
<1>2. CASE d.qr = dialog.qr /\ (d.status = "qr") = (dialog.status = "qr")
  <2>1. UNCHANGED <<image, painting>>
    BY <1>2 DEF DialogBecomes
  <2>2. (d.status = "qr") <=> (dialog.status = "qr")
    BY <1>2
  <2> QED
    BY <1>1, <1>2, <2>1, <2>2 DEF PaintTrue, DialogInv
<1>3. CASE ~(d.qr = dialog.qr /\ (d.status = "qr") = (dialog.status = "qr"))
  BY <1>1, <1>3 DEF DialogBecomes, PaintTrue, DialogInv
<1> QED
  BY <1>1, <1>2, <1>3

\* A step that leaves the dialog alone or gives it a frame of its own.
LEMMA DialogMoves ==
    ASSUME DialogInv, ListsTrue(server)', ListsTrue(list)', feed' \in Seq(Posted),
           later' \subseteq Posted, click' \in [Clicks -> OwnClick], reports' \in 0..MaxReports,
           \/ Same
           \/ \E d \in OwnFrame, rest \in SUBSET Posted : DialogBecomes(d, rest)
    PROVE  DialogInv'
<1>1. PaintTrue' /\ dialog' \in OwnFrame /\ polls' \subseteq Posted
  <2>1. CASE Same
    BY <2>1 DEF Same, DialogInv, PaintTrue
  <2>2. CASE \E d \in OwnFrame, rest \in SUBSET Posted : DialogBecomes(d, rest)
    BY <2>2, SetKeeps
  <2> QED
    BY <2>1, <2>2
<1> QED
  BY <1>1 DEF DialogInv

LEMMA OfOwn ==
    ASSUME NEW i \in Devices, NEW k \in KnownOf(i)
    PROVE  Of(i, k) \in Posted
BY DEF Of, KnownOf, KnownInstance, Posted, OwnFrame, Frame, OwnCode

LEMMA FixedFrames ==
    /\ Closed \in OwnFrame
    /\ \A i \in Devices : /\ Unconnected \in KnownOf(i) /\ CodeAwaited \in KnownOf(i)
                          /\ [Unconnected EXCEPT !.status = "gone"] \in KnownOf(i)
                          /\ [Unconnected EXCEPT !.status = "new"] \in KnownOf(i)
    /\ Waiting \in OwnClick
<1>1. Closed \in OwnFrame
  BY DEF Closed, OwnFrame, Frame, OwnCode, States
<1>2. Waiting \in OwnClick
  BY DEF Waiting, OwnClick, ClickRow, OwnCode, States
<1> QED
  BY <1>1, <1>2 DEF Unconnected, CodeAwaited, KnownOf, KnownInstance, OwnCode, States

LEMMA ListedWith ==
    ASSUME NEW what, ListsTrue(what), NEW i \in Devices, NEW k \in KnownOf(i)
    PROVE  ListsTrue([what EXCEPT ![i] = k])
BY DEF ListsTrue, KnownOf

LEMMA PostedTo ==
    ASSUME DialogInv, NEW f \in Posted
    PROVE  Append(feed, f) \in Seq(Posted)
BY DEF DialogInv

LEMMA ServerBecomesKeeps ==
    ASSUME DialogInv, DialogAssumption, NEW i \in Devices, NEW s \in States, NEW qr,
           qr = NoCode \/ qr = <<i, reports + 1>>, ServerBecomes(i, s, qr)
    PROVE  DialogInv'
<1> DEFINE k == [status |-> s, qr |-> qr]
<1>1. reports + 1 \in 1..MaxReports
  BY DEF DialogInv, ServerBecomes, DialogAssumption
<1>2. qr \in Codes \cup {NoCode} /\ OwnCode(i, qr)
  BY <1>1 DEF Codes, OwnCode
<1>3. k \in KnownOf(i)
  BY <1>2 DEF KnownOf, KnownInstance
<1>4. [id |-> i, status |-> s, qr |-> qr] \in Posted
  BY <1>2 DEF Posted, OwnFrame, Frame
<1>5. ListsTrue([server EXCEPT ![i] = k])
  BY <1>3, ListedWith DEF DialogInv
<1>6. /\ server' = [server EXCEPT ![i] = k] /\ list' = list /\ reports' = reports + 1
      /\ feed' = Append(feed, [id |-> i, status |-> s, qr |-> qr])
      /\ UNCHANGED <<dialog, image, painting, polls, later, click>>
  BY DEF ServerBecomes
<1>7. feed' \in Seq(Posted)
  BY <1>4, <1>6, PostedTo
<1> HIDE DEF k
<1>8. ListsTrue(server)' /\ ListsTrue(list)'
  BY <1>5, <1>6 DEF DialogInv, ListsTrue
<1> QED
  BY <1>1, <1>6, <1>7, <1>8, DialogMoves DEF Same, DialogInv

LEMMA HearsKeeps ==
    ASSUME DialogInv, Hears
    PROVE  DialogInv'
<1>1. PICK e \in Posted : e = Head(feed)
  BY HeadTailProperties DEF DialogInv, Hears
<1> DEFINE known == [status |-> e.status,
                     qr |-> IF e.status \in {"qr", "passkey", "open"} THEN e.qr ELSE list[e.id].qr]
<1>2. /\ e.id \in Devices /\ e.status \in States /\ e.qr \in Codes \cup {NoCode}
      /\ OwnCode(e.id, e.qr)
  BY DEF Posted, OwnFrame, Frame
<1>3. list[e.id].qr \in Codes \cup {NoCode} /\ OwnCode(e.id, list[e.id].qr)
  BY <1>2 DEF DialogInv, ListsTrue, KnownOf, KnownInstance
<1>4. known \in KnownOf(e.id)
  BY <1>2, <1>3 DEF KnownOf, KnownInstance
<1>5. /\ feed' = Tail(feed) /\ UNCHANGED <<server, click, reports>>
      /\ list' = list \/ list' = [list EXCEPT ![e.id] = known]
      /\ \/ Opens(e.id, known)
         \/ SetDialog(Closed) /\ UNCHANGED later
         \/ SetDialog([dialog EXCEPT !.status = "confirmation"]) /\ UNCHANGED later
         \/ Same /\ UNCHANGED later
  BY <1>1 DEF Hears
<1>6. feed' \in Seq(Posted)
  BY <1>5, HeadTailProperties DEF DialogInv, Hears
<1>7. ListsTrue(server)' /\ ListsTrue(list)'
  <2>1. ListsTrue([list EXCEPT ![e.id] = known])
    BY <1>2, <1>4, ListedWith DEF DialogInv
  <2> HIDE DEF known
  <2> QED
    BY <1>5, <2>1 DEF DialogInv, ListsTrue
<1>8. Of(e.id, known) \in Posted
  BY <1>2, <1>4, OfOwn
<1>9. [dialog EXCEPT !.status = "confirmation"] \in OwnFrame
  BY DEF DialogInv, OwnFrame, Frame, States, OwnCode
<1> HIDE DEF known
<1>10. /\ later' \subseteq Posted
       /\ Same \/ \E d \in OwnFrame, rest \in SUBSET Posted : DialogBecomes(d, rest)
  <2>1. \A d \in OwnFrame : SetDialog(d) => DialogBecomes(d, polls) /\ polls \in SUBSET Posted
    BY DEF SetDialog, DialogInv
  <2>2. CASE Opens(e.id, known)
    BY <1>8, <2>1, <2>2 DEF Opens, Posted, DialogInv
  <2> QED
    BY <1>5, <1>9, <2>1, <2>2, FixedFrames DEF DialogInv
<1> QED
  BY <1>5, <1>6, <1>7, <1>10, DialogMoves DEF DialogInv

LEMMA PollAnsweredKeeps ==
    ASSUME DialogInv, PollAnswered
    PROVE  DialogInv'
<1>1. PICK a \in polls :
        /\ list' = IF Absent(list[a.id]) THEN list
                   ELSE [list EXCEPT ![a.id] = [status |-> a.status, qr |-> a.qr]]
        /\ DialogBecomes(IF a.status = "open" THEN Closed ELSE a, polls \ {a})
        /\ UNCHANGED <<server, feed, later, click, reports, clicks>>
  BY DEF PollAnswered
<1>2. /\ a \in OwnFrame /\ a.id \in Devices /\ polls \ {a} \subseteq Posted
      /\ [status |-> a.status, qr |-> a.qr] \in KnownOf(a.id)
  BY DEF DialogInv, Posted, OwnFrame, Frame, KnownOf, KnownInstance
<1>3. ListsTrue([list EXCEPT ![a.id] = [status |-> a.status, qr |-> a.qr]])
  BY <1>2, ListedWith DEF DialogInv
<1>4. ListsTrue(server)' /\ ListsTrue(list)'
  <2>1. list' = list \/ list' = [list EXCEPT ![a.id] = [status |-> a.status, qr |-> a.qr]]
    BY <1>1
  <2> QED
    BY <1>1, <1>3, <2>1 DEF DialogInv, ListsTrue
<1>5. \E d \in OwnFrame, rest \in SUBSET Posted : DialogBecomes(d, rest)
  <2>1. (IF a.status = "open" THEN Closed ELSE a) \in OwnFrame
    BY <1>2, FixedFrames
  <2> QED
    BY <1>1, <1>2, <2>1
<1> QED
  BY <1>1, <1>4, <1>5, DialogMoves DEF DialogInv

\* The steps that touch neither the server, nor the feed, nor a handler.
LEMMA ViewKeeps ==
    ASSUME DialogInv, NextTurn \/ Painted \/ PollAsks \/ PollFails \/ ListLoaded \/ CloseDialog
                      \/ FeedLost \/ \E i \in Devices : ShowInstance(i)
    PROVE  DialogInv'
<1>0. \A d \in OwnFrame : SetDialog(d) => DialogBecomes(d, polls) /\ polls \in SUBSET Posted
  BY DEF SetDialog, DialogInv
<1>1. CASE NextTurn
  <2>1. PICK d \in later : later' = later \ {d} /\ SetDialog(d)
    BY <1>1 DEF NextTurn
  <2>2. d \in OwnFrame
    BY DEF DialogInv, Posted
  <2>3. \E f \in OwnFrame, rest \in SUBSET Posted : DialogBecomes(f, rest)
    BY <1>0, <2>1, <2>2
  <2>4. /\ UNCHANGED <<server, feed, list, click, reports>>
        /\ ListsTrue(server)' /\ ListsTrue(list)'
    BY <1>1 DEF NextTurn, DialogInv, ListsTrue
  <2> QED
    BY <2>1, <2>3, <2>4, DialogMoves DEF DialogInv
<1>2. CASE Painted
  BY <1>2 DEF Painted, DialogInv, PaintTrue, ListsTrue
<1>3. CASE PollAsks
  <2>1. dialog.id \in Devices
    BY <1>3 DEF PollAsks, DialogInv, OwnFrame, Frame
  <2>2. Of(dialog.id, server[dialog.id]) \in Posted
    BY <2>1, OfOwn DEF DialogInv, ListsTrue
  <2> QED
    BY <1>3, <2>2 DEF PollAsks, DialogInv, PaintTrue, ListsTrue
<1>4. CASE PollFails
  BY <1>4 DEF PollFails, DialogInv, PaintTrue, ListsTrue
<1>5. CASE FeedLost
  BY <1>5 DEF FeedLost, DialogInv, PaintTrue, ListsTrue
<1>6. CASE ListLoaded
  <2>1. UNCHANGED <<server, feed, dialog, image, painting, polls, later, click, reports>>
    BY <1>6 DEF ListLoaded
  <2>2. ASSUME NEW i \in Devices
        PROVE  list'[i] \in KnownOf(i)
    BY <1>6, FixedFrames DEF ListLoaded, DialogInv, ListsTrue
  <2>3. list' \in [Devices -> KnownInstance]
    <3>1. DOMAIN list' = Devices /\ \A i \in Devices : list'[i] \in KnownInstance
      BY <1>6, <2>2 DEF ListLoaded, KnownOf
    <3>2. list' = [i \in Devices |-> list'[i]]
      BY <1>6 DEF ListLoaded
    <3> QED
      BY <3>1, <3>2
  <2> QED
    BY <2>1, <2>2, <2>3 DEF DialogInv, PaintTrue, ListsTrue
<1>7. CASE CloseDialog
  <2>1. \E f \in OwnFrame, rest \in SUBSET Posted : DialogBecomes(f, rest)
    BY <1>0, <1>7, FixedFrames DEF CloseDialog
  <2> QED
    BY <1>7, <2>1, DialogMoves DEF CloseDialog, DialogInv, ListsTrue
<1>8. ASSUME NEW i \in Devices, ShowInstance(i)
      PROVE  DialogInv'
  <2>1. Of(i, list[i]) \in OwnFrame
    BY OfOwn DEF DialogInv, ListsTrue, Posted
  <2>2. \E f \in OwnFrame, rest \in SUBSET Posted : DialogBecomes(f, rest)
    BY <1>0, <1>8, <2>1 DEF ShowInstance
  <2> QED
    BY <1>8, <2>2, DialogMoves DEF ShowInstance, DialogInv, ListsTrue
<1> QED
  BY <1>1, <1>2, <1>3, <1>4, <1>5, <1>6, <1>7, <1>8

\* A handler that begins, goes on or ends.
LEMMA ClickMoves ==
    ASSUME DialogInv, NEW h \in Clicks, NEW c \in OwnClick, click' = [click EXCEPT ![h] = c]
    PROVE  click' \in [Clicks -> OwnClick]
BY DEF DialogInv

LEMMA AwaitsMove ==
    ASSUME DialogInv, NEW h \in Clicks, NEW i \in Devices,
           NEW pc \in {"connect", "create", "confirm"}, Awaits(h, pc, i)
    PROVE  click' \in [Clicks -> OwnClick]
<1> DEFINE c == [Waiting EXCEPT !.pc = pc, !.id = i, !.listed = ~Absent(list[i])]
<1>1. c \in OwnClick
  BY DEF Waiting, OwnClick, ClickRow, OwnCode, States, Absent
<1>2. click' = [click EXCEPT ![h] = c]
  BY DEF Awaits
<1> HIDE DEF c
<1> QED
  BY <1>1, <1>2, ClickMoves

LEMMA EndsMove ==
    ASSUME DialogInv, NEW h \in Clicks, ClickEnds(h)
    PROVE  click' \in [Clicks -> OwnClick]
BY FixedFrames, ClickMoves DEF ClickEnds

LEMMA ClickBeginsKeep ==
    ASSUME DialogInv, NEW h \in Clicks, NEW i \in Devices,
           ConnectInstance(h, i) \/ CreateInstance(h, i)
    PROVE  DialogInv'
<1>0. \A d \in OwnFrame : SetDialog(d) => DialogBecomes(d, polls) /\ polls \in SUBSET Posted
  BY DEF SetDialog, DialogInv
<1>1. Of(i, CodeAwaited) \in OwnFrame /\ CodeAwaited \in KnownOf(i)
  BY FixedFrames, OfOwn DEF Posted
<1>2. click' \in [Clicks -> OwnClick]
  BY AwaitsMove DEF ConnectInstance, CreateInstance
<1>3. Same \/ \E d \in OwnFrame, rest \in SUBSET Posted : DialogBecomes(d, rest)
  BY <1>0, <1>1 DEF ConnectInstance, CreateInstance
<1>4. /\ server' = server \/ server' = [server EXCEPT ![i] = CodeAwaited]
      /\ list' = list \/ list' = [list EXCEPT ![i] = CodeAwaited]
      /\ UNCHANGED <<feed, later, reports>>
  BY DEF ConnectInstance, CreateInstance
<1>5. /\ ListsTrue([server EXCEPT ![i] = CodeAwaited])
      /\ ListsTrue([list EXCEPT ![i] = CodeAwaited])
  BY <1>1, ListedWith DEF DialogInv
<1>6. ListsTrue(server)' /\ ListsTrue(list)'
  BY <1>4, <1>5 DEF DialogInv, ListsTrue
<1> QED
  BY <1>2, <1>3, <1>4, <1>6, DialogMoves DEF DialogInv

LEMMA ServedKeeps ==
    ASSUME DialogInv, NEW h \in Clicks, ConnectServed(h)
    PROVE  DialogInv'
<1> DEFINE s == server[click[h].id]
<1>1. click[h] \in OwnClick /\ click[h].pc # "rest" /\ click[h].id \in Devices
  BY DEF ConnectServed, DialogInv, OwnClick
<1>2. s.qr \in Codes \cup {NoCode} /\ OwnCode(click[h].id, s.qr) /\ s.status \in States
  BY <1>1 DEF DialogInv, ListsTrue, KnownOf, KnownInstance
<1>3. [click[h] EXCEPT !.got = s.status, !.qr = s.qr] \in OwnClick
  BY <1>1, <1>2 DEF OwnClick, ClickRow, OwnCode
<1>4. click' = [click EXCEPT ![h] = [click[h] EXCEPT !.got = s.status, !.qr = s.qr]]
      \/ click' = [click EXCEPT ![h] = Waiting]
  BY DEF ConnectServed, DialogInv
<1> HIDE DEF s
<1>5. click' \in [Clicks -> OwnClick]
  BY <1>3, <1>4, FixedFrames, ClickMoves
<1>6. /\ Same /\ UNCHANGED <<server, feed, list, later, reports>>
      /\ ListsTrue(server)' /\ ListsTrue(list)'
  BY DEF ConnectServed, Same, DialogInv, ListsTrue
<1> QED
  BY <1>5, <1>6, DialogMoves DEF DialogInv

LEMMA AnsweredKeeps ==
    ASSUME DialogInv, NEW h \in Clicks, ConnectAnswered(h)
    PROVE  DialogInv'
<1> DEFINE i == click[h].id
           known == [status |-> click[h].got, qr |-> click[h].qr]
<1>0. \A d \in OwnFrame : SetDialog(d) => DialogBecomes(d, polls) /\ polls \in SUBSET Posted
  BY DEF SetDialog, DialogInv
<1>1. i \in Devices /\ known \in KnownOf(i)
  BY DEF ConnectAnswered, DialogInv, OwnClick, ClickRow, KnownOf, KnownInstance
<1>2. /\ list' = list \/ list' = [list EXCEPT ![i] = known]
      /\ SetDialog(Of(i, known)) \/ Same
      /\ ClickEnds(h) /\ UNCHANGED <<server, feed, later, reports>>
  BY DEF ConnectAnswered
<1> HIDE DEF i, known
<1>3. ListsTrue([list EXCEPT ![i] = known]) /\ Of(i, known) \in OwnFrame
  BY <1>1, ListedWith, OfOwn DEF DialogInv, Posted
<1>4. ListsTrue(server)' /\ ListsTrue(list)'
  BY <1>2, <1>3 DEF DialogInv, ListsTrue
<1>5. Same \/ \E d \in OwnFrame, rest \in SUBSET Posted : DialogBecomes(d, rest)
  BY <1>0, <1>2, <1>3
<1> QED
  BY <1>2, <1>4, <1>5, EndsMove, DialogMoves DEF DialogInv

LEMMA PasskeyKeeps ==
    ASSUME DialogInv, NEW h \in Clicks,
           AuthorizePasskey(h) \/ PasskeyAnswered(h) \/ PasskeyCancelled(h)
    PROVE  DialogInv'
<1>0. \A d \in OwnFrame : SetDialog(d) => DialogBecomes(d, polls) /\ polls \in SUBSET Posted
  BY DEF SetDialog, DialogInv
<1>1. CASE AuthorizePasskey(h)
  <2>1. dialog.id \in Devices
    BY <1>1 DEF AuthorizePasskey, DialogInv, OwnFrame, Frame
  <2>2. click' \in [Clicks -> OwnClick]
    BY <1>1, <2>1, AwaitsMove DEF AuthorizePasskey
  <2>3. /\ Same /\ UNCHANGED <<server, feed, list, later, reports>>
        /\ ListsTrue(server)' /\ ListsTrue(list)'
    BY <1>1 DEF AuthorizePasskey, Same, DialogInv, ListsTrue
  <2> QED
    BY <2>2, <2>3, DialogMoves DEF DialogInv
<1>2. CASE PasskeyAnswered(h)
  <2> DEFINE i == click[h].id
  <2>1. i \in Devices
    BY <1>2 DEF PasskeyAnswered, DialogInv, OwnClick
  <2>2. PICK s \in {"open", "confirmation"} :
          /\ list' = IF Absent(list[i]) THEN list
                     ELSE [list EXCEPT ![i].status = s, ![i].qr = IF s = "open" THEN NoCode ELSE @]
          /\ SetDialog(IF s = "open" \/ dialog.id = Shut THEN Closed
                       ELSE [dialog EXCEPT !.status = "confirmation"])
    BY <1>2 DEF PasskeyAnswered
  <2> DEFINE known == [list[i] EXCEPT !.status = s, !.qr = IF s = "open" THEN NoCode ELSE @]
  <2>3. known \in KnownOf(i)
    BY <2>1 DEF DialogInv, ListsTrue, KnownOf, KnownInstance, States, OwnCode
  <2>4. list' = list \/ list' = [list EXCEPT ![i] = known]
    BY <2>1, <2>2 DEF DialogInv, ListsTrue
  <2> HIDE DEF i, known
  <2>5. ListsTrue([list EXCEPT ![i] = known])
    BY <2>1, <2>3, ListedWith DEF DialogInv
  <2>6. /\ ClickEnds(h) /\ UNCHANGED <<server, feed, later, reports>>
        /\ ListsTrue(server)' /\ ListsTrue(list)'
    BY <1>2, <2>4, <2>5 DEF PasskeyAnswered, DialogInv, ListsTrue
  <2>7. [dialog EXCEPT !.status = "confirmation"] \in OwnFrame
    BY DEF DialogInv, OwnFrame, Frame, States, OwnCode
  <2>8. \E d \in OwnFrame, rest \in SUBSET Posted : DialogBecomes(d, rest)
    BY <1>0, <2>2, <2>7, FixedFrames
  <2> QED
    BY <2>6, <2>8, EndsMove, DialogMoves DEF DialogInv
<1>3. CASE PasskeyCancelled(h)
  <2>1. /\ ClickEnds(h) /\ Same /\ UNCHANGED <<server, feed, list, later, reports>>
        /\ ListsTrue(server)' /\ ListsTrue(list)'
    BY <1>3 DEF PasskeyCancelled, Same, DialogInv, ListsTrue
  <2> QED
    BY <2>1, EndsMove, DialogMoves DEF DialogInv
<1> QED
  BY <1>1, <1>2, <1>3

LEMMA RowsKeep ==
    ASSUME DialogInv, NEW i \in Devices, LogoutInstance(i) \/ DeleteFromList(i)
    PROVE  DialogInv'
<1> DEFINE none == [Unconnected EXCEPT !.status = "gone"]
<1>1. Unconnected \in KnownOf(i) /\ none \in KnownOf(i) /\ Of(i, Unconnected) \in Posted
  BY FixedFrames, OfOwn
<1> HIDE DEF none
<1>2. \A k \in KnownOf(i) : /\ ListsTrue([server EXCEPT ![i] = k])
                            /\ ListsTrue([list EXCEPT ![i] = k])
  BY ListedWith DEF DialogInv
<1>3. Same /\ UNCHANGED <<later, click, reports>>
  BY DEF LogoutInstance, DeleteFromList, Same
<1>4. /\ \E k \in KnownOf(i) : server' = server \/ server' = [server EXCEPT ![i] = k]
      /\ \E k \in KnownOf(i) : list' = list \/ list' = [list EXCEPT ![i] = k]
      /\ feed' = feed \/ feed' = Append(feed, Of(i, Unconnected))
  BY <1>1 DEF LogoutInstance, DeleteFromList, none
<1>5. ListsTrue(server)' /\ ListsTrue(list)'
  BY <1>2, <1>4 DEF DialogInv, ListsTrue
<1>6. feed' \in Seq(Posted)
  BY <1>1, <1>4, PostedTo DEF DialogInv
<1> QED
  BY <1>3, <1>5, <1>6, DialogMoves DEF DialogInv

\* The code in the dialog is of the instance it names, and the image is of that
\* code, at the latest when the one under way is made.
THEOREM DialogIsTrue == DialogSpec => []DialogTrue
<1>1. DialogInit => DialogInv
  <2> SUFFICES ASSUME DialogInit
               PROVE  DialogInv
    OBVIOUS
  <2>1. ASSUME NEW i \in Devices
        PROVE  server[i] \in KnownOf(i)
    BY FixedFrames DEF DialogInit
  <2>2. server \in [Devices -> KnownInstance]
    <3>1. \A i \in Devices : server[i] \in KnownInstance
      BY <2>1 DEF KnownOf
    <3>2. server = [i \in Devices |-> server[i]]
      BY DEF DialogInit
    <3> QED
      BY <3>1, <3>2
  <2>3. dialog \in OwnFrame /\ click \in [Clicks -> OwnClick]
    BY FixedFrames DEF DialogInit
  <2>4. PaintTrue /\ reports \in 0..MaxReports
    BY DialogAssumption DEF DialogInit, PaintTrue, DialogAssumption
  <2> QED
    <3>1. ListsTrue(server) /\ list = server
      BY <2>1, <2>2 DEF ListsTrue, DialogInit
    <3>2. feed \in Seq(Posted) /\ polls = {} /\ later = {}
      BY DEF DialogInit
    <3> QED
      BY <2>3, <2>4, <3>1, <3>2 DEF DialogInv
<1>2. DialogInv /\ [DialogNext]_dialogVars => DialogInv'
  <2> SUFFICES ASSUME DialogInv, [DialogNext]_dialogVars
               PROVE  DialogInv'
    OBVIOUS
  <2>1. CASE ServerReports
    BY <2>1, DialogAssumption, ServerBecomesKeeps DEF ServerReports, States
  <2>2. CASE UNCHANGED dialogVars
    BY <2>2 DEF dialogVars, DialogInv, ListsTrue, PaintTrue
  <2> QED
    BY <2>1, <2>2, HearsKeeps, PollAnsweredKeeps, ViewKeeps, ClickBeginsKeep, ServedKeeps,
       AnsweredKeeps, PasskeyKeeps, RowsKeep DEF DialogNext
<1>3. DialogInv => DialogTrue
  BY DEF DialogInv, DialogTrue, PaintTrue, OwnFrame, OwnCode
<1> QED
  BY <1>1, <1>2, <1>3, PTL DEF DialogSpec

-----------------------------------------------------------------------------
(* The plans: what a start still has to do is a list of steps that retire   *)
(* nothing yet, or the two steps that retire a plan it has just found, in   *)
(* their order; while it does them no request of an administrator runs.     *)

LEMMA HeadAndTail ==
    ASSUME NEW S, NEW s \in Seq(S), s # <<>>
    PROVE  Head(s) \in S /\ Tail(s) \in Seq(S)
BY HeadTailProperties

LEMMA FirstOf ==
    ASSUME NEW S, NEW rest \in Seq(S), NEW e
    PROVE  /\ <<e>> \o rest # <<>>
           /\ Head(<<e>> \o rest) = e
           /\ Tail(<<e>> \o rest) = rest
  <1> DEFINE T == S \cup {e}
  <1>1. <<e>> \in Seq(T) /\ rest \in Seq(T)
    OBVIOUS
  <1>2. Len(<<e>> \o rest) = 1 + Len(rest) /\ <<e>> \o rest \in Seq(T)
    BY <1>1
  <1>3. Head(<<e>> \o rest) = e
    BY <1>1, <1>2
  <1>4. Tail(<<e>> \o rest) = rest
    BY <1>1, <1>2
  <1> QED BY <1>2, <1>3, <1>4

LEMMA FirstOfTwo ==
    ASSUME NEW S, NEW rest \in Seq(S), NEW d, NEW e
    PROVE  /\ <<d, e>> \o rest # <<>>
           /\ Head(<<d, e>> \o rest) = d
           /\ Tail(<<d, e>> \o rest) = <<e>> \o rest
  <1> DEFINE T == S \cup {d, e}
  <1>1. <<d, e>> \in Seq(T) /\ <<e>> \in Seq(T) /\ rest \in Seq(T)
    OBVIOUS
  <1>2. Len(<<d, e>> \o rest) = 2 + Len(rest) /\ <<d, e>> \o rest \in Seq(T)
    BY <1>1
  <1>3. Head(<<d, e>> \o rest) = d
    BY <1>1, <1>2
  <1>4. Tail(<<d, e>> \o rest) = <<e>> \o rest
    BY <1>1, <1>2
  <1> QED BY <1>2, <1>3, <1>4

\* A sequence of whatever it holds.
Listed(s) == s \in Seq({s[i] : i \in DOMAIN s})

LEMMA AppendIs ==
    ASSUME NEW s, Listed(s), NEW e
    PROVE  /\ Listed(Append(s, e)) /\ DOMAIN s \subseteq DOMAIN Append(s, e)
           /\ \A i \in DOMAIN s : Append(s, e)[i] = s[i]
           /\ \A i \in DOMAIN Append(s, e) \ DOMAIN s : Append(s, e)[i] = e
  <1> DEFINE S == {s[i] : i \in DOMAIN s}
             T == S \cup {e}
             t == Append(s, e)
  <1>1. s \in Seq(T)
    BY DEF Listed
  <1>2. t \in Seq(T) /\ Len(t) = Len(s) + 1
    BY <1>1
  <1>3. DOMAIN s = 1..Len(s) /\ DOMAIN t = 1..Len(t) /\ Len(s) \in Nat
    BY <1>1, <1>2
  <1>4. \A i \in 1..Len(s) : t[i] = s[i]
    BY <1>1, <1>2
  <1>5. t[Len(s) + 1] = e
    BY <1>1, <1>2
  <1>6. t \in Seq({t[i] : i \in DOMAIN t})
    BY <1>2, <1>3
  <1> QED BY <1>2, <1>3, <1>4, <1>5, <1>6 DEF Listed

LEMMA ReplaceIs ==
    ASSUME NEW s, Listed(s), NEW t, DOMAIN t = DOMAIN s,
           t = [i \in DOMAIN t |-> t[i]]
    PROVE  Listed(t)
  <1> DEFINE T == {t[i] : i \in DOMAIN t}
  <1>1. Len(s) \in Nat /\ DOMAIN s = 1..Len(s)
    BY DEF Listed
  <1>2. PICK n \in Nat : n = Len(s)
    BY <1>1
  <1>3. t \in [1..n -> T]
    BY <1>1, <1>2
  <1> HIDE DEF T
  <1>4. t \in Seq(T)
    BY <1>3
  <1> QED BY <1>4 DEF Listed, T

\* What is written keeps the fields that the proofs look at.
IsPlan(r) == {"name", "gone"} \subseteq DOMAIN r
Stands(i) == i \in DOMAIN plans /\ ~plans[i].gone
Retired(i) == Stands(i) /\ plans[i].name \in {Starter, Beta}

\* The steps of a start that retire nothing themselves.
Steps == {s \in [do : {"rename", "ensure", "find", "owner"}, name : Names, id : {0}] :
            s.do = "find" => s.name \in {Starter, Beta}}

Script ==
    \/ todo \in Seq(Steps)
    \/ \E i \in DOMAIN plans, rest \in Seq(Steps) :
         todo = Retires(i) \o rest /\ Retired(i)
    \/ \E i \in DOMAIN plans, rest \in Seq(Steps) :
         /\ todo = <<Retire("delete", i)>> \o rest /\ Retired(i)
         /\ \A a \in Subscribers : planOf[a] # i
    \/ todo = <<StartStep("user", Trial)>> /\ owners.users = 0

Requested ==
    /\ request = [k \in Clerks |-> request[k]]
    /\ \A k \in Clerks :
         /\ request[k].pc \in {"rest", "give", "patch"}
         /\ request[k].pc # "rest" => (running /\ todo = <<>> /\ Stands(request[k].id))
         /\ request[k].pc = "patch" => (IsPlan(request[k].row) /\ ~request[k].row.gone)

PlansInv ==
    /\ Listed(plans) /\ \A i \in DOMAIN plans : IsPlan(plans[i])
    /\ planOf \in [Subscribers -> Nat]
    /\ owners \in [accounts : Nat, users : Nat]
    /\ ~running => todo = <<>>
    /\ PlansStand /\ Script /\ Requested

\* What the head of the list says of the rest of it.
LEMMA HeadSays ==
    ASSUME PlansInv, todo # <<>>
    PROVE  /\ Head(todo).do \in {"rename", "ensure", "find", "owner"} =>
                 todo \in Seq(Steps) /\ Head(todo) \in Steps /\ Tail(todo) \in Seq(Steps)
           /\ Head(todo).do = "move" =>
                 \E i \in DOMAIN plans, rest \in Seq(Steps) :
                   /\ Retired(i) /\ Head(todo).id = i
                   /\ Tail(todo) = <<Retire("delete", i)>> \o rest
           /\ Head(todo).do = "delete" =>
                 \E i \in DOMAIN plans :
                   /\ Retired(i) /\ Head(todo).id = i /\ Tail(todo) \in Seq(Steps)
                   /\ \A a \in Subscribers : planOf[a] # i
           /\ Head(todo).do = "user" => Tail(todo) = <<>> /\ owners.users = 0
           /\ \A k \in Clerks : request[k].pc = "rest"
  <1>0. \A k \in Clerks : request[k].pc = "rest"
    BY DEF PlansInv, Requested
  <1>1. CASE todo \in Seq(Steps)
    <2>1. Head(todo) \in Steps /\ Tail(todo) \in Seq(Steps)
      BY <1>1, HeadAndTail
    <2>2. Head(todo).do \in {"rename", "ensure", "find", "owner"}
      BY <2>1 DEF Steps
    <2> QED BY <1>0, <1>1, <2>1, <2>2
  <1>2. ASSUME NEW i \in DOMAIN plans, NEW rest \in Seq(Steps),
               todo = Retires(i) \o rest, Retired(i)
        PROVE  Head(todo).do = "move" /\ Head(todo).id = i
               /\ Tail(todo) = <<Retire("delete", i)>> \o rest
    <2>1. Head(todo) = Retire("move", i) /\ Tail(todo) = <<Retire("delete", i)>> \o rest
      BY <1>2, FirstOfTwo DEF Retires
    <2> QED BY <2>1 DEF Retire
  <1>3. ASSUME NEW i \in DOMAIN plans, NEW rest \in Seq(Steps),
               todo = <<Retire("delete", i)>> \o rest
        PROVE  Head(todo).do = "delete" /\ Head(todo).id = i /\ Tail(todo) = rest
    <2>1. Head(todo) = Retire("delete", i) /\ Tail(todo) = rest
      BY <1>3, FirstOf
    <2> QED BY <2>1 DEF Retire
  <1>4. CASE todo = <<StartStep("user", Trial)>> /\ owners.users = 0
    <2>1. Head(todo) = StartStep("user", Trial) /\ Tail(todo) = <<>>
      BY <1>4
    <2>2. Head(todo).do = "user"
      BY <2>1 DEF StartStep
    <2> QED BY <1>0, <1>4, <2>1, <2>2
  <1>5. \/ todo \in Seq(Steps)
        \/ \E i \in DOMAIN plans, rest \in Seq(Steps) :
             todo = Retires(i) \o rest /\ Retired(i)
        \/ \E i \in DOMAIN plans, rest \in Seq(Steps) :
             /\ todo = <<Retire("delete", i)>> \o rest /\ Retired(i)
             /\ \A a \in Subscribers : planOf[a] # i
        \/ todo = <<StartStep("user", Trial)>> /\ owners.users = 0
    BY DEF PlansInv, Script
  <1>6. CASE \E i \in DOMAIN plans, rest \in Seq(Steps) :
               todo = Retires(i) \o rest /\ Retired(i)
    BY <1>0, <1>2, <1>6
  <1>7. CASE \E i \in DOMAIN plans, rest \in Seq(Steps) :
             /\ todo = <<Retire("delete", i)>> \o rest /\ Retired(i)
             /\ \A a \in Subscribers : planOf[a] # i
    BY <1>0, <1>3, <1>7
  <1> QED BY <1>1, <1>4, <1>5, <1>6, <1>7

LEMMA PlanWritten ==
    ASSUME Listed(plans), \A j \in DOMAIN plans : IsPlan(plans[j]),
           NEW i \in DOMAIN plans, NEW r, IsPlan(r), plans' = [plans EXCEPT ![i] = r]
    PROVE  /\ Listed(plans)' /\ DOMAIN plans' = DOMAIN plans
           /\ \A j \in DOMAIN plans' : IsPlan(plans'[j])
           /\ plans'[i] = r /\ \A j \in DOMAIN plans : j # i => plans'[j] = plans[j]
  <1>1. DOMAIN plans' = DOMAIN plans /\ plans' = [j \in DOMAIN plans' |-> plans'[j]]
    OBVIOUS
  <1>2. Listed(plans')
    BY <1>1, ReplaceIs
  <1>3. plans'[i] = r /\ \A j \in DOMAIN plans : j # i => plans'[j] = plans[j]
    OBVIOUS
  <1> QED BY <1>1, <1>2, <1>3 DEF Listed

\* No plan goes, and nobody's plan changes, in a step of a start or a step that
\* has nothing to do with one.
LEMMA NoPlanGoes ==
    ASSUME PlansInv, Listed(plans)', \A i \in DOMAIN plans' : IsPlan(plans'[i]),
           DOMAIN plans \subseteq DOMAIN plans',
           \A i \in DOMAIN plans : plans'[i].gone = plans[i].gone,
           planOf' = planOf, owners' = owners, running' = running, request' = request,
           \/ todo' = todo /\ todo \in Seq(Steps)
           \/ todo' = todo /\ \A i \in DOMAIN plans : plans'[i].name = plans[i].name
           \/ todo' \in Seq(Steps) /\ todo # <<>> /\ running
    PROVE  PlansInv'
  <1>1. PlansStand'
    BY DEF PlansInv, PlansStand
  <1>2. todo # <<>> => \A k \in Clerks : request[k].pc = "rest"
    BY DEF PlansInv, Requested
  <1>3. Requested'
    BY <1>2 DEF PlansInv, Requested, Stands
  <1>4. Script'
    <2>1. CASE todo' \in Seq(Steps)
      BY <2>1 DEF Script
    <2>2. CASE todo' = todo /\ \A i \in DOMAIN plans : plans'[i].name = plans[i].name
      BY <2>2 DEF Script, PlansInv, Retired, Stands
    <2> QED BY <2>1, <2>2
  <1> QED BY <1>1, <1>3, <1>4 DEF PlansInv

\* A step that leaves the plans and the list alone.
LEMMA PlansAlone ==
    ASSUME PlansInv, UNCHANGED <<plans, owners, running, todo>>,
           planOf' \in [Subscribers -> Nat], PlansStand', Requested',
           planOf' # planOf => todo = <<>>
    PROVE  PlansInv'
  <1>1. Script'
    <2>1. CASE planOf' = planOf
      BY <2>1 DEF PlansInv, Script, Retired, Stands
    <2>2. CASE todo = <<>>
      BY <2>2 DEF Script
    <2> QED BY <2>1, <2>2
  <1> QED BY <1>1 DEF PlansInv, Listed

LEMMA Resting == NoClerk.pc = "rest"
BY DEF NoClerk

LEMMA Fresh ==
    ASSUME NEW name, NEW price
    PROVE  IsPlan(Plan(name, price)) /\ ~Plan(name, price).gone
BY DEF IsPlan, Plan

LEMMA PlansStarts == PlansInit => PlansInv
  <1> SUFFICES ASSUME PlansInit PROVE PlansInv
    OBVIOUS
  <1> USE DEF PlansInit
  <1>1. todo \in Seq(Steps) /\ running = FALSE /\ Script
    BY DEF Script
  <1>2. Requested
    BY Resting DEF Requested
  <1>3. owners \in [accounts : Nat, users : Nat] /\ owners.accounts <= 1 /\ owners.users <= 1
    OBVIOUS
  <1>4. CASE plans = <<>> /\ planOf = [a \in Subscribers |-> 0]
    <2>1. Listed(plans) /\ DOMAIN plans = {}
      BY <1>4 DEF Listed
    <2> QED BY <1>1, <1>2, <1>3, <1>4, <2>1 DEF PlansInv, PlansStand
  <1>5. CASE plans = <<Plan(Starter, 1), Plan(Beta, 1)>> /\ planOf \in [Subscribers -> {1, 2}]
    <2>1. DOMAIN plans = {1, 2} /\ plans[1] = Plan(Starter, 1) /\ plans[2] = Plan(Beta, 1)
      BY <1>5
    <2>2. Listed(plans)
      BY <1>5 DEF Listed
    <2>3. \A i \in DOMAIN plans : IsPlan(plans[i]) /\ ~plans[i].gone
      BY <2>1, Fresh
    <2> QED BY <1>1, <1>2, <1>3, <1>5, <2>1, <2>2, <2>3 DEF PlansInv, PlansStand
  <1> QED BY <1>4, <1>5

LEMMA PassIs == Pass \in Seq(Steps)
  <1>1. StartStep("rename", Starter) \in Steps /\ StartStep("ensure", Trial) \in Steps
    BY DEF Steps, StartStep, Names
  <1>2. StartStep("find", Starter) \in Steps /\ StartStep("find", Beta) \in Steps
    BY DEF Steps, StartStep, Names
  <1>3. [i \in DOMAIN Defaults |-> StartStep("ensure", Defaults[i])] \in Seq(Steps)
    <2>1. PICK n \in Nat : DOMAIN Defaults = 1..n
      BY PlansAssumption
    <2>2. \A i \in 1..n : StartStep("ensure", Defaults[i]) \in Steps
      BY <2>1 DEF Steps, StartStep, Names
    <2>3. [i \in DOMAIN Defaults |-> StartStep("ensure", Defaults[i])] \in [1..n -> Steps]
      BY <2>1, <2>2
    <2> QED BY <2>3
  <1>4. <<StartStep("rename", Starter), StartStep("ensure", Trial)>> \in Seq(Steps)
    BY <1>1
  <1>5. <<StartStep("find", Starter), StartStep("find", Beta)>> \in Seq(Steps)
    BY <1>2
  <1> QED BY <1>3, <1>4, <1>5 DEF Pass

LEMMA StepStart ==
    ASSUME PlansInv, Start PROVE PlansInv'
  <1> USE DEF Start
  <1>1. StartStep("owner", Trial) \in Steps
    BY DEF Steps, StartStep, Names
  <1>2. todo' \in Seq(Steps)
    BY <1>1, PassIs
  <1>3. \A k \in Clerks : request[k].pc = "rest"
    BY DEF PlansInv, Requested
  <1>4. Script' /\ Requested'
    BY <1>2, <1>3 DEF PlansInv, Script, Requested
  <1> QED BY <1>4 DEF PlansInv, PlansStand, Listed

LEMMA StepRename ==
    ASSUME PlansInv, RenameStarter PROVE PlansInv'
  <1> USE DEF RenameStarter, Booting, StartGoes, BootKeeps
  <1>1. todo' \in Seq(Steps)
    BY HeadSays
  <1>2. CASE plans' = plans
    BY <1>1, <1>2, NoPlanGoes DEF PlansInv, Listed
  <1>3. ASSUME NEW i \in Named(Starter), plans' = [plans EXCEPT ![i].name = Trial]
        PROVE  PlansInv'
    <2>1. i \in DOMAIN plans /\ IsPlan(plans[i])
      BY DEF PlansInv, Named
    <2> DEFINE r == [plans[i] EXCEPT !.name = Trial]
    <2>2. IsPlan(r) /\ r.gone = plans[i].gone
      BY <2>1 DEF IsPlan
    <2>3. plans' = [plans EXCEPT ![i] = r]
      BY <1>3
    <2> HIDE DEF r
    <2>4. /\ Listed(plans)' /\ DOMAIN plans' = DOMAIN plans
          /\ \A j \in DOMAIN plans' : IsPlan(plans'[j])
          /\ plans'[i] = r /\ \A j \in DOMAIN plans : j # i => plans'[j] = plans[j]
      BY <2>1, <2>2, <2>3, PlanWritten DEF PlansInv
    <2> QED BY <1>1, <2>1, <2>2, <2>4, NoPlanGoes
  <1> QED BY <1>2, <1>3

LEMMA StepEnsure ==
    ASSUME PlansInv, EnsurePlan PROVE PlansInv'
  <1> USE DEF EnsurePlan, Booting, StartGoes, BootKeeps
  <1> DEFINE name == Head(todo).name
             price == DefaultPrice(name)
  <1>1. todo' \in Seq(Steps)
    BY HeadSays
  <1>2. CASE plans' = Append(plans, Plan(name, price))
    <2>1. IsPlan(Plan(name, price))
      BY Fresh
    <2>2. /\ Listed(plans') /\ DOMAIN plans \subseteq DOMAIN plans'
          /\ \A i \in DOMAIN plans : plans'[i] = plans[i]
          /\ \A i \in DOMAIN plans' \ DOMAIN plans : plans'[i] = Plan(name, price)
      BY <1>2, AppendIs DEF PlansInv
    <2>3. \A i \in DOMAIN plans' : IsPlan(plans'[i])
      BY <2>1, <2>2 DEF PlansInv
    <2> QED BY <1>1, <2>2, <2>3, NoPlanGoes DEF Listed
  <1>3. ASSUME NEW i \in Named(name),
               plans' = [plans EXCEPT ![i].price = price, ![i].on = TRUE]
        PROVE  PlansInv'
    <2>1. i \in DOMAIN plans /\ IsPlan(plans[i])
      BY DEF PlansInv, Named
    <2> DEFINE r == [plans[i] EXCEPT !.price = price, !.on = TRUE]
    <2>2. IsPlan(r) /\ r.gone = plans[i].gone
      BY <2>1 DEF IsPlan
    <2>3. plans' = [plans EXCEPT ![i] = r]
      BY <1>3
    <2> HIDE DEF r
    <2>4. /\ Listed(plans)' /\ DOMAIN plans' = DOMAIN plans
          /\ \A j \in DOMAIN plans' : IsPlan(plans'[j])
          /\ plans'[i] = r /\ \A j \in DOMAIN plans : j # i => plans'[j] = plans[j]
      BY <2>1, <2>2, <2>3, PlanWritten DEF PlansInv
    <2> QED BY <1>1, <2>1, <2>2, <2>4, NoPlanGoes
  <1> QED BY <1>2, <1>3

LEMMA StepFind ==
    ASSUME PlansInv, FindLegacy PROVE PlansInv'
  <1> USE DEF FindLegacy, Booting, StartGoes, BootKeeps
  <1>1. Tail(todo) \in Seq(Steps) /\ Head(todo) \in Steps
    BY HeadSays
  <1>2. Head(todo).name \in {Starter, Beta}
    BY <1>1 DEF Steps
  <1>3. CASE todo' = Tail(todo)
    BY <1>1, <1>3, NoPlanGoes DEF PlansInv, Listed
  <1>4. ASSUME NEW i \in Named(Head(todo).name), todo' = Retires(i) \o Tail(todo)
        PROVE  PlansInv'
    <2>1. Retired(i) /\ i \in DOMAIN plans
      BY <1>2 DEF Named, Retired, Stands
    <2>2. Script'
      BY <1>1, <1>4, <2>1 DEF Script, Retired, Stands, Retires, Retire
    <2>3. Requested'
      BY HeadSays DEF PlansInv, Requested
    <2> QED BY <2>2, <2>3 DEF PlansInv, PlansStand, Listed
  <1> QED BY <1>3, <1>4

LEMMA StepMove ==
    ASSUME PlansInv, MoveAccounts PROVE PlansInv'
  <1> USE DEF MoveAccounts, Booting, StartGoes, BootKeeps
  <1>1. PICK i \in DOMAIN plans, rest \in Seq(Steps) :
             /\ Retired(i) /\ Head(todo).id = i
             /\ Tail(todo) = <<Retire("delete", i)>> \o rest
    BY HeadSays
  <1>2. PICK t \in Named(Trial) :
          planOf' = [a \in Subscribers |-> IF planOf[a] = i THEN t ELSE planOf[a]]
    BY <1>1
  <1>3. t \in DOMAIN plans /\ ~plans[t].gone /\ t # i /\ t \in Nat
    <2>1. DOMAIN plans \subseteq Nat
      BY DEF PlansInv, Listed
    <2> QED BY <1>1, <2>1, PlansAssumption DEF Named, Retired
  <1>4. planOf' \in [Subscribers -> Nat] /\ \A a \in Subscribers : planOf'[a] # i
    BY <1>2, <1>3 DEF PlansInv
  <1>5. PlansStand'
    BY <1>2, <1>3 DEF PlansInv, PlansStand
  <1>6. Script'
    BY <1>1, <1>4 DEF Script, Retired, Stands
  <1>7. Requested'
    BY HeadSays DEF PlansInv, Requested
  <1> QED BY <1>4, <1>5, <1>6, <1>7 DEF PlansInv, Listed

LEMMA StepDelete ==
    ASSUME PlansInv, DeletePlan PROVE PlansInv'
  <1> USE DEF DeletePlan, Booting, StartGoes, BootKeeps
  <1>1. PICK i \in DOMAIN plans : /\ Head(todo).id = i /\ Tail(todo) \in Seq(Steps)
                                  /\ \A a \in Subscribers : planOf[a] # i
    BY HeadSays
  <1> DEFINE r == [plans[i] EXCEPT !.gone = TRUE]
  <1>2. IsPlan(r)
    BY <1>1 DEF PlansInv, IsPlan
  <1>3. plans' = [plans EXCEPT ![i] = r]
    BY <1>1
  <1> HIDE DEF r
  <1>4. /\ Listed(plans)' /\ DOMAIN plans' = DOMAIN plans
        /\ \A j \in DOMAIN plans' : IsPlan(plans'[j])
        /\ \A j \in DOMAIN plans : j # i => plans'[j] = plans[j]
    BY <1>1, <1>2, <1>3, PlanWritten DEF PlansInv
  <1>5. PlansStand'
    BY <1>1, <1>4 DEF PlansInv, PlansStand
  <1>6. Script'
    BY <1>1 DEF Script
  <1>7. Requested'
    BY HeadSays DEF PlansInv, Requested
  <1> QED BY <1>4, <1>5, <1>6, <1>7 DEF PlansInv

LEMMA StepOwner ==
    ASSUME PlansInv, OwnerAccount \/ OwnerUser PROVE PlansInv'
  <1> USE DEF OwnerAccount, OwnerUser, Booting, StartGoes, BootKeeps
  <1>1. /\ owners' \in [accounts : Nat, users : Nat]
        /\ owners'.accounts <= 1 /\ owners'.users <= 1
        /\ todo' = <<>> \/ (todo' = <<StartStep("user", Trial)>> /\ owners'.users = 0)
    <2>1. owners \in [accounts : Nat, users : Nat] /\ owners.accounts <= 1 /\ owners.users <= 1
      BY DEF PlansInv, PlansStand
    <2>2. CASE OwnerAccount /\ todo' = <<>> /\ UNCHANGED owners
      BY <2>1, <2>2
    <2>3. CASE /\ OwnerAccount
               /\ todo' = IF owners.users > 0 THEN <<>> ELSE <<StartStep("user", Trial)>>
               /\ owners' = [owners EXCEPT !.accounts = IF owners.users = 0 /\ @ = 0 THEN 1 ELSE @]
      <3> DEFINE n == IF owners.users = 0 /\ owners.accounts = 0 THEN 1 ELSE owners.accounts
      <3>1. n \in Nat /\ n <= 1
        BY <2>1
      <3>2. owners' = [owners EXCEPT !.accounts = n]
        BY <2>3
      <3> HIDE DEF n
      <3>3. /\ owners' \in [accounts : Nat, users : Nat]
            /\ owners'.accounts = n /\ owners'.users = owners.users
        BY <2>1, <3>1, <3>2
      <3> QED BY <2>1, <2>3, <3>1, <3>3
    <2>4. CASE OwnerUser
      <3>1. Tail(todo) = <<>> /\ owners.users = 0
        BY <2>4, HeadSays
      <3>2. owners' = [owners EXCEPT !.users = 1]
        BY <2>4, <3>1
      <3> QED BY <2>1, <2>4, <3>1, <3>2
    <2> QED BY <2>2, <2>3, <2>4
  <1>2. Script'
    <2>1. CASE todo' = <<>>
      BY <2>1 DEF Script
    <2>2. CASE todo' = <<StartStep("user", Trial)>> /\ owners'.users = 0
      BY <2>2, Zenon DEF Script
    <2> QED BY <1>1, <2>1, <2>2
  <1>3. Requested'
    BY HeadSays DEF PlansInv, Requested, Stands
  <1> QED BY <1>1, <1>2, <1>3 DEF PlansInv, PlansStand, Listed

LEMMA StepEnds ==
    ASSUME PlansInv, ServerEnds PROVE PlansInv'
  <1> USE DEF ServerEnds
  <1>1. Script' /\ Requested'
    BY Resting DEF Script, Requested
  <1> QED BY <1>1 DEF PlansInv, PlansStand, Listed

LEMMA StepStripe ==
    ASSUME PlansInv,
           StripeBegins \/ ListPrices \/ CreateProduct \/ StoreProduct \/ CreatePrice \/ StripeEnds
    PROVE PlansInv'
  <1> USE DEF SyncKeeps
  <1>1. CASE StripeBegins \/ ListPrices \/ CreateProduct \/ CreatePrice \/ StripeEnds
    <2>1. UNCHANGED <<plans, planOf, todo, running, owners, request>>
      BY <1>1 DEF StripeBegins, ListPrices, CreateProduct, CreatePrice, StripeEnds
    <2> QED BY <2>1, PlansAlone DEF PlansInv, PlansStand, Requested, Stands
  <1>2. CASE StoreProduct
    <2> USE DEF StoreProduct
    <2>1. CASE Current.id \in DOMAIN plans
      <3> DEFINE i == Current.id
                 r == [plans[i] EXCEPT !.product = syncing.product]
      <3>1. IsPlan(r) /\ r.gone = plans[i].gone /\ r.name = plans[i].name
        BY <2>1 DEF PlansInv, IsPlan
      <3>2. plans' = [plans EXCEPT ![i] = r]
        BY <1>2
      <3> HIDE DEF r
      <3>3. /\ Listed(plans)' /\ DOMAIN plans' = DOMAIN plans
            /\ \A j \in DOMAIN plans' : IsPlan(plans'[j])
            /\ plans'[i] = r /\ \A j \in DOMAIN plans : j # i => plans'[j] = plans[j]
        BY <2>1, <3>1, <3>2, PlanWritten DEF PlansInv
      <3>4. \A j \in DOMAIN plans : plans'[j].gone = plans[j].gone /\ plans'[j].name = plans[j].name
        BY <3>1, <3>3
      <3> QED BY <1>2, <3>3, <3>4, NoPlanGoes
    <2>2. CASE Current.id \notin DOMAIN plans
      <3>1. DOMAIN plans' = DOMAIN plans /\ \A j \in DOMAIN plans : plans'[j] = plans[j]
        BY <1>2, <2>2
      <3>2. plans' = [j \in DOMAIN plans' |-> plans'[j]]
        BY <1>2
      <3>3. Listed(plans')
        BY <3>1, <3>2, ReplaceIs DEF PlansInv
      <3> QED BY <1>2, <3>1, <3>3, NoPlanGoes DEF PlansInv, Listed
    <2> QED BY <2>1, <2>2
  <1> QED BY <1>1, <1>2

LEMMA StepAdd ==
    ASSUME PlansInv, AddPlan PROVE PlansInv'
  <1> USE DEF AddPlan, AdminKeeps
  <1>1. PICK name \in Names, price \in Prices : plans' = Append(plans, Plan(name, price))
    OBVIOUS
  <1>2. IsPlan(Plan(name, price))
    BY Fresh
  <1>3. /\ Listed(plans') /\ DOMAIN plans \subseteq DOMAIN plans'
        /\ \A i \in DOMAIN plans : plans'[i] = plans[i]
        /\ \A i \in DOMAIN plans' \ DOMAIN plans : plans'[i] = Plan(name, price)
    BY <1>1, AppendIs DEF PlansInv
  <1>4. \A i \in DOMAIN plans' : IsPlan(plans'[i])
    BY <1>2, <1>3 DEF PlansInv
  <1> QED BY <1>3, <1>4, NoPlanGoes DEF Listed

LEMMA StepPatch ==
    ASSUME PlansInv, NEW k \in Clerks, PatchPlan(k) PROVE PlansInv'
  <1> USE DEF PatchPlan, AdminKeeps, Reads
  <1> DEFINE i == request[k].id
             old == [request[k].row EXCEPT !.product = plans[i].product]
  <1>1. /\ todo = <<>> /\ running /\ i \in DOMAIN plans /\ ~plans[i].gone
        /\ IsPlan(old) /\ ~old.gone
    BY DEF PlansInv, Requested, Stands, IsPlan
  <1>2. PICK new \in {[old EXCEPT !.name = n] : n \in Names}
                     \cup {[old EXCEPT !.price = c] : c \in Prices}
                     \cup {[old EXCEPT !.on = ~@]} : plans' = [plans EXCEPT ![i] = new]
    OBVIOUS
  <1> HIDE DEF old
  <1>3. IsPlan(new) /\ ~new.gone
    <2>1. ASSUME NEW n, new = [old EXCEPT !.name = n] PROVE IsPlan(new) /\ ~new.gone
      BY <1>1, <2>1 DEF IsPlan
    <2>2. ASSUME NEW c, new = [old EXCEPT !.price = c] PROVE IsPlan(new) /\ ~new.gone
      BY <1>1, <2>2 DEF IsPlan
    <2>3. ASSUME NEW o, new = [old EXCEPT !.on = o] PROVE IsPlan(new) /\ ~new.gone
      BY <1>1, <2>3 DEF IsPlan
    <2> QED BY <1>2, <2>1, <2>2, <2>3
  <1>4. /\ Listed(plans)' /\ DOMAIN plans' = DOMAIN plans
        /\ \A j \in DOMAIN plans' : IsPlan(plans'[j])
        /\ plans'[i] = new /\ \A j \in DOMAIN plans : j # i => plans'[j] = plans[j]
    BY <1>1, <1>2, <1>3, PlanWritten DEF PlansInv
  <1>5. \A j \in DOMAIN plans : ~plans[j].gone => ~plans'[j].gone
    BY <1>3, <1>4
  <1> HIDE DEF i
  <1>6. Requested'
    BY <1>1, <1>4, <1>5, Resting DEF PlansInv, Requested, Stands
  <1>9. planOf' = planOf /\ owners' = owners
    OBVIOUS
  <1> HIDE DEF PatchPlan, AdminKeeps, Reads
  <1>7. PlansStand'
    BY <1>4, <1>5, <1>9 DEF PlansInv, PlansStand
  <1>10. UNCHANGED <<planOf, owners, running, todo>>
    BY DEF PatchPlan, AdminKeeps
  <1>8. Script'
    BY <1>1, <1>10 DEF Script
  <1> QED BY <1>4, <1>6, <1>7, <1>8, <1>10 DEF PlansInv

LEMMA StepReads ==
    ASSUME PlansInv, NEW k \in Clerks, NEW i \in DOMAIN plans,
           ReadPlan(k, i) \/ \E a \in Subscribers : LookUpPlan(k, a, i)
    PROVE  PlansInv'
  <1> USE DEF ReadPlan, LookUpPlan, AdminKeeps, Reads, Counts, Listens
  <1>1. PICK new : /\ request' = [request EXCEPT ![k] = new]
                   /\ new.pc \in {"give", "patch"} /\ new.id = i
                   /\ (new.pc = "patch" => new.row = plans[i])
    <2>1. CASE ReadPlan(k, i)
      <3> DEFINE new == [NoClerk EXCEPT !.pc = "patch", !.id = i, !.row = plans[i]]
      <3>1. new.pc = "patch" /\ new.id = i /\ new.row = plans[i]
        BY DEF NoClerk
      <3>2. request' = [request EXCEPT ![k] = new]
        BY <2>1
      <3> QED BY <3>1, <3>2
    <2>2. ASSUME NEW a \in Subscribers, LookUpPlan(k, a, i)
          PROVE  \E new : /\ request' = [request EXCEPT ![k] = new]
                          /\ new.pc = "give" /\ new.id = i
      <3> DEFINE new == [NoClerk EXCEPT !.pc = "give", !.id = i, !.who = a]
      <3>1. new.pc = "give" /\ new.id = i
        BY DEF NoClerk
      <3>2. request' = [request EXCEPT ![k] = new]
        BY <2>2
      <3> QED BY <3>1, <3>2
    <2> QED BY <2>1, <2>2
  <1>2. /\ UNCHANGED <<plans, planOf, owners, running, todo>>
        /\ running /\ todo = <<>> /\ Stands(i) /\ IsPlan(plans[i])
    <2>1. IsPlan(plans[i])
      BY DEF PlansInv
    <2>2. CASE ReadPlan(k, i)
      BY <2>1, <2>2 DEF Stands
    <2>3. ASSUME NEW a \in Subscribers, LookUpPlan(k, a, i)
          PROVE  /\ UNCHANGED <<plans, planOf, owners, running, todo>>
                 /\ running /\ todo = <<>> /\ ~plans[i].gone
      BY <2>3
    <2> QED BY <2>1, <2>2, <2>3 DEF Stands
  <1> HIDE DEF ReadPlan, LookUpPlan, AdminKeeps, Reads, Counts, Listens
  <1>3. Requested'
    <2>1. request' = [j \in Clerks |-> request'[j]]
      BY <1>1 DEF PlansInv, Requested
    <2>2. \A j \in Clerks : j # k => request'[j] = request[j]
      BY <1>1 DEF PlansInv, Requested
    <2>3. request'[k] = new
      BY <1>1 DEF PlansInv, Requested
    <2> QED BY <1>1, <1>2, <2>1, <2>2, <2>3 DEF PlansInv, Requested, Stands
  <1> QED BY <1>2, <1>3, PlansAlone DEF PlansInv, PlansStand

LEMMA StepGives ==
    ASSUME PlansInv, \/ \E k \in Clerks : GivePlan(k)
                     \/ \E a \in Subscribers : TakePlan(a)
    PROVE  PlansInv'
  <1> USE DEF GivePlan, TakePlan, AdminKeeps, Reads, Counts, Listens
  <1>0. DOMAIN plans \subseteq Nat
    BY DEF PlansInv, Listed
  <1>1. ASSUME NEW k \in Clerks, GivePlan(k) PROVE PlansInv'
    <2>1. todo = <<>> /\ request[k].id \in DOMAIN plans /\ ~plans[request[k].id].gone
      BY <1>1 DEF PlansInv, Requested, Stands
    <2>2. planOf' \in [Subscribers -> Nat] /\ PlansStand'
      BY <1>0, <1>1, <2>1 DEF PlansInv, PlansStand
    <2>3. Requested'
      BY <1>1, Resting DEF PlansInv, Requested, Stands
    <2> QED BY <1>1, <2>1, <2>2, <2>3, PlansAlone
  <1>2. ASSUME NEW a \in Subscribers, TakePlan(a) PROVE PlansInv'
    <2>1. planOf' \in [Subscribers -> Nat] /\ PlansStand'
      BY <1>2 DEF PlansInv, PlansStand
    <2>2. Requested'
      BY <1>2 DEF PlansInv, Requested, Stands
    <2>3. UNCHANGED <<plans, owners, running, todo>> /\ todo = <<>>
      BY <1>2
    <2> HIDE DEF TakePlan, GivePlan, AdminKeeps
    <2> QED BY <2>1, <2>2, <2>3, PlansAlone
  <1> QED BY <1>1, <1>2

LEMMA PlansMoves == PlansInv /\ [PlansNext]_plansVars => PlansInv'
  <1> SUFFICES ASSUME PlansInv, [PlansNext]_plansVars PROVE PlansInv'
    OBVIOUS
  <1>1. CASE UNCHANGED plansVars
    BY <1>1, PlansAlone DEF plansVars, PlansInv, PlansStand, Requested, Stands
  <1>2. CASE PlansNext
    BY <1>2, StepStart, StepRename, StepEnsure, StepFind, StepMove, StepDelete, StepOwner,
       StepEnds, StepStripe, StepAdd, StepPatch, StepReads, StepGives DEF PlansNext
  <1> QED BY <1>1, <1>2

\* Only MoveAccounts takes a plan away while the server starts.
LEMMA OnlyMoves == PlansInv /\ [PlansNext]_plansVars => StartMoves
  <1> SUFFICES ASSUME PlansInv, [PlansNext]_plansVars, todo # <<>>, NEW a \in Subscribers,
                      planOf'[a] # planOf[a]
               PROVE  /\ planOf[a] # 0 /\ plans[planOf[a]].name \in {Starter, Beta}
                      /\ planOf'[a] # 0 /\ plans[planOf'[a]].name = Trial
    BY DEF StartMoves
  <1>1. MoveAccounts
    <2>1. \A k \in Clerks : ~GivePlan(k)
      BY HeadSays DEF GivePlan
    <2>2. PlansNext /\ planOf' # planOf
      BY DEF plansVars
    <2>3. ~Start /\ ~ServerEnds
      BY <2>2 DEF Start, ServerEnds
    <2>4. ~RenameStarter /\ ~EnsurePlan /\ ~FindLegacy /\ ~DeletePlan
      BY <2>2 DEF RenameStarter, EnsurePlan, FindLegacy, DeletePlan
    <2>5. ~OwnerAccount /\ ~OwnerUser
      BY <2>2 DEF OwnerAccount, OwnerUser
    <2>6. ~StripeBegins /\ ~ListPrices /\ ~CreateProduct /\ ~StoreProduct /\ ~CreatePrice
          /\ ~StripeEnds
      BY <2>2 DEF StripeBegins, ListPrices, CreateProduct, StoreProduct, CreatePrice,
         StripeEnds, SyncKeeps
    <2>7. ~AddPlan /\ \A b \in Subscribers : ~TakePlan(b)
      BY DEF AddPlan, TakePlan, Counts, Listens
    <2>8. \A k \in Clerks : ~PatchPlan(k)
      BY <2>2 DEF PatchPlan
    <2>9. \A k \in Clerks : \A i \in DOMAIN plans :
            ~ReadPlan(k, i) /\ \A b \in Subscribers : ~LookUpPlan(k, b, i)
      BY DEF ReadPlan, LookUpPlan, Counts, Listens
    <2> QED BY <2>1, <2>2, <2>3, <2>4, <2>5, <2>6, <2>7, <2>8, <2>9 DEF PlansNext
  <1> USE DEF MoveAccounts, Booting
  <1>2. PICK i \in DOMAIN plans : Retired(i) /\ Head(todo).id = i
    BY <1>1, HeadSays
  <1>3. PICK t \in Named(Trial) :
          planOf' = [b \in Subscribers |-> IF planOf[b] = i THEN t ELSE planOf[b]]
    BY <1>1, <1>2
  <1>4. planOf[a] = i /\ planOf'[a] = t
    BY <1>3
  <1>5. i # 0 /\ t # 0
    <2>1. 0 \notin DOMAIN plans
      BY DEF PlansInv, Listed
    <2> QED BY <2>1 DEF Named
  <1> QED BY <1>2, <1>4, <1>5 DEF Retired, Named

THEOREM PlansStay == PlansSpec => PlansKept
  <1>1. PlansInv' => PlansStand'
    BY DEF PlansInv
  <1>2. PlansInv /\ [PlansNext]_plansVars => PlansStand' /\ StartMoves
    BY <1>1, PlansMoves, OnlyMoves
  <1> QED BY <1>2, PlansStarts, PlansMoves, PTL DEF PlansSpec, PlansKept
================================================================================
