-------------------------------- MODULE Nodes ---------------------------------
(***************************************************************************)
(* platform/orchestrator.ts: instances are placed on core nodes by the     *)
(* administrator's requests and the orchestrator worker, which run in      *)
(* processes of their own.  A node is chosen by its row, which says how    *)
(* many instances it had when somebody counted them last.                  *)
(***************************************************************************)
EXTENDS Naturals, FiniteSets, FiniteSetsExt

CONSTANTS
    Placers,      \* callers of assignInstance and registerCoreNode at a time
    CoreNodes,    \* identifiers of nodes; the local one is among them
    Local,        \* CORE_NODE_ID
    MaxHosted,    \* bound: instances in all
    Capacity,     \* max_instances of every node
    MaxFaults     \* bound: COUNT statements that fail

ASSUME NodesAssumption ==
    /\ IsFiniteSet(Placers) /\ IsFiniteSet(CoreNodes)
    /\ Local \in CoreNodes
    /\ Capacity \in Nat \ {0}
    /\ MaxHosted \in Nat /\ MaxFaults \in Nat

VARIABLES
    node,       \* the core_nodes rows
    hosted,     \* instances by assigned_node_id
    placer,     \* what each caller is doing, and what it has read
    faults,     \* bound
    drainedTo   \* history: placements on a node since it was set to drain

nodesVars == <<node, hosted, placer, faults, drainedTo>>

NodeRow == [status : {"absent", "ACTIVE", "DEGRADED", "DRAINING"}, drain : BOOLEAN,
            active : Nat]
Doing == {"idle", "choose", "place", "list", "count", "beat"}
NodesTypeOK ==
    /\ node \in [CoreNodes -> NodeRow]
    /\ hosted \in [CoreNodes -> Nat]
    /\ placer \in [Placers -> [pc : Doing, to : CoreNodes, todo : SUBSET CoreNodes,
                               total : Nat, exists : BOOLEAN]]
    /\ faults \in 0..MaxFaults
    /\ drainedTo \in [CoreNodes -> Nat]

Unplaced == [pc |-> "idle", to |-> Local, todo |-> {}, total |-> 0, exists |-> FALSE]

NodesInit ==
    /\ node = [n \in CoreNodes |-> [status |-> "absent", drain |-> FALSE, active |-> 0]]
    /\ hosted = [n \in CoreNodes |-> 0]
    /\ placer = [p \in Placers |-> Unplaced]
    /\ faults = 0
    /\ drainedTo = [n \in CoreNodes |-> 0]

-----------------------------------------------------------------------------
Put(p, record) == placer' = [placer EXCEPT ![p] = record]
Known == {n \in CoreNodes : node[n].status # "absent"}
InAll == MapThenSumSet(LAMBDA n : hosted[n], CoreNodes)

AssignAsked(p) ==
    /\ placer[p].pc = "idle"
    /\ Put(p, [Unplaced EXCEPT !.pc = "choose"])
    /\ UNCHANGED <<node, hosted, faults, drainedTo>>

\* Mutant: the drain flag is not looked at, only the status.
EligibleByStatus(n) == node[n].status = "ACTIVE" /\ node[n].active < Capacity

\* scoreNode: profile, load and reputation order the nodes that are left, and
\* may rule them out.
Eligible(n) == node[n].status = "ACTIVE" /\ ~node[n].drain /\ node[n].active < Capacity

\* Without a node in service the local one is registered first.
NoneInService == \A n \in CoreNodes : node[n].status \notin {"ACTIVE", "DEGRADED"}

ChooseNode(p) ==
    /\ placer[p].pc = "choose"
    /\ ~NoneInService
    /\ \/ \E n \in CoreNodes : Eligible(n) /\ Put(p, [placer[p] EXCEPT !.pc = "place", !.to = n])
       \/ Put(p, Unplaced)                   \* NO_CAPACITY_AVAILABLE
    /\ UNCHANGED <<node, hosted, faults, drainedTo>>

\* An instance that had no node, or had one, this one perhaps.
PlaceInstance(p) ==
    /\ placer[p].pc = "place"
    /\ LET n == placer[p].to
       IN  /\ \/ InAll < MaxHosted /\ hosted' = [hosted EXCEPT ![n] = @ + 1]
              \/ \E m \in CoreNodes : hosted[m] > 0 /\ hosted' = [[hosted EXCEPT ![m] = @ - 1] EXCEPT ![n] = @ + 1]
           /\ drainedTo' = [drainedTo EXCEPT ![n] =
                IF node[n].drain /\ @ <= Cardinality(Placers) THEN @ + 1 ELSE @]
    /\ Put(p, [placer[p] EXCEPT !.pc = "list", !.todo = Known])
    /\ UNCHANGED <<node, faults>>

\* refreshCoreNodeCounts: node by node, a COUNT and an UPDATE; a COUNT that
\* fails counts as none.
CountNode(p) ==
    /\ placer[p].pc = "list"
    /\ \/ /\ placer[p].todo = {}
          /\ Put(p, Unplaced)
          /\ UNCHANGED faults
       \/ \E n \in placer[p].todo :
            \/ /\ Put(p, [placer[p] EXCEPT !.pc = "count", !.to = n, !.total = hosted[n]])
               /\ UNCHANGED faults
            \/ /\ faults < MaxFaults
               /\ faults' = faults + 1
               /\ Put(p, [placer[p] EXCEPT !.pc = "count", !.to = n, !.total = 0])
    /\ UNCHANGED <<node, hosted, drainedTo>>

WriteCount(p) ==
    /\ placer[p].pc = "count"
    /\ node' = [node EXCEPT ![placer[p].to].active = placer[p].total]
    /\ Put(p, [placer[p] EXCEPT !.pc = "list", !.todo = @ \ {placer[p].to}])
    /\ UNCHANGED <<hosted, faults, drainedTo>>

\* The worker counts again at the end of every cycle.
Reconciles(p) ==
    /\ placer[p].pc = "idle"
    /\ Put(p, [Unplaced EXCEPT !.pc = "list", !.todo = Known])
    /\ UNCHANGED <<node, hosted, faults, drainedTo>>

-----------------------------------------------------------------------------
(* registerCoreNode: a heartbeat of the worker or of the API, or a node    *)
(* registered because none is in service.                                  *)

HeartbeatLooks(p) ==
    /\ \/ placer[p].pc = "idle" /\ \E n \in CoreNodes :
            Put(p, [Unplaced EXCEPT !.pc = "beat", !.to = n, !.exists = n \in Known])
       \/ /\ placer[p].pc = "choose" /\ NoneInService
          /\ Put(p, [placer[p] EXCEPT !.pc = "beat", !.to = Local, !.exists = Local \in Known,
                                      !.total = 1])
    /\ UNCHANGED <<node, hosted, faults, drainedTo>>

\* The status is that of the load: a heartbeat overwrites DRAINING, but not the
\* flag.  An INSERT of a node that exists by then fails, and ends the call.
HeartbeatWrites(p) ==
    /\ placer[p].pc = "beat"
    /\ LET n == placer[p].to
           fails == n \in Known /\ ~placer[p].exists
       IN  /\ IF fails THEN UNCHANGED node
              ELSE \E s \in {"ACTIVE", "DEGRADED"} :
                     /\ placer[p].total = 1 => s = "ACTIVE"
                     /\ node' = [node EXCEPT ![n].status = s]
           /\ Put(p, IF placer[p].total = 1 /\ ~fails
                     THEN [placer[p] EXCEPT !.pc = "choose", !.total = 0] ELSE Unplaced)
    /\ UNCHANGED <<hosted, faults, drainedTo>>

SetDrain(n) ==
    /\ n \in Known
    /\ \E on \in BOOLEAN :
         /\ node' = [node EXCEPT ![n].drain = on,
                                 ![n].status = IF on THEN "DRAINING" ELSE "ACTIVE"]
         /\ drainedTo' = [drainedTo EXCEPT ![n] = IF on /\ node[n].drain THEN @ ELSE 0]
    /\ UNCHANGED <<hosted, placer, faults>>

RemoveInstance(n) ==
    /\ hosted[n] > 0
    /\ hosted' = [hosted EXCEPT ![n] = @ - 1]
    /\ UNCHANGED <<node, placer, faults, drainedTo>>

NodesNext ==
    \/ \E p \in Placers :
         \/ AssignAsked(p) \/ ChooseNode(p) \/ PlaceInstance(p) \/ CountNode(p) \/ WriteCount(p)
         \/ Reconciles(p) \/ HeartbeatLooks(p) \/ HeartbeatWrites(p)
    \/ \E n \in CoreNodes : SetDrain(n) \/ RemoveInstance(n)

NodesSpec == NodesInit /\ [][NodesNext]_nodesVars

-----------------------------------------------------------------------------
P == Cardinality(Placers)

\* Heartbeats write ACTIVE over the status of a node that is to drain.  It takes
\* on no more instances all the same, but for the placements under way when
\* draining began.
DrainHolds == \A n \in CoreNodes : drainedTo[n] <= P
=============================================================================
