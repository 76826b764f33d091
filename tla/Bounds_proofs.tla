----------------------------- MODULE Bounds_proofs -----------------------------
(***************************************************************************)
(* Counting arguments, for any number of concurrent requests: how many     *)
(* tickets and alerts there are for one cause, how far limits and buckets  *)
(* are exceeded, how many instances a draining node still takes on and how *)
(* much is created in another service, when something is looked up in one  *)
(* statement and written in another.                                       *)
(***************************************************************************)
EXTENDS Tickets, Support, Limits, TrafficControl, Nodes, Integrations, Quota,
        Sums_proofs, FiniteSetTheorems, TLAPS

-----------------------------------------------------------------------------
(* Tickets: an administrator who is about to open a ticket for the alert    *)
(* counts as if it were open.                                               *)

Escalating == {g \in Admins : admin[g].pc = "escalate"}
TicketsInv ==
    /\ TicketsTypeOK
    /\ Cardinality(Escalated) + Cardinality(Escalating) <= Cardinality(Admins)

LEMMA TicketsFinite ==
    /\ IsFiniteSet(Admins) /\ Cardinality(Admins) \in Nat
    /\ IsFiniteSet(Escalated) /\ Cardinality(Escalated) \in Nat
    /\ IsFiniteSet(Escalating) /\ Cardinality(Escalating) \in Nat
    /\ Cardinality(Escalating) <= Cardinality(Admins)
<1>1. IsFiniteSet(Admins) /\ MaxTickets \in Nat BY TicketsAssumption DEF TicketsAssumption
<1>2. IsFiniteSet(Ids) BY <1>1, FS_Interval DEF Ids
<1>3. Escalated \in SUBSET Ids /\ Escalating \in SUBSET Admins BY DEF Escalated, Escalating
<1> QED BY <1>1, <1>2, <1>3, FS_Subset, FS_CardinalityType

\* A ticket that is opened for the alert is one more; any other leaves them be.
LEMMA OpensOne ==
    ASSUME TicketsTypeOK, NEW from \in {"alert", "customer"}, Opens(from)
    PROVE  /\ desk' \in [Ids -> [from : {"nowhere", "alert", "customer"}, status : Status]]
           /\ Cardinality(Escalated') =
                Cardinality(Escalated) + (IF from = "alert" THEN 1 ELSE 0)
<1>1. PICK i \in Ids : /\ desk[i] = NoTicket
                       /\ desk' = [desk EXCEPT ![i] = [from |-> from, status |-> "open"]]
  BY DEF Opens
<1>2. desk \in [Ids -> [from : {"nowhere", "alert", "customer"}, status : Status]]
  BY DEF TicketsTypeOK
<1>3. desk' \in [Ids -> [from : {"nowhere", "alert", "customer"}, status : Status]]
  BY <1>1, <1>2 DEF Status
<1>4. i \notin Escalated BY <1>1 DEF Escalated, NoTicket
<1>5. Escalated' = IF from = "alert" THEN Escalated \cup {i} ELSE Escalated
  BY <1>1, <1>2, <1>4 DEF Escalated
<1>6. Cardinality(Escalated \cup {i}) = Cardinality(Escalated) + 1
  BY <1>4, TicketsFinite, FS_AddElement
<1>7. CASE from = "alert" BY <1>3, <1>5, <1>6, <1>7
<1>8. CASE from = "customer" BY <1>3, <1>5, <1>8, TicketsFinite
<1> QED BY <1>7, <1>8

LEMMA TicketsStep == TicketsInv /\ [TicketsNext]_ticketVars => TicketsInv'
<1> SUFFICES ASSUME TicketsInv, [TicketsNext]_ticketVars PROVE TicketsInv' OBVIOUS
<1> USE TicketsFinite DEF TicketsInv
<1>t. /\ desk \in [Ids -> [from : {"nowhere", "alert", "customer"}, status : Status]]
      /\ admin \in [Admins -> [pc : {"idle", "escalate", "edit", "reply"}, on : Ids \cup {0}]]
      /\ chat \subseteq Chatters
  BY DEF TicketsTypeOK
<1>n. NoRequest \in [pc : {"idle", "escalate", "edit", "reply"}, on : Ids \cup {0}]
  BY DEF NoRequest
<1>u. ASSUME UNCHANGED <<desk, admin>>
      PROVE  Escalated' = Escalated /\ Escalating' = Escalating
  BY <1>u DEF Escalated, Escalating
<1>1. CASE UNCHANGED ticketVars
  BY <1>1, <1>u, <1>t DEF ticketVars, TicketsTypeOK
<1>2. CASE CustomerOpens
  <2>1. Opens("customer") /\ UNCHANGED <<admin, chat>> BY <1>2 DEF CustomerOpens
  <2>2. Escalating' = Escalating BY <2>1 DEF Escalating
  <2> QED BY <2>1, <2>2, <1>t, OpensOne DEF TicketsTypeOK
<1>3. ASSUME NEW c \in Chatters, ChatEscalates(c) PROVE TicketsInv'
  BY <1>3, <1>u, <1>t DEF ChatEscalates, TicketsTypeOK
<1>4. ASSUME NEW c \in Chatters, ChatOpens(c) PROVE TicketsInv'
  <2>1. /\ Opens("customer") \/ UNCHANGED desk
        /\ admin' = admin /\ chat' = chat \ {c}
    BY <1>4 DEF ChatOpens
  <2>2. Escalating' = Escalating BY <2>1 DEF Escalating
  <2>3. CASE UNCHANGED desk BY <2>1, <2>3, <1>u, <1>t DEF TicketsTypeOK
  <2>4. CASE Opens("customer") BY <2>1, <2>2, <2>4, <1>t, OpensOne DEF TicketsTypeOK
  <2> QED BY <2>1, <2>3, <2>4
<1>5. ASSUME NEW g \in Admins, LookForTicket(g) PROVE TicketsInv'
  <2>1. /\ Escalated = {} /\ desk' = desk /\ chat' = chat
        /\ admin' = [admin EXCEPT ![g].pc = "escalate"]
    BY <1>5 DEF LookForTicket
  <2>2. TicketsTypeOK' BY <2>1, <1>t DEF TicketsTypeOK
  <2>3. Escalated' = {} BY <2>1 DEF Escalated
  <2>4. Escalating' \in SUBSET Admins BY DEF Escalating
  <2>5. Cardinality(Escalating') <= Cardinality(Admins) BY <2>4, FS_Subset
  <2>6. Cardinality(Escalating') \in Nat BY <2>4, FS_Subset, FS_CardinalityType
  <2> QED BY <2>2, <2>3, <2>5, <2>6, FS_EmptySet
<1>6. ASSUME NEW g \in Admins, CreateTicket(g) PROVE TicketsInv'
  <2>1. /\ admin[g].pc = "escalate"
        /\ Opens("alert") \/ UNCHANGED desk
        /\ admin' = [admin EXCEPT ![g] = NoRequest] /\ chat' = chat
    BY <1>6 DEF CreateTicket, Quits
  <2>2. Escalating' = Escalating \ {g} BY <2>1, <1>t DEF Escalating, NoRequest
  <2>3. g \in Escalating BY <2>1 DEF Escalating
  <2>4. Cardinality(Escalating') = Cardinality(Escalating) - 1
    BY <2>2, <2>3, FS_RemoveElement
  <2>5. CASE UNCHANGED desk
    <3>1. Escalated' = Escalated BY <2>5 DEF Escalated
    <3> QED BY <3>1, <2>1, <2>4, <2>5, <1>t, <1>n DEF TicketsTypeOK
  <2>6. CASE Opens("alert")
    <3>1. Cardinality(Escalated') = Cardinality(Escalated) + 1 BY <2>6, OpensOne
    <3>2. TicketsTypeOK' BY <2>1, <2>6, <1>t, <1>n, OpensOne DEF TicketsTypeOK
    <3> QED BY <3>1, <3>2, <2>4
  <2> QED BY <2>1, <2>5, <2>6
<1>7. ASSUME NEW g \in Admins, ReadTicket(g) PROVE TicketsInv'
  <2>1. PICK i \in Opened, pc \in {"edit", "reply"} :
            admin' = [admin EXCEPT ![g] = [pc |-> pc, on |-> i]]
    BY <1>7 DEF ReadTicket
  <2>2. admin[g].pc = "idle" /\ desk' = desk /\ chat' = chat BY <1>7 DEF ReadTicket
  <2>3. i \in Ids BY DEF Opened
  <2>4. Escalating' = Escalating BY <2>1, <2>2, <1>t DEF Escalating
  <2>5. Escalated' = Escalated BY <2>2 DEF Escalated
  <2> QED BY <2>1, <2>2, <2>3, <2>4, <2>5, <1>t DEF TicketsTypeOK
<1>8. ASSUME NEW g \in Admins, EditTicket(g) \/ ReplyTicket(g) PROVE TicketsInv'
  <2>1. /\ admin[g].pc \in {"edit", "reply"} /\ chat' = chat
        /\ admin' = [admin EXCEPT ![g] = NoRequest]
    BY <1>8 DEF EditTicket, ReplyTicket, Quits
  <2>2. \E s \in Status : desk' = [desk EXCEPT ![admin[g].on].status = s]
    <3>1. CASE EditTicket(g) BY <3>1 DEF EditTicket
    <3>2. CASE ReplyTicket(g) /\ admin[g].on \in Ids BY <3>2, <1>t DEF ReplyTicket, Status
    <3>3. CASE ReplyTicket(g) /\ admin[g].on \notin Ids
      BY <3>3, <1>t DEF ReplyTicket, Status
    <3> QED BY <3>1, <3>2, <3>3, <1>8
  <2>3. /\ desk' \in [Ids -> [from : {"nowhere", "alert", "customer"}, status : Status]]
        /\ \A i \in Ids : desk'[i].from = desk[i].from
    <3>1. PICK s \in Status : desk' = [desk EXCEPT ![admin[g].on].status = s] BY <2>2
    <3>2. CASE admin[g].on \in Ids BY <3>1, <3>2, <1>t
    <3>3. CASE admin[g].on \notin Ids
      <4>1. desk' = desk BY <3>1, <3>3, <1>t
      <4> QED BY <4>1, <1>t
    <3> QED BY <3>2, <3>3
  <2>4. Escalated' = Escalated BY <2>3 DEF Escalated
  <2>5. Escalating' = Escalating BY <2>1, <1>t DEF Escalating, NoRequest
  <2> QED BY <2>1, <2>3, <2>4, <2>5, <1>t, <1>n DEF TicketsTypeOK
<1> QED BY <1>1, <1>2, <1>3, <1>4, <1>5, <1>6, <1>7, <1>8 DEF TicketsNext

\* One alert never has more support tickets than there are administrators,
\* however often it is escalated by ai-resolve and whatever becomes of them.
THEOREM FewTickets == TicketsSpec => []TicketsBounded
<1>1. TicketsInit => TicketsInv
  <2> SUFFICES ASSUME TicketsInit PROVE TicketsInv OBVIOUS
  <2>1. TicketsTypeOK
    BY DEF TicketsInit, TicketsTypeOK, NoTicket, NoRequest, Status
  <2>2. Escalated = {} /\ Escalating = {}
    BY DEF TicketsInit, Escalated, Escalating, NoTicket, NoRequest
  <2> QED BY <2>1, <2>2, FS_EmptySet, TicketsFinite DEF TicketsInv
<1>2. TicketsInv => TicketsBounded BY TicketsFinite DEF TicketsInv, TicketsBounded
<1> QED BY <1>1, <1>2, TicketsStep, PTL DEF TicketsSpec

-----------------------------------------------------------------------------
(* Alerts: a job that is about to insert one counts as if it were there.    *)

Inserting == {w \in Slots : slot[w].pc = "insert"}
SupportInv == SupportTypeOK /\ open + Cardinality(Inserting) <= Cardinality(Slots)

LEMMA SupportFinite ==
    /\ IsFiniteSet(Slots) /\ Cardinality(Slots) \in Nat
    /\ IsFiniteSet(Inserting) /\ Cardinality(Inserting) \in Nat
    /\ Cardinality(Inserting) <= Cardinality(Slots)
<1>1. IsFiniteSet(Slots) BY SupportAssumption DEF SupportAssumption
<1>2. Inserting \in SUBSET Slots BY DEF Inserting
<1> QED BY <1>1, <1>2, FS_Subset, FS_CardinalityType

LEMMA SupportStep == SupportInv /\ [SupportNext]_supportVars => SupportInv'
<1> SUFFICES ASSUME SupportInv, [SupportNext]_supportVars PROVE SupportInv' OBVIOUS
<1> USE SupportFinite DEF SupportInv
<1>t. /\ waiting \in [1..MaxTries -> 0..MaxWaiting]
      /\ slot \in [Slots -> [pc : {"free", "look", "insert"}, left : 0..MaxTries]]
      /\ open \in Nat /\ looks \in BOOLEAN
      /\ MaxTries \in Nat \ {0} /\ MaxWaiting \in Nat
  BY SupportAssumption DEF SupportTypeOK, SupportAssumption
<1>a. ASSUME NEW n \in 1..MaxTries, AddJob(n)
      PROVE  waiting' \in [1..MaxTries -> 0..MaxWaiting]
  BY <1>a, <1>t DEF AddJob
<1>f. FreeWorker \in [pc : {"free", "look", "insert"}, left : 0..MaxTries]
  BY <1>t DEF FreeWorker
<1>1. CASE UNCHANGED supportVars
  BY <1>1, <1>t DEF supportVars, SupportTypeOK, Inserting
<1>2. CASE Disconnected \/ MonitorLooks \/ MonitorAdds \/ CloseAlert
  <2>1. slot' = slot /\ open' \in {open, open - 1} /\ open' \in Nat
    BY <1>2, <1>t DEF Disconnected, MonitorLooks, MonitorAdds, CloseAlert
  <2>2. 1 \in 1..MaxTries /\ MaxTries \in 1..MaxTries BY <1>t
  <2>3. waiting' \in [1..MaxTries -> 0..MaxWaiting] /\ looks' \in BOOLEAN
    BY <1>2, <1>a, <1>t, <2>2 DEF Disconnected, MonitorLooks, MonitorAdds, CloseAlert
  <2>4. Inserting' = Inserting BY <2>1 DEF Inserting
  <2> QED BY <2>1, <2>3, <2>4, <1>t DEF SupportTypeOK
<1>3. ASSUME NEW w \in Slots, PickAlert(w) PROVE SupportInv'
  <2>1. PICK n \in 1..MaxTries :
          /\ waiting[n] > 0 /\ waiting' = [waiting EXCEPT ![n] = @ - 1]
          /\ slot' = [slot EXCEPT ![w] = [pc |-> "look", left |-> n]]
    BY <1>3 DEF PickAlert
  <2>2. slot[w].pc = "free" /\ open' = open /\ looks' = looks BY <1>3 DEF PickAlert
  <2>3. waiting[n] \in 0..MaxWaiting BY <1>t
  <2>4. waiting[n] - 1 \in 0..MaxWaiting BY <2>1, <2>3, <1>t
  <2>5. waiting' \in [1..MaxTries -> 0..MaxWaiting] BY <2>1, <2>4, <1>t
  <2>6. slot' \in [Slots -> [pc : {"free", "look", "insert"}, left : 0..MaxTries]]
    BY <2>1, <1>t
  <2>7. Inserting' = Inserting BY <2>1, <2>2, <1>t DEF Inserting
  <2> QED BY <2>2, <2>5, <2>6, <2>7, <1>t DEF SupportTypeOK
<1>4. ASSUME NEW w \in Slots, LookForOpen(w) PROVE SupportInv'
  <2>1. slot[w].pc = "look" /\ waiting' = waiting /\ open' = open /\ looks' = looks
    BY <1>4 DEF LookForOpen
  <2>2. CASE slot' = [slot EXCEPT ![w] = FreeWorker]
    <3>1. Inserting' = Inserting BY <2>1, <2>2, <1>t DEF Inserting, FreeWorker
    <3> QED BY <2>1, <2>2, <3>1, <1>t, <1>f DEF SupportTypeOK
  <2>3. CASE open = 0 /\ slot' = [slot EXCEPT ![w].pc = "insert"]
    <3>1. Inserting' \in SUBSET Slots BY DEF Inserting
    <3>2. Cardinality(Inserting') <= Cardinality(Slots) /\ Cardinality(Inserting') \in Nat
      BY <3>1, FS_Subset, FS_CardinalityType
    <3> QED BY <2>1, <2>3, <3>2, <1>t DEF SupportTypeOK
  <2> QED BY <1>4, <2>2, <2>3 DEF LookForOpen, SlotGoes
<1>5. ASSUME NEW w \in Slots, InsertAlert(w) \/ AlertFails(w) PROVE SupportInv'
  <2>1. slot' = [slot EXCEPT ![w] = FreeWorker] /\ looks' = looks
    BY <1>5 DEF InsertAlert, AlertFails
  <2>2. \/ open' = open
        \/ open' = open + 1 /\ slot[w].pc = "insert"
    BY <1>5 DEF InsertAlert, AlertFails
  <2>3. waiting' \in [1..MaxTries -> 0..MaxWaiting]
    <3>1. CASE UNCHANGED waiting BY <3>1, <1>t
    <3>2. CASE slot[w].left > 1 /\ AddJob(slot[w].left - 1)
      <4>1. slot[w].left \in 0..MaxTries BY <1>t
      <4>2. slot[w].left - 1 \in 1..MaxTries BY <3>2, <4>1, <1>t
      <4> QED BY <3>2, <4>2, <1>a
    <3> QED BY <1>5, <3>1, <3>2 DEF InsertAlert, AlertFails
  <2>4. Inserting' = Inserting \ {w} BY <2>1, <1>t DEF Inserting, FreeWorker
  <2>5. Cardinality(Inserting') =
          IF w \in Inserting THEN Cardinality(Inserting) - 1 ELSE Cardinality(Inserting)
    BY <2>4, FS_RemoveElement
  <2>6. slot[w].pc = "insert" <=> w \in Inserting BY DEF Inserting
  <2>7. open' + Cardinality(Inserting') <= Cardinality(Slots) /\ open' \in Nat
    BY <2>2, <2>5, <2>6, <1>t
  <2>8. slot' \in [Slots -> [pc : {"free", "look", "insert"}, left : 0..MaxTries]]
    BY <2>1, <1>t, <1>f
  <2> QED BY <2>1, <2>3, <2>7, <2>8, <1>t DEF SupportTypeOK
<1> QED BY <1>1, <1>2, <1>3, <1>4, <1>5 DEF SupportNext

\* The alert worker opens no more alerts of one type for an instance than it
\* has jobs at a time, whatever is queued, retried or acknowledged.
THEOREM FewAlerts == SupportSpec => []DuplicatesBounded
<1>1. SupportInit => SupportInv
  <2> SUFFICES ASSUME SupportInit PROVE SupportInv OBVIOUS
  <2>1. MaxTries \in Nat /\ MaxWaiting \in Nat
    BY SupportAssumption DEF SupportAssumption
  <2>2. SupportTypeOK
    <3>1. [n \in 1..MaxTries |-> 0] \in [1..MaxTries -> 0..MaxWaiting] BY <2>1
    <3>2. FreeWorker \in [pc : {"free", "look", "insert"}, left : 0..MaxTries]
      BY <2>1 DEF FreeWorker
    <3> QED BY <3>1, <3>2 DEF SupportInit, SupportTypeOK
  <2>3. Inserting = {} BY DEF SupportInit, Inserting, FreeWorker
  <2> QED BY <2>2, <2>3, FS_EmptySet, SupportFinite DEF SupportInv, SupportInit
<1>2. SupportInv => DuplicatesBounded
  BY SupportFinite DEF SupportInv, SupportTypeOK, DuplicatesBounded
<1> QED BY <1>1, <1>2, SupportStep, PTL DEF SupportSpec

-----------------------------------------------------------------------------
(* Limits of a plan: the rows that requests are about to insert, because    *)
(* their count found room for them, are reckoned as if they were there.     *)

InFlight(k, x) ==
    /\ importer[k].what = x
    /\ \/ importer[k].pc = "insert"
       \/ /\ importer[k].pc = "decide"
          /\ ~AtLimit(x, importer[k].counted, importer[k].left)
Reserved(x) == {p \in Importers \X Batch : InFlight(p[1], x) /\ p[2] <= importer[p[1]].left}
Size(x) == IF x = "leads" THEN MaxBatch ELSE 1
Room(x) == Allowed[x] + (Cardinality(Importers) - 1) * Size(x)
Limited == Resources \ {"team"}

LimitsInv ==
    /\ LimitsTypeOK
    /\ \A k \in Importers : importer[k].pc # "idle" =>
         importer[k].left \in 1..Size(importer[k].what)
    /\ \A x \in Limited : Allowed[x] > 0 => stock[x] + Cardinality(Reserved(x)) <= Room(x) + unchecked[x]

LEMMA ReservedFinite ==
    /\ IsFiniteSet(Importers) /\ Cardinality(Importers) \in Nat \ {0}
    /\ MaxBatch \in Nat \ {0}
    /\ \A S \in SUBSET (Importers \X Batch) :
         /\ IsFiniteSet(S) /\ Cardinality(S) \in Nat
         /\ \A T \in SUBSET S : Cardinality(T) <= Cardinality(S)
         /\ \A p \in S : Cardinality(S \ {p}) = Cardinality(S) - 1
<1>1. IsFiniteSet(Importers) /\ Importers # {} /\ MaxBatch \in Nat \ {0}
  BY LimitsAssumption DEF LimitsAssumption
<1>2. Cardinality(Importers) \in Nat \ {0}
  BY <1>1, FS_CardinalityType, FS_EmptySet
<1>3. IsFiniteSet(Batch) BY <1>1, FS_Interval DEF Batch
<1>4. IsFiniteSet(Importers \X Batch) BY <1>1, <1>3, FS_Product
<1>5. ASSUME NEW S \in SUBSET (Importers \X Batch)
      PROVE  /\ IsFiniteSet(S) /\ Cardinality(S) \in Nat
             /\ \A T \in SUBSET S : Cardinality(T) <= Cardinality(S)
             /\ \A p \in S : Cardinality(S \ {p}) = Cardinality(S) - 1
  <2>1. IsFiniteSet(S) /\ Cardinality(S) \in Nat
    BY <1>4, FS_Subset, FS_CardinalityType
  <2> QED BY <2>1, FS_Subset, FS_RemoveElement
<1> QED BY <1>1, <1>2, <1>5

LEMMA OneTo == ASSUME NEW n \in Nat PROVE IsFiniteSet(1..n) /\ Cardinality(1..n) = n
<1>1. IsFiniteSet(1..n) /\ Cardinality(1..n) = IF 1 > n THEN 0 ELSE n - 1 + 1
  <2>1. 1 \in Int /\ n \in Int OBVIOUS
  <2> QED BY <2>1, FS_Interval
<1> QED BY <1>1

\* A request for n rows of x reserves at most n, and each other one a batch.
LEMMA ReservedBounded ==
    ASSUME NEW k \in Importers, NEW n \in Batch, NEW x \in Resources,
           NEW S \in SUBSET (Importers \X Batch),
           \A p \in S : IF p[1] = k THEN p[2] <= n ELSE p[2] <= Size(x)
    PROVE  Cardinality(S) <= n + (Cardinality(Importers) - 1) * Size(x)
<1> DEFINE Own == {k} \X (1..n)
           Others == (Importers \ {k}) \X (1..Size(x))
<1>1. IsFiniteSet(Importers) /\ Cardinality(Importers) \in Nat \ {0}
      /\ MaxBatch \in Nat \ {0}
  BY ReservedFinite
<1>2. Size(x) \in Nat /\ n \in Nat \ {0} BY <1>1 DEF Size, Batch
<1>3. /\ IsFiniteSet({k}) /\ Cardinality({k}) = 1
      /\ IsFiniteSet(Importers \ {k})
      /\ Cardinality(Importers \ {k}) = Cardinality(Importers) - 1
  BY <1>1, FS_Singleton, FS_RemoveElement
<1>4. /\ IsFiniteSet(1..n) /\ Cardinality(1..n) = n
      /\ IsFiniteSet(1..Size(x)) /\ Cardinality(1..Size(x)) = Size(x)
  BY <1>2, OneTo
<1>5. IsFiniteSet(Own) /\ Cardinality(Own) = n
  <2>1. IsFiniteSet(Own) /\ Cardinality(Own) = Cardinality({k}) * Cardinality(1..n)
    BY ONLY <1>3, <1>4, FS_Product, Zenon
  <2>2. Cardinality({k}) * Cardinality(1..n) = 1 * n BY ONLY <1>3, <1>4
  <2> QED BY ONLY <1>2, <2>1, <2>2
<1>6. /\ IsFiniteSet(Others)
      /\ Cardinality(Others) = (Cardinality(Importers) - 1) * Size(x)
  <2>1. IsFiniteSet(Others)
        /\ Cardinality(Others) = Cardinality(Importers \ {k}) * Cardinality(1..Size(x))
    BY ONLY <1>3, <1>4, FS_Product, Zenon
  <2> QED BY ONLY <1>3, <1>4, <2>1
<1>7. S \subseteq Own \cup Others
  <2> SUFFICES ASSUME NEW p \in S PROVE p \in Own \cup Others OBVIOUS
  <2>1. p = <<p[1], p[2]>> /\ p[1] \in Importers /\ p[2] \in Nat /\ p[2] >= 1
    BY DEF Batch
  <2>2. CASE p[1] = k BY <2>1, <2>2, <1>2
  <2>3. CASE p[1] # k BY <2>1, <2>3, <1>2
  <2> QED BY <2>2, <2>3
<1>8. Own \cap Others = {} OBVIOUS
<1>9. Cardinality(Own \cup Others) = Cardinality(Own) + Cardinality(Others)
                                     - Cardinality(Own \cap Others)
      /\ IsFiniteSet(Own \cup Others)
  BY <1>5, <1>6, FS_Union
<1>10. Cardinality(S) <= Cardinality(Own \cup Others) BY <1>7, <1>9, FS_Subset
<1>11. Cardinality(Own) \in Nat /\ Cardinality(Others) \in Nat
       /\ Cardinality(Own \cap Others) = 0
  BY <1>5, <1>6, <1>8, FS_EmptySet, FS_CardinalityType
<1>12. Cardinality(S) \in Nat BY ReservedFinite
<1> HIDE DEF Own, Others
<1> QED BY <1>2, <1>5, <1>6, <1>9, <1>10, <1>11, <1>12

LEMMA LimitsStep == LimitsInv /\ [LimitsNext]_limitVars => LimitsInv'
<1> SUFFICES ASSUME LimitsInv, [LimitsNext]_limitVars PROVE LimitsInv' OBVIOUS
<1> USE ReservedFinite
<1> DEFINE Rows == [pc : {"idle", "decide", "insert"}, what : Resources,
                    left : 0..MaxBatch, counted : Nat]
<1>t. /\ stock \in [Resources -> Nat] /\ unchecked \in [Resources -> Nat]
      /\ importer \in [Importers -> Rows]
      /\ Allowed \in [Resources -> Nat] /\ Logins \in Nat
      /\ \A k \in Importers : importer[k].pc # "idle" =>
           importer[k].left \in 1..Size(importer[k].what)
      /\ \A x \in Limited : Allowed[x] > 0 => stock[x] + Cardinality(Reserved(x)) <= Room(x) + unchecked[x]
  BY LimitsAssumption DEF LimitsInv, LimitsTypeOK, LimitsAssumption
<1>r. \A x \in Resources : /\ Reserved(x) \in SUBSET (Importers \X Batch)
                           /\ Reserved(x)' \in SUBSET (Importers \X Batch)
                           /\ Size(x) \in Nat
  BY DEF Reserved, Size
<1>m. \A x \in Resources : Room(x) \in Int /\ unchecked[x] \in Nat
  BY <1>t, <1>r DEF Room
\* One request goes on to s, and no more rows of a limited resource are due.
<1>s. ASSUME NEW k \in Importers, NEW s \in Rows,
             importer' = [importer EXCEPT ![k] = s],
             s.pc # "idle" => s.left \in 1..Size(s.what),
             stock' \in [Resources -> Nat], unchecked' \in [Resources -> Nat],
             \A x \in Limited : Allowed[x] > 0 =>
               stock'[x] + Cardinality(Reserved(x)') <= Room(x) + unchecked'[x]
      PROVE  LimitsInv'
  <2>1. importer' \in [Importers -> Rows] BY <1>s, <1>t
  <2>2. \A j \in Importers : importer'[j].pc # "idle" =>
          importer'[j].left \in 1..Size(importer'[j].what)
    BY <1>s, <1>t
  <2>3. LimitsTypeOK' BY <1>s, <2>1 DEF LimitsTypeOK
  <2> QED BY <1>s, <2>2, <2>3 DEF LimitsInv, Room
\* A request that ends, or goes on with what it had reserved.
<1>e. ASSUME NEW k \in Importers, NEW s \in Rows,
             importer' = [importer EXCEPT ![k] = s], UNCHANGED <<stock, unchecked>>,
             \/ s.pc = "idle"
             \/ /\ s.pc = "insert" /\ s.what = importer[k].what
                /\ s.left = importer[k].left /\ InFlight(k, s.what)
      PROVE  LimitsInv'
  <2>1. importer'[k] = s /\ \A j \in Importers \ {k} : importer'[j] = importer[j]
    BY <1>e, <1>t
  <2>2. \A x \in Resources, j \in Importers : InFlight(j, x)' =>
          InFlight(j, x) /\ importer'[j].left = importer[j].left
    BY <1>e, <2>1 DEF InFlight, AtLimit
  <2>3. \A x \in Resources : Reserved(x)' \in SUBSET Reserved(x)
    BY <2>2 DEF Reserved
  <2>4. \A x \in Resources : Cardinality(Reserved(x)') <= Cardinality(Reserved(x))
                             /\ Cardinality(Reserved(x)') \in Nat
                             /\ Cardinality(Reserved(x)) \in Nat
    BY <1>r, <2>3
  <2>5. \A x \in Limited : stock[x] \in Nat /\ x \in Resources BY <1>t DEF Limited
  <2>6. \A x \in Limited : Allowed[x] > 0 =>
          stock'[x] + Cardinality(Reserved(x)') <= Room(x) + unchecked'[x]
    BY <1>e, <1>t, <1>m, <2>4, <2>5
  <2>7. s.pc # "idle" => s.left \in 1..Size(s.what)
    BY <1>e, <1>t DEF InFlight
  <2> QED BY <1>e, <1>s, <1>t, <2>6, <2>7
<1>n. NoImport \in Rows /\ NoImport.pc = "idle" BY DEF NoImport, Resources
<1>1. CASE UNCHANGED limitVars
  <2>1. \A x \in Resources : Reserved(x)' = Reserved(x)
    BY <1>1 DEF limitVars, Reserved, InFlight, AtLimit
  <2> QED BY <1>1, <1>t, <2>1 DEF limitVars, LimitsInv, LimitsTypeOK, Room, Limited
<1>2. ASSUME NEW k \in Importers, NEW y \in Resources, NEW n \in 1..Size(y), Counts(k, y, n)
      PROVE  LimitsInv'
  <2> DEFINE s == [pc |-> "decide", what |-> y, left |-> n, counted |-> CountOf(y)]
  <2>1. /\ importer[k].pc = "idle" /\ UNCHANGED <<stock, unchecked>>
        /\ importer' = [importer EXCEPT ![k] = s]
    BY <1>2 DEF Counts
  <2>2. n \in Batch /\ n \in Nat BY DEF Size, Batch
  <2>3. CountOf(y) \in Nat BY <1>t DEF CountOf
  <2>4. /\ s \in Rows /\ s.pc = "decide" /\ s.what = y /\ s.left = n
        /\ s.counted = CountOf(y)
    BY <2>2, <2>3 DEF Batch
  <2> HIDE DEF s
  <2>5. importer'[k] = s /\ \A j \in Importers \ {k} : importer'[j] = importer[j]
    BY <2>1, <1>t
  <2>6. ASSUME NEW x \in Limited, Allowed[x] > 0
        PROVE  stock'[x] + Cardinality(Reserved(x)') <= Room(x) + unchecked'[x]
    <3>1. x \in Resources /\ x # "team" BY DEF Limited
    <3>2. stock[x] \in Nat /\ Allowed[x] \in Nat BY <3>1, <1>t
    <3>3. CASE x = y /\ ~AtLimit(y, CountOf(y), n)
      <4>1. stock[x] + n <= Allowed[x]
        BY <2>2, <2>6, <3>1, <3>2, <3>3 DEF AtLimit, CountOf
      <4>2. \A p \in Reserved(x)' : IF p[1] = k THEN p[2] <= n ELSE p[2] <= Size(x)
        <5> SUFFICES ASSUME NEW p \in Reserved(x)'
                     PROVE  IF p[1] = k THEN p[2] <= n ELSE p[2] <= Size(x)
          OBVIOUS
        <5>1. p[1] \in Importers /\ p[2] \in Nat /\ p[2] <= importer'[p[1]].left
              /\ InFlight(p[1], x)'
          BY DEF Reserved, Batch
        <5>2. CASE p[1] = k BY <5>1, <5>2, <2>4, <2>5
        <5>3. CASE p[1] # k
          <6>1. importer'[p[1]] = importer[p[1]] BY <5>1, <5>3, <2>5
          <6>2. importer[p[1]].pc # "idle" /\ importer[p[1]].what = x
            BY <5>1, <6>1 DEF InFlight
          <6>3. importer[p[1]].left \in 1..Size(x) BY <5>1, <6>2, <1>t
          <6> QED BY <5>1, <5>3, <6>1, <6>3, <3>1, <1>r
        <5> QED BY <5>2, <5>3
      <4>3. Cardinality(Reserved(x)') <= n + (Cardinality(Importers) - 1) * Size(x)
        BY <4>2, <2>2, <3>1, <1>r, ReservedBounded
      <4>4. Cardinality(Reserved(x)') \in Nat BY <3>1, <1>r
      <4>5. (Cardinality(Importers) - 1) * Size(x) \in Int /\ unchecked[x] \in Nat
            /\ unchecked'[x] = unchecked[x]
        BY <2>1, <3>1, <1>r, <1>t
      <4> QED BY <2>1, <2>2, <3>2, <4>1, <4>3, <4>4, <4>5 DEF Room
    <3>4. CASE ~(x = y /\ ~AtLimit(y, CountOf(y), n))
      <4>1. ~InFlight(k, x)' BY <3>4, <2>4, <2>5 DEF InFlight, AtLimit
      <4>2. \A j \in Importers : InFlight(j, x)' =>
              InFlight(j, x) /\ importer'[j].left = importer[j].left
        BY <4>1, <2>5 DEF InFlight, AtLimit
      <4>3. Reserved(x)' \in SUBSET Reserved(x) BY <4>2 DEF Reserved
      <4>4. Cardinality(Reserved(x)') <= Cardinality(Reserved(x))
            /\ Cardinality(Reserved(x)') \in Nat /\ Cardinality(Reserved(x)) \in Nat
        BY <3>1, <1>r, <4>3
      <4> QED BY <2>1, <2>6, <3>1, <3>2, <4>4, <1>m, <1>t
    <3> QED BY <3>3, <3>4
  <2> QED BY <1>s, <1>t, <2>1, <2>4, <2>6
<1>3. ASSUME NEW k \in Importers, LimitDecides(k) PROVE LimitsInv'
  <2>1. importer[k].pc = "decide" /\ UNCHANGED <<stock, unchecked>> BY <1>3 DEF LimitDecides
  <2>2. CASE ImportEnds(k) BY <1>e, <1>n, <2>1, <2>2 DEF ImportEnds
  <2>3. CASE ~ImportEnds(k)
    <3> DEFINE s == [importer[k] EXCEPT !.pc = "insert", !.counted = 0]
    <3>1. /\ ~AtLimit(importer[k].what, importer[k].counted, importer[k].left)
          /\ importer' = [importer EXCEPT ![k].pc = "insert", ![k].counted = 0]
      BY <1>3, <2>3 DEF LimitDecides
    <3>2. importer[k] \in Rows BY <1>t
    <3>3. /\ s \in Rows /\ s.pc = "insert" /\ s.what = importer[k].what
          /\ s.left = importer[k].left
      BY <3>2
    <3>4. importer' = [importer EXCEPT ![k] = s] BY <3>1, <1>t
    <3>5. InFlight(k, importer[k].what) BY <2>1, <3>1 DEF InFlight
    <3> HIDE DEF s
    <3> QED BY <1>e, <2>1, <3>3, <3>4, <3>5
  <2> QED BY <2>2, <2>3
<1>4. ASSUME NEW k \in Importers, InsertRow(k) PROVE LimitsInv'
  <2>0. PICK y, n : y = importer[k].what /\ n = importer[k].left OBVIOUS
  <2> DEFINE s == IF n > 1 THEN [importer[k] EXCEPT !.left = n - 1] ELSE NoImport
  <2>1. /\ importer[k].pc = "insert" /\ stock' = [stock EXCEPT ![y] = @ + 1]
        /\ unchecked' = unchecked
    BY <1>4, <2>0 DEF InsertRow
  <2>2. importer[k] \in Rows /\ y \in Resources /\ n \in 1..Size(y) BY <2>0, <2>1, <1>t
  <2>3. n \in Batch /\ n \in 1..MaxBatch BY <2>2 DEF Size, Batch
  <2>4. importer' = [importer EXCEPT ![k] = s]
    <3>1. CASE n > 1 BY <1>4, <2>0, <3>1, <1>t DEF InsertRow
    <3>2. CASE ~(n > 1) BY <1>4, <2>0, <3>2, <1>t DEF InsertRow, ImportEnds
    <3> QED BY <3>1, <3>2
  <2>5. /\ s \in Rows
        /\ IF n > 1 THEN s.pc = "insert" /\ s.what = y /\ s.left = n - 1 ELSE s.pc = "idle"
    <3>1. CASE n > 1
      <4>1. n - 1 \in 0..MaxBatch BY <2>3
      <4>2. s = [importer[k] EXCEPT !.left = n - 1] BY <3>1
      <4> QED BY <2>0, <2>1, <2>2, <3>1, <4>1, <4>2
    <3>2. CASE ~(n > 1) BY <1>n, <3>2
    <3> QED BY <3>1, <3>2
  <2> HIDE DEF s
  <2>6. importer'[k] = s /\ \A j \in Importers \ {k} : importer'[j] = importer[j]
    BY <2>4, <2>5, <1>t
  <2>7. \A j \in Importers \ {k} : \A x : InFlight(j, x)' <=> InFlight(j, x)
    BY <2>6 DEF InFlight, AtLimit
  <2>8. \A x : InFlight(k, x) <=> x = y BY <2>0, <2>1 DEF InFlight
  <2>9. \A x : InFlight(k, x)' <=> x = y /\ n > 1
    BY <2>5, <2>6, <2>2, <2>3 DEF InFlight
  <2>10. Reserved(y)' = Reserved(y) \ {<<k, n>>}
    <3>1. ASSUME NEW p \in Importers \X Batch
          PROVE  p \in Reserved(y)' <=> p \in Reserved(y) /\ p # <<k, n>>
      <4>1. p = <<p[1], p[2]>> /\ p[1] \in Importers /\ p[2] \in Nat /\ p[2] >= 1
        BY DEF Batch
      <4>2. CASE p[1] # k
        <5>1. p # <<k, n>> BY <4>2
        <5>2. InFlight(p[1], y)' <=> InFlight(p[1], y) BY <4>1, <4>2, <2>7
        <5>3. importer'[p[1]].left = importer[p[1]].left BY <4>1, <4>2, <2>6
        <5>4. p \in Reserved(y) <=> InFlight(p[1], y) /\ p[2] <= importer[p[1]].left
          BY DEF Reserved
        <5>5. p \in Reserved(y)' <=> InFlight(p[1], y)' /\ p[2] <= importer'[p[1]].left
          BY DEF Reserved
        <5> QED BY <5>1, <5>2, <5>3, <5>4, <5>5
      <4>3. CASE p[1] = k
        <5>1. p \in Reserved(y) <=> p[2] <= n BY <4>3, <2>0, <2>8 DEF Reserved
        <5>2. p \in Reserved(y)' <=> n > 1 /\ p[2] <= n - 1
          BY <4>3, <2>5, <2>6, <2>9 DEF Reserved
        <5>3. p # <<k, n>> <=> p[2] # n BY <4>1, <4>3
        <5> QED BY <4>1, <5>1, <5>2, <5>3, <2>3
      <4> QED BY <4>2, <4>3
    <3> QED BY <3>1, <1>r, <2>2 DEF Reserved
  <2>11. <<k, n>> \in Reserved(y) BY <2>0, <2>3, <2>8 DEF Reserved
  <2>12. Cardinality(Reserved(y)') = Cardinality(Reserved(y)) - 1
         /\ Cardinality(Reserved(y)) \in Nat
    BY <1>r, <2>2, <2>10, <2>11
  <2>13. \A x \in Resources \ {y} : Reserved(x)' \in SUBSET Reserved(x)
    <3> SUFFICES ASSUME NEW x \in Resources \ {y}, NEW p \in Reserved(x)'
                 PROVE  p \in Reserved(x)
      OBVIOUS
    <3>1. p \in Importers \X Batch /\ InFlight(p[1], x)' BY DEF Reserved
    <3>2. p[1] # k BY <3>1, <2>9
    <3> QED BY <3>1, <3>2, <2>6, <2>7 DEF Reserved
  <2>14. \A x \in Resources \ {y} :
           /\ Cardinality(Reserved(x)') <= Cardinality(Reserved(x))
           /\ Cardinality(Reserved(x)') \in Nat /\ Cardinality(Reserved(x)) \in Nat
    BY <1>r, <2>13
  <2>15. /\ stock' \in [Resources -> Nat] /\ stock'[y] = stock[y] + 1
         /\ \A x \in Resources \ {y} : stock'[x] = stock[x]
    BY <2>1, <2>2, <1>t
  <2>16. ASSUME NEW x \in Limited, Allowed[x] > 0
         PROVE  stock'[x] + Cardinality(Reserved(x)') <= Room(x) + unchecked'[x]
    <3>1. x \in Resources /\ stock[x] \in Nat BY <1>t DEF Limited
    <3>2. stock[x] + Cardinality(Reserved(x)) <= Room(x) + unchecked[x]
          /\ unchecked'[x] = unchecked[x]
      BY <2>1, <2>16, <1>t
    <3>3. CASE x = y
      <4>1. /\ stock'[x] = stock[x] + 1 /\ Cardinality(Reserved(x)) \in Nat
            /\ Cardinality(Reserved(x)') = Cardinality(Reserved(x)) - 1
        BY <3>3, <2>12, <2>15
      <4>2. Room(x) \in Int /\ unchecked[x] \in Nat BY <3>1, <1>m
      <4> QED BY ONLY <3>1, <3>2, <4>1, <4>2
    <3>4. CASE x # y BY <3>1, <3>2, <3>4, <2>14, <2>15, <1>m
    <3> QED BY <3>3, <3>4
  <2>17. s.pc # "idle" => s.left \in 1..Size(s.what)
    BY <2>2, <2>5, <1>r
  <2>18. unchecked' \in [Resources -> Nat] BY <2>1, <1>t
  <2> QED BY <1>s, <2>4, <2>5, <2>15, <2>16, <2>17, <2>18
<1>5. ASSUME NEW k \in Importers, ImportFails(k) PROVE LimitsInv'
  BY <1>5, <1>e, <1>n DEF ImportFails, ImportEnds
\* Rows come and go, and those that passed a check do not become more.
<1>c. ASSUME importer' = importer,
             stock' \in [Resources -> Nat], unchecked' \in [Resources -> Nat],
             \A x \in Resources : stock'[x] - unchecked'[x] <= stock[x] - unchecked[x]
      PROVE  LimitsInv'
  <2>1. \A x \in Resources : Reserved(x)' = Reserved(x) /\ Cardinality(Reserved(x)) \in Nat
    <3>1. \A x \in Resources : Reserved(x)' = Reserved(x)
      BY <1>c DEF Reserved, InFlight, AtLimit
    <3> QED BY <3>1, <1>r
  <2>2. \A x \in Limited : Allowed[x] > 0 =>
          stock'[x] + Cardinality(Reserved(x)') <= Room(x) + unchecked'[x]
    <3> SUFFICES ASSUME NEW x \in Limited, Allowed[x] > 0
                 PROVE  stock'[x] + Cardinality(Reserved(x)') <= Room(x) + unchecked'[x]
      OBVIOUS
    <3>1. x \in Resources /\ stock[x] \in Nat /\ stock'[x] \in Nat
          /\ unchecked[x] \in Nat /\ unchecked'[x] \in Nat
      BY <1>c, <1>t DEF Limited
    <3>2. stock[x] + Cardinality(Reserved(x)) <= Room(x) + unchecked[x] BY <1>t
    <3>3. stock'[x] - unchecked'[x] <= stock[x] - unchecked[x] BY <1>c, <3>1
    <3> QED BY <3>1, <3>2, <3>3, <2>1, <1>m
  <2> QED BY <1>c, <1>t, <2>2 DEF LimitsInv, LimitsTypeOK, Room
<1>6. ASSUME NEW y \in Resources, DeleteRow(y) PROVE LimitsInv'
  <2>1. /\ stock[y] > 0 /\ importer' = importer
        /\ stock' = [stock EXCEPT ![y] = @ - 1]
    BY <1>6 DEF DeleteRow
  <2>2. CASE unchecked[y] < stock[y] /\ UNCHANGED unchecked BY <2>1, <2>2, <1>t, <1>c
  <2>3. CASE unchecked[y] > 0 /\ unchecked' = [unchecked EXCEPT ![y] = @ - 1]
    BY <2>1, <2>3, <1>t, <1>c
  <2> QED BY <1>6, <2>2, <2>3 DEF DeleteRow
<1>8. ASSUME CrmLead \/ SenderCreate PROVE LimitsInv'
  <2>1. PICK y \in Resources : InsertUnchecked(y)
    BY <1>8 DEF CrmLead, SenderCreate, Resources
  <2>2. /\ importer' = importer
        /\ stock' = [stock EXCEPT ![y] = @ + 1]
        /\ unchecked' = [unchecked EXCEPT ![y] = @ + 1]
    BY <2>1 DEF InsertUnchecked
  <2> QED BY <2>2, <1>t, <1>c
<1>7. ASSUME NEW k \in Importers,
             ImportLeads(k) \/ AddAgent(k) \/ AddCampaign(k) \/ AddMember(k)
      PROVE  LimitsInv'
  <2>1. \E y \in Resources : \E n \in 1..Size(y) : Counts(k, y, n)
    BY <1>7 DEF ImportLeads, AddAgent, AddCampaign, AddMember, Resources, Size, Batch
  <2> QED BY <2>1, <1>2
<1> QED BY <1>1, <1>3, <1>4, <1>5, <1>6, <1>7, <1>8 DEF LimitsNext

\* Together requests pass the limit of a plan by no more than one batch for
\* each request beyond the first, whatever fails, is deleted, or is inserted
\* unchecked meanwhile; the rows inserted unchecked come on top.
THEOREM LimitsHold == LimitsSpec => []LimitsBounded
<1> USE ReservedFinite
<1>1. LimitsInit => LimitsInv
  <2> SUFFICES ASSUME LimitsInit PROVE LimitsInv OBVIOUS
  <2>1. Allowed \in [Resources -> Nat] BY LimitsAssumption DEF LimitsAssumption
  <2>2. LimitsTypeOK BY DEF LimitsInit, LimitsTypeOK, NoImport, Resources
  <2>3. \A k \in Importers : importer[k].pc = "idle" BY DEF LimitsInit, NoImport
  <2>4. \A x \in Limited : stock[x] = 0 /\ unchecked[x] = 0 /\ Reserved(x) = {}
    BY <2>3 DEF LimitsInit, Limited, Reserved, InFlight
  <2>5. \A x \in Limited : Allowed[x] \in Nat /\ Size(x) \in Nat BY <2>1 DEF Limited, Size
  <2>6. \A x \in Limited : (Cardinality(Importers) - 1) * Size(x) >= 0
    <3> SUFFICES ASSUME NEW x \in Limited
                 PROVE  (Cardinality(Importers) - 1) * Size(x) >= 0
      OBVIOUS
    <3>1. Cardinality(Importers) - 1 \in Nat /\ Size(x) \in Nat BY <2>5
    <3> QED BY <3>1
  <2>7. \A x \in Limited : stock[x] + Cardinality(Reserved(x)) <= Room(x) + unchecked[x]
    BY <2>4, <2>5, <2>6, FS_EmptySet DEF Room
  <2> QED BY <2>2, <2>3, <2>7 DEF LimitsInv
<1>2. LimitsInv => LimitsBounded
  <2> SUFFICES ASSUME LimitsInv, NEW x \in Resources \ {"team"}, Allowed[x] > 0
               PROVE  stock[x] - unchecked[x] <=
                        Allowed[x] + (Cardinality(Importers) - 1)
                                       * (IF x = "leads" THEN MaxBatch ELSE 1)
    BY DEF LimitsBounded
  <2>1. Reserved(x) \in SUBSET (Importers \X Batch) BY DEF Reserved
  <2>2. Cardinality(Reserved(x)) \in Nat BY <2>1
  <2>3. stock[x] \in Nat /\ unchecked[x] \in Nat /\ Allowed[x] \in Nat /\ Size(x) \in Nat
    BY LimitsAssumption DEF LimitsInv, LimitsTypeOK, LimitsAssumption, Size
  <2>4. stock[x] + Cardinality(Reserved(x)) <= Room(x) + unchecked[x] BY DEF LimitsInv, Limited
  <2>5. Room(x) \in Int BY <2>3 DEF Room
  <2>6. stock[x] - unchecked[x] <= Room(x) BY <2>2, <2>3, <2>4, <2>5
  <2> QED BY <2>6 DEF Room, Size
<1> QED BY <1>1, <1>2, LimitsStep, PTL DEF LimitsSpec

-----------------------------------------------------------------------------
(* Traffic control: a call that found room in a bucket and has not written  *)
(* its count yet is reckoned as if it had.                                  *)

Counting(b) == {s \in Senders : InPhase(s, b, "count")}
Reckoned(b) == bucket[b].count + Cardinality(Counting(b))
TrafficInv == TrafficTypeOK /\ \A b \in Buckets : Reckoned(b) <= Limit[b] + N - 1

LEMMA SendersFinite ==
    /\ N \in Nat \ {0}
    /\ \A S \in SUBSET Senders : IsFiniteSet(S) /\ Cardinality(S) \in Nat /\ Cardinality(S) <= N
    /\ \A S \in SUBSET Senders : \A s \in Senders \ S : Cardinality(S) <= N - 1
    /\ \A S \in SUBSET Senders : \A T \in SUBSET S : Cardinality(T) <= Cardinality(S)
    /\ \A S \in SUBSET Senders : \A s \in S : Cardinality(S \ {s}) = Cardinality(S) - 1
<1>1. IsFiniteSet(Senders) /\ Senders # {} BY TrafficAssumption DEF TrafficAssumption
<1>2. N \in Nat BY <1>1, FS_CardinalityType DEF N
<1>3. N # 0 BY <1>1, FS_EmptySet DEF N
<1>4. ASSUME NEW S \in SUBSET Senders
      PROVE  IsFiniteSet(S) /\ Cardinality(S) \in Nat /\ Cardinality(S) <= N
  BY <1>1, FS_Subset, FS_CardinalityType DEF N
<1>5. ASSUME NEW S \in SUBSET Senders, NEW s \in Senders \ S
      PROVE  Cardinality(S) <= N - 1
  <2>1. S \in SUBSET (Senders \ {s}) /\ IsFiniteSet(Senders \ {s})
        /\ Cardinality(Senders \ {s}) = N - 1
    BY <1>1, FS_RemoveElement DEF N
  <2> QED BY <2>1, FS_Subset
<1>6. ASSUME NEW S \in SUBSET Senders, NEW T \in SUBSET S
      PROVE  Cardinality(T) <= Cardinality(S)
  BY <1>4, FS_Subset
<1>7. ASSUME NEW S \in SUBSET Senders, NEW s \in S
      PROVE  Cardinality(S \ {s}) = Cardinality(S) - 1
  BY <1>4, FS_RemoveElement
<1> QED BY <1>2, <1>3, <1>4, <1>5, <1>6, <1>7

\* What a step of one call in one bucket leaves alone.
LEMMA PhaseSet ==
    ASSUME TrafficTypeOK, NEW s \in Senders, NEW b \in Buckets, NEW p \in Phase,
           SetPhase(s, b, p)
    PROVE  /\ check' \in [Senders -> CheckRow]
           /\ \A c \in Buckets \ {b} : Counting(c)' = Counting(c)
           /\ p # "count" => Counting(b)' = Counting(b) \ {s}
<1> DEFINE t == IF p \in {"insert", "blind", "open"} THEN now ELSE 0
<1>t. check \in [Senders -> CheckRow] /\ now \in Nat BY DEF TrafficTypeOK
<1>1. check' = [check EXCEPT ![s].phase[b] = p, ![s].at[b] = t] BY DEF SetPhase
<1>2. t \in Nat BY <1>t
<1> HIDE DEF t
<1>3. check[s] \in CheckRow BY <1>t
<1>4. /\ check'[s].pc = check[s].pc
      /\ check'[s].phase = [check[s].phase EXCEPT ![b] = p]
      /\ check'[s] \in CheckRow
  BY <1>1, <1>2, <1>3, <1>t DEF CheckRow
<1>5. \A q \in Senders \ {s} : check'[q] = check[q] BY <1>1, <1>t
<1>6. check' \in [Senders -> CheckRow] BY <1>1, <1>4, <1>5, <1>t
<1>7. check[s].phase \in [Buckets -> Phase] BY <1>3 DEF CheckRow
<1>8. \A c \in Buckets \ {b} : check'[s].phase[c] = check[s].phase[c] BY <1>4, <1>7
<1>9. check'[s].phase[b] = p BY <1>4, <1>7
<1>10. \A c \in Buckets \ {b} : Counting(c)' = Counting(c)
  BY <1>4, <1>5, <1>8 DEF Counting, InPhase
<1>11. p # "count" => Counting(b)' = Counting(b) \ {s}
  BY <1>4, <1>5, <1>9 DEF Counting, InPhase
<1> QED BY <1>6, <1>10, <1>11

LEMMA TrafficStep == TrafficInv /\ [TrafficNext]_trafficVars => TrafficInv'
<1> SUFFICES ASSUME TrafficInv, [TrafficNext]_trafficVars PROVE TrafficInv' OBVIOUS
<1> USE SendersFinite
<1>t. /\ TrafficTypeOK /\ bucket \in [Buckets -> BucketRow]
      /\ check \in [Senders -> CheckRow] /\ now \in Nat /\ passes \in [Buckets -> Nat]
      /\ \A b \in Buckets : bucket[b].count \in Nat /\ Limit[b] \in Nat \ {0}
  BY TrafficAssumption DEF TrafficInv, TrafficTypeOK, BucketRow, TrafficAssumption
<1>i. \A b \in Buckets : Reckoned(b) <= Limit[b] + N - 1 BY DEF TrafficInv
<1>c. \A b \in Buckets : Counting(b) \in SUBSET Senders /\ Counting(b)' \in SUBSET Senders
  BY DEF Counting
\* Fewer calls about to count, and the same counts.
<1>f. ASSUME bucket' = bucket, passes' \in [Buckets -> Nat], now' \in Nat,
             check' \in [Senders -> CheckRow],
             \A b \in Buckets : Counting(b)' \in SUBSET Counting(b)
      PROVE  TrafficInv'
  <2>1. \A b \in Buckets : Reckoned(b)' <= Reckoned(b)
    BY <1>f, <1>c, <1>t DEF Reckoned
  <2>2. TrafficTypeOK' BY <1>f, <1>t DEF TrafficTypeOK
  <2>3. \A b \in Buckets : Reckoned(b)' \in Nat /\ Reckoned(b) \in Nat
    BY <1>f, <1>c, <1>t DEF Reckoned
  <2> QED BY <1>i, <1>t, <2>1, <2>2, <2>3 DEF TrafficInv
\* One bucket at a time.
<1>b. ASSUME NEW s \in Senders, NEW b \in Buckets, NEW p \in Phase, SetPhase(s, b, p),
             bucket' \in [Buckets -> BucketRow], passes' \in [Buckets -> Nat], now' = now,
             \A c \in Buckets \ {b} : bucket'[c] = bucket[c],
             Reckoned(b)' <= Limit[b] + N - 1
      PROVE  TrafficInv'
  <2>1. check' \in [Senders -> CheckRow]
        /\ \A c \in Buckets \ {b} : Counting(c)' = Counting(c)
    BY <1>b, <1>t, PhaseSet
  <2>2. TrafficTypeOK' BY <1>b, <1>t, <2>1 DEF TrafficTypeOK
  <2>3. \A c \in Buckets \ {b} : Reckoned(c)' = Reckoned(c) BY <1>b, <2>1 DEF Reckoned
  <2> QED BY <1>b, <1>i, <2>2, <2>3 DEF TrafficInv
<1>u. ASSUME NEW s \in Senders, NEW b \in Uses[s] PROVE b \in Buckets
  BY <1>u, TrafficAssumption DEF TrafficAssumption
<1>1. CASE UNCHANGED trafficVars
  <2>1. \A b \in Buckets : Counting(b)' = Counting(b)
    BY <1>1 DEF trafficVars, Counting, InPhase
  <2> QED BY <1>1, <1>f, <1>t, <2>1 DEF trafficVars
<1>2. ASSUME NEW s \in Senders, Admitted(s) PROVE TrafficInv'
  <2> DEFINE phases == [b \in Buckets |-> IF b \in Uses[s] THEN "read" ELSE "passed"]
             times == [b \in Buckets |-> 0]
  <2>1. check' = [check EXCEPT ![s] = [pc |-> "consume", at |-> times, phase |-> phases]]
    BY <1>2 DEF Admitted
  <2>2. /\ phases \in [Buckets -> Phase] /\ times \in [Buckets -> Nat]
        /\ \A b \in Buckets : phases[b] # "count"
    BY DEF Phase
  <2> HIDE DEF phases, times
  <2>3. check' \in [Senders -> CheckRow] /\ check'[s].phase = phases
        /\ \A q \in Senders \ {s} : check'[q] = check[q]
    BY <2>1, <2>2, <1>t DEF CheckRow
  <2>4. \A b \in Buckets : Counting(b)' \in SUBSET Counting(b)
    BY <2>2, <2>3 DEF Counting, InPhase
  <2> QED BY <1>2, <1>f, <1>t, <2>3, <2>4 DEF Admitted
<1>3. ASSUME NEW s \in Senders, Decide(s) \/ Wake(s) \/ Leave(s) PROVE TrafficInv'
  <2>1. /\ UNCHANGED <<bucket, now, passes>>
        /\ \/ \E l \in {"send", "sleep"} : check' = [check EXCEPT ![s].pc = l]
           \/ check' = [check EXCEPT ![s] = IdleCheck]
    BY <1>3 DEF Decide, Wake, Leave, Continue
  <2>2. IdleCheck \in CheckRow /\ IdleCheck.pc = "idle"
    <3>1. [b \in Buckets |-> "passed"] \in [Buckets -> Phase] BY DEF Phase
    <3>2. [b \in Buckets |-> 0] \in [Buckets -> Nat] OBVIOUS
    <3> QED BY <3>1, <3>2 DEF IdleCheck, CheckRow
  <2>3. /\ check' \in [Senders -> CheckRow] /\ check'[s].pc # "consume"
        /\ \A q \in Senders \ {s} : check'[q] = check[q]
    <3>1. CASE check' = [check EXCEPT ![s] = IdleCheck] BY <2>2, <3>1, <1>t
    <3>2. CASE \E l \in {"send", "sleep"} : check' = [check EXCEPT ![s].pc = l]
      <4>1. PICK l \in {"send", "sleep"} : check' = [check EXCEPT ![s].pc = l] BY <3>2
      <4>2. check[s] \in CheckRow BY <1>t
      <4>3. [check[s] EXCEPT !.pc = l] \in CheckRow BY <4>2 DEF CheckRow
      <4>4. [check[s] EXCEPT !.pc = l].pc = l BY <4>2 DEF CheckRow
      <4> QED BY <4>1, <4>3, <4>4, <1>t
    <3> QED BY <2>1, <3>1, <3>2
  <2>4. \A b \in Buckets : Counting(b)' \in SUBSET Counting(b)
    BY <2>3 DEF Counting, InPhase
  <2> QED BY <1>f, <1>t, <2>1, <2>3, <2>4
<1>4. ASSUME NEW s \in Senders, NEW b \in Uses[s], ReadBucket(s, b) PROVE TrafficInv'
  <2>1. b \in Buckets BY <1>u
  <2>2. PICK max \in 1..Limit[b] :
          SetPhase(s, b, CASE ~bucket[b].exists -> "insert"
                          [] bucket[b].exists /\ Expired(b) -> "open"
                          [] OTHER -> IF Full(b, max) THEN "blocked" ELSE "count")
    BY <1>4 DEF ReadBucket
  <2>3. PICK p \in {"insert", "open", "blocked", "count"} :
          SetPhase(s, b, p) /\ (p = "count" => ~Full(b, max))
    <3>1. CASE ~bucket[b].exists BY <2>2, <3>1
    <3>2. CASE bucket[b].exists /\ Expired(b) BY <2>2, <3>2
    <3>3. CASE bucket[b].exists /\ ~Expired(b) /\ Full(b, max) BY <2>2, <3>3
    <3>4. CASE bucket[b].exists /\ ~Expired(b) /\ ~Full(b, max) BY <2>2, <3>4
    <3> QED BY <3>1, <3>2, <3>3, <3>4
  <2>4. UNCHANGED <<bucket, now, passes>> BY <1>4 DEF ReadBucket
  <2>5. p \in Phase BY DEF Phase
  <2>6. Reckoned(b)' <= Limit[b] + N - 1
    <3>1. CASE p = "count"
      <4>1. bucket[b].count < max BY <2>3, <3>1, <2>1, <1>t DEF Full
      <4>2. Cardinality(Counting(b)') <= N /\ Cardinality(Counting(b)') \in Nat
        BY <1>c, <2>1
      <4> QED BY <4>1, <4>2, <2>1, <2>4, <1>t DEF Reckoned
    <3>2. CASE p # "count"
      <4>1. Counting(b)' \in SUBSET Counting(b)
        BY <2>1, <2>3, <2>5, <3>2, <1>t, PhaseSet
      <4>2. Cardinality(Counting(b)') <= Cardinality(Counting(b))
            /\ Cardinality(Counting(b)') \in Nat /\ Cardinality(Counting(b)) \in Nat
        BY <4>1, <1>c, <2>1
      <4> QED BY <4>2, <1>i, <2>1, <2>4, <1>t DEF Reckoned
    <3> QED BY <3>1, <3>2
  <2> QED BY <1>b, <1>t, <2>1, <2>3, <2>4, <2>5, <2>6
<1>5. ASSUME NEW s \in Senders, NEW b \in Uses[s], ReadFails(s, b) \/ WriteFails(s, b)
      PROVE  TrafficInv'
  <2>1. b \in Buckets /\ UNCHANGED <<bucket, now, passes>>
    BY <1>5, <1>u DEF ReadFails, WriteFails
  <2>2. PICK p \in {"blind", "passed"} : SetPhase(s, b, p)
    BY <1>5 DEF ReadFails, WriteFails
  <2>3. check' \in [Senders -> CheckRow] /\ \A c \in Buckets : Counting(c)' \in SUBSET Counting(c)
    BY <2>1, <2>2, <1>t, PhaseSet DEF Phase
  <2> QED BY <1>f, <1>t, <2>1, <2>3
\* The window starts: the caller is not one of those about to count.
<1>w. ASSUME NEW s \in Senders, NEW b \in Buckets, s \notin Counting(b),
             SetPhase(s, b, "passed"), bucket' = [bucket EXCEPT ![b] = FreshRow(s, b)],
             passes' \in [Buckets -> Nat], now' = now
      PROVE  TrafficInv'
  <2>1. FreshRow(s, b) \in BucketRow /\ FreshRow(s, b).count = 1
    <3>1. check[s].at[b] \in Nat BY <1>t DEF CheckRow
    <3>2. Window \in Nat BY TrafficAssumption DEF TrafficAssumption
    <3> QED BY <3>1, <3>2 DEF FreshRow, BucketRow
  <2>2. /\ bucket' \in [Buckets -> BucketRow] /\ bucket'[b].count = 1
        /\ \A c \in Buckets \ {b} : bucket'[c] = bucket[c]
    BY <1>w, <2>1, <1>t
  <2>3. Counting(b)' \in SUBSET (Senders \ {s}) BY <1>w, <1>c, <1>t, PhaseSet DEF Phase
  <2>4. Cardinality(Counting(b)') <= N - 1 /\ Cardinality(Counting(b)') \in Nat
    BY <2>3, <1>c
  <2>5. Reckoned(b)' <= Limit[b] + N - 1 BY <2>2, <2>4, <1>t DEF Reckoned
  <2>6. "passed" \in Phase BY DEF Phase
  <2> QED BY <1>w, <1>b, <2>2, <2>5, <2>6
<1>6. ASSUME NEW s \in Senders, NEW b \in Uses[s], InsertBucket(s, b) PROVE TrafficInv'
  <2>1. /\ b \in Buckets /\ SetPhase(s, b, "passed") /\ now' = now
        /\ InPhase(s, b, "insert") \/ InPhase(s, b, "blind")
    BY <1>6, <1>u DEF InsertBucket
  <2>2. s \notin Counting(b) BY <2>1 DEF Counting, InPhase
  <2>3. CASE bucket[b].exists
    <3>1. bucket' = bucket /\ passes' \in [Buckets -> Nat]
      BY <1>6, <2>1, <2>3, <1>t DEF InsertBucket
    <3>2. check' \in [Senders -> CheckRow]
          /\ \A c \in Buckets : Counting(c)' \in SUBSET Counting(c)
      BY <2>1, <1>t, PhaseSet DEF Phase
    <3> QED BY <1>f, <1>t, <2>1, <3>1, <3>2
  <2>4. CASE ~bucket[b].exists
    <3>1. bucket' = [bucket EXCEPT ![b] = FreshRow(s, b)] /\ passes' \in [Buckets -> Nat]
      BY <1>6, <2>1, <2>4, <1>t DEF InsertBucket
    <3> QED BY <1>w, <2>1, <2>2, <3>1
  <2> QED BY <2>3, <2>4
<1>7. ASSUME NEW s \in Senders, NEW b \in Uses[s], OpenBucket(s, b) PROVE TrafficInv'
  <2>1. /\ b \in Buckets /\ SetPhase(s, b, "passed") /\ now' = now
        /\ InPhase(s, b, "open") /\ bucket' = [bucket EXCEPT ![b] = FreshRow(s, b)]
    BY <1>7, <1>u DEF OpenBucket
  <2>2. s \notin Counting(b) BY <2>1 DEF Counting, InPhase
  <2>3. passes' \in [Buckets -> Nat]
    <3>1. CASE Expired(b) BY <1>7, <2>1, <3>1, <1>t DEF OpenBucket
    <3>2. CASE ~Expired(b) BY <1>7, <2>1, <3>2, <1>t DEF OpenBucket
    <3> QED BY <3>1, <3>2
  <2> QED BY <1>w, <2>1, <2>2, <2>3
<1>8. ASSUME NEW s \in Senders, NEW b \in Uses[s], CountBucket(s, b) PROVE TrafficInv'
  <2>1. /\ b \in Buckets /\ SetPhase(s, b, "passed") /\ now' = now
        /\ InPhase(s, b, "count") /\ bucket' = [bucket EXCEPT ![b].count = @ + 1]
        /\ passes' = [passes EXCEPT ![b] = @ + 1]
    BY <1>8, <1>u DEF CountBucket
  <2>2. s \in Counting(b) BY <2>1 DEF Counting
  <2>3. /\ bucket' \in [Buckets -> BucketRow] /\ bucket'[b].count = bucket[b].count + 1
        /\ \A c \in Buckets \ {b} : bucket'[c] = bucket[c]
    BY <2>1, <1>t DEF BucketRow
  <2>4. Counting(b)' = Counting(b) \ {s} BY <2>1, <1>t, PhaseSet DEF Phase
  <2>5. Cardinality(Counting(b)') = Cardinality(Counting(b)) - 1
        /\ Cardinality(Counting(b)) \in Nat
    BY <2>1, <2>2, <2>4, <1>c
  <2>6. Reckoned(b)' = Reckoned(b) BY <2>3, <2>5, <2>1, <1>t DEF Reckoned
  <2>7. "passed" \in Phase /\ passes' \in [Buckets -> Nat] BY <2>1, <1>t DEF Phase
  <2> QED BY <1>b, <1>i, <2>1, <2>3, <2>6, <2>7
<1>9. CASE Tick
  <2>1. \A b \in Buckets : Counting(b)' = Counting(b)
    BY <1>9 DEF Tick, Counting, InPhase
  <2> QED BY <1>9, <1>f, <1>t, <2>1 DEF Tick
<1> QED BY <1>1, <1>2, <1>3, <1>4, <1>5, <1>6, <1>7, <1>8, <1>9 DEF TrafficNext

LEMMA TrafficFirst == TrafficInit => TrafficInv
<1> SUFFICES ASSUME TrafficInit PROVE TrafficInv OBVIOUS
<1>1. [b \in Buckets |-> "passed"] \in [Buckets -> Phase] BY DEF Phase
<1>2. [b \in Buckets |-> 0] \in [Buckets -> Nat] OBVIOUS
<1>3. IdleCheck \in CheckRow /\ IdleCheck.pc = "idle"
  BY <1>1, <1>2 DEF IdleCheck, CheckRow
<1>4. TrafficTypeOK BY <1>2, <1>3 DEF TrafficInit, TrafficTypeOK, BucketRow
<1>5. \A b \in Buckets : Counting(b) = {} /\ bucket[b].count = 0
  BY <1>3 DEF TrafficInit, Counting, InPhase
<1>6. \A b \in Buckets : Limit[b] \in Nat \ {0}
  BY TrafficAssumption DEF TrafficAssumption
<1>7. \A b \in Buckets : Reckoned(b) = 0 BY <1>5, FS_EmptySet DEF Reckoned
<1> QED BY <1>4, <1>6, <1>7, SendersFinite DEF TrafficInv

\* A stored count of messages exceeds its limit by less than the number of
\* concurrent callers, however they interleave and whichever statements fail.
THEOREM CountsBounded == TrafficSpec => []CountBounded
<1>1. TrafficInit => TrafficInv BY TrafficFirst
<1>2. TrafficInv => CountBounded
  <2> SUFFICES ASSUME TrafficInv, NEW b \in Buckets
               PROVE  bucket[b].count <= Limit[b] + N - 1
    BY DEF CountBounded
  <2>1. Counting(b) \in SUBSET Senders BY DEF Counting
  <2>2. bucket[b].count \in Nat /\ Limit[b] \in Nat
    BY TrafficAssumption DEF TrafficInv, TrafficTypeOK, BucketRow, TrafficAssumption
  <2> QED BY <2>1, <2>2, SendersFinite DEF TrafficInv, Reckoned
<1> QED BY <1>1, <1>2, TrafficStep, PTL DEF TrafficSpec

-----------------------------------------------------------------------------
(* Draining a node: a caller that has chosen the node and not yet placed    *)
(* its instance counts as if it had.                                        *)

Placing(n) == {p \in Placers : placer[p].pc = "place" /\ placer[p].to = n}
PlacerRow == [pc : Doing, to : CoreNodes, todo : SUBSET CoreNodes, total : Nat,
              exists : BOOLEAN]
DrainInv ==
    /\ NodesTypeOK
    /\ \A n \in CoreNodes :
         /\ drainedTo[n] <= P
         /\ node[n].drain => drainedTo[n] + Cardinality(Placing(n)) <= P

LEMMA PlacersFinite ==
    /\ P \in Nat
    /\ \A n : /\ IsFiniteSet(Placing(n)) /\ Cardinality(Placing(n)) \in Nat
              /\ Cardinality(Placing(n)) <= P
<1>1. IsFiniteSet(Placers)
    BY NodesAssumption
<1>2. ASSUME NEW n
      PROVE  /\ IsFiniteSet(Placing(n)) /\ Cardinality(Placing(n)) \in Nat
             /\ Cardinality(Placing(n)) <= P
    <2>1. Placing(n) \subseteq Placers
        BY DEF Placing
    <2> QED BY <1>1, <2>1, FS_Subset, FS_CardinalityType DEF P
<1> QED BY <1>1, <1>2, FS_CardinalityType DEF P

LEMMA PlacerRows ==
    ASSUME NEW row \in PlacerRow, NEW pc \in Doing
    PROVE  /\ [row EXCEPT !.pc = pc] \in PlacerRow
           /\ [row EXCEPT !.pc = pc].pc = pc /\ [row EXCEPT !.pc = pc].to = row.to
BY DEF PlacerRow

LEMMA BeatRows ==
    ASSUME NEW row \in PlacerRow, NEW n \in CoreNodes, NEW known \in BOOLEAN
    PROVE  /\ [row EXCEPT !.pc = "beat", !.to = n, !.exists = known] \in PlacerRow
           /\ [row EXCEPT !.pc = "beat", !.to = n, !.exists = known].pc = "beat"
           /\ [row EXCEPT !.pc = "beat", !.to = n, !.exists = known, !.total = 1] \in PlacerRow
           /\ [row EXCEPT !.pc = "beat", !.to = n, !.exists = known, !.total = 1].pc = "beat"
BY DEF PlacerRow, Doing

LEMMA UnplacedRow == Unplaced \in PlacerRow /\ Unplaced.pc = "idle"
BY NodesAssumption DEF Unplaced, PlacerRow, Doing

\* What every caller's own step does: it stays in its row, and only a choice
\* leads to a placement.
Continues(p, row) == /\ row \in PlacerRow /\ row.pc # "place" /\ Put(p, row)

LEMMA NodesTypesP ==
    ASSUME NodesTypeOK PROVE placer \in [Placers -> PlacerRow]
BY DEF NodesTypeOK, PlacerRow

LEMMA KeepsDrain ==
    ASSUME DrainInv, NEW p \in Placers, NEW row, Continues(p, row),
           node' \in [CoreNodes -> NodeRow], hosted' \in [CoreNodes -> Nat],
           faults' \in 0..MaxFaults, drainedTo' = drainedTo,
           \A n \in CoreNodes : node'[n].drain = node[n].drain
    PROVE  DrainInv'
<1>1. placer \in [Placers -> PlacerRow]
    BY NodesTypesP DEF DrainInv
<1>2. placer' \in [Placers -> PlacerRow]
    BY <1>1 DEF Continues, Put
<1>3. NodesTypeOK'
    BY <1>2 DEF DrainInv, NodesTypeOK, PlacerRow
<1>4. ASSUME NEW n \in CoreNodes
      PROVE  Cardinality(Placing(n)') <= Cardinality(Placing(n))
    <2>1. Placing(n)' \subseteq Placing(n)
        BY <1>1 DEF Placing, Continues, Put
    <2> QED BY <2>1, PlacersFinite, FS_Subset
<1>5. \A n \in CoreNodes : /\ drainedTo[n] \in Nat /\ Cardinality(Placing(n)) \in Nat
                           /\ Cardinality(Placing(n)') \in Nat
    <2>1. \A n \in CoreNodes : drainedTo[n] \in Nat
        BY DEF DrainInv, NodesTypeOK
    <2>2. ASSUME NEW n \in CoreNodes PROVE Cardinality(Placing(n)') \in Nat
        <3>1. Placing(n)' \subseteq Placers
            BY DEF Placing
        <3> QED BY <3>1, NodesAssumption, FS_Subset, FS_CardinalityType
    <2> QED BY <2>1, <2>2, PlacersFinite
<1>6. P \in Nat /\ P' = P
    BY PlacersFinite DEF P
<1>7. ASSUME NEW n \in CoreNodes
      PROVE  /\ drainedTo'[n] <= P
             /\ node'[n].drain => drainedTo'[n] + Cardinality(Placing(n)') <= P
    <2>1. /\ drainedTo[n] <= P
          /\ node[n].drain => drainedTo[n] + Cardinality(Placing(n)) <= P
        BY DEF DrainInv
    <2> QED BY <1>4, <1>5, <1>6, <2>1
<1> QED BY <1>3, <1>6, <1>7 DEF DrainInv

LEMMA NodesStep == DrainInv /\ [NodesNext]_nodesVars => DrainInv'
<1> SUFFICES ASSUME DrainInv, [NodesNext]_nodesVars PROVE DrainInv'
    OBVIOUS
<1>t. /\ placer \in [Placers -> PlacerRow]
      /\ node \in [CoreNodes -> NodeRow] /\ hosted \in [CoreNodes -> Nat]
      /\ faults \in 0..MaxFaults /\ drainedTo \in [CoreNodes -> Nat]
    BY NodesTypesP DEF DrainInv, NodesTypeOK
<1>d. \A n \in CoreNodes : drainedTo[n] \in Nat
    BY <1>t
<1>k. Known \subseteq CoreNodes
    BY DEF Known
\* Steps that change nothing but the caller's own row.
<1>s. ASSUME NEW p \in Placers, NEW row, Continues(p, row),
             faults' \in 0..MaxFaults, UNCHANGED <<node, hosted, drainedTo>>
      PROVE  DrainInv'
    BY <1>s, <1>t, KeepsDrain
<1>a. ASSUME NEW p \in Placers, AssignAsked(p) \/ Reconciles(p) PROVE DrainInv'
    <2>1. /\ [Unplaced EXCEPT !.pc = "choose"] \in PlacerRow
          /\ [Unplaced EXCEPT !.pc = "choose"].pc # "place"
          /\ [Unplaced EXCEPT !.pc = "list", !.todo = Known] \in PlacerRow
          /\ [Unplaced EXCEPT !.pc = "list", !.todo = Known].pc # "place"
        BY UnplacedRow, <1>k DEF PlacerRow, Doing
    <2> QED BY <1>a, <1>s, <1>t, <2>1 DEF AssignAsked, Reconciles, Continues
<1>b. ASSUME NEW p \in Placers, ChooseNode(p) PROVE DrainInv'
    <2>1. CASE Put(p, Unplaced)
        BY <1>b, <2>1, <1>s, <1>t, UnplacedRow DEF ChooseNode, Continues
    <2>2. ASSUME NEW n \in CoreNodes, Eligible(n),
                 Put(p, [placer[p] EXCEPT !.pc = "place", !.to = n])
          PROVE  DrainInv'
        <3>1. [placer[p] EXCEPT !.pc = "place", !.to = n] \in PlacerRow
            BY <1>t DEF PlacerRow, Doing
        <3>2. placer' \in [Placers -> PlacerRow]
            BY <2>2, <3>1, <1>t DEF Put
        <3>3. UNCHANGED <<node, hosted, faults, drainedTo>>
            BY <1>b DEF ChooseNode
        <3>4. NodesTypeOK'
            BY <3>2, <3>3 DEF DrainInv, NodesTypeOK, PlacerRow
        <3>5. ASSUME NEW m \in CoreNodes, node[m].drain
              PROVE  Placing(m)' = Placing(m) \/ Placing(m)' = Placing(m) \ {p}
            <4>1. m # n
                BY <2>2, <3>5 DEF Eligible
            <4>2. /\ placer'[p].to = n
                  /\ \A q \in Placers \ {p} : placer'[q] = placer[q]
                BY <2>2, <1>t DEF Put, PlacerRow
            <4> QED BY <4>1, <4>2 DEF Placing
        <3>6. ASSUME NEW m \in CoreNodes, node[m].drain
              PROVE  Cardinality(Placing(m)') <= Cardinality(Placing(m))
                     /\ Cardinality(Placing(m)') \in Nat
            <4>1. Placing(m)' \subseteq Placing(m)
                BY <3>5, <3>6
            <4> QED BY <4>1, PlacersFinite, FS_Subset, FS_CardinalityType
        <3>7. P \in Nat /\ P' = P
            BY PlacersFinite DEF P
        <3>8. ASSUME NEW m \in CoreNodes
              PROVE  /\ drainedTo'[m] <= P
                     /\ node'[m].drain => drainedTo'[m] + Cardinality(Placing(m)') <= P
            <4>1. /\ drainedTo[m] <= P
                  /\ node[m].drain => drainedTo[m] + Cardinality(Placing(m)) <= P
                BY DEF DrainInv
            <4>2. Cardinality(Placing(m)) \in Nat
                BY PlacersFinite
            <4> QED BY <1>d, <3>3, <3>6, <3>7, <4>1, <4>2
        <3> QED BY <3>4, <3>7, <3>8 DEF DrainInv
    <2> QED BY <1>b, <2>1, <2>2 DEF ChooseNode
<1>c. ASSUME NEW p \in Placers, PlaceInstance(p) PROVE DrainInv'
    <2> DEFINE row == [placer[p] EXCEPT !.pc = "list", !.todo = Known]
    <2>0. PICK n \in CoreNodes : n = placer[p].to
        BY <1>t DEF PlacerRow
    <2>1. row \in PlacerRow /\ row.pc = "list"
        BY <1>t, <1>k DEF PlacerRow, Doing
    <2>2. placer' = [placer EXCEPT ![p] = row]
        BY <1>c DEF PlaceInstance, Put
    <2>3. placer' \in [Placers -> PlacerRow]
        <3> HIDE DEF row
        <3> QED BY <2>1, <2>2, <1>t
    <2>4. hosted' \in [CoreNodes -> Nat]
        <3>0. \A m \in CoreNodes : hosted[m] \in Nat
            BY <1>t
        <3>1. CASE hosted' = [hosted EXCEPT ![n] = @ + 1]
            BY <1>t, <3>0, <3>1
        <3>2. ASSUME NEW m \in CoreNodes, hosted[m] > 0,
                     hosted' = [[hosted EXCEPT ![m] = @ - 1] EXCEPT ![n] = @ + 1]
              PROVE  hosted' \in [CoreNodes -> Nat]
            <4>1. [hosted EXCEPT ![m] = @ - 1] \in [CoreNodes -> Nat]
                BY <1>t, <3>0, <3>2
            <4> QED BY <3>2, <4>1
        <3> QED BY <1>c, <2>0, <3>1, <3>2 DEF PlaceInstance
    <2>5. /\ UNCHANGED <<node, faults>>
          /\ drainedTo' = [drainedTo EXCEPT ![n] =
                IF node[n].drain /\ @ <= P THEN @ + 1 ELSE @]
        BY <1>c, <2>0 DEF PlaceInstance, P
    <2>6. drainedTo' \in [CoreNodes -> Nat]
        BY <2>5, <1>t, <1>d
    <2>7. NodesTypeOK'
        BY <2>3, <2>4, <2>5, <2>6, <1>t DEF NodesTypeOK, PlacerRow
    <2>8. p \in Placing(n)
        BY <1>c, <2>0 DEF PlaceInstance, Placing
    <2>9. /\ Placing(n)' = Placing(n) \ {p}
          /\ \A m \in CoreNodes \ {n} : Placing(m)' = Placing(m)
        <3>1. placer'[p].pc = "list" /\ \A q \in Placers \ {p} : placer'[q] = placer[q]
            <4> HIDE DEF row
            <4> QED BY <2>1, <2>2, <1>t
        <3>2. placer[p].pc = "place"
            BY <1>c DEF PlaceInstance
        <3> QED BY <2>0, <3>1, <3>2 DEF Placing
    <2>10. /\ Cardinality(Placing(n)) \in Nat /\ Cardinality(Placing(n)) >= 1
           /\ Cardinality(Placing(n)') = Cardinality(Placing(n)) - 1
        <3>1. Cardinality(Placing(n) \ {p}) = Cardinality(Placing(n)) - 1
              /\ Cardinality(Placing(n) \ {p}) \in Nat
            BY <2>8, PlacersFinite, FS_RemoveElement, FS_CardinalityType
        <3> QED BY <3>1, <2>9, PlacersFinite
    <2>11. P \in Nat /\ P' = P
        BY PlacersFinite DEF P
    <2>12. ASSUME NEW m \in CoreNodes
           PROVE  /\ drainedTo'[m] <= P
                  /\ node'[m].drain => drainedTo'[m] + Cardinality(Placing(m)') <= P
        <3>1. /\ drainedTo[m] <= P /\ drainedTo[m] \in Nat
              /\ node[m].drain => drainedTo[m] + Cardinality(Placing(m)) <= P
            BY <1>d DEF DrainInv
        <3>2. CASE m = n
            <4>1. drainedTo'[n] = IF node[n].drain /\ drainedTo[n] <= P THEN drainedTo[n] + 1
                                  ELSE drainedTo[n]
                BY <2>5, <1>t
            <4> QED BY <2>5, <2>10, <2>11, <3>1, <3>2, <4>1
        <3>3. CASE m # n
            BY <2>5, <2>9, <2>11, <3>1, <3>3, <1>t
        <3> QED BY <3>2, <3>3
    <2> QED BY <2>7, <2>11, <2>12 DEF DrainInv
<1>e. ASSUME NEW p \in Placers, CountNode(p) PROVE DrainInv'
    <2>1. CASE Put(p, Unplaced) /\ UNCHANGED faults
        BY <1>e, <2>1, <1>s, <1>t, UnplacedRow DEF CountNode, Continues
    <2>2. ASSUME NEW n \in CoreNodes, NEW k \in Nat, faults' \in 0..MaxFaults,
                 Put(p, [placer[p] EXCEPT !.pc = "count", !.to = n, !.total = k])
          PROVE  DrainInv'
        <3>1. /\ [placer[p] EXCEPT !.pc = "count", !.to = n, !.total = k] \in PlacerRow
              /\ [placer[p] EXCEPT !.pc = "count", !.to = n, !.total = k].pc # "place"
            BY <1>t DEF PlacerRow, Doing
        <3> QED BY <1>e, <1>s, <2>2, <3>1 DEF CountNode, Continues
    <2>3. placer[p].todo \subseteq CoreNodes
        BY <1>t DEF PlacerRow
    <2>4. \A n \in CoreNodes : hosted[n] \in Nat
        BY <1>t
    <2>5. faults < MaxFaults => faults + 1 \in 0..MaxFaults
        BY <1>t, NodesAssumption
    <2> QED BY <1>e, <1>t, <2>1, <2>2, <2>3, <2>4, <2>5 DEF CountNode
<1>f. ASSUME NEW p \in Placers, WriteCount(p) PROVE DrainInv'
    <2> DEFINE row == [placer[p] EXCEPT !.pc = "list", !.todo = @ \ {placer[p].to}]
    <2>1. row \in PlacerRow /\ row.pc # "place" /\ placer[p].total \in Nat
        BY <1>t DEF PlacerRow, Doing
    <2>2. Continues(p, row)
        BY <1>f, <2>1 DEF WriteCount, Continues
    <2>3. /\ node' \in [CoreNodes -> NodeRow]
          /\ \A n \in CoreNodes : node'[n].drain = node[n].drain
        BY <1>f, <1>t, <2>1 DEF WriteCount, NodeRow
    <2> HIDE DEF row
    <2> QED BY <1>f, <1>t, <2>2, <2>3, KeepsDrain DEF WriteCount
<1>g. ASSUME NEW p \in Placers, HeartbeatLooks(p) PROVE DrainInv'
    <2>1. ASSUME NEW n \in CoreNodes
          PROVE  /\ [Unplaced EXCEPT !.pc = "beat", !.to = n, !.exists = n \in Known] \in PlacerRow
                 /\ [Unplaced EXCEPT !.pc = "beat", !.to = n, !.exists = n \in Known].pc # "place"
        <3>1. (n \in Known) \in BOOLEAN
            OBVIOUS
        <3> QED BY <3>1, UnplacedRow, BeatRows, Zenon
    <2>2. /\ [placer[p] EXCEPT !.pc = "beat", !.to = Local, !.exists = Local \in Known,
                               !.total = 1] \in PlacerRow
          /\ [placer[p] EXCEPT !.pc = "beat", !.to = Local, !.exists = Local \in Known,
                               !.total = 1].pc # "place"
        <3>1. (Local \in Known) \in BOOLEAN /\ Local \in CoreNodes /\ placer[p] \in PlacerRow
            BY <1>t, NodesAssumption
        <3> QED BY <3>1, BeatRows, Zenon
    <2> QED BY <1>g, <1>s, <1>t, <2>1, <2>2 DEF HeartbeatLooks, Continues
<1>h. ASSUME NEW p \in Placers, HeartbeatWrites(p) PROVE DrainInv'
    <2>1. PICK row \in {Unplaced, [placer[p] EXCEPT !.pc = "choose", !.total = 0]} : Put(p, row)
        BY <1>h DEF HeartbeatWrites
    <2>2. row \in PlacerRow /\ row.pc # "place"
        <3>1. /\ [placer[p] EXCEPT !.pc = "choose", !.total = 0] \in PlacerRow
              /\ [placer[p] EXCEPT !.pc = "choose", !.total = 0].pc = "choose"
            BY <1>t DEF PlacerRow, Doing
        <3> QED BY <2>1, <3>1, UnplacedRow
    <2>3. /\ node' \in [CoreNodes -> NodeRow]
          /\ \A n \in CoreNodes : node'[n].drain = node[n].drain
        <3>1. CASE UNCHANGED node
            BY <3>1, <1>t
        <3>2. ASSUME NEW s \in {"ACTIVE", "DEGRADED"},
                     node' = [node EXCEPT ![placer[p].to].status = s]
              PROVE  /\ node' \in [CoreNodes -> NodeRow]
                     /\ \A n \in CoreNodes : node'[n].drain = node[n].drain
            BY <3>2, <1>t DEF NodeRow, PlacerRow
        <3> QED BY <1>h, <3>1, <3>2 DEF HeartbeatWrites
    <2> QED BY <1>h, <1>t, <2>1, <2>2, <2>3, KeepsDrain DEF HeartbeatWrites, Continues
<1>i. ASSUME NEW n \in CoreNodes, SetDrain(n) PROVE DrainInv'
    <2>1. PICK on \in BOOLEAN :
            /\ node' = [node EXCEPT ![n].drain = on,
                                    ![n].status = IF on THEN "DRAINING" ELSE "ACTIVE"]
            /\ drainedTo' = [drainedTo EXCEPT ![n] = IF on /\ node[n].drain THEN @ ELSE 0]
        BY <1>i DEF SetDrain
    <2>2. UNCHANGED <<hosted, placer, faults>>
        BY <1>i DEF SetDrain
    <2>3. node' \in [CoreNodes -> NodeRow] /\ drainedTo' \in [CoreNodes -> Nat]
        BY <2>1, <1>t, <1>d DEF NodeRow
    <2>4. NodesTypeOK'
        BY <2>2, <2>3, <1>t DEF NodesTypeOK, PlacerRow
    <2>5. P \in Nat /\ P' = P
        BY PlacersFinite DEF P
    <2>6. ASSUME NEW m \in CoreNodes
          PROVE  /\ drainedTo'[m] <= P
                 /\ node'[m].drain => drainedTo'[m] + Cardinality(Placing(m)') <= P
        <3>1. /\ drainedTo[m] <= P /\ drainedTo[m] \in Nat
              /\ node[m].drain => drainedTo[m] + Cardinality(Placing(m)) <= P
            BY <1>d DEF DrainInv
        <3>2. Placing(m)' = Placing(m) /\ Cardinality(Placing(m)) \in Nat
              /\ Cardinality(Placing(m)) <= P
            BY <2>2, PlacersFinite DEF Placing
        <3>3. /\ m # n => drainedTo'[m] = drainedTo[m] /\ node'[m] = node[m]
              /\ m = n => drainedTo'[m] = IF on /\ node[n].drain THEN drainedTo[m] ELSE 0
              /\ m = n => node'[m].drain = on
            BY <2>1, <1>t DEF NodeRow
        <3> QED BY <2>5, <3>1, <3>2, <3>3
    <2> QED BY <2>4, <2>5, <2>6 DEF DrainInv
<1>j. ASSUME NEW n \in CoreNodes, RemoveInstance(n) PROVE DrainInv'
    <2>1. hosted' \in [CoreNodes -> Nat] /\ UNCHANGED <<node, placer, faults, drainedTo>>
        BY <1>j, <1>t DEF RemoveInstance
    <2>2. NodesTypeOK'
        BY <2>1, <1>t DEF NodesTypeOK, PlacerRow
    <2>3. \A m : Placing(m)' = Placing(m)
        BY <2>1 DEF Placing
    <2> QED BY <2>1, <2>2, <2>3 DEF DrainInv, P
<1>l. CASE UNCHANGED nodesVars
    BY <1>l DEF nodesVars, DrainInv, NodesTypeOK, NodeRow, Placing, P
<1> QED BY <1>a, <1>b, <1>c, <1>e, <1>f, <1>g, <1>h, <1>i, <1>j, <1>l DEF NodesNext

\* A node that is set to drain takes on no more instances than callers had
\* chosen it by then, although heartbeats make its status ACTIVE again.
THEOREM DrainsHold == NodesSpec => []DrainHolds
<1>1. NodesInit => DrainInv
    <2> SUFFICES ASSUME NodesInit PROVE DrainInv
        OBVIOUS
    <2>1. node \in [CoreNodes -> NodeRow] /\ hosted \in [CoreNodes -> Nat]
          /\ drainedTo \in [CoreNodes -> Nat] /\ faults \in 0..MaxFaults
        BY NodesAssumption DEF NodesInit, NodeRow
    <2>2. placer \in [Placers -> PlacerRow]
        BY UnplacedRow DEF NodesInit
    <2>3. \A n \in CoreNodes : drainedTo[n] = 0 /\ ~node[n].drain
        BY DEF NodesInit
    <2> QED BY <2>1, <2>2, <2>3, PlacersFinite DEF DrainInv, NodesTypeOK, PlacerRow
<1>2. DrainInv => DrainHolds
    BY DEF DrainInv, DrainHolds
<1> QED BY <1>1, <1>2, NodesStep, PTL DEF NodesSpec

-----------------------------------------------------------------------------
(* Traffic control: how many messages one window of a bucket lets through.  *)
(* A caller that found the old window expired starts the new one again, and *)
(* its count: m callers that do so one after the other let through twice as *)
(* many messages as half of Twice(l, m), for each finds one caller more     *)
(* about to count.                                                          *)

Twice(l, m) == m * (2 * l + m - 1)

Opening(b) == {s \in Senders : InPhase(s, b, "insert")}
Starting(b) == {s \in Senders : InPhase(s, b, "insert") \/ InPhase(s, b, "open")}

\* c: count of the row; p: passes; k, i, o: callers that count, insert, start.
Fresh(l, c, p, k, o) ==
    /\ o <= N - 1
    /\ c + k + o <= l + N - 1
    /\ 2 * p <= 2 * c + Twice(l, N - 1 - o)
Past(l, p, k, i) == 2 * (p + k + i) <= Twice(l, N)

LEMMA TwiceGrows ==
    ASSUME NEW l \in Nat \ {0}, NEW m \in Nat
    PROVE  /\ Twice(l, m) \in Nat
           /\ Twice(l, m + 1) = Twice(l, m) + 2 * l + 2 * m
           /\ 2 * m <= Twice(l, m)
           /\ \A n \in Nat : n <= m => Twice(l, n) <= Twice(l, m)
  <1>1. ASSUME NEW n \in Nat PROVE Twice(l, n) = n * (2 * l) + n * n - n /\ n * n \in Nat
    BY <1>1 DEF Twice
  <1>2. m * (2 * l) >= 2 * m /\ m * (2 * l) \in Nat
    <2>1. m * l >= m /\ m * l \in Nat
      BY Z3
    <2> QED BY <2>1
  <1>3. m * m >= m
    BY Z3
  <1>4. (m + 1) * (2 * l) = m * (2 * l) + 2 * l /\ (m + 1) * (m + 1) = m * m + 2 * m + 1
    BY Z3
  <1>5. ASSUME NEW n \in Nat, n <= m PROVE Twice(l, n) <= Twice(l, m)
    <2>1. PICK d \in Nat : m = n + d
      <3>1. m - n \in Nat /\ m = n + (m - n)
        BY <1>5
      <3> QED BY <3>1
    <2>2. m * (2 * l) = n * (2 * l) + d * (2 * l) /\ m * m = n * n + 2 * (n * d) + d * d
      BY <2>1, Z3
    <2>3. n * d \in Nat /\ d * d >= d /\ d * (2 * l) \in Nat
      BY Z3
    <2>4. d * d \in Nat /\ n * (2 * l) \in Nat
      BY Z3
    <2> QED BY <1>1, <2>1, <2>2, <2>3, <2>4
  <1>6. /\ Twice(l, m) = m * (2 * l) + m * m - m
        /\ Twice(l, m + 1) = (m + 1) * (2 * l) + (m + 1) * (m + 1) - (m + 1)
        /\ m * m \in Nat
    BY <1>1
  <1>7. Twice(l, m + 1) = Twice(l, m) + 2 * l + 2 * m
    BY <1>2, <1>4, <1>6
  <1>8. Twice(l, m) \in Nat /\ 2 * m <= Twice(l, m)
    BY <1>2, <1>3, <1>6
  <1> QED BY <1>5, <1>7, <1>8

LEMMA FreshIsPast ==
    ASSUME NEW l \in Nat \ {0}, NEW c \in Nat, NEW p \in Nat, NEW k \in Nat,
           NEW i \in Nat, NEW o \in Nat, i <= o, Fresh(l, c, p, k, o)
    PROVE  Past(l, p, k, i)
  <1>1. N - 1 \in Nat /\ N - 1 - o \in Nat /\ N - 1 - o <= N - 1 /\ N - 1 + 1 = N
    BY SendersFinite DEF Fresh
  <1>2. Twice(l, N - 1 - o) <= Twice(l, N - 1) /\ Twice(l, N - 1) \in Nat
        /\ Twice(l, N - 1 - o) \in Nat
    BY <1>1, TwiceGrows
  <1>3. Twice(l, N) = Twice(l, N - 1) + 2 * l + 2 * (N - 1)
    BY <1>1, TwiceGrows
  <1> QED BY <1>1, <1>2, <1>3 DEF Fresh, Past

LEMMA FreshStarts ==
    ASSUME NEW l \in Nat \ {0}, NEW k \in Nat, NEW o \in Nat, k + o <= N - 1
    PROVE  Fresh(l, 1, 1, k, o)
  <1>1. N - 1 - o \in Nat
    BY SendersFinite
  <1>2. Twice(l, N - 1 - o) \in Nat
    BY <1>1, TwiceGrows
  <1> QED BY <1>1, <1>2, SendersFinite DEF Fresh

\* One caller less that may start the window: it has started it, or passed.
LEMMA FreshAgain ==
    ASSUME NEW l \in Nat \ {0}, NEW c \in Nat, NEW p \in Nat, NEW k \in Nat,
           NEW o \in Nat, o >= 1, k + o <= N, Fresh(l, c, p, k, o)
    PROVE  Fresh(l, 1, p + 1, k, o - 1) /\ Fresh(l, c, p + 1, k, o - 1)
  <1> DEFINE m == N - 1 - o
  <1>1. m \in Nat /\ N - 1 - (o - 1) = m + 1 /\ N \in Nat
    BY SendersFinite DEF Fresh
  <1>2. Twice(l, m) \in Nat /\ Twice(l, m + 1) = Twice(l, m) + 2 * l + 2 * m
    BY <1>1, TwiceGrows
  <1>3. 2 * p <= 2 * c + Twice(l, m) /\ c <= l + m
    BY <1>1 DEF Fresh
  <1> HIDE DEF m
  <1>4. 2 * (p + 1) <= 2 + Twice(l, m + 1) /\ 2 * (p + 1) <= 2 * c + Twice(l, m + 1)
    BY <1>1, <1>2, <1>3
  <1> QED BY <1>1, <1>4 DEF Fresh

LEMMA FreshLess ==
    ASSUME NEW l \in Nat \ {0}, NEW c \in Nat, NEW p \in Nat, NEW k \in Nat, NEW o \in Nat,
           NEW k2 \in Nat, NEW o2 \in Nat, k2 <= k, o2 <= o, Fresh(l, c, p, k, o)
    PROVE  Fresh(l, c, p, k2, o2)
  <1>1. N - 1 - o \in Nat /\ N - 1 - o2 \in Nat /\ N - 1 - o <= N - 1 - o2 /\ N \in Nat
    BY SendersFinite DEF Fresh
  <1>2. Twice(l, N - 1 - o) <= Twice(l, N - 1 - o2)
        /\ Twice(l, N - 1 - o) \in Nat /\ Twice(l, N - 1 - o2) \in Nat
    BY <1>1, TwiceGrows
  <1> QED BY <1>1, <1>2 DEF Fresh

WindowTrue(b) ==
    /\ ~bucket[b].exists => bucket[b].reset = 0 /\ passes[b] = 0 /\ Counting(b) = {}
    /\ Expired(b) => Past(Limit[b], passes[b], Cardinality(Counting(b)),
                                                Cardinality(Opening(b)))
    /\ ~Expired(b) => Fresh(Limit[b], bucket[b].count, passes[b], Cardinality(Counting(b)),
                                                Cardinality(Starting(b)))
WindowInv == TrafficInv /\ \A b \in Buckets : WindowTrue(b)

LEMMA CallersFinite ==
    ASSUME NEW K \in SUBSET Senders, NEW O \in SUBSET Senders, NEW I \in SUBSET O,
           K \cap O = {}
    PROVE  /\ Cardinality(K) \in Nat /\ Cardinality(O) \in Nat /\ Cardinality(I) \in Nat
           /\ Cardinality(I) <= Cardinality(O) /\ Cardinality(I) <= N
           /\ Cardinality(K) + Cardinality(O) <= N
           /\ \A s \in Senders \ (K \cup O) : Cardinality(K) + Cardinality(O) <= N - 1
  <1>1. K \cup O \in SUBSET Senders /\ I \in SUBSET Senders
    OBVIOUS
  <1>2. IsFiniteSet(K) /\ IsFiniteSet(O)
    BY SendersFinite
  <1>3. Cardinality(K \cup O) = Cardinality(K) + Cardinality(O) - Cardinality(K \cap O)
    BY <1>2, FS_Union
  <1>4. Cardinality(K \cap O) = 0
    BY FS_EmptySet
  <1>5. /\ Cardinality(K) \in Nat /\ Cardinality(O) \in Nat /\ Cardinality(I) \in Nat
        /\ Cardinality(I) <= Cardinality(O) /\ Cardinality(I) <= N
        /\ Cardinality(K \cup O) <= N
        /\ \A s \in Senders \ (K \cup O) : Cardinality(K \cup O) <= N - 1
    BY <1>1, SendersFinite
  <1>6. Cardinality(K) + Cardinality(O) = Cardinality(K \cup O)
    BY <1>3, <1>4, <1>5
  <1>7. Cardinality(K) + Cardinality(O) <= N
    BY <1>5, <1>6
  <1>8. \A s \in Senders \ (K \cup O) : Cardinality(K) + Cardinality(O) <= N - 1
    BY <1>5, <1>6
  <1> QED BY <1>5, <1>7, <1>8

LEMMA Callers ==
    ASSUME NEW b
    PROVE  /\ Counting(b) \in SUBSET Senders /\ Starting(b) \in SUBSET Senders
           /\ Opening(b) \in SUBSET Starting(b) /\ Counting(b) \cap Starting(b) = {}
           /\ Counting(b)' \in SUBSET Senders /\ Starting(b)' \in SUBSET Senders
           /\ Opening(b)' \in SUBSET Starting(b)' /\ Counting(b)' \cap Starting(b)' = {}
  BY DEF Counting, Starting, Opening, InPhase

LEMMA PhaseSets ==
    ASSUME TrafficTypeOK, NEW s \in Senders, NEW b \in Buckets, NEW p \in Phase,
           SetPhase(s, b, p)
    PROVE  /\ \A c \in Buckets \ {b} : /\ Counting(c)' = Counting(c)
                                       /\ Starting(c)' = Starting(c)
                                       /\ Opening(c)' = Opening(c)
           /\ Counting(b)' \in SUBSET (Counting(b) \cup {s})
           /\ Starting(b)' \in SUBSET (Starting(b) \cup {s})
           /\ Opening(b)' \in SUBSET (Opening(b) \cup {s})
           /\ p # "count" => Counting(b)' = Counting(b) \ {s}
           /\ p \notin {"insert", "open"} => Starting(b)' = Starting(b) \ {s}
           /\ p # "insert" => Opening(b)' = Opening(b) \ {s}
  <1> DEFINE t == IF p \in {"insert", "blind", "open"} THEN now ELSE 0
  <1>1. check' = [check EXCEPT ![s].phase[b] = p, ![s].at[b] = t]
    BY DEF SetPhase
  <1>2. check \in [Senders -> CheckRow] /\ check[s] \in CheckRow
        /\ check[s].phase \in [Buckets -> Phase]
    BY DEF TrafficTypeOK, CheckRow
  <1> HIDE DEF t
  <1>3. /\ check'[s].pc = check[s].pc
        /\ check'[s].phase = [check[s].phase EXCEPT ![b] = p]
        /\ \A q \in Senders \ {s} : check'[q] = check[q]
    BY <1>1, <1>2 DEF CheckRow
  <1>4. /\ \A c \in Buckets \ {b} : check'[s].phase[c] = check[s].phase[c]
        /\ check'[s].phase[b] = p
    BY <1>2, <1>3
  <1>5. \A c \in Buckets \ {b} : Counting(c)' = Counting(c) /\ Starting(c)' = Starting(c)
                                   /\ Opening(c)' = Opening(c)
    BY <1>3, <1>4 DEF Counting, Starting, Opening, InPhase
  <1>6. ASSUME NEW x
        PROVE  /\ \A q \in Senders \ {s} : InPhase(q, b, x)' <=> InPhase(q, b, x)
               /\ InPhase(s, b, x)' => x = p
    BY <1>3, <1>4 DEF InPhase
  <1>7. /\ \A q \in Counting(b)' : q \in Counting(b) \/ (q = s /\ p = "count")
        /\ \A q \in Counting(b) \ {s} : q \in Counting(b)'
    BY <1>6 DEF Counting
  <1>8. /\ \A q \in Starting(b)' : q \in Starting(b) \/ (q = s /\ p \in {"insert", "open"})
        /\ \A q \in Starting(b) \ {s} : q \in Starting(b)'
        /\ s \in Starting(b)' => p \in {"insert", "open"}
    BY <1>6 DEF Starting
  <1>9. /\ \A q \in Opening(b)' : q \in Opening(b) \/ (q = s /\ p = "insert")
        /\ \A q \in Opening(b) \ {s} : q \in Opening(b)'
        /\ s \in Opening(b)' => p = "insert"
    BY <1>6 DEF Opening
  <1>10. s \in Counting(b)' => p = "count"
    BY <1>6 DEF Counting
  <1>11. /\ Counting(b)' \in SUBSET (Counting(b) \cup {s})
         /\ p # "count" => Counting(b)' = Counting(b) \ {s}
    BY <1>7, <1>10
  <1>12. /\ Starting(b)' \in SUBSET (Starting(b) \cup {s})
         /\ p \notin {"insert", "open"} => Starting(b)' = Starting(b) \ {s}
    BY <1>8
  <1>13. /\ Opening(b)' \in SUBSET (Opening(b) \cup {s})
         /\ p # "insert" => Opening(b)' = Opening(b) \ {s}
    BY <1>9
  <1> QED BY <1>5, <1>11, <1>12, <1>13

LEMMA TrafficNumbers ==
    ASSUME TrafficTypeOK, NEW b \in Buckets
    PROVE  /\ Limit[b] \in Nat \ {0} /\ now \in Nat /\ passes[b] \in Nat
           /\ bucket[b].count \in Nat /\ bucket[b].reset \in Nat
  BY TrafficAssumption DEF TrafficTypeOK, BucketRow, TrafficAssumption

\* Time goes on and callers give up; nobody passes.
LEMMA WindowStays ==
    ASSUME TrafficTypeOK, NEW b \in Buckets, WindowTrue(b), bucket'[b] = bucket[b],
           passes'[b] = passes[b], now' \in Nat, now <= now',
           Counting(b)' \in SUBSET Counting(b), Starting(b)' \in SUBSET Starting(b),
           Opening(b)' \in SUBSET Opening(b)
    PROVE  WindowTrue(b)'
  <1>1. PICK l \in Nat \ {0}, c \in Nat, p \in Nat :
          l = Limit[b] /\ c = bucket[b].count /\ p = passes[b]
    BY TrafficNumbers
  <1>2. PICK k \in Nat, o \in Nat, i \in Nat, k2 \in Nat, o2 \in Nat, i2 \in Nat :
          /\ k = Cardinality(Counting(b)) /\ k2 = Cardinality(Counting(b)')
          /\ o = Cardinality(Starting(b)) /\ o2 = Cardinality(Starting(b)')
          /\ i = Cardinality(Opening(b)) /\ i2 = Cardinality(Opening(b)')
          /\ k2 <= k /\ o2 <= o /\ i2 <= i /\ i <= o /\ i2 <= o2
    <2>1. /\ Counting(b) \in SUBSET Senders /\ Starting(b) \in SUBSET Senders
          /\ Opening(b) \in SUBSET Senders
      BY Callers
    <2>2. /\ Cardinality(Counting(b)') <= Cardinality(Counting(b))
          /\ Cardinality(Starting(b)') <= Cardinality(Starting(b))
          /\ Cardinality(Opening(b)') <= Cardinality(Opening(b))
      BY <2>1, SendersFinite
    <2>3. /\ Cardinality(Counting(b)) \in Nat /\ Cardinality(Starting(b)) \in Nat
          /\ Cardinality(Opening(b)) \in Nat
          /\ Cardinality(Opening(b)) <= Cardinality(Starting(b))
      BY Callers, CallersFinite
    <2>4. /\ Cardinality(Counting(b)') \in Nat /\ Cardinality(Starting(b)') \in Nat
          /\ Cardinality(Opening(b)') \in Nat
          /\ Cardinality(Opening(b)') <= Cardinality(Starting(b)')
      BY Callers, CallersFinite
    <2> QED BY <2>2, <2>3, <2>4
  <1>3. ~bucket'[b].exists => bucket'[b].reset = 0 /\ passes'[b] = 0 /\ Counting(b)' = {}
    BY DEF WindowTrue
  <1>4. Expired(b) => Expired(b)'
    BY TrafficNumbers DEF Expired
  <1>5. CASE Expired(b)
    <2>1. Past(l, p, k, i)
      BY <1>1, <1>2, <1>5 DEF WindowTrue
    <2>2. Twice(l, N) \in Nat
      BY TwiceGrows, SendersFinite
    <2>3. Past(l, p, k2, i2)
      BY <1>2, <2>1, <2>2 DEF Past
    <2> QED BY <1>1, <1>2, <1>3, <1>4, <1>5, <2>3 DEF WindowTrue
  <1>6. CASE ~Expired(b)
    <2>1. Fresh(l, c, p, k, o)
      BY <1>1, <1>2, <1>6 DEF WindowTrue
    <2>2. Fresh(l, c, p, k2, o2)
      BY <1>2, <2>1, FreshLess
    <2>3. Past(l, p, k2, i2)
      BY <1>2, <2>2, FreshIsPast
    <2> QED BY <1>1, <1>2, <1>3, <2>2, <2>3 DEF WindowTrue
  <1> QED BY <1>5, <1>6

\* After a step on bucket b, from the numbers of its row and of its callers.
LEMMA WindowIsFresh ==
    ASSUME TrafficTypeOK', NEW b \in Buckets, bucket'[b].exists,
           Fresh(Limit[b], bucket'[b].count, passes'[b], Cardinality(Counting(b)'),
                 Cardinality(Starting(b)'))
    PROVE  WindowTrue(b)'
  <1>1. PICK l \in Nat \ {0}, c \in Nat, p \in Nat :
          l = Limit[b] /\ c = bucket'[b].count /\ p = passes'[b]
    BY TrafficAssumption DEF TrafficTypeOK, BucketRow, TrafficAssumption
  <1>2. PICK k \in Nat, o \in Nat, i \in Nat :
          /\ k = Cardinality(Counting(b)') /\ o = Cardinality(Starting(b)')
          /\ i = Cardinality(Opening(b)') /\ i <= o
    BY Callers, CallersFinite
  <1>3. Past(l, p, k, i)
    BY <1>1, <1>2, FreshIsPast
  <1> QED BY <1>1, <1>2, <1>3 DEF WindowTrue

LEMMA WindowIsPast ==
    ASSUME NEW b \in Buckets, bucket'[b].exists, Expired(b)',
           Past(Limit[b], passes'[b], Cardinality(Counting(b)'), Cardinality(Opening(b)'))
    PROVE  WindowTrue(b)'
  BY DEF WindowTrue

\* One bucket after another.
LEMMA WindowElse ==
    ASSUME WindowInv, TrafficTypeOK', NEW s \in Senders, NEW b \in Buckets, NEW p \in Phase,
           SetPhase(s, b, p), now' = now,
           \A c \in Buckets \ {b} : bucket'[c] = bucket[c] /\ passes'[c] = passes[c],
           WindowTrue(b)'
    PROVE  \A c \in Buckets : WindowTrue(c)'
  <1>1. ASSUME NEW c \in Buckets \ {b} PROVE WindowTrue(c)'
    <2>1. TrafficTypeOK /\ WindowTrue(c) /\ now \in Nat
      BY DEF WindowInv, TrafficInv, TrafficTypeOK
    <2>2. /\ Counting(c)' = Counting(c) /\ Starting(c)' = Starting(c)
          /\ Opening(c)' = Opening(c)
      BY <2>1, PhaseSets
    <2> QED BY <2>1, <2>2, WindowStays
  <1> QED BY <1>1

\* Nobody passes and the rows stay.
LEMMA WindowsStay ==
    ASSUME WindowInv, bucket' = bucket, passes' = passes, now' \in Nat, now <= now',
           \A b \in Buckets : /\ Counting(b)' \in SUBSET Counting(b)
                              /\ Starting(b)' \in SUBSET Starting(b)
                              /\ Opening(b)' \in SUBSET Opening(b)
    PROVE  \A b \in Buckets : WindowTrue(b)'
  BY WindowStays DEF WindowInv, TrafficInv

LEMMA WindowRead ==
    ASSUME WindowInv, TrafficTypeOK', NEW s \in Senders, NEW b \in Buckets, ReadBucket(s, b)
    PROVE  \A c \in Buckets : WindowTrue(c)'
  <1>1. /\ TrafficTypeOK /\ WindowTrue(b) /\ UNCHANGED <<bucket, now, passes>>
        /\ check[s].pc = "consume" /\ check[s].phase[b] = "read"
    BY DEF WindowInv, TrafficInv, ReadBucket, InPhase
  <1>2. s \notin Counting(b) /\ s \notin Starting(b) /\ s \notin Opening(b)
    BY <1>1 DEF Counting, Starting, Opening, InPhase
  <1>3. PICK max \in 1..Limit[b] :
          SetPhase(s, b, CASE ~bucket[b].exists -> "insert"
                          [] bucket[b].exists /\ Expired(b) -> "open"
                          [] OTHER -> IF Full(b, max) THEN "blocked" ELSE "count")
    BY DEF ReadBucket
  <1>4. PICK l \in Nat \ {0}, k2 \in Nat, o2 \in Nat, i2 \in Nat :
          /\ l = Limit[b] /\ k2 = Cardinality(Counting(b)') /\ o2 = Cardinality(Starting(b)')
          /\ i2 = Cardinality(Opening(b)') /\ i2 <= o2 /\ k2 + o2 <= N /\ i2 <= N
    BY <1>1, Callers, CallersFinite, TrafficNumbers
  <1>5. CASE ~bucket[b].exists
    <2>1. SetPhase(s, b, "insert") /\ "insert" \in Phase
      BY <1>3, <1>5 DEF Phase
    <2>2. Counting(b)' = {} /\ passes'[b] = 0 /\ bucket'[b].reset = 0 /\ ~bucket'[b].exists
      BY <1>1, <1>2, <1>5, <2>1, PhaseSets DEF WindowTrue
    <2>3. k2 = 0 /\ Expired(b)'
      BY <1>1, <1>4, <2>2, FS_EmptySet DEF Expired, TrafficTypeOK
    <2>4. Past(l, 0, k2, i2)
      <3>1. 2 * N <= Twice(l, N) /\ Twice(l, N) \in Nat
        BY TwiceGrows, SendersFinite
      <3> QED BY <1>4, <2>3, <3>1, SendersFinite DEF Past
    <2>5. WindowTrue(b)'
      BY <1>4, <2>2, <2>3, <2>4 DEF WindowTrue
    <2> QED BY <1>1, <2>1, <2>5, WindowElse
  <1>6. CASE bucket[b].exists /\ Expired(b)
    <2>1. SetPhase(s, b, "open") /\ "open" \in Phase
      BY <1>3, <1>6 DEF Phase
    <2>2. Counting(b)' \in SUBSET Counting(b) /\ Opening(b)' \in SUBSET Opening(b)
      BY <1>1, <2>1, PhaseSets
    <2>3. k2 <= Cardinality(Counting(b)) /\ i2 <= Cardinality(Opening(b))
          /\ Cardinality(Counting(b)) \in Nat /\ Cardinality(Opening(b)) \in Nat
      <3>1. Counting(b) \in SUBSET Senders /\ Opening(b) \in SUBSET Senders
        BY Callers
      <3> QED BY <1>4, <2>2, <3>1, SendersFinite
    <2>4. Past(l, passes[b], k2, i2)
      <3>1. Past(l, passes[b], Cardinality(Counting(b)), Cardinality(Opening(b)))
        BY <1>1, <1>4, <1>6 DEF WindowTrue
      <3>2. Twice(l, N) \in Nat /\ passes[b] \in Nat
        BY <1>1, TwiceGrows, SendersFinite, TrafficNumbers
      <3> QED BY <2>3, <3>1, <3>2 DEF Past
    <2>5. Expired(b)' /\ bucket'[b].exists
      BY <1>1, <1>6 DEF Expired
    <2>6. WindowTrue(b)'
      BY <1>1, <1>4, <2>4, <2>5, WindowIsPast
    <2> QED BY <1>1, <2>1, <2>6, WindowElse
  <1>7. CASE bucket[b].exists /\ ~Expired(b) /\ Full(b, max)
    <2>1. SetPhase(s, b, "blocked") /\ "blocked" \in Phase
      BY <1>3, <1>7 DEF Phase
    <2>2. \A c \in Buckets : /\ Counting(c)' \in SUBSET Counting(c)
                             /\ Starting(c)' \in SUBSET Starting(c)
                             /\ Opening(c)' \in SUBSET Opening(c)
      BY <1>1, <2>1, PhaseSets
    <2> QED BY <1>1, <2>2, WindowsStay DEF TrafficTypeOK
  <1>8. CASE bucket[b].exists /\ ~Expired(b) /\ ~Full(b, max)
    <2>1. SetPhase(s, b, "count") /\ "count" \in Phase
      BY <1>3, <1>8 DEF Phase
    <2>2. Starting(b)' = Starting(b)
      <3>1. Starting(b)' = Starting(b) \ {s}
        BY <1>1, <2>1, PhaseSets
      <3> QED BY <1>2, <3>1
    <2>3. Fresh(l, bucket[b].count, passes[b], k2, o2)
      <3>1. Fresh(l, bucket[b].count, passes[b], Cardinality(Counting(b)), o2)
        BY <1>1, <1>4, <1>8, <2>2 DEF WindowTrue
      <3>2. bucket[b].count < l /\ bucket[b].count \in Nat
        BY <1>1, <1>4, <1>8, TrafficNumbers DEF Full
      <3> QED BY <1>4, <3>1, <3>2, SendersFinite DEF Fresh
    <2>4. WindowTrue(b)'
      BY <1>1, <1>4, <1>8, <2>3, WindowIsFresh
    <2> QED BY <1>1, <2>1, <2>4, WindowElse
  <1> QED BY <1>5, <1>6, <1>7, <1>8

\* The row is written by a caller that found none, or an old one.
LEMMA WindowStarts ==
    ASSUME WindowInv, TrafficTypeOK', NEW s \in Senders, NEW b \in Buckets,
           SetPhase(s, b, "passed"), now' = now,
           bucket' = [bucket EXCEPT ![b] = FreshRow(s, b)],
           \/ /\ passes' = [passes EXCEPT ![b] = 1]
              /\ s \notin Counting(b)
           \/ /\ passes' = [passes EXCEPT ![b] = @ + 1]
              /\ s \in Starting(b) /\ ~Expired(b)
    PROVE  \A c \in Buckets : WindowTrue(c)'
  <1>1. TrafficTypeOK /\ WindowTrue(b) /\ "passed" \in Phase
    BY DEF WindowInv, TrafficInv, Phase
  <1>2. /\ bucket'[b].exists /\ bucket'[b].count = 1
        /\ \A c \in Buckets \ {b} : bucket'[c] = bucket[c] /\ passes'[c] = passes[c]
    BY <1>1 DEF TrafficTypeOK, FreshRow
  <1>3. Counting(b)' = Counting(b) \ {s} /\ Starting(b)' = Starting(b) \ {s}
    BY <1>1, PhaseSets
  <1>4. PICK l \in Nat \ {0}, k \in Nat, o \in Nat, k2 \in Nat, o2 \in Nat :
          /\ l = Limit[b] /\ k = Cardinality(Counting(b)) /\ o = Cardinality(Starting(b))
          /\ k2 = Cardinality(Counting(b)') /\ o2 = Cardinality(Starting(b)') /\ k + o <= N
    BY <1>1, Callers, CallersFinite, TrafficNumbers
  <1>5. CASE passes' = [passes EXCEPT ![b] = 1] /\ s \notin Counting(b)
    <2>1. s \in Senders \ (Counting(b)' \cup Starting(b)')
      BY <1>3
    <2>2. k2 + o2 <= N - 1
      BY <1>4, <2>1, Callers, CallersFinite
    <2>3. Fresh(l, 1, 1, k2, o2) /\ passes'[b] = 1
      BY <1>1, <1>4, <1>5, <2>2, FreshStarts DEF TrafficTypeOK
    <2>4. WindowTrue(b)'
      BY <1>2, <1>4, <2>3, WindowIsFresh
    <2> QED BY <1>1, <1>2, <2>4, WindowElse
  <1>6. CASE passes' = [passes EXCEPT ![b] = @ + 1] /\ s \in Starting(b) /\ ~Expired(b)
    <2>1. s \notin Counting(b) /\ Counting(b)' = Counting(b)
      BY <1>3, <1>6, Callers
    <2>2. o2 = o - 1
      <3>1. Starting(b) \in SUBSET Senders
        BY Callers
      <3> QED BY <1>3, <1>4, <1>6, <3>1, SendersFinite
    <2>3. PICK c \in Nat, p \in Nat : c = bucket[b].count /\ p = passes[b]
      BY <1>1, TrafficNumbers
    <2>4. Fresh(l, c, p, k, o) /\ passes'[b] = p + 1
      BY <1>1, <1>4, <1>6, <2>3 DEF WindowTrue, TrafficTypeOK
    <2>5. o >= 1 /\ k2 = k
      BY <1>4, <2>1, <2>2
    <2>6. Fresh(l, 1, p + 1, k, o - 1)
      BY <1>4, <2>4, <2>5, FreshAgain
    <2>7. WindowTrue(b)'
      BY <1>2, <1>4, <2>2, <2>4, <2>5, <2>6, WindowIsFresh
    <2> QED BY <1>1, <1>2, <2>7, WindowElse
  <1> QED BY <1>5, <1>6

\* The INSERT fails: the row is there.
LEMMA WindowPassed ==
    ASSUME WindowInv, TrafficTypeOK', NEW s \in Senders, NEW b \in Buckets, s \in Opening(b),
           bucket[b].exists, SetPhase(s, b, "passed"), UNCHANGED <<bucket, now>>,
           passes' = [passes EXCEPT ![b] = @ + 1]
    PROVE  \A c \in Buckets : WindowTrue(c)'
  <1>1. TrafficTypeOK /\ WindowTrue(b) /\ "passed" \in Phase
    BY DEF WindowInv, TrafficInv, Phase
  <1>2. /\ Counting(b)' = Counting(b) \ {s} /\ Starting(b)' = Starting(b) \ {s}
        /\ Opening(b)' = Opening(b) \ {s}
    BY <1>1, PhaseSets
  <1>3. s \in Starting(b) /\ s \notin Counting(b) /\ Counting(b)' = Counting(b)
    BY <1>2, Callers
  <1>4. PICK l \in Nat \ {0}, k \in Nat, o \in Nat, i \in Nat, c \in Nat, p \in Nat :
          /\ l = Limit[b] /\ k = Cardinality(Counting(b)) /\ o = Cardinality(Starting(b))
          /\ i = Cardinality(Opening(b)) /\ k + o <= N
          /\ c = bucket[b].count /\ p = passes[b]
    BY <1>1, Callers, CallersFinite, TrafficNumbers
  <1>5. Cardinality(Starting(b)') = o - 1 /\ Cardinality(Opening(b)') = i - 1
    <2>1. Starting(b) \in SUBSET Senders /\ Opening(b) \in SUBSET Senders
      BY Callers
    <2> QED BY <1>2, <1>3, <1>4, <2>1, SendersFinite
  <1>6. o >= 1 /\ i >= 1
    <2>1. Cardinality(Starting(b)') \in Nat /\ Cardinality(Opening(b)') \in Nat
      BY Callers, CallersFinite
    <2> QED BY <1>4, <1>5, <2>1
  <1>7. /\ passes'[b] = p + 1 /\ \A d \in Buckets \ {b} : passes'[d] = passes[d]
        /\ Expired(b)' = Expired(b)
    BY <1>1, <1>4 DEF TrafficTypeOK, Expired
  <1>8. WindowTrue(b)'
    <2>1. CASE Expired(b)
      <3>1. Past(l, p, k, i)
        BY <1>1, <1>4, <2>1 DEF WindowTrue
      <3>2. Twice(l, N) \in Nat
        BY TwiceGrows, SendersFinite
      <3>3. Past(l, p + 1, k, i - 1)
        BY <1>4, <1>6, <3>1, <3>2 DEF Past
      <3> QED BY <1>3, <1>4, <1>5, <1>7, <2>1, <3>3, WindowIsPast
    <2>2. CASE ~Expired(b)
      <3>1. Fresh(l, c, p, k, o)
        BY <1>1, <1>4, <2>2 DEF WindowTrue
      <3>2. Fresh(l, c, p + 1, k, o - 1)
        BY <1>4, <1>6, <3>1, FreshAgain
      <3> QED BY <1>3, <1>4, <1>5, <1>7, <3>2, WindowIsFresh
    <2> QED BY <2>1, <2>2
  <1> QED BY <1>1, <1>7, <1>8, WindowElse

LEMMA WindowCounts ==
    ASSUME WindowInv, TrafficTypeOK', NEW s \in Senders, NEW b \in Buckets, CountBucket(s, b)
    PROVE  \A c \in Buckets : WindowTrue(c)'
  <1>1. /\ TrafficTypeOK /\ WindowTrue(b) /\ "passed" \in Phase
        /\ SetPhase(s, b, "passed") /\ now' = now /\ s \in Counting(b)
        /\ bucket' = [bucket EXCEPT ![b].count = @ + 1]
        /\ passes' = [passes EXCEPT ![b] = @ + 1]
    BY DEF WindowInv, TrafficInv, Phase, CountBucket, Counting
  <1>2. Counting(b)' = Counting(b) \ {s} /\ Starting(b)' = Starting(b) \ {s}
    BY <1>1, PhaseSets
  <1>3. s \notin Starting(b) /\ s \notin Opening(b) /\ Starting(b)' = Starting(b)
    BY <1>1, <1>2, Callers
  <1>4. Opening(b)' = Opening(b)
    BY <1>1, <1>3, PhaseSets
  <1>5. PICK l \in Nat \ {0}, k \in Nat, o \in Nat, i \in Nat, c \in Nat, p \in Nat :
          /\ l = Limit[b] /\ k = Cardinality(Counting(b)) /\ o = Cardinality(Starting(b))
          /\ i = Cardinality(Opening(b)) /\ c = bucket[b].count /\ p = passes[b]
    BY <1>1, Callers, CallersFinite, TrafficNumbers
  <1>6. Cardinality(Counting(b)') = k - 1 /\ k - 1 \in Nat
    <2>1. Counting(b) \in SUBSET Senders
      BY Callers
    <2>2. Cardinality(Counting(b)') \in Nat
      BY Callers, CallersFinite
    <2> QED BY <1>1, <1>2, <1>5, <2>1, <2>2, SendersFinite
  <1>7. /\ passes'[b] = p + 1 /\ bucket'[b].count = c + 1
        /\ bucket'[b].exists = bucket[b].exists /\ bucket'[b].reset = bucket[b].reset
        /\ \A d \in Buckets \ {b} : bucket'[d] = bucket[d] /\ passes'[d] = passes[d]
    BY <1>1, <1>5 DEF TrafficTypeOK, BucketRow
  <1>8. bucket[b].exists
    BY <1>1 DEF WindowTrue
  <1>9. WindowTrue(b)'
    <2>1. CASE Expired(b)
      <3>1. Past(l, p, k, i)
        BY <1>1, <1>5, <2>1 DEF WindowTrue
      <3>2. Twice(l, N) \in Nat
        BY TwiceGrows, SendersFinite
      <3>3. Past(l, p + 1, k - 1, i)
        BY <1>5, <1>6, <3>1, <3>2 DEF Past
      <3>4. Expired(b)'
        BY <1>1, <1>7, <2>1 DEF Expired
      <3> QED BY <1>4, <1>5, <1>6, <1>7, <1>8, <3>3, <3>4, WindowIsPast
    <2>2. CASE ~Expired(b)
      <3>1. Fresh(l, c, p, k, o)
        BY <1>1, <1>5, <2>2 DEF WindowTrue
      <3>2. N - 1 - o \in Nat
        BY <3>1, SendersFinite DEF Fresh
      <3>3. Twice(l, N - 1 - o) \in Nat
        BY <3>2, TwiceGrows
      <3>4. Fresh(l, c + 1, p + 1, k - 1, o)
        BY <1>5, <1>6, <3>1, <3>3, SendersFinite DEF Fresh
      <3> QED BY <1>3, <1>5, <1>6, <1>7, <1>8, <3>4, WindowIsFresh
    <2> QED BY <2>1, <2>2
  <1> QED BY <1>1, <1>7, <1>9, WindowElse

LEMMA WindowStep == WindowInv /\ [TrafficNext]_trafficVars => WindowInv'
  <1> SUFFICES ASSUME WindowInv, [TrafficNext]_trafficVars PROVE WindowInv'
    OBVIOUS
  <1>1. TrafficInv' /\ TrafficTypeOK' /\ TrafficTypeOK /\ check \in [Senders -> CheckRow]
        /\ now \in Nat
    BY TrafficStep DEF WindowInv, TrafficInv, TrafficTypeOK
  <1>u. ASSUME NEW s \in Senders, NEW b \in Uses[s] PROVE b \in Buckets
    BY <1>u, TrafficAssumption DEF TrafficAssumption
  <1> SUFFICES \A b \in Buckets : WindowTrue(b)'
    BY <1>1 DEF WindowInv
  <1>2. CASE UNCHANGED trafficVars
    <2>1. UNCHANGED <<bucket, passes, now, check>>
      BY <1>2 DEF trafficVars
    <2>2. \A b \in Buckets : /\ Counting(b)' = Counting(b)
                             /\ Starting(b)' = Starting(b)
                             /\ Opening(b)' = Opening(b)
      BY <2>1 DEF Counting, Starting, Opening, InPhase
    <2> QED BY <1>1, <2>1, <2>2, WindowsStay
  <1>3. CASE Tick
    <2>1. UNCHANGED <<bucket, passes, check>> /\ now' = now + 1
      BY <1>3 DEF Tick
    <2>2. \A b \in Buckets : /\ Counting(b)' = Counting(b)
                             /\ Starting(b)' = Starting(b)
                             /\ Opening(b)' = Opening(b)
      BY <2>1 DEF Counting, Starting, Opening, InPhase
    <2> QED BY <1>1, <2>1, <2>2, WindowsStay
  <1>4. ASSUME NEW s \in Senders, Admitted(s) \/ Decide(s) \/ Wake(s) \/ Leave(s)
        PROVE  \A b \in Buckets : WindowTrue(b)'
    <2>1. UNCHANGED <<bucket, passes, now>> /\ \A q \in Senders \ {s} : check'[q] = check[q]
      BY <1>1, <1>4 DEF Admitted, Decide, Wake, Leave, Continue
    <2>2. \A b \in Buckets, x \in {"insert", "open", "count"} : ~InPhase(s, b, x)'
      <3>1. CASE Admitted(s)
        <4> DEFINE phases == [b \in Buckets |-> IF b \in Uses[s] THEN "read" ELSE "passed"]
        <4>1. check'[s].phase = phases
          BY <1>1, <3>1 DEF Admitted
        <4> QED BY <4>1 DEF InPhase
      <3>2. CASE Decide(s) \/ Wake(s) \/ Leave(s)
        <4>1. check'[s].pc \in {"send", "sleep", "idle"}
          <5>1. check[s] \in CheckRow
            BY <1>1
          <5> QED BY <1>1, <3>2, <5>1 DEF Decide, Wake, Leave, Continue, IdleCheck, CheckRow
        <4> QED BY <4>1 DEF InPhase
      <3> QED BY <1>4, <3>1, <3>2
    <2>3. \A b \in Buckets : /\ Counting(b)' \in SUBSET Counting(b)
                             /\ Starting(b)' \in SUBSET Starting(b)
                             /\ Opening(b)' \in SUBSET Opening(b)
      BY <2>1, <2>2 DEF Counting, Starting, Opening, InPhase
    <2> QED BY <1>1, <2>1, <2>3, WindowsStay
  <1>5. ASSUME NEW s \in Senders, NEW b \in Uses[s], ReadBucket(s, b)
        PROVE  \A c \in Buckets : WindowTrue(c)'
    BY <1>1, <1>5, <1>u, WindowRead
  <1>6. ASSUME NEW s \in Senders, NEW b \in Uses[s], ReadFails(s, b) \/ WriteFails(s, b)
        PROVE  \A c \in Buckets : WindowTrue(c)'
    <2>1. b \in Buckets /\ UNCHANGED <<bucket, now, passes>>
      BY <1>6, <1>u DEF ReadFails, WriteFails
    <2>2. PICK p \in {"blind", "passed"} : SetPhase(s, b, p)
      BY <1>6 DEF ReadFails, WriteFails
    <2>3. p \in Phase /\ p \notin {"insert", "open", "count"}
      BY DEF Phase
    <2>4. \A c \in Buckets : /\ Counting(c)' \in SUBSET Counting(c)
                             /\ Starting(c)' \in SUBSET Starting(c)
                             /\ Opening(c)' \in SUBSET Opening(c)
      BY <1>1, <2>1, <2>2, <2>3, PhaseSets
    <2> QED BY <1>1, <2>1, <2>4, WindowsStay
  <1>7. ASSUME NEW s \in Senders, NEW b \in Uses[s], InsertBucket(s, b)
        PROVE  \A c \in Buckets : WindowTrue(c)'
    <2>1. /\ b \in Buckets /\ SetPhase(s, b, "passed") /\ now' = now
          /\ InPhase(s, b, "insert") \/ InPhase(s, b, "blind")
      BY <1>7, <1>u DEF InsertBucket
    <2>2. CASE ~bucket[b].exists
      <3>1. bucket' = [bucket EXCEPT ![b] = FreshRow(s, b)] /\ passes' = [passes EXCEPT ![b] = 1]
        BY <1>7, <2>2 DEF InsertBucket
      <3>2. s \notin Counting(b)
        BY <2>1 DEF Counting, InPhase
      <3> QED BY <1>1, <2>1, <3>1, <3>2, WindowStarts
    <2>3. CASE bucket[b].exists /\ InPhase(s, b, "insert")
      <3>1. bucket' = bucket /\ passes' = [passes EXCEPT ![b] = @ + 1] /\ s \in Opening(b)
        BY <1>7, <2>3 DEF InsertBucket, Opening
      <3> QED BY <1>1, <2>1, <2>3, <3>1, WindowPassed
    <2>4. CASE bucket[b].exists /\ ~InPhase(s, b, "insert")
      <3>1. bucket' = bucket /\ passes' = passes
        BY <1>1, <1>7, <2>4 DEF InsertBucket, TrafficTypeOK
      <3>2. "passed" \in Phase
        BY DEF Phase
      <3>3. \A c \in Buckets : /\ Counting(c)' \in SUBSET Counting(c)
                               /\ Starting(c)' \in SUBSET Starting(c)
                               /\ Opening(c)' \in SUBSET Opening(c)
        BY <1>1, <2>1, <3>2, PhaseSets
      <3> QED BY <1>1, <2>1, <3>1, <3>3, WindowsStay
    <2> QED BY <2>2, <2>3, <2>4
  <1>8. ASSUME NEW s \in Senders, NEW b \in Uses[s], OpenBucket(s, b)
        PROVE  \A c \in Buckets : WindowTrue(c)'
    <2>1. /\ b \in Buckets /\ SetPhase(s, b, "passed") /\ now' = now
          /\ InPhase(s, b, "open") /\ bucket' = [bucket EXCEPT ![b] = FreshRow(s, b)]
      BY <1>8, <1>u DEF OpenBucket
    <2>2. s \notin Counting(b) /\ s \in Starting(b)
      BY <2>1 DEF Counting, Starting, InPhase
    <2>3. \/ passes' = [passes EXCEPT ![b] = 1]
          \/ passes' = [passes EXCEPT ![b] = @ + 1] /\ ~Expired(b)
      BY <1>8 DEF OpenBucket
    <2> QED BY <1>1, <2>1, <2>2, <2>3, WindowStarts
  <1>9. ASSUME NEW s \in Senders, NEW b \in Uses[s], CountBucket(s, b)
        PROVE  \A c \in Buckets : WindowTrue(c)'
    BY <1>1, <1>9, <1>u, WindowCounts
  <1> QED BY <1>2, <1>3, <1>4, <1>5, <1>6, <1>7, <1>8, <1>9 DEF TrafficNext

\* One window of a bucket lets through no more messages than if each of the
\* concurrent callers had opened it once, and those left then overran the limit
\* together, whatever interleaves and fails.
THEOREM WindowsHold == TrafficSpec => []WindowOverrun
  <1>2. TrafficInit => WindowInv
    <2> SUFFICES ASSUME TrafficInit PROVE WindowInv
      OBVIOUS
    <2>1. TrafficInv /\ TrafficTypeOK
      BY TrafficFirst DEF TrafficInv
    <2>2. \A b \in Buckets : Counting(b) = {} /\ Opening(b) = {}
      BY DEF TrafficInit, IdleCheck, Counting, Opening, InPhase
    <2>3. ASSUME NEW b \in Buckets PROVE WindowTrue(b)
      <3>1. bucket[b].reset = 0 /\ passes[b] = 0 /\ Expired(b)
        BY DEF TrafficInit, Expired
      <3>2. Twice(Limit[b], N) \in Nat
        BY <2>1, TwiceGrows, SendersFinite, TrafficNumbers
      <3>3. Past(Limit[b], passes[b], Cardinality(Counting(b)), Cardinality(Opening(b)))
        <4>1. Cardinality(Counting(b)) = 0 /\ Cardinality(Opening(b)) = 0
          BY <2>2, FS_EmptySet
        <4>2. passes[b] = 0
          BY <3>1
        <4> QED BY <3>2, <4>1, <4>2 DEF Past
      <3> QED BY <2>2, <3>1, <3>3 DEF WindowTrue
    <2> QED BY <2>1, <2>3 DEF WindowInv
  <1>3. WindowInv => WindowOverrun
    <2> SUFFICES ASSUME WindowInv, NEW b \in Buckets
                 PROVE  passes[b] <= N * Limit[b] + (N * (N - 1)) \div 2
      BY DEF WindowOverrun
    <2>1. PICK l \in Nat \ {0}, p \in Nat, k \in Nat, i \in Nat, o \in Nat, c \in Nat :
            /\ l = Limit[b] /\ p = passes[b] /\ k = Cardinality(Counting(b))
            /\ i = Cardinality(Opening(b)) /\ o = Cardinality(Starting(b)) /\ i <= o
            /\ c = bucket[b].count
      BY Callers, CallersFinite, TrafficNumbers DEF WindowInv, TrafficInv
    <2>2. Past(l, p, k, i)
      <3>1. CASE Expired(b)
        BY <2>1, <3>1 DEF WindowInv, WindowTrue
      <3>2. CASE ~Expired(b)
        <4>1. Fresh(l, c, p, k, o)
          BY <2>1, <3>2 DEF WindowInv, WindowTrue
        <4> QED BY <2>1, <4>1, FreshIsPast
      <3> QED BY <3>1, <3>2
    <2>3. N \in Nat /\ Twice(l, N) = 2 * (N * l) + N * (N - 1)
      BY SendersFinite, Z3 DEF Twice
    <2>4. N * l \in Nat /\ N * (N - 1) \in Nat
      <3>1. N \in Nat \ {0}
        BY SendersFinite
      <3> QED BY <3>1, Z3
    <2>5. 2 * p <= 2 * (N * l) + N * (N - 1)
      BY <2>2, <2>3, <2>4 DEF Past
    <2> DEFINE x == N * l
               y == N * (N - 1)
    <2> HIDE DEF x, y
    <2>6. x \in Nat /\ y \in Nat /\ 2 * p <= 2 * x + y
      BY <2>4, <2>5 DEF x, y
    <2>7. p <= x + y \div 2
      BY <2>6
    <2> QED BY <2>1, <2>7 DEF x, y
  <1> QED BY <1>2, <1>3, WindowStep, PTL DEF TrafficSpec

-----------------------------------------------------------------------------
(* Integrations: what is about to be created counts as if it were there.     *)

\* Sizes of subsets of a finite set.
LEMMA Sizes ==
    ASSUME NEW S, IsFiniteSet(S)
    PROVE  /\ Cardinality(S) \in Nat
           /\ \A A \in SUBSET S : /\ Cardinality(A) \in Nat /\ Cardinality(A) <= Cardinality(S)
                                  /\ \A x \in A : Cardinality(A \ {x}) = Cardinality(A) - 1
                                  /\ \A x \in S \ A : Cardinality(A \cup {x}) = Cardinality(A) + 1
           /\ \A A, B \in SUBSET S : A \subseteq B => Cardinality(A) <= Cardinality(B)
           /\ \A A, B \in SUBSET S : A \cap B = {} =>
                Cardinality(A) + Cardinality(B) <= Cardinality(S)
<1>1. \A A \in SUBSET S : IsFiniteSet(A) /\ Cardinality(A) \in Nat /\ Cardinality(A) <= Cardinality(S)
  BY FS_Subset, FS_CardinalityType
<1>2. ASSUME NEW A \in SUBSET S
      PROVE  /\ \A x \in A : Cardinality(A \ {x}) = Cardinality(A) - 1
             /\ \A x \in S \ A : Cardinality(A \cup {x}) = Cardinality(A) + 1
  BY <1>1, FS_RemoveElement, FS_AddElement
<1>3. ASSUME NEW A \in SUBSET S, NEW B \in SUBSET S
      PROVE  /\ A \subseteq B => Cardinality(A) <= Cardinality(B)
             /\ A \cap B = {} => Cardinality(A) + Cardinality(B) <= Cardinality(S)
  <2>1. A \subseteq B => Cardinality(A) <= Cardinality(B) BY <1>1, FS_Subset
  <2>2. ASSUME A \cap B = {} PROVE Cardinality(A) + Cardinality(B) <= Cardinality(S)
    <3>1. Cardinality(A \cup B) = Cardinality(A) + Cardinality(B) - Cardinality(A \cap B)
      BY <1>1, FS_Union
    <3>2. Cardinality(A \cap B) = 0 BY <2>2, FS_EmptySet
    <3>3. Cardinality(A \cup B) <= Cardinality(S) BY <1>1
    <3> QED BY <1>1, <3>1, <3>2, <3>3
  <2> QED BY <2>1, <2>2
<1> QED BY <1>1, <1>2, <1>3, FS_CardinalityType

-----------------------------------------------------------------------------
SyncRow == [pc : SyncStep, kind : JobKind, contact : Contacts, person : Nat]
AboutToCreate(s, c) == {w \in SyncSlots : s[w].pc = "newContact" /\ s[w].contact = c}
PeopleInv ==
    /\ sync \in [SyncSlots -> SyncRow] /\ people \in [Contacts -> Nat]
    /\ \A c \in Contacts : people[c] + Cardinality(AboutToCreate(sync, c)) <= Cardinality(SyncSlots)

LEMMA SlotsFinite ==
    /\ IsFiniteSet(SyncSlots) /\ \A s, c : AboutToCreate(s, c) \in SUBSET SyncSlots
BY IntegrationsAssumption DEF AboutToCreate

LEMMA FreeIsRow == FreeSlot \in SyncRow /\ FreeSlot.pc = "free"
BY IntegrationsAssumption DEF FreeSlot, AtRest, SyncRow, SyncStep, JobKind

LEMMA TalkRow ==
    ASSUME NEW q \in SyncRow, NEW k \in Nat
    PROVE  [q EXCEPT !.pc = "talk", !.person = k] \in SyncRow
           /\ [q EXCEPT !.pc = "talk", !.person = k].pc = "talk"
<1>1. ASSUME NEW Steps, NEW K, NEW C, NEW l \in Steps,
             NEW r \in [pc : Steps, kind : K, contact : C, person : Nat]
      PROVE  [r EXCEPT !.pc = l, !.person = k] \in [pc : Steps, kind : K, contact : C, person : Nat]
             /\ [r EXCEPT !.pc = l, !.person = k].pc = l
  OBVIOUS
<1>2. "talk" \in SyncStep BY DEF SyncStep
<1> QED BY <1>1, <1>2 DEF SyncRow

\* A job that goes on creates a contact only where it found none.
LEMMA SlotMoves ==
    ASSUME PeopleInv, UNCHANGED people, NEW w \in SyncSlots, NEW r \in SyncRow,
           sync' = [sync EXCEPT ![w] = r], r.pc = "newContact" => people[r.contact] = 0
    PROVE  PeopleInv'
<1>1. PICK s : s = sync' OBVIOUS
<1>2. s \in [SyncSlots -> SyncRow] BY <1>1 DEF PeopleInv
<1>3. ASSUME NEW c \in Contacts
      PROVE  people[c] + Cardinality(AboutToCreate(s, c)) <= Cardinality(SyncSlots)
  <2>1. people[c] \in Nat /\ people[c] + Cardinality(AboutToCreate(sync, c)) <= Cardinality(SyncSlots)
    BY DEF PeopleInv
  <2>2. /\ Cardinality(AboutToCreate(s, c)) \in Nat /\ Cardinality(AboutToCreate(sync, c)) \in Nat
        /\ Cardinality(SyncSlots) \in Nat
        /\ Cardinality(AboutToCreate(s, c)) <= Cardinality(SyncSlots)
    BY SlotsFinite, Sizes
  <2>3. CASE r.pc = "newContact" /\ r.contact = c BY <2>2, <2>3
  <2>4. CASE ~(r.pc = "newContact" /\ r.contact = c)
    <3>1. AboutToCreate(s, c) \subseteq AboutToCreate(sync, c)
      BY <1>1, <2>4 DEF AboutToCreate, PeopleInv
    <3>2. Cardinality(AboutToCreate(s, c)) <= Cardinality(AboutToCreate(sync, c))
      BY <3>1, SlotsFinite, Sizes
    <3> QED BY <2>1, <2>2, <3>2
  <2> QED BY <2>3, <2>4
<1> QED BY <1>1, <1>2, <1>3 DEF PeopleInv

LEMMA ContactCreated ==
    ASSUME PeopleInv, NEW w \in SyncSlots, CreateContact(w) PROVE PeopleInv'
<1>1. PICK s : s = sync' OBVIOUS
<1>2. PICK d \in Contacts : d = sync[w].contact BY DEF PeopleInv, SyncRow
<1>3. people[d] \in Nat BY DEF PeopleInv
<1>4. PICK r \in SyncRow : s = [sync EXCEPT ![w] = r] /\ r.pc = "talk"
  <2>1. sync[w] \in SyncRow BY DEF PeopleInv
  <2>2. s = [sync EXCEPT ![w] = [sync[w] EXCEPT !.pc = "talk", !.person = people[d] + 1]]
    BY <1>1, <1>2 DEF CreateContact, PeopleInv
  <2>3. [sync[w] EXCEPT !.pc = "talk", !.person = people[d] + 1] \in SyncRow
        /\ [sync[w] EXCEPT !.pc = "talk", !.person = people[d] + 1].pc = "talk"
    <3>1. people[d] + 1 \in Nat BY <1>3
    <3> QED BY <2>1, <3>1, TalkRow
  <2> QED BY <2>2, <2>3
<1>5. s \in [SyncSlots -> SyncRow] BY <1>4 DEF PeopleInv
<1>6. people' = [people EXCEPT ![d] = @ + 1] /\ sync[w].pc = "newContact"
  BY <1>2 DEF CreateContact, SyncAt
<1>7. people' \in [Contacts -> Nat] BY <1>3, <1>6 DEF PeopleInv
<1>8. ASSUME NEW c \in Contacts
      PROVE  people'[c] + Cardinality(AboutToCreate(s, c)) <= Cardinality(SyncSlots)
  <2>1. people[c] \in Nat /\ people[c] + Cardinality(AboutToCreate(sync, c)) <= Cardinality(SyncSlots)
    BY DEF PeopleInv
  <2>2. /\ Cardinality(AboutToCreate(s, c)) \in Nat /\ Cardinality(AboutToCreate(sync, c)) \in Nat
        /\ Cardinality(SyncSlots) \in Nat
    BY SlotsFinite, Sizes
  <2>3. CASE c = d
    <3>1. people'[c] = people[c] + 1 BY <1>6, <2>3 DEF PeopleInv
    <3>2. w \in AboutToCreate(sync, c) BY <1>2, <1>6, <2>3 DEF AboutToCreate
    <3>3. AboutToCreate(s, c) = AboutToCreate(sync, c) \ {w}
      BY <1>4 DEF AboutToCreate, PeopleInv
    <3>4. Cardinality(AboutToCreate(s, c)) = Cardinality(AboutToCreate(sync, c)) - 1
      BY <3>2, <3>3, SlotsFinite, Sizes
    <3> QED BY <2>1, <2>2, <3>1, <3>4
  <2>4. CASE c # d
    <3>1. people'[c] = people[c] BY <1>6, <2>4 DEF PeopleInv
    <3>2. AboutToCreate(s, c) = AboutToCreate(sync, c)
      BY <1>2, <1>4, <2>4 DEF AboutToCreate, PeopleInv
    <3> QED BY <2>1, <3>1, <3>2
  <2> QED BY <2>3, <2>4
<1> QED BY <1>1, <1>5, <1>7, <1>8 DEF PeopleInv

LEMMA PeopleKept == ASSUME PeopleInv, UNCHANGED <<sync, people>> PROVE PeopleInv'
BY DEF PeopleInv

\* The worker's steps.
LEMMA SlotSteps ==
    ASSUME PeopleInv, NEW w \in SyncSlots,
           \/ TakeJob(w) \/ ReadConfig(w) \/ FindContact(w) \/ CreateContact(w)
           \/ LookForConversation(w) \/ CreateConversation(w) \/ PostMessage(w)
           \/ SyncEnds(w) \/ SyncFails(w) \/ SyncStalls(w)
    PROVE  PeopleInv'
<1>1. sync[w] \in SyncRow BY DEF PeopleInv
<1>2. CASE SyncEnds(w) \/ SyncFails(w) \/ SyncStalls(w)
  <2>1. sync' = [sync EXCEPT ![w] = FreeSlot] /\ UNCHANGED people
    BY <1>2 DEF SyncEnds, SyncFails, SyncStalls, remoteVars
  <2> QED BY <2>1, FreeIsRow, SlotMoves
<1>3. CASE TakeJob(w)
  <2>1. PICK k \in JobKind, c \in Contacts :
          sync' = [sync EXCEPT ![w] = [pc |-> "config", kind |-> k, contact |-> c, person |-> 0]]
    BY <1>3 DEF TakeJob
  <2>2. [pc |-> "config", kind |-> k, contact |-> c, person |-> 0] \in SyncRow
    BY DEF SyncRow, SyncStep
  <2>3. UNCHANGED people BY <1>3 DEF TakeJob, remoteVars
  <2> QED BY <2>1, <2>2, <2>3, SlotMoves
<1>4. ASSUME NEW l \in SyncStep, l # "newContact", SyncGoes(w, l), UNCHANGED people PROVE PeopleInv'
  <2>1. PICK r : r = [sync[w] EXCEPT !.pc = l] OBVIOUS
  <2>2. r \in SyncRow /\ r.pc = l BY <1>1, <2>1 DEF SyncRow
  <2>3. sync' = [sync EXCEPT ![w] = r] BY <1>4, <2>1 DEF SyncGoes, PeopleInv
  <2> QED BY <1>4, <2>2, <2>3, SlotMoves
<1>5. CASE ReadConfig(w)
  <2>1. UNCHANGED people BY <1>5 DEF ReadConfig, remoteVars
  <2>2. PICK r : r = IF enabled["chatwoot"] THEN [sync[w] EXCEPT !.pc = "contact"] ELSE FreeSlot
    OBVIOUS
  <2>3. r \in SyncRow /\ r.pc # "newContact" BY <1>1, <2>2, FreeIsRow DEF SyncRow, SyncStep
  <2>4. sync' = [sync EXCEPT ![w] = r] BY <1>5, <2>2 DEF ReadConfig, PeopleInv
  <2> QED BY <2>1, <2>3, <2>4, SlotMoves
<1>6. CASE FindContact(w)
  <2>1. UNCHANGED people BY <1>6 DEF FindContact, remoteVars
  <2>2. CASE people[sync[w].contact] = 0
    <3>1. PICK r : r = [sync[w] EXCEPT !.pc = "newContact"] OBVIOUS
    <3>2. r \in SyncRow /\ r.contact = sync[w].contact BY <1>1, <3>1 DEF SyncRow, SyncStep
    <3>3. sync' = [sync EXCEPT ![w] = r]
      BY <1>6, <2>2, <3>1 DEF FindContact, SyncGoes, PeopleInv
    <3> QED BY <2>1, <2>2, <3>2, <3>3, SlotMoves
  <2>3. CASE people[sync[w].contact] # 0
    <3>1. people[sync[w].contact] \in Nat BY <1>1 DEF PeopleInv, SyncRow
    <3>2. PICK k \in 1..people[sync[w].contact] :
            sync' = [sync EXCEPT ![w].pc = "talk", ![w].person = k]
      BY <1>6, <2>3 DEF FindContact
    <3>3. PICK r : r = [sync[w] EXCEPT !.pc = "talk", !.person = k] OBVIOUS
    <3>4. r \in SyncRow /\ r.pc = "talk"
      <4>1. k \in Nat BY <3>1
      <4> QED BY <1>1, <3>3, <4>1, TalkRow
    <3>5. sync' = [sync EXCEPT ![w] = r] BY <3>2, <3>3 DEF PeopleInv
    <3> QED BY <2>1, <3>4, <3>5, SlotMoves
  <2> QED BY <2>2, <2>3
<1>7. CASE LookForConversation(w)
  <2>1. UNCHANGED people BY <1>7 DEF LookForConversation, remoteVars
  <2>2. PICK l \in {"post", "newTalk"} : SyncGoes(w, l) BY <1>7 DEF LookForConversation
  <2> QED BY <2>1, <2>2, <1>4 DEF SyncStep
<1>8. CASE CreateConversation(w) \/ PostMessage(w)
  <2>1. UNCHANGED people /\ (SyncGoes(w, "post") \/ SyncGoes(w, "link"))
    BY <1>8 DEF CreateConversation, PostMessage, remoteVars
  <2> QED BY <2>1, <1>4 DEF SyncStep
<1> QED BY <1>2, <1>3, <1>5, <1>6, <1>7, <1>8, ContactCreated

-----------------------------------------------------------------------------
HandlerPc == {"idle", "lookup", "call", "store", "queue"}
HandlerRow == [pc : HandlerPc, contact : Contacts, had : Nat]
AboutToStart(x, c) == {h \in Handlers : x[h].pc = "call" /\ x[h].contact = c /\ x[h].had = 0}
AboutToStore(x, c) == {h \in Handlers : x[h].pc = "store" /\ x[h].contact = c}
BotKept(x, st, se, l, c) ==
    /\ st[c] + Cardinality(AboutToStart(x, c)) <= Cardinality(Handlers) + l
    /\ se[c] = 0 => st[c] <= Cardinality(AboutToStore(x, c)) + l
BotInv ==
    /\ handler \in [Handlers -> HandlerRow]
    /\ session \in [Contacts -> Nat] /\ started \in [Contacts -> Nat]
    /\ losses \in Nat
    /\ \A h \in Handlers : handler[h].pc = "store" => handler[h].had # 0
    /\ \A c \in Contacts : BotKept(handler, started, session, losses, c)

LEMMA HandlersFinite ==
    ASSUME NEW x, NEW c
    PROVE  /\ IsFiniteSet(Handlers) /\ Cardinality(Handlers) \in Nat
           /\ AboutToStart(x, c) \in SUBSET Handlers /\ AboutToStore(x, c) \in SUBSET Handlers
           /\ Cardinality(AboutToStart(x, c)) \in Nat /\ Cardinality(AboutToStore(x, c)) \in Nat
           /\ Cardinality(AboutToStart(x, c)) + Cardinality(AboutToStore(x, c)) <= Cardinality(Handlers)
<1>1. AboutToStart(x, c) \in SUBSET Handlers /\ AboutToStore(x, c) \in SUBSET Handlers
      /\ AboutToStart(x, c) \cap AboutToStore(x, c) = {}
  BY DEF AboutToStart, AboutToStore
<1>2. IsFiniteSet(Handlers) BY IntegrationsAssumption
<1> QED BY <1>1, <1>2, Sizes

\* What a handler's step must not do: forget that it started a chat, or be
\* about to start one where a session is stored.
LEMMA HandlerMoves ==
    ASSUME BotInv, UNCHANGED <<session, started>>, NEW l \in Nat, losses' = l, losses <= l,
           NEW h \in Handlers, NEW r \in HandlerRow, handler' = [handler EXCEPT ![h] = r],
           r.pc # "store",
           r.pc = "call" /\ r.had = 0 => session[r.contact] = 0,
           handler[h].pc = "store" => losses < l \/ session[handler[h].contact] # 0
    PROVE  BotInv'
<1>1. PICK x : x = handler' OBVIOUS
<1>2. x \in [Handlers -> HandlerRow] /\ x[h] = r /\ \A g \in Handlers : g # h => x[g] = handler[g]
  BY <1>1 DEF BotInv
<1>3. ASSUME NEW c \in Contacts PROVE BotKept(x, started, session, l, c)
  <2>1. /\ Cardinality(Handlers) \in Nat
        /\ Cardinality(AboutToStart(x, c)) \in Nat /\ Cardinality(AboutToStore(x, c)) \in Nat
        /\ Cardinality(AboutToStart(x, c)) + Cardinality(AboutToStore(x, c)) <= Cardinality(Handlers)
        /\ Cardinality(AboutToStart(handler, c)) \in Nat
        /\ Cardinality(AboutToStore(handler, c)) \in Nat
    BY HandlersFinite
  <2>2. BotKept(handler, started, session, losses, c) /\ started[c] \in Nat /\ losses \in Nat
    BY DEF BotInv
  <2>3. AboutToStore(x, c) = AboutToStore(handler, c) \ {h} BY <1>2 DEF AboutToStore
  <2>4. session[c] = 0 => started[c] <= Cardinality(AboutToStore(x, c)) + l
    <3> SUFFICES ASSUME session[c] = 0 PROVE started[c] <= Cardinality(AboutToStore(x, c)) + l
      OBVIOUS
    <3>1. started[c] <= Cardinality(AboutToStore(handler, c)) + losses BY <2>2 DEF BotKept
    <3>2. CASE h \in AboutToStore(handler, c)
      <4>1. Cardinality(AboutToStore(x, c)) = Cardinality(AboutToStore(handler, c)) - 1
        BY <2>3, <3>2, HandlersFinite, Sizes
      <4>2. losses < l BY <3>2 DEF AboutToStore
      <4> QED BY <2>1, <2>2, <3>1, <4>1, <4>2
    <3>3. CASE h \notin AboutToStore(handler, c)
      <4>1. AboutToStore(x, c) = AboutToStore(handler, c) BY <2>3, <3>3
      <4> QED BY <2>1, <2>2, <3>1, <4>1
    <3> QED BY <3>2, <3>3
  <2>5. started[c] + Cardinality(AboutToStart(x, c)) <= Cardinality(Handlers) + l
    <3>1. CASE session[c] = 0 BY <2>1, <2>2, <2>4, <3>1
    <3>2. CASE session[c] # 0
      <4>1. AboutToStart(x, c) \subseteq AboutToStart(handler, c)
        BY <1>2, <3>2 DEF AboutToStart
      <4>2. Cardinality(AboutToStart(x, c)) <= Cardinality(AboutToStart(handler, c))
        BY <4>1, HandlersFinite, Sizes
      <4>3. started[c] + Cardinality(AboutToStart(handler, c)) <= Cardinality(Handlers) + losses
        BY <2>2 DEF BotKept
      <4> QED BY <2>1, <2>2, <4>2, <4>3
    <3> QED BY <3>1, <3>2
  <2> QED BY <2>4, <2>5 DEF BotKept
<1> QED BY <1>1, <1>2, <1>3 DEF BotInv

LEMMA AtRestIsRow == AtRest \in HandlerRow /\ AtRest.pc = "idle"
BY IntegrationsAssumption DEF AtRest, HandlerRow, HandlerPc

\* A handler's row with another step and another session.
LEMMA BotRow ==
    ASSUME NEW q \in HandlerRow, NEW l \in HandlerPc, NEW k \in Nat,
           NEW e, e = [q EXCEPT !.pc = l, !.had = k]
    PROVE  e \in HandlerRow /\ e.pc = l /\ e.had = k /\ e.contact = q.contact
<1>1. ASSUME NEW Steps, NEW C, NEW m \in Steps, NEW r \in [pc : Steps, contact : C, had : Nat]
      PROVE  /\ [r EXCEPT !.pc = m, !.had = k] \in [pc : Steps, contact : C, had : Nat]
             /\ [r EXCEPT !.pc = m, !.had = k].pc = m
             /\ [r EXCEPT !.pc = m, !.had = k].had = k
             /\ [r EXCEPT !.pc = m, !.had = k].contact = r.contact
  OBVIOUS
<1> QED BY <1>1 DEF HandlerRow

\* The row of a new message.
LEMMA NewRow ==
    ASSUME NEW c \in Contacts, NEW l \in HandlerPc
    PROVE  /\ [AtRest EXCEPT !.pc = l, !.contact = c] \in HandlerRow
           /\ [AtRest EXCEPT !.pc = l, !.contact = c].pc = l
<1>1. ASSUME NEW Steps, NEW C, NEW m \in Steps, NEW d \in C, NEW r \in [pc : Steps, contact : C, had : Nat]
      PROVE  /\ [r EXCEPT !.pc = m, !.contact = d] \in [pc : Steps, contact : C, had : Nat]
             /\ [r EXCEPT !.pc = m, !.contact = d].pc = m
  OBVIOUS
<1>2. AtRest \in [pc : HandlerPc, contact : Contacts, had : Nat] BY AtRestIsRow DEF HandlerRow
<1> QED BY <1>1, <1>2 DEF HandlerRow

\* Going on to another step.
LEMMA HandlerGoesOn ==
    ASSUME BotInv, UNCHANGED <<session, started>>, NEW l \in Nat, losses' = l, losses <= l,
           NEW h \in Handlers, HandlerGoes(h, "queue"),
           handler[h].pc = "store" => losses < l
    PROVE  BotInv'
<1>1. PICK r : r = [handler[h] EXCEPT !.pc = "queue"] OBVIOUS
<1>2. handler[h] \in HandlerRow BY DEF BotInv
<1>3. r \in HandlerRow /\ r.pc = "queue" BY <1>1, <1>2 DEF HandlerRow, HandlerPc
<1>4. handler' = [handler EXCEPT ![h] = r] BY <1>1 DEF HandlerGoes, BotInv
<1> QED BY <1>3, <1>4, HandlerMoves

LEMMA Losing == ASSUME BotInv, Lost PROVE losses' \in Nat /\ losses < losses'
BY DEF BotInv, Lost

LEMMA DispatchKeeps == ASSUME BotInv, NEW h \in Handlers, MessageDispatched(h) PROVE BotInv'
<1>1. UNCHANGED <<session, started, losses>> /\ handler[h].pc = "idle" /\ losses \in Nat
  BY DEF MessageDispatched, HandlerAt, BotInv
<1>2. PICK c \in Contacts, l \in {"lookup", "queue"} :
        handler' = [handler EXCEPT ![h] = [AtRest EXCEPT !.pc = l, !.contact = c]]
  BY DEF MessageDispatched
<1>3. PICK r : r = [AtRest EXCEPT !.pc = l, !.contact = c] OBVIOUS
<1>4. r \in HandlerRow /\ r.pc = l
  <2>1. l \in HandlerPc BY DEF HandlerPc
  <2> QED BY <1>3, <2>1, NewRow
<1>5. handler' = [handler EXCEPT ![h] = r] BY <1>2, <1>3
<1>6. r.pc # "store" /\ r.pc # "call" BY <1>4
<1>7. losses' = losses /\ losses <= losses /\ UNCHANGED <<session, started>> BY <1>1
<1> QED BY <1>1, <1>4, <1>5, <1>6, <1>7, HandlerMoves

LEMMA LookKeeps == ASSUME BotInv, NEW h \in Handlers, LookSession(h) PROVE BotInv'
<1>1. UNCHANGED <<session, started, losses>> /\ handler[h].pc = "lookup" /\ losses \in Nat
  BY DEF LookSession, HandlerAt, BotInv
<1>2. handler[h] \in HandlerRow /\ session[handler[h].contact] \in Nat BY DEF BotInv, HandlerRow
<1>3. CASE enabled["typebot"]
  <2>1. PICK n : n = session[handler[h].contact] OBVIOUS
  <2>2. PICK r : r = [handler[h] EXCEPT !.pc = "call", !.had = n] OBVIOUS
  <2>3. r \in HandlerRow /\ r.pc = "call" /\ r.had = n /\ r.contact = handler[h].contact
    <3>1. PICK l \in HandlerPc : l = "call" BY DEF HandlerPc
    <3>2. PICK q \in HandlerRow : q = handler[h] BY <1>2
    <3>3. n \in Nat BY <1>2, <2>1
    <3>4. r = [q EXCEPT !.pc = l, !.had = n] BY <2>2, <3>1, <3>2
    <3>5. r \in HandlerRow /\ r.pc = l /\ r.had = n /\ r.contact = q.contact
      BY <3>3, <3>4, BotRow DEF HandlerRow
    <3> QED BY <3>1, <3>2, <3>5
  <2>4. handler' = [handler EXCEPT ![h] = r] BY <1>3, <2>1, <2>2 DEF LookSession, BotInv
  <2>5. r.pc # "store" /\ (r.pc = "call" /\ r.had = 0 => session[r.contact] = 0)
    BY <2>1, <2>3
  <2>6. losses' = losses /\ losses <= losses /\ handler[h].pc # "store" BY <1>1
  <2> QED BY <1>1, <2>3, <2>4, <2>5, <2>6, HandlerMoves
<1>4. CASE ~enabled["typebot"]
  <2>1. HandlerGoes(h, "queue") BY <1>4 DEF LookSession
  <2> QED BY <1>1, <2>1, HandlerGoesOn
<1> QED BY <1>3, <1>4

LEMMA QueueKeeps == ASSUME BotInv, NEW h \in Handlers, QueueMessage(h) PROVE BotInv'
<1>1. UNCHANGED <<session, started>> /\ handler[h].pc = "queue"
      /\ handler' = [handler EXCEPT ![h] = AtRest]
  BY DEF QueueMessage, HandlerAt
<1>2. losses' \in Nat /\ losses <= losses' BY Losing DEF QueueMessage, BotInv
<1>3. PICK l \in Nat : l = losses' BY <1>2
<1> QED BY <1>1, <1>2, <1>3, AtRestIsRow, HandlerMoves

LEMMA FailKeeps == ASSUME BotInv, NEW h \in Handlers, BotFails(h) PROVE BotInv'
<1>1. UNCHANGED <<session, started>> /\ HandlerGoes(h, "queue") BY DEF BotFails
<1>2. losses' \in Nat /\ losses < losses' /\ losses \in Nat BY Losing DEF BotFails, BotInv
<1>3. PICK l \in Nat : l = losses' BY <1>2
<1> QED BY <1>1, <1>2, <1>3, HandlerGoesOn

LEMMA CallKeeps == ASSUME BotInv, NEW h \in Handlers, CallBot(h) PROVE BotInv'
<1>1. UNCHANGED <<session, losses>> /\ handler[h].pc = "call" /\ handler[h] \in HandlerRow
  BY DEF CallBot, HandlerAt, BotInv
<1>2. PICK d \in Contacts : d = handler[h].contact BY <1>1 DEF HandlerRow
<1>3. PICK x : x = handler' OBVIOUS
<1>4. PICK st : st = started' OBVIOUS
<1>5. started[d] \in Nat /\ started \in [Contacts -> Nat] BY DEF BotInv
<1>6. CASE /\ handler[h].had = 0
           /\ started' = [started EXCEPT ![d] = @ + 1]
           /\ handler' = [handler EXCEPT ![h].pc = "store", ![h].had = started[d] + 1]
  <2>1. PICK r : r = [handler[h] EXCEPT !.pc = "store", !.had = started[d] + 1] OBVIOUS
  <2>2. r \in HandlerRow /\ r.pc = "store" /\ r.had = started[d] + 1 /\ r.contact = d
    <3>1. PICK l \in HandlerPc : l = "store" BY DEF HandlerPc
    <3>2. PICK q \in HandlerRow : q = handler[h] BY <1>1
    <3>3. PICK n \in Nat : n = started[d] + 1 BY <1>5
    <3>4. r = [q EXCEPT !.pc = l, !.had = n] BY <2>1, <3>1, <3>2, <3>3
    <3>5. r \in HandlerRow /\ r.pc = l /\ r.had = n /\ r.contact = q.contact
      BY <3>4, BotRow DEF HandlerRow
    <3> QED BY <1>2, <3>1, <3>2, <3>3, <3>5
  <2>3. x = [handler EXCEPT ![h] = r] BY <1>3, <1>6, <2>1 DEF BotInv
  <2>4. x \in [Handlers -> HandlerRow] /\ x[h] = r /\ \A g \in Handlers : g # h => x[g] = handler[g]
    BY <2>2, <2>3 DEF BotInv
  <2>5. st \in [Contacts -> Nat] /\ st[d] = started[d] + 1
        /\ \A c \in Contacts : c # d => st[c] = started[c]
    BY <1>4, <1>5, <1>6
  <2>6. ASSUME NEW c \in Contacts PROVE BotKept(x, st, session, losses, c)
    <3>1. /\ Cardinality(AboutToStart(x, c)) \in Nat /\ Cardinality(AboutToStore(x, c)) \in Nat
          /\ Cardinality(Handlers) \in Nat
          /\ Cardinality(AboutToStart(handler, c)) \in Nat
          /\ Cardinality(AboutToStore(handler, c)) \in Nat
      BY HandlersFinite
    <3>2. BotKept(handler, started, session, losses, c) /\ started[c] \in Nat /\ losses \in Nat
      BY DEF BotInv
    <3>3. CASE c = d
      <4>1. AboutToStart(x, c) = AboutToStart(handler, c) \ {h} /\ h \in AboutToStart(handler, c)
        BY <1>1, <1>2, <1>6, <2>2, <2>4, <3>3 DEF AboutToStart
      <4>2. AboutToStore(x, c) = AboutToStore(handler, c) \cup {h} /\ h \notin AboutToStore(handler, c)
        BY <1>1, <1>2, <2>2, <2>4, <3>3 DEF AboutToStore
      <4>3. Cardinality(AboutToStart(x, c)) = Cardinality(AboutToStart(handler, c)) - 1
        BY <4>1, HandlersFinite, Sizes
      <4>4. Cardinality(AboutToStore(x, c)) = Cardinality(AboutToStore(handler, c)) + 1
        BY <4>2, HandlersFinite, Sizes
      <4> QED BY <2>5, <3>1, <3>2, <3>3, <4>3, <4>4 DEF BotKept
    <3>4. CASE c # d
      <4>1. AboutToStart(x, c) = AboutToStart(handler, c)
        BY <1>2, <2>2, <2>4, <3>4 DEF AboutToStart
      <4>2. AboutToStore(x, c) = AboutToStore(handler, c)
        BY <1>2, <2>2, <2>4, <3>4 DEF AboutToStore
      <4> QED BY <2>5, <3>2, <3>4, <4>1, <4>2 DEF BotKept
    <3> QED BY <3>3, <3>4
  <2>7. \A g \in Handlers : x[g].pc = "store" => x[g].had # 0 BY <1>5, <2>2, <2>4 DEF BotInv
  <2> QED BY <1>1, <1>3, <1>4, <2>4, <2>5, <2>6, <2>7 DEF BotInv
<1>7. CASE handler[h].had # 0 /\ HandlerGoes(h, "store") /\ UNCHANGED started
  <2>1. PICK r : r = [handler[h] EXCEPT !.pc = "store"] OBVIOUS
  <2>2. r \in HandlerRow /\ r.pc = "store" /\ r.had = handler[h].had /\ r.contact = d
    BY <1>1, <1>2, <2>1 DEF HandlerRow, HandlerPc
  <2>3. x = [handler EXCEPT ![h] = r] BY <1>3, <1>7, <2>1 DEF HandlerGoes, BotInv
  <2>4. x \in [Handlers -> HandlerRow] /\ x[h] = r /\ \A g \in Handlers : g # h => x[g] = handler[g]
    BY <2>2, <2>3 DEF BotInv
  <2>5. ASSUME NEW c \in Contacts PROVE BotKept(x, started, session, losses, c)
    <3>1. /\ Cardinality(AboutToStart(x, c)) \in Nat /\ Cardinality(AboutToStore(x, c)) \in Nat
          /\ Cardinality(AboutToStore(handler, c)) \in Nat
      BY HandlersFinite
    <3>2. BotKept(handler, started, session, losses, c) /\ started[c] \in Nat /\ losses \in Nat
      BY DEF BotInv
    <3>3. AboutToStart(x, c) = AboutToStart(handler, c)
      BY <1>1, <1>7, <2>2, <2>4 DEF AboutToStart
    <3>4. AboutToStore(handler, c) \subseteq AboutToStore(x, c)
      BY <1>1, <2>4 DEF AboutToStore
    <3>5. Cardinality(AboutToStore(handler, c)) <= Cardinality(AboutToStore(x, c))
      BY <3>4, HandlersFinite, Sizes
    <3> QED BY <3>1, <3>2, <3>3, <3>5 DEF BotKept
  <2>6. \A g \in Handlers : x[g].pc = "store" => x[g].had # 0 BY <1>7, <2>2, <2>4 DEF BotInv
  <2> QED BY <1>1, <1>3, <1>7, <2>4, <2>5, <2>6 DEF BotInv
<1> QED BY <1>2, <1>6, <1>7 DEF CallBot

LEMMA StoreKeeps == ASSUME BotInv, NEW h \in Handlers, StoreSession(h) PROVE BotInv'
<1>1. UNCHANGED <<started, losses>> /\ handler[h].pc = "store" /\ handler[h] \in HandlerRow
      /\ handler[h].had # 0 /\ started \in [Contacts -> Nat] /\ losses \in Nat
  BY DEF StoreSession, HandlerAt, BotInv
<1>2. PICK d \in Contacts : d = handler[h].contact BY <1>1 DEF HandlerRow
<1>3. PICK x : x = handler' OBVIOUS
<1>4. PICK se : se = session' OBVIOUS
<1>5. PICK r : r = [handler[h] EXCEPT !.pc = "queue"] OBVIOUS
<1>6. r \in HandlerRow /\ r.pc = "queue" BY <1>1, <1>5 DEF HandlerRow, HandlerPc
<1>7. x = [handler EXCEPT ![h] = r] BY <1>3, <1>5 DEF StoreSession, HandlerGoes, BotInv
<1>8. x \in [Handlers -> HandlerRow] /\ x[h] = r /\ \A g \in Handlers : g # h => x[g] = handler[g]
  BY <1>6, <1>7 DEF BotInv
<1>9. se = [session EXCEPT ![d] = handler[h].had] BY <1>2, <1>4 DEF StoreSession
<1>10. se \in [Contacts -> Nat] /\ se[d] # 0 /\ \A c \in Contacts : c # d => se[c] = session[c]
  BY <1>1, <1>9 DEF BotInv, HandlerRow
<1>11. ASSUME NEW c \in Contacts PROVE BotKept(x, started, se, losses, c)
  <2>1. BotKept(handler, started, session, losses, c) BY DEF BotInv
  <2>2. AboutToStart(x, c) = AboutToStart(handler, c) BY <1>1, <1>6, <1>8 DEF AboutToStart
  <2>3. CASE c = d BY <1>10, <2>1, <2>2, <2>3 DEF BotKept
  <2>4. CASE c # d
    <3>1. AboutToStore(x, c) = AboutToStore(handler, c)
      BY <1>1, <1>2, <1>6, <1>8, <2>4 DEF AboutToStore
    <3> QED BY <1>10, <2>1, <2>2, <2>4, <3>1 DEF BotKept
  <2> QED BY <2>3, <2>4
<1>12. \A g \in Handlers : x[g].pc = "store" => x[g].had # 0 BY <1>6, <1>8 DEF BotInv
<1> QED BY <1>1, <1>3, <1>4, <1>8, <1>10, <1>11, <1>12 DEF BotInv

\* What the others do may only add to what was lost.
LEMMA BotElse ==
    ASSUME BotInv, UNCHANGED <<handler, session, started>>, losses' = losses \/ Lost
    PROVE  BotInv'
<1>1. losses' \in Nat /\ losses <= losses' BY Losing DEF BotInv
<1>2. PICK l \in Nat : l = losses' BY <1>1
<1>3. ASSUME NEW c \in Contacts PROVE BotKept(handler, started, session, l, c)
  <2>1. BotKept(handler, started, session, losses, c) /\ started[c] \in Nat /\ losses \in Nat
    BY DEF BotInv
  <2>2. /\ Cardinality(Handlers) \in Nat /\ Cardinality(AboutToStart(handler, c)) \in Nat
        /\ Cardinality(AboutToStore(handler, c)) \in Nat
    BY HandlersFinite
  <2> QED BY <1>1, <1>2, <2>1, <2>2 DEF BotKept
<1> QED BY <1>2, <1>3 DEF BotInv

-----------------------------------------------------------------------------
AboutToRegister(x) == {v \in Savers : x[v] = "register"}
HooksInv ==
    /\ saver \in [Savers -> {"idle", "list", "register"}]
    /\ hooks \in Nat /\ losses \in Nat
    /\ hooks + Cardinality(AboutToRegister(saver)) <= Cardinality(Savers) + losses

LEMMA SaversFinite ==
    ASSUME NEW x
    PROVE  /\ IsFiniteSet(Savers) /\ AboutToRegister(x) \in SUBSET Savers
           /\ Cardinality(Savers) \in Nat /\ Cardinality(AboutToRegister(x)) \in Nat
           /\ Cardinality(AboutToRegister(x)) <= Cardinality(Savers)
BY IntegrationsAssumption, Sizes DEF AboutToRegister

LEMMA LosingHooks == ASSUME HooksInv, Lost PROVE losses' \in Nat /\ losses' = losses + 1
BY DEF HooksInv, Lost

\* A save that goes on is about to register the webhook only where none is
\* registered or the list was lost.
LEMMA SaverMoves ==
    ASSUME HooksInv, UNCHANGED hooks, NEW n \in Nat, losses' = n, losses <= n,
           NEW v \in Savers, NEW l \in {"idle", "list", "register"},
           saver' = [saver EXCEPT ![v] = l],
           l = "register" => hooks = 0 \/ losses < n
    PROVE  HooksInv'
<1>1. PICK x : x = saver' OBVIOUS
<1>2. x \in [Savers -> {"idle", "list", "register"}] /\ x[v] = l
      /\ \A u \in Savers : u # v => x[u] = saver[u]
  BY <1>1 DEF HooksInv
<1>3. /\ Cardinality(Savers) \in Nat /\ Cardinality(AboutToRegister(x)) \in Nat
      /\ Cardinality(AboutToRegister(saver)) \in Nat
      /\ Cardinality(AboutToRegister(x)) <= Cardinality(Savers)
  BY SaversFinite
<1>4. hooks \in Nat /\ losses \in Nat
      /\ hooks + Cardinality(AboutToRegister(saver)) <= Cardinality(Savers) + losses
  BY DEF HooksInv
<1>5. hooks + Cardinality(AboutToRegister(x)) <= Cardinality(Savers) + n
  <2>1. CASE l # "register"
    <3>1. AboutToRegister(x) \subseteq AboutToRegister(saver) BY <1>2, <2>1 DEF AboutToRegister
    <3>2. Cardinality(AboutToRegister(x)) <= Cardinality(AboutToRegister(saver))
      BY <3>1, SaversFinite, Sizes
    <3> QED BY <1>3, <1>4, <3>2
  <2>2. CASE hooks = 0 BY <1>3, <1>4, <2>2
  <2>3. CASE losses < n
    <3>1. AboutToRegister(x) \subseteq AboutToRegister(saver) \cup {v} BY <1>2 DEF AboutToRegister
    <3>2. Cardinality(AboutToRegister(x)) <= Cardinality(AboutToRegister(saver)) + 1
      <4>1. CASE v \in AboutToRegister(saver)
        <5>1. AboutToRegister(x) \subseteq AboutToRegister(saver) BY <3>1, <4>1
        <5>2. Cardinality(AboutToRegister(x)) <= Cardinality(AboutToRegister(saver))
          BY <5>1, SaversFinite, Sizes
        <5> QED BY <1>3, <5>2
      <4>2. CASE v \notin AboutToRegister(saver)
        <5>1. Cardinality(AboutToRegister(saver) \cup {v}) = Cardinality(AboutToRegister(saver)) + 1
          BY <4>2, SaversFinite, Sizes
        <5>2. AboutToRegister(saver) \cup {v} \in SUBSET Savers BY SaversFinite
        <5>3. Cardinality(AboutToRegister(x)) <= Cardinality(AboutToRegister(saver) \cup {v})
          BY <3>1, <5>2, SaversFinite, Sizes
        <5> QED BY <1>3, <5>1, <5>3
      <4> QED BY <4>1, <4>2
    <3> QED BY <1>3, <1>4, <2>3, <3>2
  <2> QED BY <2>1, <2>2, <2>3
<1> QED BY <1>1, <1>2, <1>4, <1>5 DEF HooksInv

LEMMA SavesMove ==
    ASSUME HooksInv, NEW v \in Savers, NEW p, NEW on,
           SaveSettings(v, p, on) \/ SaveV1Settings(v, p, on) \/ SaveChatwootConfig(v, on)
    PROVE  HooksInv'
<1>1. PICK l \in {"idle", "list"} : saver' = [saver EXCEPT ![v] = l] /\ UNCHANGED <<hooks, losses>>
  <2>1. CASE SaveSettings(v, p, on) BY <2>1 DEF SaveSettings, Saves
  <2>2. CASE SaveV1Settings(v, p, on) BY <2>2 DEF SaveV1Settings, Saves
  <2>3. CASE SaveChatwootConfig(v, on) BY <2>3 DEF SaveChatwootConfig, Saves
  <2> QED BY <2>1, <2>2, <2>3
<1>2. losses \in Nat /\ losses' = losses /\ losses <= losses BY <1>1 DEF HooksInv
<1>3. l \in {"idle", "list", "register"} /\ l # "register" BY <1>1
<1> QED BY <1>1, <1>2, <1>3, SaverMoves

LEMMA ListMoves == ASSUME HooksInv, NEW v \in Savers, ListHooks(v) PROVE HooksInv'
<1>1. hooks \in Nat /\ losses \in Nat /\ UNCHANGED hooks BY DEF HooksInv, ListHooks
<1>2. CASE Lost /\ saver' = [saver EXCEPT ![v] = "register"]
  <2>1. losses' \in Nat /\ losses' = losses + 1 BY <1>2, LosingHooks
  <2>2. PICK n \in Nat : n = losses' BY <2>1
  <2>3. losses <= n /\ losses < n /\ losses' = n BY <1>1, <2>1, <2>2
  <2> QED BY <1>1, <1>2, <2>3, SaverMoves
<1>3. CASE saver' = [saver EXCEPT ![v] = IF hooks > 0 THEN "idle" ELSE "register"]
           /\ UNCHANGED losses
  <2>1. PICK l \in {"idle", "register"} : l = IF hooks > 0 THEN "idle" ELSE "register"
    BY <1>1
  <2>2. l = "register" => hooks = 0 BY <1>1, <2>1
  <2>3. l \in {"idle", "list", "register"} /\ saver' = [saver EXCEPT ![v] = l] BY <1>3, <2>1
  <2>4. losses' = losses /\ losses <= losses BY <1>1, <1>3
  <2> QED BY <1>1, <2>2, <2>3, <2>4, SaverMoves
<1> QED BY <1>2, <1>3 DEF ListHooks

LEMMA RegisterMoves == ASSUME HooksInv, NEW v \in Savers, RegisterHook(v) PROVE HooksInv'
<1>1. hooks \in Nat /\ losses \in Nat /\ saver[v] = "register"
      /\ saver' = [saver EXCEPT ![v] = "idle"]
  BY DEF HooksInv, RegisterHook
<1>2. CASE Lost /\ UNCHANGED hooks
  <2>1. losses' \in Nat /\ losses' = losses + 1 BY <1>2, LosingHooks
  <2>2. PICK n \in Nat : n = losses' BY <2>1
  <2>3. losses <= n /\ losses' = n BY <1>1, <2>1, <2>2
  <2> QED BY <1>1, <1>2, <2>3, SaverMoves
<1>3. CASE hooks' = hooks + 1 /\ UNCHANGED losses
  <2>1. PICK x : x = saver' OBVIOUS
  <2>2. x \in [Savers -> {"idle", "list", "register"}] BY <1>1, <2>1 DEF HooksInv
  <2>3. AboutToRegister(x) = AboutToRegister(saver) \ {v} /\ v \in AboutToRegister(saver)
    BY <1>1, <2>1 DEF HooksInv, AboutToRegister
  <2>4. Cardinality(AboutToRegister(x)) = Cardinality(AboutToRegister(saver)) - 1
    BY <2>3, SaversFinite, Sizes
  <2>5. Cardinality(Savers) \in Nat /\ Cardinality(AboutToRegister(saver)) \in Nat
    BY SaversFinite
  <2>6. hooks + 1 + Cardinality(AboutToRegister(x)) <= Cardinality(Savers) + losses
    BY <1>1, <2>4, <2>5 DEF HooksInv
  <2> QED BY <1>1, <1>3, <2>1, <2>2, <2>6 DEF HooksInv
<1> QED BY <1>2, <1>3 DEF RegisterHook

LEMMA HooksElse ==
    ASSUME HooksInv, UNCHANGED <<saver, hooks>>, losses' = losses \/ Lost PROVE HooksInv'
<1>1. losses' \in Nat /\ losses <= losses' /\ losses \in Nat BY LosingHooks DEF HooksInv
<1>2. Cardinality(Savers) \in Nat /\ Cardinality(AboutToRegister(saver)) \in Nat
  BY SaversFinite
<1>3. PICK n \in Nat : n = losses' BY <1>1
<1>4. hooks + Cardinality(AboutToRegister(saver)) <= Cardinality(Savers) + n
  BY <1>1, <1>2, <1>3 DEF HooksInv
<1> QED BY <1>3, <1>4 DEF HooksInv

-----------------------------------------------------------------------------
CreationsInv == PeopleInv /\ BotInv /\ HooksInv

LEMMA CreationsInit == IntegrationsInit => CreationsInv
<1> SUFFICES ASSUME IntegrationsInit PROVE CreationsInv OBVIOUS
<1>1. PeopleInv
  <2>1. sync \in [SyncSlots -> SyncRow] /\ people \in [Contacts -> Nat]
    BY FreeIsRow DEF IntegrationsInit
  <2>2. \A c \in Contacts : people[c] = 0 /\ AboutToCreate(sync, c) = {}
    BY FreeIsRow DEF IntegrationsInit, AboutToCreate
  <2>3. Cardinality({}) = 0 /\ Cardinality(SyncSlots) \in Nat BY FS_EmptySet, SlotsFinite, Sizes
  <2>4. \A c \in Contacts : people[c] + Cardinality(AboutToCreate(sync, c)) <= Cardinality(SyncSlots)
    BY <2>2, <2>3
  <2> QED BY <2>1, <2>4 DEF PeopleInv
<1>2. BotInv
  <2>1. /\ handler \in [Handlers -> HandlerRow] /\ losses \in Nat
        /\ session \in [Contacts -> Nat] /\ started \in [Contacts -> Nat]
        /\ \A h \in Handlers : handler[h].pc = "idle"
    BY AtRestIsRow DEF IntegrationsInit
  <2>2. ASSUME NEW c \in Contacts PROVE BotKept(handler, started, session, losses, c)
    <3>1. started[c] = 0 /\ losses = 0 BY DEF IntegrationsInit
    <3>2. /\ Cardinality(Handlers) \in Nat
          /\ Cardinality(AboutToStart(handler, c)) \in Nat
          /\ Cardinality(AboutToStore(handler, c)) \in Nat
          /\ Cardinality(AboutToStart(handler, c)) + Cardinality(AboutToStore(handler, c))
               <= Cardinality(Handlers)
      BY HandlersFinite
    <3> QED BY <3>1, <3>2 DEF BotKept
  <2> QED BY <2>1, <2>2 DEF BotInv
<1>3. HooksInv
  <2>1. saver \in [Savers -> {"idle", "list", "register"}] /\ hooks = 0 /\ losses = 0
    BY DEF IntegrationsInit
  <2>2. /\ Cardinality(Savers) \in Nat /\ Cardinality(AboutToRegister(saver)) \in Nat
        /\ Cardinality(AboutToRegister(saver)) <= Cardinality(Savers)
    BY SaversFinite
  <2> QED BY <2>1, <2>2 DEF HooksInv
<1> QED BY <1>1, <1>2, <1>3 DEF CreationsInv

LEMMA CreationsStep == CreationsInv /\ [IntegrationsNext]_integrationVars => CreationsInv'
<1> SUFFICES ASSUME CreationsInv, [IntegrationsNext]_integrationVars PROVE CreationsInv' OBVIOUS
<1>1. PeopleInv /\ BotInv /\ HooksInv BY DEF CreationsInv
<1>2. CASE UNCHANGED integrationVars
  <2>1. UNCHANGED <<sync, people, handler, session, started, saver, hooks, losses>>
    BY <1>2 DEF integrationVars
  <2> QED BY <1>1, <2>1, PeopleKept, BotElse, HooksElse DEF CreationsInv
<1>3. ASSUME NEW h \in Handlers,
             \/ MessageDispatched(h) \/ LookSession(h) \/ CallBot(h)
             \/ StoreSession(h) \/ BotFails(h) \/ QueueMessage(h)
      PROVE  CreationsInv'
  <2>1. UNCHANGED <<sync, people, saver, hooks>> /\ (losses' = losses \/ Lost)
    BY <1>3 DEF MessageDispatched, LookSession, CallBot, StoreSession, BotFails, QueueMessage,
                remoteVars, saveVars
  <2>2. BotInv'
    BY <1>1, <1>3, DispatchKeeps, LookKeeps, CallKeeps, StoreKeeps, FailKeeps, QueueKeeps
  <2> QED BY <1>1, <2>1, <2>2, PeopleKept, HooksElse DEF CreationsInv
<1>4. ASSUME NEW c \in Contacts, StatusDispatched(c) PROVE CreationsInv'
  <2>1. UNCHANGED <<sync, people, handler, session, started, saver, hooks>>
        /\ (losses' = losses \/ Lost)
    BY <1>4 DEF StatusDispatched, chatVars, remoteVars, saveVars
  <2> QED BY <1>1, <2>1, PeopleKept, BotElse, HooksElse DEF CreationsInv
<1>5. ASSUME NEW w \in SyncSlots,
             \/ TakeJob(w) \/ ReadConfig(w) \/ FindContact(w) \/ CreateContact(w)
             \/ LookForConversation(w) \/ CreateConversation(w) \/ PostMessage(w)
             \/ SyncEnds(w) \/ SyncFails(w) \/ SyncStalls(w)
      PROVE  CreationsInv'
  <2>1. UNCHANGED <<handler, session, started, saver, hooks>> /\ (losses' = losses \/ Lost)
    BY <1>5 DEF TakeJob, ReadConfig, FindContact, CreateContact, LookForConversation,
                CreateConversation, PostMessage, SyncEnds, SyncFails, SyncStalls,
                chatVars, saveVars
  <2>2. PeopleInv' BY <1>1, <1>5, SlotSteps
  <2> QED BY <1>1, <2>1, <2>2, BotElse, HooksElse DEF CreationsInv
<1>6. ASSUME NEW v \in Savers, NEW p, NEW on,
             \/ SaveSettings(v, p, on) \/ SaveV1Settings(v, p, on) \/ SaveChatwootConfig(v, on)
             \/ ListHooks(v) \/ RegisterHook(v)
      PROVE  CreationsInv'
  <2>1. UNCHANGED <<sync, people, handler, session, started>> /\ (losses' = losses \/ Lost)
    BY <1>6 DEF SaveSettings, SaveV1Settings, SaveChatwootConfig, Saves, ListHooks, RegisterHook,
                chatVars, remoteVars
  <2>2. HooksInv' BY <1>1, <1>6, SavesMove, ListMoves, RegisterMoves
  <2> QED BY <1>1, <2>1, <2>2, PeopleKept, BotElse DEF CreationsInv
<1>7. CASE IntegrationsNext BY <1>3, <1>4, <1>5, <1>6, <1>7 DEF IntegrationsNext
<1> QED BY <1>2, <1>7

\* Whatever the dispatch, the worker and the settings look up in another
\* service and create later is created at most once for each of them that
\* works at a time, and once more for each answer that was lost: what is about
\* to be created counts as if it were there, and what a handler started and
\* has not stored yet stands for the session that is missing.
THEOREM CreationsBounded == IntegrationsSpec => []CreatedBounded
<1>1. CreationsInv => CreatedBounded
  <2> SUFFICES ASSUME CreationsInv PROVE CreatedBounded OBVIOUS
  <2>1. PeopleInv /\ BotInv /\ HooksInv BY DEF CreationsInv
  <2>2. ASSUME NEW c \in Contacts PROVE people[c] <= Cardinality(SyncSlots)
    <3>1. Cardinality(AboutToCreate(sync, c)) \in Nat /\ Cardinality(SyncSlots) \in Nat
      BY SlotsFinite, Sizes
    <3> QED BY <2>1, <3>1 DEF PeopleInv
  <2>3. ASSUME NEW c \in Contacts PROVE started[c] <= Cardinality(Handlers) + losses
    <3>1. BotKept(handler, started, session, losses, c) /\ started[c] \in Nat /\ losses \in Nat
      BY <2>1 DEF BotInv
    <3>2. Cardinality(AboutToStart(handler, c)) \in Nat /\ Cardinality(Handlers) \in Nat
      BY HandlersFinite
    <3> QED BY <3>1, <3>2 DEF BotKept
  <2>4. hooks <= Cardinality(Savers) + losses
    <3>1. Cardinality(AboutToRegister(saver)) \in Nat /\ Cardinality(Savers) \in Nat
      BY SaversFinite
    <3> QED BY <2>1, <3>1 DEF HooksInv
  <2> QED BY <2>2, <2>3, <2>4 DEF CreatedBounded
<1> QED BY <1>1, CreationsInit, CreationsStep, PTL DEF IntegrationsSpec

-----------------------------------------------------------------------------
(* Quota: sums over the client accounts.                                     *)

LEMMA ClientsFinite == IsFiniteSet(Clients)
BY QuotaAssumption

Worth == [c \in Clients |-> Granted(c)]
LEMMA WorthType ==
    ASSUME grant \in [Clients -> Grants \cup {NoGrant}]
    PROVE  Worth \in [Clients -> Nat] /\ \A c \in Clients : Worth[c] <= MaxGrant
BY QuotaAssumption DEF Worth, Granted, Grants, NoGrant

\* What the community module computes is this sum.
LEMMA AllocatedIs ==
    ASSUME grant \in [Clients -> Grants \cup {NoGrant}] PROVE SumIs(Worth, Clients, Allocated)
<1> DEFINE Next(iter) == [s \in SUBSET Clients |->
               IF s = {} THEN 0
               ELSE LET x == CHOOSE x \in s : TRUE IN Granted(x) + iter[s \ {x}]]
<1>1. ASSUME NEW g PROVE IsFold(g, Worth, Clients) <=> g = Next(g)
  <2>1. ASSUME NEW s \in SUBSET Clients
        PROVE  FoldAt(g, Worth, s) = IF s = {} THEN 0
                                     ELSE LET x == CHOOSE x \in s : TRUE
                                          IN  Granted(x) + g[s \ {x}]
    <3>1. s # {} => Worth[Pick(s)] = Granted(Pick(s)) BY PickIn DEF Worth
    <3> QED BY <3>1 DEF FoldAt, Pick
  <2> QED BY <2>1 DEF IsFold
<1> HIDE DEF Next
<1>2. \E g : g = Next(g)
  <2>1. PICK g : IsFold(g, Worth, Clients) BY WorthType, ClientsFinite, FoldExists
  <2>2. g = Next(g) BY <1>1, <2>1
  <2> QED BY <2>2
<1>3. PICK h : h = CHOOSE iter : iter = Next(iter) OBVIOUS
<1>4. h = Next(h)
  <2> QED BY <1>2, <1>3
<1>5. Allocated = h[Clients] BY <1>3 DEF Next, Allocated, MapThenSumSet, MapThenFoldSet
<1> QED BY <1>1, <1>4, <1>5 DEF SumIs

Askers1 == Cardinality(Askers)

\* Subsets of the requests.
LEMMA AskersFinite ==
    /\ IsFiniteSet(Askers) /\ Askers1 \in Nat /\ Askers1 # 0
    /\ \A A \in SUBSET Askers : /\ IsFiniteSet(A) /\ Cardinality(A) \in Nat
                                /\ Cardinality(A) <= Askers1
                                /\ \A x \in A : Cardinality(A \ {x}) = Cardinality(A) - 1
                                /\ \A x \in Askers \ A : Cardinality(A \cup {x}) = Cardinality(A) + 1
    /\ \A A, B \in SUBSET Askers : A \subseteq B => Cardinality(A) <= Cardinality(B)
    /\ \A A, B \in SUBSET Askers : A \cap B = {} =>
         Cardinality(A \cup B) = Cardinality(A) + Cardinality(B)
<1>1. IsFiniteSet(Askers) /\ Askers1 \in Nat /\ Askers1 # 0
  BY QuotaAssumption, FS_CardinalityType, FS_EmptySet DEF Askers1
<1>2. \A A \in SUBSET Askers : IsFiniteSet(A) /\ Cardinality(A) \in Nat /\ Cardinality(A) <= Askers1
  BY <1>1, FS_Subset, FS_CardinalityType DEF Askers1
<1>3. ASSUME NEW A \in SUBSET Askers
      PROVE  /\ \A x \in A : Cardinality(A \ {x}) = Cardinality(A) - 1
             /\ \A x \in Askers \ A : Cardinality(A \cup {x}) = Cardinality(A) + 1
  BY <1>2, FS_RemoveElement, FS_AddElement
<1>4. ASSUME NEW A \in SUBSET Askers, NEW B \in SUBSET Askers
      PROVE  /\ A \subseteq B => Cardinality(A) <= Cardinality(B)
             /\ A \cap B = {} => Cardinality(A \cup B) = Cardinality(A) + Cardinality(B)
  <2>1. A \subseteq B => Cardinality(A) <= Cardinality(B) BY <1>2, FS_Subset
  <2>2. ASSUME A \cap B = {} PROVE Cardinality(A \cup B) = Cardinality(A) + Cardinality(B)
    <3>1. Cardinality(A \cup B) = Cardinality(A) + Cardinality(B) - Cardinality(A \cap B)
      BY <1>2, FS_Union
    <3>2. Cardinality(A \cap B) = 0 BY <2>2, FS_EmptySet
    <3> QED BY <1>2, <3>1, <3>2
  <2> QED BY <2>1, <2>2
<1> QED BY <1>1, <1>2, <1>3, <1>4

LEMMA OneGrantMore == ASSUME NEW n \in Nat PROVE MaxGrant * (n + 1) = MaxGrant * n + MaxGrant
<1>1. MaxGrant \in Nat BY QuotaAssumption
<1> QED BY <1>1

\* Raising the clients that some edits name to the largest grant costs at most
\* one grant for each edit.
LEMMA Lifted ==
    ASSUME NEW f \in [Clients -> Nat], \A c \in Clients : f[c] <= MaxGrant,
           NEW n \in Nat, SumIs(f, Clients, n),
           NEW E \in SUBSET Askers, NEW to, \A k \in E : to[k] \in Clients
    PROVE  \E e \in [Clients -> Nat], m \in Nat :
             /\ SumIs(e, Clients, m) /\ m <= n + MaxGrant * Cardinality(E)
             /\ \A c \in Clients : f[c] <= e[c] /\ e[c] <= MaxGrant
             /\ \A k \in E : e[to[k]] = MaxGrant
<1> DEFINE Fits(e, m, S) ==
             /\ SumIs(e, Clients, m) /\ m <= n + MaxGrant * Cardinality(S)
             /\ \A c \in Clients : f[c] <= e[c] /\ e[c] <= MaxGrant
             /\ \A k \in S : e[to[k]] = MaxGrant
           Sz == Cardinality(E)
           U == {i \in 0..Sz : \A S \in SUBSET E : Cardinality(S) = i =>
                  \E e \in [Clients -> Nat], m \in Nat : Fits(e, m, S)}
<1>1. MaxGrant \in Nat BY QuotaAssumption
<1>2. Sz \in Nat /\ \A S \in SUBSET E : IsFiniteSet(S) /\ Cardinality(S) \in Nat
  BY AskersFinite
<1>3. 0 \in U
  <2>1. ASSUME NEW S \in SUBSET E, Cardinality(S) = 0 PROVE Fits(f, n, S)
    <3>1. S = {} BY <1>2, <2>1, FS_EmptySet
    <3>2. MaxGrant * Cardinality(S) = 0 BY <1>1, <2>1
    <3> QED BY <3>1, <3>2
  <2>2. 0 \in 0..Sz BY <1>2
  <2> HIDE DEF Fits
  <2> QED BY <2>1, <2>2
<1>4. ASSUME NEW i \in U, i < Sz PROVE i + 1 \in U
  <2>1. i \in Nat /\ i + 1 \in 0..Sz BY <1>2, <1>4
  <2>2. ASSUME NEW S \in SUBSET E, Cardinality(S) = i + 1
        PROVE  \E e \in [Clients -> Nat], m \in Nat : Fits(e, m, S)
    <3>1. PICK k \in S : TRUE BY <2>1, <2>2, FS_EmptySet
    <3>2. PICK R \in SUBSET E : R = S \ {k} OBVIOUS
    <3>3. Cardinality(R) = i
      <4>1. S \in SUBSET Askers OBVIOUS
      <4>2. Cardinality(R) = Cardinality(S) - 1 BY <3>1, <3>2, <4>1, AskersFinite
      <4> QED BY <2>1, <2>2, <4>2
    <3>4. PICK e \in [Clients -> Nat], m \in Nat : Fits(e, m, R) BY <3>3
    <3>6. PICK d \in Clients : d = to[k] BY <3>1
    <3>5. PICK x \in [Clients -> Nat] : x = [e EXCEPT ![d] = MaxGrant] BY <1>1
    <3>7. PICK r \in Nat : SumIs(x, Clients, r) /\ r + e[d] = m + MaxGrant
      <4>1. SumIs(e, Clients, m) BY <3>4
      <4>2. x[d] = MaxGrant /\ \A c \in Clients : c # d => x[c] = e[c] BY <3>5
      <4>3. \E r \in Nat : SumIs(x, Clients, r) /\ r + e[d] = m + x[d]
        BY <4>1, <4>2, ClientsFinite, SumRaised
      <4> QED BY <4>2, <4>3
    <3>8. e[d] \in Nat /\ m <= n + MaxGrant * i BY <3>3, <3>4
    <3>9. MaxGrant * (i + 1) = MaxGrant * i + MaxGrant /\ MaxGrant * i \in Nat
      BY <1>1, <2>1, OneGrantMore
    <3>10. r <= n + MaxGrant * Cardinality(S) BY <1>1, <2>2, <3>7, <3>8, <3>9
    <3>11. \A c \in Clients : f[c] <= x[c] /\ x[c] <= MaxGrant
      BY <1>1, <3>4, <3>5, <3>6
    <3>12. \A j \in S : x[to[j]] = MaxGrant BY <3>2, <3>4, <3>5, <3>6
    <3>13. Fits(x, r, S) BY <3>7, <3>10, <3>11, <3>12
    <3> HIDE DEF Fits
    <3> QED BY <3>13
  <2> HIDE DEF Fits
  <2> QED BY <2>1, <2>2
<1>5. Sz \in U
  <2>1. U \in SUBSET (0..Sz) OBVIOUS
  <2> HIDE DEF U, Sz
  <2> QED BY <1>2, <1>3, <1>4, <2>1, UpTo
<1>6. \E e \in [Clients -> Nat], m \in Nat : Fits(e, m, E)
  <2> HIDE DEF Fits
  <2> QED BY <1>5
<1> QED BY <1>6

-----------------------------------------------------------------------------
(* The requests that may still add to what the reseller has: an insertion of *)
(* an instance adds one; one of a client adds a grant, and so does a request *)
(* that counted before the last count that was let through (age <= mark),    *)
(* which has not seen what was.  An edit that is about to write holds its    *)
(* client at the level it read.  Another request that has counted can be     *)
(* wrong by no more than one instance for each of those ahead of it.         *)

Inst(x) == {k \in Askers : x[k].pc = "insert" /\ x[k].kind = "instance"}
Edits(x) == {k \in Askers : x[k].pc = "insert" /\ x[k].kind = "edit"}
Dear(x, age, mark) ==
    {k \in Askers : \/ x[k].pc = "insert" /\ x[k].kind = "client" /\ x[k].ask # 0
                    \/ x[k].pc = "sum" /\ age[k] <= mark}
Ahead(x, age, k) ==
    {l \in Askers \ {k} : \/ x[l].pc = "insert" /\ x[l].kind = "instance"
                          \/ x[l].pc = "sum" /\ age[l] <= age[k]}
Most == Total + Askers1 * (MaxGrant + 1) - 2
Costs(o, w, x, age, mark) ==
    o + w + Cardinality(Inst(x)) + MaxGrant * Cardinality(Dear(x, age, mark)) <= Most

Levels(gr, x, lev, w) ==
    /\ lev \in [Clients -> Nat] /\ w \in Nat /\ SumIs(lev, Clients, w)
    /\ gr \in [Clients -> Grants \cup {NoGrant}]
    /\ \A c \in Clients : lev[c] <= MaxGrant /\ (gr[c] = NoGrant \/ gr[c] <= lev[c])
    /\ \A k \in Edits(x) : /\ x[k].who \in Clients /\ x[k].next \in Grants
                            /\ x[k].next <= lev[x[k].who]
Ages(age, top, mark) ==
    /\ age \in [Askers -> Nat] /\ top \in Nat /\ mark \in Nat /\ mark <= top
    /\ \A k \in Askers : age[k] <= top
Sees(o, x, age, mark) ==
    \A k \in Askers : x[k].pc = "sum" /\ age[k] > mark =>
      o + Cardinality(Ahead(x, age, k)) <= x[k].own + Askers1 - 1
Held(o, gr, x, lev, w, age, top, mark) ==
    /\ Levels(gr, x, lev, w) /\ Ages(age, top, mark)
    /\ Costs(o, w, x, age, mark) /\ Sees(o, x, age, mark)

RowOK(r) ==
    /\ r \in AskRow
    /\ r.pc # "idle" /\ r.kind = "client" => r.ask = r.next
    /\ r.pc # "idle" /\ r.kind = "instance" => r.ask = 1
    /\ r.pc \in {"count", "sum"} /\ r.kind = "edit" => r.ask # 0
QuotaInv ==
    /\ own \in Nat /\ grant \in [Clients -> Grants \cup {NoGrant}]
    /\ DOMAIN asker = Askers /\ asker \in [Askers -> AskRow]
    /\ \A k \in Askers : RowOK(asker[k])
    /\ \E lev, w, age, top, mark : Held(own, grant, asker, lev, w, age, top, mark)

LEMMA Sorts ==
    ASSUME NEW x, NEW age, NEW mark, NEW k
    PROVE  /\ Inst(x) \in SUBSET Askers /\ Edits(x) \in SUBSET Askers
           /\ Dear(x, age, mark) \in SUBSET Askers /\ Ahead(x, age, k) \in SUBSET (Askers \ {k})
           /\ Cardinality(Inst(x)) \in Nat /\ Cardinality(Edits(x)) \in Nat
           /\ Cardinality(Dear(x, age, mark)) \in Nat /\ Cardinality(Ahead(x, age, k)) \in Nat
<1>1. /\ Inst(x) \in SUBSET Askers /\ Edits(x) \in SUBSET Askers
      /\ Dear(x, age, mark) \in SUBSET Askers /\ Ahead(x, age, k) \in SUBSET (Askers \ {k})
  BY DEF Inst, Edits, Dear, Ahead
<1>2. Ahead(x, age, k) \in SUBSET Askers BY <1>1
<1> QED BY <1>1, <1>2, AskersFinite

LEMMA GrantsAre == MaxGrant \in Nat /\ MaxGrant # 0 /\ Total \in Nat /\ Grants \subseteq Nat
                   /\ \A n \in Nat : MaxGrant * n \in Nat
<1>1. MaxGrant \in Nat /\ MaxGrant # 0 /\ Total \in Nat BY QuotaAssumption
<1>2. \A n \in Nat : MaxGrant * n \in Nat BY <1>1
<1> QED BY <1>1, <1>2 DEF Grants

\* A grant less for every request that costs none.
LEMMA FewerGrants ==
    ASSUME NEW a \in Nat, NEW b \in Nat, NEW n \in Nat, a + b <= n
    PROVE  MaxGrant * a + MaxGrant * b <= MaxGrant * n
<1>1. MaxGrant \in Nat BY GrantsAre
<1>2. PICK d \in Nat : n = a + b + d
  <2>1. n - (a + b) \in Nat OBVIOUS
  <2> QED BY <2>1
<1>3. MaxGrant * n = MaxGrant * a + MaxGrant * b + MaxGrant * d BY <1>1, <1>2, Z3
<1>4. MaxGrant * d \in Nat /\ MaxGrant * a \in Nat /\ MaxGrant * b \in Nat BY GrantsAre
<1> QED BY <1>3, <1>4

\* A request that ends, or goes where it costs nothing, pays for what it adds.
LEMMA Leaves ==
    ASSUME NEW o \in Nat, NEW gr, NEW x, NEW lev, NEW w, NEW age, NEW top, NEW mark,
           Held(o, gr, x, lev, w, age, top, mark),
           NEW k \in Askers, NEW y, \A l \in Askers : l # k => y[l] = x[l],
           y[k].pc # "sum", y[k].pc = "insert" => y[k].kind = "edit",
           NEW p \in Nat, NEW gr2, NEW lev2, NEW w2, Levels(gr2, y, lev2, w2),
           p <= o \/ (p = o + 1 /\ k \in Inst(x)),
           \/ p + w2 <= o + w
           \/ p + w2 <= o + w + 1 /\ k \in Inst(x)
           \/ p + w2 <= o + w + MaxGrant /\ k \in Dear(x, age, mark)
    PROVE  Held(p, gr2, y, lev2, w2, age, top, mark)
<1>1. Inst(y) = Inst(x) \ {k} BY DEF Inst
<1>2. Dear(y, age, mark) = Dear(x, age, mark) \ {k} BY DEF Dear
<1>3. /\ Cardinality(Inst(x)) \in Nat /\ Cardinality(Dear(x, age, mark)) \in Nat
      /\ Cardinality(Inst(y)) \in Nat /\ Cardinality(Dear(y, age, mark)) \in Nat
      /\ Inst(x) \in SUBSET Askers /\ Dear(x, age, mark) \in SUBSET Askers
  BY Sorts
<1>4. IF k \in Inst(x) THEN Cardinality(Inst(y)) = Cardinality(Inst(x)) - 1
                       ELSE Inst(y) = Inst(x)
  BY <1>1, <1>3, AskersFinite
<1>5. IF k \in Dear(x, age, mark)
      THEN Cardinality(Dear(y, age, mark)) = Cardinality(Dear(x, age, mark)) - 1
      ELSE Dear(y, age, mark) = Dear(x, age, mark)
  BY <1>2, <1>3, AskersFinite
<1>6. ~(k \in Inst(x) /\ k \in Dear(x, age, mark)) BY DEF Inst, Dear
<1>7. w \in Nat /\ w2 \in Nat BY DEF Held, Levels
<1>8. Costs(p, w2, y, age, mark)
  <2>1. PICK d \in Nat : d = MaxGrant * Cardinality(Dear(x, age, mark)) BY <1>3, GrantsAre
  <2>2. PICK e \in Nat : e = MaxGrant * Cardinality(Dear(y, age, mark)) BY <1>3, GrantsAre
  <2>3. IF k \in Dear(x, age, mark) THEN d = e + MaxGrant ELSE d = e
    <3>1. CASE k \in Dear(x, age, mark)
      <4>1. PICK n \in Nat : n = Cardinality(Dear(y, age, mark)) BY <1>3
      <4>2. Cardinality(Dear(x, age, mark)) = n + 1 BY <1>3, <1>5, <3>1, <4>1
      <4>3. MaxGrant * (n + 1) = MaxGrant * n + MaxGrant BY OneGrantMore
      <4> QED BY <2>1, <2>2, <3>1, <4>1, <4>2, <4>3
    <3>2. CASE k \notin Dear(x, age, mark) BY <1>5, <2>1, <2>2, <3>2
    <3> QED BY <3>1, <3>2
  <2>4. PICK i \in Nat, j \in Nat : i = Cardinality(Inst(x)) /\ j = Cardinality(Inst(y)) BY <1>3
  <2>5. IF k \in Inst(x) THEN i = j + 1 ELSE i = j BY <1>3, <1>4, <2>4
  <2>6. o + w + i + d <= Most BY <2>1, <2>4 DEF Held, Costs
  <2>7. MaxGrant \in Nat /\ Most \in Int BY GrantsAre, AskersFinite DEF Most
  <2>8. p + w2 + j + e <= Most
    <3>1. CASE p + w2 <= o + w BY <1>7, <2>3, <2>5, <2>6, <2>7, <3>1
    <3>2. CASE p + w2 <= o + w + 1 /\ k \in Inst(x)
      BY <1>6, <1>7, <2>3, <2>5, <2>6, <2>7, <3>2
    <3>3. CASE p + w2 <= o + w + MaxGrant /\ k \in Dear(x, age, mark)
      BY <1>6, <1>7, <2>3, <2>5, <2>6, <2>7, <3>3
    <3> QED BY <3>1, <3>2, <3>3
  <2> QED BY <2>2, <2>4, <2>8 DEF Costs
<1>9. ASSUME NEW l \in Askers, y[l].pc = "sum" /\ age[l] > mark
      PROVE  p + Cardinality(Ahead(y, age, l)) <= y[l].own + Askers1 - 1
  <2>1. l # k /\ y[l] = x[l] BY <1>9
  <2>2. o + Cardinality(Ahead(x, age, l)) <= x[l].own + Askers1 - 1
    BY <1>9, <2>1 DEF Held, Sees
  <2>3. Ahead(y, age, l) = Ahead(x, age, l) \ {k} BY DEF Ahead
  <2>4. /\ Ahead(x, age, l) \in SUBSET Askers /\ Cardinality(Ahead(x, age, l)) \in Nat
        /\ Cardinality(Ahead(y, age, l)) \in Nat
    BY Sorts
  <2>5. Cardinality(Ahead(y, age, l)) <= Cardinality(Ahead(x, age, l))
    <3>1. Ahead(y, age, l) \in SUBSET Askers /\ Ahead(y, age, l) \subseteq Ahead(x, age, l)
      BY <2>3, <2>4
    <3> QED BY <2>4, <3>1, AskersFinite
  <2>6. k \in Inst(x) => Cardinality(Ahead(y, age, l)) = Cardinality(Ahead(x, age, l)) - 1
    <3>1. ASSUME k \in Inst(x) PROVE k \in Ahead(x, age, l) BY <2>1, <3>1 DEF Inst, Ahead
    <3> QED BY <2>3, <2>4, <3>1, AskersFinite
  <2>7. p + Cardinality(Ahead(y, age, l)) <= o + Cardinality(Ahead(x, age, l))
    BY <2>4, <2>5, <2>6
  <2>8. p + Cardinality(Ahead(y, age, l)) <= x[l].own + Askers1 - 1
    <3>1. PICK a \in Nat, b \in Nat :
            a = p + Cardinality(Ahead(y, age, l)) /\ b = o + Cardinality(Ahead(x, age, l))
      BY <2>4
    <3>2. PICK m : m = x[l].own + Askers1 - 1 OBVIOUS
    <3> QED BY <2>2, <2>7, <3>1, <3>2
  <2> QED BY <2>1, <2>8
<1> QED BY <1>8, <1>9 DEF Held, Sees

\* A request that counts sees all there is.
LEMMA CountSees ==
    ASSUME NEW o \in Nat, NEW gr, NEW x, NEW lev, NEW w, NEW age, NEW top, NEW mark,
           Held(o, gr, x, lev, w, age, top, mark),
           NEW k \in Askers, NEW y, \A l \in Askers : l # k => y[l] = x[l],
           x[k].pc = "count", y[k].pc = "sum", y[k].own = o
    PROVE  \E age2, top2 : Held(o, gr, y, lev, w, age2, top2, mark)
<1>1. Levels(gr, x, lev, w) /\ Ages(age, top, mark) BY DEF Held
<1>2. PICK age2 \in [Askers -> Nat] : age2 = [l \in Askers |-> IF l = k THEN top + 1 ELSE age[l]]
  <2>1. \A l \in Askers : (IF l = k THEN top + 1 ELSE age[l]) \in Nat BY <1>1 DEF Ages
  <2> QED BY <2>1
<1>3. age2[k] = top + 1 /\ \A l \in Askers : l # k => age2[l] = age[l] BY <1>2
<1>4. Ages(age2, top + 1, mark) BY <1>1, <1>3 DEF Ages
<1>5. Inst(y) = Inst(x) /\ Edits(y) = Edits(x) BY DEF Inst, Edits
<1>6. ~(age2[k] <= mark) /\ \A l \in Askers : l # k => ~(age2[k] <= age2[l])
  BY <1>1, <1>3 DEF Ages
<1>7. Dear(y, age2, mark) = Dear(x, age, mark) BY <1>3, <1>6 DEF Dear
<1>8. Costs(o, w, y, age2, mark) BY <1>5, <1>7 DEF Held, Costs
<1>9. Levels(gr, y, lev, w)
  <2>1. \A l \in Edits(y) : l \in Edits(x) /\ y[l] = x[l] BY <1>5 DEF Edits
  <2> QED BY <1>1, <2>1 DEF Levels
<1>10. ASSUME NEW l \in Askers, y[l].pc = "sum" /\ age2[l] > mark
       PROVE  o + Cardinality(Ahead(y, age2, l)) <= y[l].own + Askers1 - 1
  <2>1. CASE l = k
    <3>1. Ahead(y, age2, k) \in SUBSET (Askers \ {k}) /\ Cardinality(Ahead(y, age2, k)) \in Nat
      BY Sorts
    <3>2. Cardinality(Askers \ {k}) = Askers1 - 1
      <4>1. Askers \in SUBSET Askers OBVIOUS
      <4> QED BY <4>1, AskersFinite DEF Askers1
    <3>3. Cardinality(Ahead(y, age2, k)) <= Askers1 - 1
      <4>1. Ahead(y, age2, k) \in SUBSET Askers /\ (Askers \ {k}) \in SUBSET Askers
            /\ Ahead(y, age2, k) \subseteq Askers \ {k}
        BY <3>1
      <4> QED BY <3>2, <4>1, AskersFinite
    <3> QED BY <2>1, <3>1, <3>3, AskersFinite
  <2>2. CASE l # k
    <3>1. Ahead(y, age2, l) = Ahead(x, age, l) BY <1>3, <1>6, <2>2 DEF Ahead
    <3>2. y[l] = x[l] /\ age[l] > mark BY <1>3, <1>10, <2>2
    <3> QED BY <1>10, <3>1, <3>2 DEF Held, Sees
  <2> QED BY <2>1, <2>2
<1> QED BY <1>4, <1>8, <1>9, <1>10 DEF Held, Sees

\* Who was ahead of the others stays ahead of them, where they still count.
LEMMA AheadKept ==
    ASSUME NEW o \in Nat, NEW x, NEW age, NEW top, NEW mark, Ages(age, top, mark),
           Sees(o, x, age, mark),
           NEW k \in Askers, NEW y, \A l \in Askers : l # k => y[l] = x[l],
           x[k].pc = "sum", y[k].pc = "insert",
           NEW m \in Nat, mark <= m, age[k] <= m
    PROVE  Sees(o, y, age, m)
<1> SUFFICES ASSUME NEW l \in Askers, y[l].pc = "sum" /\ age[l] > m
             PROVE  o + Cardinality(Ahead(y, age, l)) <= y[l].own + Askers1 - 1
  BY DEF Sees
<1>1. l # k /\ y[l] = x[l] OBVIOUS
<1>2. mark \in Nat /\ age[l] \in Nat /\ age[k] \in Nat BY DEF Ages
<1>3. age[l] > mark /\ age[k] <= age[l] BY <1>2
<1>4. o + Cardinality(Ahead(x, age, l)) <= x[l].own + Askers1 - 1 BY <1>1, <1>3 DEF Sees
<1>5. Ahead(y, age, l) \subseteq Ahead(x, age, l) BY <1>1, <1>3 DEF Ahead
<1>6. /\ Cardinality(Ahead(x, age, l)) \in Nat /\ Cardinality(Ahead(y, age, l)) \in Nat
      /\ Ahead(x, age, l) \in SUBSET Askers /\ Ahead(y, age, l) \in SUBSET Askers
  BY Sorts
<1>7. Cardinality(Ahead(y, age, l)) <= Cardinality(Ahead(x, age, l)) BY <1>5, <1>6, AskersFinite
<1>8. PICK a \in Nat, b \in Nat :
        a = o + Cardinality(Ahead(y, age, l)) /\ b = o + Cardinality(Ahead(x, age, l)) /\ a <= b
  BY <1>6, <1>7
<1>9. PICK n : n = x[l].own + Askers1 - 1 OBVIOUS
<1> QED BY <1>1, <1>4, <1>8, <1>9

\* A request that counted too long ago has been paid for.
LEMMA PassesLate ==
    ASSUME NEW o \in Nat, NEW gr, NEW x, NEW lev, NEW w, NEW age, NEW top, NEW mark,
           Held(o, gr, x, lev, w, age, top, mark),
           NEW k \in Askers, NEW y, \A l \in Askers : l # k => y[l] = x[l],
           x[k].pc = "sum", age[k] <= mark, y[k].pc = "insert", y[k].who \in Clients,
           y[k].next \in Grants,
           y[k].kind \in {"instance", "client", "edit"}
    PROVE  \E lev2, w2 : Held(o, gr, y, lev2, w2, age, top, mark)
<1>1. Levels(gr, x, lev, w) /\ Ages(age, top, mark) BY DEF Held
<1>2. Sees(o, y, age, mark)
  <2>1. mark \in Nat /\ mark <= mark /\ Sees(o, x, age, mark) BY <1>1 DEF Ages, Held
  <2> QED BY <1>1, <2>1, AheadKept
<1>3. k \in Dear(x, age, mark) /\ k \notin Inst(x) /\ k \notin Edits(x) BY DEF Dear, Inst, Edits
<1>4. /\ Cardinality(Inst(x)) \in Nat /\ Cardinality(Dear(x, age, mark)) \in Nat
      /\ Cardinality(Inst(y)) \in Nat /\ Cardinality(Dear(y, age, mark)) \in Nat
      /\ Inst(x) \in SUBSET Askers /\ Dear(x, age, mark) \in SUBSET Askers
      /\ Inst(y) \in SUBSET Askers /\ Dear(y, age, mark) \in SUBSET Askers
  BY Sorts
<1>5. PICK d \in Nat : d = MaxGrant * Cardinality(Dear(x, age, mark)) BY <1>4, GrantsAre
<1>6. o + w + Cardinality(Inst(x)) + d <= Most BY <1>5 DEF Held, Costs
<1>7. MaxGrant \in Nat /\ MaxGrant # 0 /\ Most \in Int BY GrantsAre, AskersFinite DEF Most
<1>8. w \in Nat BY <1>1 DEF Levels
<1>9. ASSUME y[k].kind # "client"
      PROVE  MaxGrant * Cardinality(Dear(y, age, mark)) + MaxGrant = d
  <2>1. Dear(y, age, mark) = Dear(x, age, mark) \ {k} BY <1>9 DEF Dear
  <2>2. PICK n \in Nat : n = Cardinality(Dear(y, age, mark)) BY <1>4
  <2>3. Cardinality(Dear(x, age, mark)) = n + 1 BY <1>3, <1>4, <2>1, <2>2, AskersFinite
  <2> QED BY <1>5, <2>2, <2>3, OneGrantMore
<1>10. CASE y[k].kind = "instance"
  <2>1. Inst(y) = Inst(x) \cup {k} /\ Edits(y) = Edits(x) BY <1>10 DEF Inst, Edits
  <2>2. Cardinality(Inst(y)) = Cardinality(Inst(x)) + 1 BY <1>3, <1>4, <2>1, AskersFinite
  <2>3. MaxGrant * Cardinality(Dear(y, age, mark)) + MaxGrant = d BY <1>9, <1>10
  <2>4. PICK e \in Nat : e = MaxGrant * Cardinality(Dear(y, age, mark)) BY <1>4, GrantsAre
  <2>5. Costs(o, w, y, age, mark)
    BY <1>4, <1>6, <1>7, <1>8, <2>2, <2>3, <2>4 DEF Costs
  <2>6. Levels(gr, y, lev, w)
    <3>1. \A l \in Edits(y) : l \in Edits(x) /\ y[l] = x[l] BY <1>3, <2>1 DEF Edits
    <3> QED BY <1>1, <3>1 DEF Levels
  <2> QED BY <1>1, <1>2, <2>5, <2>6 DEF Held
<1>11. CASE y[k].kind = "client"
  <2>1. Inst(y) = Inst(x) /\ Edits(y) = Edits(x) BY <1>11 DEF Inst, Edits
  <2>2. Dear(y, age, mark) \subseteq Dear(x, age, mark) BY <1>3 DEF Dear
  <2>3. Cardinality(Dear(y, age, mark)) <= Cardinality(Dear(x, age, mark))
    BY <1>4, <2>2, AskersFinite
  <2>4. MaxGrant * Cardinality(Dear(y, age, mark)) <= d
    <3>1. MaxGrant * Cardinality(Dear(y, age, mark)) + MaxGrant * 0 <= d
      BY <1>4, <1>5, <2>3, FewerGrants
    <3>2. MaxGrant * Cardinality(Dear(y, age, mark)) \in Nat BY <1>4, GrantsAre
    <3>3. MaxGrant * 0 = 0 BY <1>7
    <3> QED BY <3>1, <3>2, <3>3
  <2>5. PICK e \in Nat : e = MaxGrant * Cardinality(Dear(y, age, mark)) BY <1>4, GrantsAre
  <2>6. Costs(o, w, y, age, mark) BY <1>4, <1>6, <1>7, <1>8, <2>1, <2>4, <2>5 DEF Costs
  <2>7. Levels(gr, y, lev, w)
    <3>1. \A l \in Edits(y) : l \in Edits(x) /\ y[l] = x[l] BY <1>3, <2>1 DEF Edits
    <3> QED BY <1>1, <3>1 DEF Levels
  <2> QED BY <1>1, <1>2, <2>6, <2>7 DEF Held
<1>12. CASE y[k].kind = "edit"
  <2>1. Inst(y) = Inst(x) /\ Edits(y) = Edits(x) \cup {k} BY <1>12 DEF Inst, Edits
  <2>2. PICK c \in Clients : c = y[k].who OBVIOUS
  <2>3. PICK lev2 \in [Clients -> Nat] : lev2 = [lev EXCEPT ![c] = MaxGrant]
    BY <1>1, <1>7 DEF Levels
  <2>4. lev2[c] = MaxGrant /\ \A b \in Clients : b # c => lev2[b] = lev[b] BY <1>1, <2>3 DEF Levels
  <2>5. lev \in [Clients -> Nat] /\ SumIs(lev, Clients, w) BY <1>1 DEF Levels
  <2>6. PICK w2 \in Nat : SumIs(lev2, Clients, w2) /\ w2 + lev[c] = w + lev2[c]
    BY <1>8, <2>4, <2>5, ClientsFinite, SumRaised
  <2>7. w2 <= w + MaxGrant BY <1>7, <1>8, <2>4, <2>5, <2>6
  <2>8. MaxGrant * Cardinality(Dear(y, age, mark)) + MaxGrant = d BY <1>9, <1>12
  <2>9. PICK e \in Nat : e = MaxGrant * Cardinality(Dear(y, age, mark)) BY <1>4, GrantsAre
  <2>10. Costs(o, w2, y, age, mark)
    BY <1>4, <1>6, <1>7, <1>8, <2>1, <2>7, <2>8, <2>9 DEF Costs
  <2>11. Levels(gr, y, lev2, w2)
    <3>1. \A b \in Clients : lev2[b] <= MaxGrant /\ lev[b] <= lev2[b]
      BY <1>1, <1>7, <2>4, <2>5 DEF Levels
    <3>2. \A b \in Clients : gr[b] = NoGrant \/ gr[b] <= lev2[b]
      <4>1. ASSUME NEW b \in Clients PROVE gr[b] = NoGrant \/ gr[b] <= lev2[b]
        <5>1. gr[b] = NoGrant \/ gr[b] <= lev[b] BY <1>1 DEF Levels
        <5>2. lev[b] <= lev2[b] /\ lev[b] \in Nat /\ lev2[b] \in Nat BY <3>1, <2>5
        <5>3. gr[b] \in Nat \cup {NoGrant} BY <1>1, GrantsAre DEF Levels
        <5> QED BY <5>1, <5>2, <5>3
      <4> QED BY <4>1
    <3>3. ASSUME NEW l \in Edits(y)
          PROVE  y[l].who \in Clients /\ y[l].next \in Grants /\ y[l].next <= lev2[y[l].who]
      <4>1. CASE l = k
        <5>1. y[k].next \in Nat /\ y[k].next <= MaxGrant BY <1>7 DEF Grants
        <5> QED BY <2>2, <2>4, <4>1, <5>1
      <4>2. CASE l # k
        <5>1. l \in Edits(x) /\ y[l] = x[l] BY <2>1, <4>2 DEF Edits
        <5>2. x[l].who \in Clients /\ x[l].next \in Grants /\ x[l].next <= lev[x[l].who]
          BY <1>1, <5>1 DEF Levels
        <5>3. x[l].next \in Nat BY <5>2, GrantsAre
        <5>4. lev[x[l].who] \in Nat /\ lev2[x[l].who] \in Nat
              /\ lev[x[l].who] <= lev2[x[l].who]
          BY <2>5, <3>1, <5>2
        <5> QED BY <5>1, <5>2, <5>3, <5>4
      <4> QED BY <4>1, <4>2
    <3>4. gr \in [Clients -> Grants \cup {NoGrant}] BY <1>1 DEF Levels
    <3> QED BY <2>6, <3>1, <3>2, <3>3, <3>4 DEF Levels
  <2> QED BY <1>1, <1>2, <2>10, <2>11 DEF Held
<1> QED BY <1>10, <1>11, <1>12

\* A request that counted after the last that was let through: what it has not
\* seen are instances of those ahead of it, and the clients that edits hold.
LEMMA PassesInTime ==
    ASSUME own \in Nat, grant \in [Clients -> Grants \cup {NoGrant}],
           NEW x, NEW lev, NEW w, NEW age, NEW top, NEW mark,
           Held(own, grant, x, lev, w, age, top, mark),
           NEW k \in Askers, NEW y, \A l \in Askers : l # k => y[l] = x[l],
           x[k].pc = "sum", age[k] > mark, y[k].pc = "insert",
           x[k].own \in Nat, y[k].ask \in Nat, y[k].who \in Clients, y[k].next \in Grants,
           \/ y[k].kind = "instance" /\ y[k].ask = 1
           \/ y[k].kind = "client"
           \/ y[k].kind = "edit" /\ y[k].ask # 0,
           x[k].own + Allocated + y[k].ask <= Total
    PROVE  \E lev2, w2, mark2 : Held(own, grant, y, lev2, w2, age, top, mark2)
<1>1. Levels(grant, x, lev, w) /\ Ages(age, top, mark) /\ Sees(own, x, age, mark) BY DEF Held
<1>2. PICK m \in Nat : m = age[k] BY <1>1 DEF Ages
<1>3. mark \in Nat /\ mark <= m /\ m <= top /\ age[k] <= m BY <1>1, <1>2 DEF Ages
<1>4. Ages(age, top, m) BY <1>1, <1>3 DEF Ages
<1>5. Sees(own, y, age, m) BY <1>1, <1>3, AheadKept
<1> DEFINE X == Inst(x)
           D == {l \in Askers \ {k} : \/ x[l].pc = "insert" /\ x[l].kind = "client" /\ x[l].ask # 0
                                      \/ x[l].pc = "sum" /\ age[l] <= m}
           E == Edits(y)
<1>6. k \notin X /\ k \notin Edits(x) /\ k \notin D BY DEF Inst, Edits
<1>7. D \in SUBSET Askers /\ X \in SUBSET Askers /\ E \in SUBSET Askers /\ Edits(x) \in SUBSET Askers
  BY Sorts
<1>8. PICK a \in Nat, d \in Nat, e \in Nat :
        a = Cardinality(X) /\ d = Cardinality(D) /\ e = Cardinality(E)
  BY <1>7, AskersFinite
<1>9. own + a <= x[k].own + Askers1 - 1
  <2>1. own + Cardinality(Ahead(x, age, k)) <= x[k].own + Askers1 - 1 BY <1>1 DEF Sees
  <2>2. X \subseteq Ahead(x, age, k) /\ Ahead(x, age, k) \in SUBSET Askers
    BY <1>6, Sorts DEF Inst, Ahead
  <2>3. a <= Cardinality(Ahead(x, age, k)) /\ Cardinality(Ahead(x, age, k)) \in Nat
    BY <1>7, <1>8, <2>2, AskersFinite
  <2> QED BY <1>8, <2>1, <2>3, AskersFinite
<1>10. PICK lev2 \in [Clients -> Nat], w2 \in Nat :
         /\ SumIs(lev2, Clients, w2) /\ w2 <= Allocated + MaxGrant * e
         /\ \A c \in Clients : Worth[c] <= lev2[c] /\ lev2[c] <= MaxGrant
         /\ \A l \in E : lev2[y[l].who] = MaxGrant
  <2>1. Worth \in [Clients -> Nat] /\ \A c \in Clients : Worth[c] <= MaxGrant BY WorthType
  <2>2. SumIs(Worth, Clients, Allocated) BY AllocatedIs
  <2>3. Allocated \in Nat
    <3>1. \A c \in Clients : Worth[c] <= Worth[c] BY <2>1
    <3> QED BY <2>1, <2>2, <3>1, ClientsFinite, SumMonotone
  <2>4. \A l \in E : y[l].who \in Clients BY <1>1 DEF Edits, Levels
  <2>5. PICK to : to = [l \in Askers |-> y[l].who] OBVIOUS
  <2>6. \A l \in E : to[l] = y[l].who /\ to[l] \in Clients BY <1>7, <2>4, <2>5
  <2>7. \E f \in [Clients -> Nat], r \in Nat :
             /\ SumIs(f, Clients, r) /\ r <= Allocated + MaxGrant * Cardinality(E)
             /\ \A c \in Clients : Worth[c] <= f[c] /\ f[c] <= MaxGrant
             /\ \A l \in E : f[to[l]] = MaxGrant
    <3> HIDE DEF E
    <3> QED BY <1>7, <2>1, <2>2, <2>3, <2>6, Lifted
  <2> HIDE DEF E
  <2> QED BY <1>8, <2>6, <2>7
<1>11. Allocated \in Nat
  <2>1. Worth \in [Clients -> Nat] BY WorthType
  <2>2. SumIs(Worth, Clients, Allocated) BY AllocatedIs
  <2>3. \A c \in Clients : Worth[c] <= Worth[c] BY <2>1
  <2> QED BY <2>1, <2>2, <2>3, ClientsFinite, SumMonotone
<1>12. Levels(grant, y, lev2, w2)
  <2>1. ASSUME NEW c \in Clients PROVE grant[c] = NoGrant \/ grant[c] <= lev2[c]
    <3>1. Worth[c] <= lev2[c] BY <1>10
    <3>2. Worth[c] = IF grant[c] = NoGrant THEN 0 ELSE grant[c] BY DEF Worth, Granted
    <3> QED BY <3>1, <3>2
  <2>2. ASSUME NEW l \in Edits(y)
        PROVE  y[l].who \in Clients /\ y[l].next \in Grants /\ y[l].next <= lev2[y[l].who]
    <3>1. y[l].who \in Clients /\ y[l].next \in Grants
      <4>1. CASE l = k BY <4>1
      <4>2. CASE l # k
        <5>1. l \in Edits(x) /\ y[l] = x[l] BY <4>2 DEF Edits
        <5> QED BY <1>1, <5>1 DEF Levels
      <4> QED BY <4>1, <4>2
    <3>2. y[l].next <= MaxGrant BY <3>1, GrantsAre DEF Grants
    <3>3. lev2[y[l].who] = MaxGrant BY <1>10
    <3> QED BY <3>1, <3>2, <3>3
  <2> QED BY <1>10, <2>1, <2>2 DEF Levels
<1>13. MaxGrant \in Nat /\ MaxGrant # 0 /\ Total \in Nat /\ Askers1 \in Nat /\ Askers1 # 0
  BY GrantsAre, AskersFinite
<1>14. PICK p \in Nat : p = MaxGrant * Askers1 BY <1>13, GrantsAre
<1>15. Most = Total + p + Askers1 - 2
  <2>1. Askers1 * (MaxGrant + 1) = MaxGrant * Askers1 + Askers1 BY <1>13, Z3
  <2> QED BY <1>13, <1>14, <2>1 DEF Most
<1>16. PICK f \in Nat : f = MaxGrant * e BY GrantsAre
<1>17. PICK g \in Nat : g = MaxGrant * Cardinality(Dear(y, age, m)) BY Sorts, GrantsAre
<1>18. PICK i \in Nat : i = Cardinality(Inst(y)) BY Sorts
<1>19. own + w2 + i + g <= Most
  <2>1. own + Allocated + a + y[k].ask <= Total + Askers1 - 1 BY <1>8, <1>9, <1>11, <1>13
  <2>2. w2 <= Allocated + f BY <1>10, <1>16
  \* None of those that wait for the insertion of a client or of an edit is k.
  <2>3. ASSUME NEW A \in SUBSET Askers, NEW B \in SUBSET Askers, A \cap B = {},
               k \notin A, k \notin B
        PROVE  Cardinality(A) + Cardinality(B) <= Askers1 - 1
    <3>1. A \cup B \in SUBSET Askers /\ k \notin A \cup B BY <2>3
    <3>2. Cardinality(A \cup B) = Cardinality(A) + Cardinality(B) BY <2>3, AskersFinite
    <3>3. Cardinality((A \cup B) \cup {k}) = Cardinality(A \cup B) + 1 BY <3>1, AskersFinite
    <3>4. (A \cup B) \cup {k} \in SUBSET Askers BY <3>1
    <3>5. Cardinality((A \cup B) \cup {k}) <= Askers1 BY <3>4, AskersFinite
    <3>6. Cardinality(A) \in Nat /\ Cardinality(B) \in Nat BY AskersFinite
    <3> QED BY <1>13, <3>2, <3>3, <3>5, <3>6
  <2>4. D \cap Edits(x) = {} BY DEF Edits
  <2>5. Cardinality(D) + Cardinality(Edits(x)) <= Askers1 - 1
    <3> HIDE DEF D
    <3> QED BY <1>6, <1>7, <2>3, <2>4
  <2>6. CASE y[k].kind = "instance"
    <3>1. Inst(y) = X \cup {k} /\ E = Edits(x) /\ Dear(y, age, m) = D
      BY <2>6 DEF Inst, Edits, Dear
    <3>2. i = a + 1 BY <1>6, <1>7, <1>8, <1>18, <3>1, AskersFinite
    <3>3. d + e <= Askers1 - 1 BY <1>8, <2>5, <3>1
    <3>4. d + e + 1 <= Askers1 BY <1>13, <3>3
    <3>5. g + f + MaxGrant <= p
      <4>1. MaxGrant * d + MaxGrant * (e + 1) <= MaxGrant * Askers1
        BY <1>8, <1>13, <3>4, FewerGrants
      <4>2. MaxGrant * (e + 1) = f + MaxGrant BY <1>16, OneGrantMore
      <4>3. g = MaxGrant * d BY <1>8, <1>17, <3>1
      <4> QED BY <1>13, <1>14, <4>1, <4>2, <4>3
    <3>6. y[k].ask = 1 BY <2>6
    <3> QED BY <1>8, <1>11, <1>13, <1>15, <2>1, <2>2, <3>2, <3>5, <3>6
  <2>7. CASE y[k].kind = "client"
    <3>1. Inst(y) = X /\ E = Edits(x) BY <1>6, <2>7 DEF Inst, Edits
    <3>2. d + e + 1 <= Askers1 BY <1>8, <1>13, <2>5, <3>1
    <3>3. CASE y[k].ask = 0
      <4>1. Dear(y, age, m) = D BY <2>7, <3>3 DEF Dear
      <4>2. g + f + MaxGrant <= p
        <5>1. MaxGrant * d + MaxGrant * (e + 1) <= MaxGrant * Askers1
          BY <1>8, <1>13, <3>2, FewerGrants
        <5>2. MaxGrant * (e + 1) = f + MaxGrant BY <1>16, OneGrantMore
        <5>3. g = MaxGrant * d BY <1>8, <1>17, <4>1
        <5> QED BY <1>13, <1>14, <5>1, <5>2, <5>3
      <4> QED BY <1>8, <1>11, <1>13, <1>15, <1>18, <2>1, <2>2, <3>1, <3>3, <4>2
    <3>4. CASE y[k].ask # 0
      <4>1. Dear(y, age, m) = D \cup {k} BY <2>7, <3>4 DEF Dear
      <4>2. Cardinality(Dear(y, age, m)) = d + 1 BY <1>6, <1>7, <1>8, <4>1, AskersFinite
      <4>3. g + f <= p
        <5>1. MaxGrant * (d + 1) + MaxGrant * e <= MaxGrant * Askers1
          BY <1>8, <1>13, <3>2, FewerGrants
        <5>2. g = MaxGrant * (d + 1) BY <1>17, <4>2
        <5>3. g \in Nat /\ f \in Nat /\ p \in Nat BY <1>14, <1>16, <1>17
        <5> QED BY <1>14, <1>16, <5>1, <5>2, <5>3
      <4>4. PICK q \in Nat : q = y[k].ask OBVIOUS
      <4>5. PICK al \in Nat : al = Allocated BY <1>11
      <4>6. i = a /\ q # 0 BY <1>8, <1>18, <3>1, <3>4, <4>4
      <4>7. own + al + a + q <= Total + Askers1 - 1 /\ w2 <= al + f BY <2>1, <2>2, <4>4, <4>5
      <4>8. own + w2 + i + g <= Total + p + Askers1 - 2 BY <1>13, <4>3, <4>6, <4>7
      <4> QED BY <1>15, <4>8
    <3> QED BY <3>3, <3>4
  <2>8. CASE y[k].kind = "edit"
    <3>1. Inst(y) = X /\ E = Edits(x) \cup {k} /\ Dear(y, age, m) = D
      BY <1>6, <2>8 DEF Inst, Edits, Dear
    <3>2. e = Cardinality(Edits(x)) + 1 BY <1>6, <1>7, <1>8, <3>1, AskersFinite
    <3>3. d + e <= Askers1
      <4>1. Cardinality(Edits(x)) \in Nat BY Sorts
      <4> QED BY <1>8, <1>13, <2>5, <3>2, <4>1
    <3>4. g + f <= p
      <4>1. MaxGrant * d + MaxGrant * e <= MaxGrant * Askers1 BY <1>8, <1>13, <3>3, FewerGrants
      <4> QED BY <1>8, <1>14, <1>16, <1>17, <3>1, <4>1
    <3>5. y[k].ask # 0 BY <2>8
    <3> QED BY <1>8, <1>11, <1>13, <1>15, <1>18, <2>1, <2>2, <3>1, <3>4, <3>5
  <2> QED BY <2>6, <2>7, <2>8
<1>20. Costs(own, w2, y, age, m) BY <1>17, <1>18, <1>19 DEF Costs
<1> QED BY <1>4, <1>5, <1>12, <1>20 DEF Held

\* Rows of requests with another step.
LEMMA AskRowNext ==
    ASSUME NEW q \in AskRow, NEW n \in Nat
    PROVE  /\ [q EXCEPT !.pc = "insert"] \in AskRow
           /\ [q EXCEPT !.pc = "insert"].pc = "insert"
           /\ [q EXCEPT !.pc = "insert"].kind = q.kind /\ [q EXCEPT !.pc = "insert"].who = q.who
           /\ [q EXCEPT !.pc = "insert"].ask = q.ask /\ [q EXCEPT !.pc = "insert"].next = q.next
           /\ [q EXCEPT !.pc = "sum", !.own = n] \in AskRow
           /\ [q EXCEPT !.pc = "sum", !.own = n].pc = "sum"
           /\ [q EXCEPT !.pc = "sum", !.own = n].kind = q.kind
           /\ [q EXCEPT !.pc = "sum", !.own = n].ask = q.ask
           /\ [q EXCEPT !.pc = "sum", !.own = n].next = q.next
           /\ [q EXCEPT !.pc = "sum", !.own = n].own = n
<1>1. ASSUME NEW S, NEW K, NEW C, NEW G, NEW a \in S, NEW b \in S,
             NEW r \in [pc : S, kind : K, who : C, ask : Nat, next : G, own : Nat]
      PROVE  /\ [r EXCEPT !.pc = a] \in [pc : S, kind : K, who : C, ask : Nat, next : G, own : Nat]
             /\ [r EXCEPT !.pc = a].pc = a
             /\ [r EXCEPT !.pc = a].kind = r.kind /\ [r EXCEPT !.pc = a].who = r.who
             /\ [r EXCEPT !.pc = a].ask = r.ask /\ [r EXCEPT !.pc = a].next = r.next
             /\ [r EXCEPT !.pc = b, !.own = n]
                  \in [pc : S, kind : K, who : C, ask : Nat, next : G, own : Nat]
             /\ [r EXCEPT !.pc = b, !.own = n].pc = b
             /\ [r EXCEPT !.pc = b, !.own = n].kind = r.kind
             /\ [r EXCEPT !.pc = b, !.own = n].ask = r.ask
             /\ [r EXCEPT !.pc = b, !.own = n].next = r.next
             /\ [r EXCEPT !.pc = b, !.own = n].own = n
  OBVIOUS
<1> QED BY <1>1 DEF AskRow

LEMMA QuietIsRow == Quiet \in AskRow /\ Quiet.pc = "idle" /\ RowOK(Quiet)
<1>1. (CHOOSE c \in Clients : TRUE) \in Clients BY QuotaAssumption
<1>2. 0 \in Grants BY GrantsAre DEF Grants
<1> QED BY <1>1, <1>2 DEF Quiet, AskRow, Kind, RowOK

\* A request that ends, counts or is about to edit within what the client has.
LEMMA RowMoves ==
    ASSUME QuotaInv, NEW k \in Askers, NEW r \in AskRow, RowOK(r),
           asker' = [asker EXCEPT ![k] = r], UNCHANGED <<own, grant>>,
           r.pc # "sum",
           r.pc = "insert" => /\ r.kind = "edit" /\ grant[r.who] # NoGrant
                              /\ r.next <= grant[r.who]
    PROVE  QuotaInv'
<1>1. PICK y : y = asker' OBVIOUS
<1>2. /\ DOMAIN y = Askers /\ y \in [Askers -> AskRow] /\ \A l \in Askers : RowOK(y[l])
      /\ y[k] = r /\ \A l \in Askers : l # k => y[l] = asker[l]
  <2>0. asker \in [Askers -> AskRow] /\ \A l \in Askers : RowOK(asker[l]) BY DEF QuotaInv
  <2>1. y = [asker EXCEPT ![k] = r] BY <1>1
  <2>2. y[k] = r /\ \A l \in Askers : l # k => y[l] = asker[l] BY <2>0, <2>1
  <2>3. DOMAIN y = Askers /\ y \in [Askers -> AskRow] BY <2>0, <2>1
  <2> QED BY <2>0, <2>2, <2>3
<1>3. PICK lev, w, age, top, mark : Held(own, grant, asker, lev, w, age, top, mark) BY DEF QuotaInv
<1>4. Levels(grant, asker, lev, w) BY <1>3 DEF Held
<1>5. r.who \in Clients /\ r.next \in Grants BY DEF AskRow
<1>6. Levels(grant, y, lev, w)
  <2>1. ASSUME NEW l \in Edits(y)
        PROVE  y[l].who \in Clients /\ y[l].next \in Grants /\ y[l].next <= lev[y[l].who]
    <3>1. CASE l = k
      <4>1. r.pc = "insert" BY <1>2, <2>1, <3>1 DEF Edits
      <4>2. PICK d \in Clients : d = r.who BY <1>5
      <4>3. grant[d] # NoGrant /\ r.next <= grant[d] BY <4>1, <4>2
      <4>4. grant[d] <= lev[d] /\ lev[d] \in Nat /\ grant[d] \in Grants BY <1>4, <4>3 DEF Levels
      <4>5. r.next \in Nat /\ grant[d] \in Nat BY <1>5, <4>4, GrantsAre
      <4>6. r.next <= lev[d] BY <4>3, <4>4, <4>5
      <4> QED BY <1>2, <1>5, <3>1, <4>2, <4>6
    <3>2. CASE l # k
      <4>1. l \in Edits(asker) /\ y[l] = asker[l] BY <1>2, <3>2 DEF Edits
      <4> QED BY <1>4, <4>1 DEF Levels
    <3> QED BY <3>1, <3>2
  <2> QED BY <1>4, <2>1 DEF Levels
<1>7. own \in Nat /\ w \in Nat BY <1>4 DEF QuotaInv, Levels
<1>8. own <= own /\ own + w <= own + w BY <1>7
<1>9. y[k].pc # "sum" /\ (y[k].pc = "insert" => y[k].kind = "edit") BY <1>2
<1>10. Held(own, grant, y, lev, w, age, top, mark)
  BY <1>2, <1>3, <1>6, <1>7, <1>8, <1>9, Leaves
<1>11. own' \in Nat /\ grant' \in [Clients -> Grants \cup {NoGrant}]
       /\ Held(own', grant', asker', lev, w, age, top, mark)
  BY <1>1, <1>7, <1>10 DEF QuotaInv
<1> QED BY <1>1, <1>2, <1>11 DEF QuotaInv

LEMMA AsksKeeps ==
    ASSUME QuotaInv, NEW k \in Askers, UNCHANGED <<own, grant>>,
           NEW kind \in Kind, NEW c \in Clients, NEW a \in Nat, NEW q \in Grants,
           Asks(k, kind, c, a, q),
           kind = "instance" => a = 1, kind = "client" => a = q,
           kind = "edit" /\ a = 0 => grant[c] # NoGrant /\ q <= grant[c]
    PROVE  QuotaInv'
<1>1. PICK r : r = [pc |-> IF kind = "edit" /\ a = 0 THEN "insert" ELSE "count",
                    kind |-> kind, who |-> c, ask |-> a, next |-> q, own |-> 0]
  OBVIOUS
<1>2. asker' = [asker EXCEPT ![k] = r] BY <1>1 DEF Asks
<1>3. r.pc \in {"insert", "count"} /\ r.kind = kind /\ r.who = c /\ r.ask = a /\ r.next = q
      /\ (r.pc = "insert" <=> (kind = "edit" /\ a = 0))
  BY <1>1
<1>4. r \in AskRow BY <1>1, <1>3 DEF AskRow
<1>5. RowOK(r) BY <1>3, <1>4 DEF RowOK
<1>6. /\ r.pc # "sum"
      /\ r.pc = "insert" => r.kind = "edit" /\ grant[r.who] # NoGrant /\ r.next <= grant[r.who]
  BY <1>3
<1> QED BY <1>2, <1>4, <1>5, <1>6, RowMoves

LEMMA AskKeeps ==
    ASSUME QuotaInv, NEW k \in Askers,
           AskInstance(k) \/ AskV1Instance(k) \/ AskClient(k) \/ AskEdit(k)
    PROVE  QuotaInv'
<1>1. CASE AskInstance(k) \/ AskV1Instance(k)
  <2>1. Asks(k, "instance", Quiet.who, 1, 0) /\ UNCHANGED <<own, grant>>
    BY <1>1 DEF AskInstance, AskV1Instance
  <2>2. Quiet.who \in Clients /\ 0 \in Grants BY QuietIsRow, GrantsAre DEF AskRow, Grants
  <2>3. "instance" \in Kind /\ 1 \in Nat BY DEF Kind
  <2>4. PICK d \in Clients : d = Quiet.who BY <2>2
  <2>5. Asks(k, "instance", d, 1, 0) BY <2>1, <2>4
  <2> QED BY <2>1, <2>2, <2>3, <2>5, AsksKeeps
<1>2. CASE AskClient(k)
  <2>1. PICK c \in Clients, q \in Grants : Asks(k, "client", c, q, q)
    BY <1>2 DEF AskClient
  <2>2. UNCHANGED <<own, grant>> BY <1>2 DEF AskClient
  <2>3. "client" \in Kind /\ q \in Nat BY GrantsAre DEF Kind
  <2> QED BY <2>1, <2>2, <2>3, AsksKeeps
<1>3. CASE AskEdit(k)
  <2>1. PICK c \in Clients, q \in Grants :
          grant[c] # NoGrant /\ Asks(k, "edit", c, IF q > grant[c] THEN q - grant[c] ELSE 0, q)
    BY <1>3 DEF AskEdit
  <2>2. UNCHANGED <<own, grant>> BY <1>3 DEF AskEdit
  <2>3. q \in Nat /\ grant[c] \in Nat BY <2>1, GrantsAre DEF QuotaInv
  <2>4. PICK a : a = IF q > grant[c] THEN q - grant[c] ELSE 0 OBVIOUS
  <2>5. a \in Nat /\ (a = 0 => q <= grant[c])
    <3>1. CASE q > grant[c] BY <2>3, <2>4, <3>1
    <3>2. CASE ~(q > grant[c]) BY <2>3, <2>4, <3>2
    <3> QED BY <3>1, <3>2
  <2>6. Asks(k, "edit", c, a, q) /\ "edit" \in Kind BY <2>1, <2>4 DEF Kind
  <2> QED BY <2>1, <2>2, <2>5, <2>6, AsksKeeps
<1> QED BY <1>1, <1>2, <1>3

LEMMA AnsweredKeeps ==
    ASSUME QuotaInv, NEW k \in Askers, Answered(k), UNCHANGED <<own, grant>>
    PROVE  QuotaInv'
<1>1. asker' = [asker EXCEPT ![k] = Quiet] BY DEF Answered
<1> QED BY <1>1, QuietIsRow, RowMoves

LEMMA CountKeeps == ASSUME QuotaInv, NEW k \in Askers, CountOwn(k) PROVE QuotaInv'
<1>1. PICK q \in AskRow : q = asker[k] BY DEF QuotaInv
<1>2. PICK n \in Nat : n = own BY DEF QuotaInv
<1>3. q.pc = "count" /\ RowOK(q) BY <1>1 DEF CountOwn, QuotaInv
<1>4. PICK r : r = [q EXCEPT !.pc = "sum", !.own = n] OBVIOUS
<1>5. /\ r \in AskRow /\ r.pc = "sum" /\ r.kind = q.kind /\ r.ask = q.ask /\ r.next = q.next
      /\ r.own = n
  BY <1>4, AskRowNext
<1>6. RowOK(r) BY <1>3, <1>5 DEF RowOK
<1>7. asker' = [asker EXCEPT ![k] = r] BY <1>1, <1>2, <1>4 DEF CountOwn, QuotaInv
<1>8. PICK y : y = asker' OBVIOUS
<1>9. /\ DOMAIN y = Askers /\ y \in [Askers -> AskRow] /\ \A l \in Askers : RowOK(y[l])
      /\ y[k] = r /\ \A l \in Askers : l # k => y[l] = asker[l]
  <2>0. asker \in [Askers -> AskRow] /\ \A l \in Askers : RowOK(asker[l]) BY DEF QuotaInv
  <2>1. y = [asker EXCEPT ![k] = r] BY <1>7, <1>8
  <2>2. y[k] = r /\ \A l \in Askers : l # k => y[l] = asker[l] BY <2>0, <2>1
  <2>3. DOMAIN y = Askers /\ y \in [Askers -> AskRow] BY <2>0, <2>1, <1>5
  <2> QED BY <2>0, <2>2, <2>3, <1>6
<1>10. PICK lev, w, age, top, mark : Held(own, grant, asker, lev, w, age, top, mark) BY DEF QuotaInv
<1>11. own \in Nat /\ asker[k].pc = "count" /\ y[k].pc = "sum" /\ y[k].own = own
  BY <1>1, <1>2, <1>3, <1>5, <1>9
<1>12. PICK age2, top2 : Held(own, grant, y, lev, w, age2, top2, mark)
  BY <1>9, <1>10, <1>11, CountSees
<1>13. own' = own /\ grant' = grant BY DEF CountOwn
<1>14. own' \in Nat /\ grant' \in [Clients -> Grants \cup {NoGrant}]
       /\ Held(own', grant', asker', lev, w, age2, top2, mark)
  BY <1>8, <1>12, <1>13 DEF QuotaInv
<1> QED BY <1>8, <1>9, <1>14 DEF QuotaInv

LEMMA SumKeeps == ASSUME QuotaInv, NEW k \in Askers, SumAllocated(k) PROVE QuotaInv'
<1>1. UNCHANGED <<own, grant>> /\ asker[k].pc = "sum" BY DEF SumAllocated
<1>2. CASE asker[k].own + Allocated + asker[k].ask > Total
  <2>1. Answered(k) BY <1>2 DEF SumAllocated
  <2> QED BY <1>1, <2>1, AnsweredKeeps
<1>3. CASE ~(asker[k].own + Allocated + asker[k].ask > Total)
  <2>1. PICK q \in AskRow : q = asker[k] BY DEF QuotaInv
  <2>2. q.pc = "sum" /\ RowOK(q) BY <1>1, <2>1 DEF QuotaInv
  <2>3. PICK r : r = [q EXCEPT !.pc = "insert"] OBVIOUS
  <2>4. /\ r \in AskRow /\ r.pc = "insert" /\ r.kind = q.kind /\ r.ask = q.ask
        /\ r.next = q.next /\ r.who = q.who
    <3>1. 0 \in Nat OBVIOUS
    <3> QED BY <2>3, <3>1, AskRowNext
  <2>5. q.own \in Nat /\ q.ask \in Nat /\ q.who \in Clients /\ q.next \in Grants /\ q.kind \in Kind
    BY DEF AskRow
  <2>6. q.kind = "client" => q.ask = q.next BY <2>2 DEF RowOK
  <2>7. (q.kind = "instance" => q.ask = 1) /\ (q.kind = "edit" => q.ask # 0) BY <2>2 DEF RowOK
  <2>8. RowOK(r) BY <2>4, <2>6, <2>7 DEF RowOK
  <2>9. asker' = [asker EXCEPT ![k] = r] BY <1>3, <2>1, <2>3 DEF SumAllocated
  <2>10. PICK y : y = asker' OBVIOUS
  <2>11. /\ DOMAIN y = Askers /\ y \in [Askers -> AskRow] /\ \A l \in Askers : RowOK(y[l])
         /\ y[k] = r /\ \A l \in Askers : l # k => y[l] = asker[l]
    <3>1. asker \in [Askers -> AskRow] /\ \A l \in Askers : RowOK(asker[l]) BY DEF QuotaInv
    <3>2. y = [asker EXCEPT ![k] = r] BY <2>9, <2>10
    <3>3. y[k] = r /\ \A l \in Askers : l # k => y[l] = asker[l] BY <3>1, <3>2
    <3>4. DOMAIN y = Askers /\ y \in [Askers -> AskRow] BY <2>4, <3>1, <3>2
    <3> QED BY <2>8, <3>1, <3>3, <3>4
  <2>12. PICK lev, w, age, top, mark : Held(own, grant, asker, lev, w, age, top, mark)
    BY DEF QuotaInv
  <2>13. own \in Nat /\ grant \in [Clients -> Grants \cup {NoGrant}] BY DEF QuotaInv
  <2>14. /\ y[k].pc = "insert" /\ y[k].ask \in Nat /\ y[k].who \in Clients /\ y[k].next \in Grants
         /\ y[k].kind = q.kind /\ y[k].ask = q.ask
    BY <2>4, <2>5, <2>11
  <2>15. age[k] \in Nat /\ mark \in Nat BY <2>12 DEF Held, Ages
  <2>16. \E lev2, w2, mark2 : Held(own, grant, y, lev2, w2, age, top, mark2)
    <3>1. CASE age[k] <= mark
      <4>1. y[k].kind \in {"instance", "client", "edit"} BY <2>5, <2>14 DEF Kind
      <4> QED BY <1>1, <2>11, <2>12, <2>13, <2>14, <3>1, <4>1, PassesLate
    <3>2. CASE age[k] > mark
      <4>1. asker[k].own \in Nat /\ asker[k].own + Allocated + y[k].ask <= Total
        <5>1. Allocated \in Nat
          <6>1. Worth \in [Clients -> Nat] /\ SumIs(Worth, Clients, Allocated)
            BY <2>13, WorthType, AllocatedIs
          <6>2. \A c \in Clients : Worth[c] <= Worth[c] BY <6>1
          <6> QED BY <6>1, <6>2, ClientsFinite, SumMonotone
        <5>2. Total \in Nat BY GrantsAre
        <5>3. ~(q.own + Allocated + q.ask > Total) BY <1>3, <2>1
        <5>4. q.own + Allocated + q.ask <= Total BY <2>5, <5>1, <5>2, <5>3
        <5> QED BY <2>1, <2>5, <2>14, <5>4
      <4>2. \/ y[k].kind = "instance" /\ y[k].ask = 1
            \/ y[k].kind = "client"
            \/ y[k].kind = "edit" /\ y[k].ask # 0
        BY <2>5, <2>7, <2>14 DEF Kind
      <4> QED BY <1>1, <2>11, <2>12, <2>13, <2>14, <3>2, <4>1, <4>2, PassesInTime
    <3> QED BY <2>15, <3>1, <3>2
  <2>17. PICK lev2, w2, mark2 : Held(own, grant, y, lev2, w2, age, top, mark2) BY <2>16
  <2>18. /\ own' \in Nat /\ grant' \in [Clients -> Grants \cup {NoGrant}]
         /\ Held(own', grant', asker', lev2, w2, age, top, mark2)
    BY <1>1, <2>10, <2>13, <2>17
  <2> QED BY <2>10, <2>11, <2>18 DEF QuotaInv
<1> QED BY <1>2, <1>3

\* An insertion, or an update: what was counted for the request pays for it.
LEMMA PaysFor ==
    ASSUME QuotaInv, NEW k \in Askers, Answered(k),
           NEW lev, NEW w, NEW age, NEW top, NEW mark,
           Held(own, grant, asker, lev, w, age, top, mark),
           own' \in Nat,
           NEW lev2 \in [Clients -> Nat], NEW w2 \in Nat, SumIs(lev2, Clients, w2),
           grant' \in [Clients -> Grants \cup {NoGrant}],
           \A c \in Clients : /\ lev[c] <= lev2[c] /\ lev2[c] <= MaxGrant
                              /\ grant'[c] = NoGrant \/ grant'[c] <= lev2[c],
           own' <= own \/ (own' = own + 1 /\ k \in Inst(asker)),
           \/ own' + w2 <= own + w
           \/ own' + w2 <= own + w + 1 /\ k \in Inst(asker)
           \/ own' + w2 <= own + w + MaxGrant /\ k \in Dear(asker, age, mark)
    PROVE  QuotaInv'
<1>1. PICK y : y = asker' OBVIOUS
<1>2. /\ DOMAIN y = Askers /\ y \in [Askers -> AskRow] /\ \A l \in Askers : RowOK(y[l])
      /\ y[k] = Quiet /\ \A l \in Askers : l # k => y[l] = asker[l]
  <2>1. asker \in [Askers -> AskRow] /\ \A l \in Askers : RowOK(asker[l]) BY DEF QuotaInv
  <2>2. y = [asker EXCEPT ![k] = Quiet] BY <1>1 DEF Answered
  <2>3. y[k] = Quiet /\ \A l \in Askers : l # k => y[l] = asker[l] BY <2>1, <2>2
  <2>4. DOMAIN y = Askers /\ y \in [Askers -> AskRow] BY <2>1, <2>2, QuietIsRow
  <2> QED BY <2>1, <2>3, <2>4, QuietIsRow
<1>3. PICK p, g : p \in Nat /\ p = own' /\ g = grant'
  <2>1. own' \in Nat OBVIOUS
  <2> QED BY <2>1
<1>4. Levels(grant, asker, lev, w) BY DEF Held
<1>5. Levels(g, y, lev2, w2)
  <2>1. ASSUME NEW l \in Edits(y)
        PROVE  y[l].who \in Clients /\ y[l].next \in Grants /\ y[l].next <= lev2[y[l].who]
    <3>1. l # k BY <1>2, <2>1, QuietIsRow DEF Edits
    <3>2. l \in Edits(asker) /\ y[l] = asker[l] BY <1>2, <3>1 DEF Edits
    <3>3. y[l].who \in Clients /\ y[l].next \in Grants /\ y[l].next <= lev[y[l].who]
      BY <1>4, <3>2 DEF Levels
    <3>4. PICK d \in Clients, n \in Grants : d = y[l].who /\ n = y[l].next BY <3>3
    <3>5. n \in Nat /\ lev[d] \in Nat /\ lev2[d] \in Nat /\ n <= lev[d] /\ lev[d] <= lev2[d]
      BY <1>4, <3>3, <3>4, GrantsAre DEF Levels
    <3>6. n <= lev2[d] BY <3>5
    <3> QED BY <3>3, <3>4, <3>6
  <2>2. g \in [Clients -> Grants \cup {NoGrant}] BY <1>3
  <2>3. \A c \in Clients : lev2[c] <= MaxGrant /\ (g[c] = NoGrant \/ g[c] <= lev2[c]) BY <1>3
  <2> QED BY <2>1, <2>2, <2>3 DEF Levels
<1>6. own \in Nat BY DEF QuotaInv
<1>7. /\ p <= own \/ (p = own + 1 /\ k \in Inst(asker))
      /\ \/ p + w2 <= own + w
         \/ p + w2 <= own + w + 1 /\ k \in Inst(asker)
         \/ p + w2 <= own + w + MaxGrant /\ k \in Dear(asker, age, mark)
  BY <1>3
<1>8. y[k].pc # "sum" /\ (y[k].pc = "insert" => y[k].kind = "edit") BY <1>2, QuietIsRow
<1>9. Held(p, g, y, lev2, w2, age, top, mark)
  <2>1. p \in Nat BY <1>3
  <2> QED BY <1>2, <1>5, <1>6, <1>7, <1>8, <2>1, Leaves
<1>10. Held(own', grant', asker', lev2, w2, age, top, mark) BY <1>1, <1>3, <1>9
<1> QED BY <1>1, <1>2, <1>10 DEF QuotaInv

LEMMA InsertInstanceKeeps == ASSUME QuotaInv, NEW k \in Askers, InsertInstance(k) PROVE QuotaInv'
<1>1. PICK lev, w, age, top, mark : Held(own, grant, asker, lev, w, age, top, mark) BY DEF QuotaInv
<1>2. own \in Nat /\ lev \in [Clients -> Nat] /\ w \in Nat /\ SumIs(lev, Clients, w)
  BY <1>1 DEF QuotaInv, Held, Levels
<1>3. own' = own + 1 /\ grant' = grant /\ Answered(k) /\ k \in Inst(asker)
  BY DEF InsertInstance, Inst
<1>4. grant' \in [Clients -> Grants \cup {NoGrant}] /\ own' \in Nat BY <1>2, <1>3 DEF QuotaInv
<1>5. \A c \in Clients : /\ lev[c] <= lev[c] /\ lev[c] <= MaxGrant
                         /\ grant'[c] = NoGrant \/ grant'[c] <= lev[c]
  BY <1>1, <1>2, <1>3 DEF Held, Levels
<1>6. own' + w <= own + w + 1 BY <1>2, <1>3
<1> QED BY <1>1, <1>2, <1>3, <1>4, <1>5, <1>6, PaysFor

LEMMA InsertClientKeeps == ASSUME QuotaInv, NEW k \in Askers, InsertClient(k) PROVE QuotaInv'
<1>1. PICK lev, w, age, top, mark : Held(own, grant, asker, lev, w, age, top, mark) BY DEF QuotaInv
<1>2. own \in Nat /\ lev \in [Clients -> Nat] /\ w \in Nat /\ SumIs(lev, Clients, w)
      /\ grant \in [Clients -> Grants \cup {NoGrant}]
  BY <1>1 DEF QuotaInv, Held, Levels
<1>3. own' = own /\ Answered(k) /\ asker[k].pc = "insert" /\ asker[k].kind = "client"
  BY DEF InsertClient
<1>4. \A c \in Clients : /\ lev[c] <= lev[c] /\ lev[c] <= MaxGrant
                         /\ grant[c] = NoGrant \/ grant[c] <= lev[c]
  BY <1>1, <1>2 DEF Held, Levels
<1>5. own' + w <= own + w /\ own' \in Nat /\ own' <= own BY <1>2, <1>3
<1>6. CASE grant' = grant
  <2>1. \A c \in Clients : grant'[c] = NoGrant \/ grant'[c] <= lev[c] BY <1>4, <1>6
  <2>2. grant' \in [Clients -> Grants \cup {NoGrant}] BY <1>2, <1>6
  <2> QED BY <1>1, <1>2, <1>3, <1>4, <1>5, <2>1, <2>2, PaysFor
<1>7. CASE \E c \in Clients : grant' = [grant EXCEPT ![c] = asker[k].next]
  <2>1. PICK d \in Clients : grant' = [grant EXCEPT ![d] = asker[k].next] BY <1>7
  <2>2. PICK q \in AskRow : q = asker[k] BY DEF QuotaInv
  <2>3. PICK n \in Grants : n = asker[k].next BY <2>2 DEF AskRow
  <2>4. n \in Nat /\ n <= MaxGrant /\ 0 <= MaxGrant /\ MaxGrant \in Nat BY GrantsAre DEF Grants
  <2>5. PICK g : g = grant' OBVIOUS
  <2>6. /\ g \in [Clients -> Grants \cup {NoGrant}] /\ g[d] = n
        /\ \A c \in Clients : c # d => g[c] = grant[c]
    BY <1>2, <2>1, <2>3, <2>5
  <2>7. CASE n = 0
    <3>1. \A c \in Clients : g[c] = NoGrant \/ g[c] <= lev[c]
      <4>1. 0 <= lev[d] BY <1>2
      <4> QED BY <1>4, <2>6, <2>7, <4>1
    <3>2. \A c \in Clients : /\ lev[c] <= lev[c] /\ lev[c] <= MaxGrant
                             /\ grant'[c] = NoGrant \/ grant'[c] <= lev[c]
      BY <1>4, <2>5, <3>1
    <3>3. grant' \in [Clients -> Grants \cup {NoGrant}] BY <2>5, <2>6
    <3> QED BY <1>1, <1>2, <1>3, <1>5, <3>2, <3>3, PaysFor
  <2>8. CASE n # 0
    <3>1. PICK lev2 \in [Clients -> Nat] : lev2 = [c \in Clients |-> IF c = d THEN MaxGrant ELSE lev[c]]
      <4>1. \A c \in Clients : (IF c = d THEN MaxGrant ELSE lev[c]) \in Nat BY <1>2, <2>4
      <4> QED BY <4>1
    <3>2. lev2[d] = MaxGrant /\ \A c \in Clients : c # d => lev2[c] = lev[c] BY <3>1
    <3>3. PICK w2 \in Nat : SumIs(lev2, Clients, w2) /\ w2 + lev[d] = w + lev2[d]
      <4>1. \E m \in Nat : SumIs(lev2, Clients, m) /\ m + lev[d] = w + lev2[d]
        BY <1>2, <3>2, ClientsFinite, SumRaised
      <4> QED BY <4>1
    <3>4. w2 <= w + MaxGrant
      <4>1. PICK m \in Nat : m = lev[d] BY <1>2
      <4>2. w2 + m = w + MaxGrant BY <3>2, <3>3, <4>1
      <4> QED BY <1>2, <2>4, <4>2
    <3>5. own' + w2 <= own + w + MaxGrant BY <1>2, <1>3, <2>4, <3>4
    <3>6. k \in Dear(asker, age, mark)
      <4>1. RowOK(q) BY <2>2 DEF QuotaInv
      <4>2. q.ask = q.next BY <1>3, <2>2, <4>1 DEF RowOK
      <4> QED BY <1>3, <2>2, <2>3, <2>8, <4>2 DEF Dear
    <3>7. ASSUME NEW c \in Clients
          PROVE  /\ lev[c] <= lev2[c] /\ lev2[c] <= MaxGrant
                 /\ grant'[c] = NoGrant \/ grant'[c] <= lev2[c]
      <4>1. CASE c = d BY <1>4, <2>4, <2>5, <2>6, <3>2, <4>1
      <4>2. CASE c # d BY <1>4, <2>5, <2>6, <3>2, <4>2
      <4> QED BY <4>1, <4>2
    <3>8. grant' \in [Clients -> Grants \cup {NoGrant}] BY <2>5, <2>6
    <3> QED BY <1>1, <1>2, <1>3, <1>5, <3>1, <3>3, <3>5, <3>6, <3>7, <3>8, PaysFor
  <2> QED BY <2>7, <2>8
<1> QED BY <1>6, <1>7 DEF InsertClient

LEMMA UpdateKeeps == ASSUME QuotaInv, NEW k \in Askers, UpdateClient(k) PROVE QuotaInv'
<1>1. PICK lev, w, age, top, mark : Held(own, grant, asker, lev, w, age, top, mark) BY DEF QuotaInv
<1>2. own \in Nat /\ lev \in [Clients -> Nat] /\ w \in Nat /\ SumIs(lev, Clients, w)
      /\ grant \in [Clients -> Grants \cup {NoGrant}]
  BY <1>1 DEF QuotaInv, Held, Levels
<1>3. own' = own /\ Answered(k) /\ k \in Edits(asker) BY DEF UpdateClient, Edits
<1>4. own' + w <= own + w /\ own' \in Nat /\ own' <= own BY <1>2, <1>3
<1>5. PICK d \in Clients, n \in Grants : d = asker[k].who /\ n = asker[k].next /\ n <= lev[d]
  BY <1>1, <1>3 DEF Held, Levels
<1>6. PICK g : g = grant' OBVIOUS
<1>7. g = [grant EXCEPT ![d] = n] BY <1>5, <1>6 DEF UpdateClient
<1>8. /\ g \in [Clients -> Grants \cup {NoGrant}] /\ g[d] = n
      /\ \A c \in Clients : c # d => g[c] = grant[c]
  BY <1>2, <1>7
<1>9. ASSUME NEW c \in Clients
      PROVE  /\ lev[c] <= lev[c] /\ lev[c] <= MaxGrant
             /\ grant'[c] = NoGrant \/ grant'[c] <= lev[c]
  <2>1. lev[c] <= MaxGrant /\ (grant[c] = NoGrant \/ grant[c] <= lev[c]) /\ lev[c] <= lev[c]
    BY <1>1, <1>2 DEF Held, Levels
  <2>2. CASE c = d BY <1>5, <1>6, <1>8, <2>1, <2>2
  <2>3. CASE c # d BY <1>6, <1>8, <2>1, <2>3
  <2> QED BY <2>2, <2>3
<1>10. grant' \in [Clients -> Grants \cup {NoGrant}] BY <1>6, <1>8
<1> QED BY <1>1, <1>2, <1>3, <1>4, <1>9, <1>10, PaysFor

LEMMA DeleteKeeps == ASSUME QuotaInv, DeleteInstance PROVE QuotaInv'
<1>1. PICK lev, w, age, top, mark : Held(own, grant, asker, lev, w, age, top, mark) BY DEF QuotaInv
<1>2. own \in Nat /\ w \in Nat BY <1>1 DEF QuotaInv, Held, Levels
<1>3. own > 0 /\ own' = own - 1 /\ UNCHANGED <<grant, asker>> BY DEF DeleteInstance
<1>4. PICK p \in Nat : p = own' /\ own = p + 1
  <2>1. own - 1 \in Nat /\ own = (own - 1) + 1 BY <1>2, <1>3
  <2> QED BY <1>3, <2>1
<1>5. Costs(p, w, asker, age, mark)
  <2>1. PICK i \in Nat, e \in Nat :
          i = Cardinality(Inst(asker)) /\ e = MaxGrant * Cardinality(Dear(asker, age, mark))
    BY Sorts, GrantsAre
  <2>2. own + w + i + e <= Most BY <1>1, <2>1 DEF Held, Costs
  <2>3. PICK m \in Int : m = Most BY GrantsAre, AskersFinite DEF Most
  <2>4. PICK v \in Nat : v = w BY <1>2
  <2>5. p + 1 + v + i + e <= m BY <1>4, <2>2, <2>3, <2>4
  <2>6. p + v + i + e <= m BY <2>5
  <2> QED BY <2>1, <2>3, <2>4, <2>6 DEF Costs
<1>6. Sees(p, asker, age, mark)
  <2>1. ASSUME NEW k \in Askers, asker[k].pc = "sum" /\ age[k] > mark
        PROVE  p + Cardinality(Ahead(asker, age, k)) <= asker[k].own + Askers1 - 1
    <3>1. own + Cardinality(Ahead(asker, age, k)) <= asker[k].own + Askers1 - 1
      BY <1>1, <2>1 DEF Held, Sees
    <3>2. PICK a \in Nat : a = Cardinality(Ahead(asker, age, k)) BY Sorts
    <3>3. PICK q \in AskRow : q = asker[k] BY DEF QuotaInv
    <3>4. q.own \in Nat BY DEF AskRow
    <3>5. PICK n \in Nat : n = asker[k].own BY <3>3, <3>4
    <3> QED BY <1>4, <3>1, <3>2, <3>5, AskersFinite
  <2> QED BY <2>1 DEF Sees
<1>7. Held(own', grant', asker', lev, w, age, top, mark)
  BY <1>1, <1>3, <1>4, <1>5, <1>6 DEF Held
<1>8. own' \in Nat BY <1>4
<1> QED BY <1>3, <1>7, <1>8 DEF QuotaInv

LEMMA NothingAsked == QuotaInit => QuotaInv
<1> SUFFICES ASSUME QuotaInit PROVE QuotaInv OBVIOUS
<1>1. /\ own = 0 /\ grant \in [Clients -> {0, NoGrant}]
      /\ asker = [k \in Askers |-> Quiet]
  BY DEF QuotaInit
<1>2. own \in Nat /\ grant \in [Clients -> Grants \cup {NoGrant}]
  <2>1. 0 \in Grants /\ 0 \in Nat BY GrantsAre DEF Grants
  <2> QED BY <1>1, <2>1
<1>3. /\ DOMAIN asker = Askers /\ asker \in [Askers -> AskRow]
      /\ \A k \in Askers : RowOK(asker[k]) /\ asker[k].pc = "idle"
  BY <1>1, QuietIsRow
<1>4. PICK z \in [Clients -> Nat] : z = [c \in Clients |-> 0] OBVIOUS
<1>5. SumIs(z, Clients, 0)
  <2>1. PICK g : IsFold(g, z, Clients) BY ClientsFinite, FoldExists
  <2> DEFINE X == {s \in SUBSET Clients : g[s] = 0}
  <2>2. {} \in X BY <2>1, ClientsFinite, FoldRule
  <2>3. ASSUME NEW s \in SUBSET Clients, s # {}, s \ {Pick(s)} \in X PROVE s \in X
    <3>1. g[s] = z[Pick(s)] + g[s \ {Pick(s)}] /\ Pick(s) \in Clients
      BY <2>1, <2>3, ClientsFinite, FoldRule
    <3>2. z[Pick(s)] = 0 BY <1>4, <3>1
    <3> QED BY <2>3, <3>1, <3>2
  <2>4. X \in SUBSET (SUBSET Clients) OBVIOUS
  <2> HIDE DEF X
  <2>5. X = SUBSET Clients BY <2>2, <2>3, <2>4, ClientsFinite, Taking
  <2>6. g[Clients] = 0 BY <2>5 DEF X
  <2> QED BY <2>1, <2>6 DEF SumIs
<1>6. PICK b \in [Askers -> Nat] : b = [k \in Askers |-> 0] OBVIOUS
<1>7. Inst(asker) = {} /\ Edits(asker) = {} /\ Dear(asker, b, 0) = {}
  BY <1>3 DEF Inst, Edits, Dear
<1>8. Levels(grant, asker, z, 0)
  <2>1. \A c \in Clients : z[c] <= MaxGrant /\ (grant[c] = NoGrant \/ grant[c] <= z[c])
    BY <1>1, <1>4, GrantsAre
  <2>2. 0 \in Nat OBVIOUS
  <2> QED BY <1>2, <1>4, <1>5, <1>7, <2>1, <2>2 DEF Levels
<1>9. Ages(b, 0, 0) BY <1>6 DEF Ages
<1>10. Costs(own, 0, asker, b, 0)
  <2>1. Cardinality({}) = 0 BY FS_EmptySet
  <2>2. PICK m \in Nat, a \in Nat, t \in Nat : m = MaxGrant /\ a = Askers1 /\ t = Total
    BY GrantsAre, AskersFinite
  <2>3. m # 0 /\ a # 0 /\ t # 0 BY <2>2, GrantsAre, AskersFinite, QuotaAssumption
  <2>4. a * (m + 1) >= 2
    <3>1. PICK c \in Nat, j \in Nat : a = c + 1 /\ m = j + 1
      <4>1. a - 1 \in Nat /\ m - 1 \in Nat /\ a = (a - 1) + 1 /\ m = (m - 1) + 1 BY <2>3
      <4> QED BY <4>1
    <3>2. PICK s \in Nat : s = c * j OBVIOUS
    <3>3. (c + 1) * (j + 2) = c * j + 2 * c + j + 2 BY <3>1, Z3
    <3>4. m + 1 = j + 2 BY <3>1
    <3>5. a * (m + 1) = s + 2 * c + j + 2 BY <3>1, <3>2, <3>3, <3>4
    <3> QED BY <3>2, <3>5
  <2>5. MaxGrant * 0 = 0 BY GrantsAre
  <2>6. PICK r : r = a * (m + 1) OBVIOUS
  <2>7. r \in Int BY <2>6
  <2>8. 0 <= t + r - 2 BY <2>2, <2>4, <2>6, <2>7
  <2>9. Most = t + r - 2 BY <2>2, <2>6 DEF Most
  <2>10. Cardinality(Inst(asker)) = 0 /\ MaxGrant * Cardinality(Dear(asker, b, 0)) = 0
    BY <1>7, <2>1, <2>5
  <2>11. own + 0 + Cardinality(Inst(asker)) + MaxGrant * Cardinality(Dear(asker, b, 0)) = 0
    BY <1>1, <2>10
  <2> QED BY <2>8, <2>9, <2>11 DEF Costs
<1>11. Sees(own, asker, b, 0) BY <1>3 DEF Sees
<1>12. Held(own, grant, asker, z, 0, b, 0, 0) BY <1>8, <1>9, <1>10, <1>11 DEF Held
<1> QED BY <1>2, <1>3, <1>12 DEF QuotaInv

LEMMA QuotaFollows == QuotaInv => QuotaOverrun
<1> SUFFICES ASSUME QuotaInv PROVE QuotaOverrun OBVIOUS
<1>1. PICK lev, w, age, top, mark : Held(own, grant, asker, lev, w, age, top, mark) BY DEF QuotaInv
<1>2. own \in Nat /\ grant \in [Clients -> Grants \cup {NoGrant}] BY DEF QuotaInv
<1>3. lev \in [Clients -> Nat] /\ w \in Nat /\ SumIs(lev, Clients, w) BY <1>1 DEF Held, Levels
<1>4. \A c \in Clients : Worth[c] <= lev[c]
  <2>1. ASSUME NEW c \in Clients PROVE Worth[c] <= lev[c]
    <3>1. grant[c] = NoGrant \/ grant[c] <= lev[c] BY <1>1 DEF Held, Levels
    <3>2. Worth[c] = IF grant[c] = NoGrant THEN 0 ELSE grant[c] BY DEF Worth, Granted
    <3>3. 0 <= lev[c] BY <1>3
    <3> QED BY <3>1, <3>2, <3>3
  <2> QED BY <2>1
<1>5. Worth \in [Clients -> Nat] /\ SumIs(Worth, Clients, Allocated) BY <1>2, WorthType, AllocatedIs
<1>6. Allocated \in Nat /\ Allocated <= w BY <1>3, <1>4, <1>5, ClientsFinite, SumMonotone
<1>7. PICK i \in Nat, e \in Nat :
        i = Cardinality(Inst(asker)) /\ e = MaxGrant * Cardinality(Dear(asker, age, mark))
  BY Sorts, GrantsAre
<1>8. own + w + i + e <= Most BY <1>1, <1>7 DEF Held, Costs
<1>9. Most \in Int BY GrantsAre, AskersFinite DEF Most
<1>10. own + Allocated <= Most BY <1>2, <1>3, <1>6, <1>8, <1>9
<1> QED BY <1>10 DEF QuotaOverrun, Most, Askers1

\* However the counts, insertions and edits of the reseller's requests overlap,
\* it exceeds its quota by less than one grant and one instance for each of them.
THEOREM QuotaHolds == QuotaSpec => []QuotaOverrun
<1>1. QuotaInit => QuotaInv BY NothingAsked
<1>2. QuotaInv /\ [QuotaNext]_quotaVars => QuotaInv'
  <2> SUFFICES ASSUME QuotaInv, [QuotaNext]_quotaVars PROVE QuotaInv' OBVIOUS
  <2>1. ASSUME NEW k \in Askers, AskInstance(k) \/ AskV1Instance(k) \/ AskClient(k) \/ AskEdit(k)
        PROVE  QuotaInv'
    BY <2>1, AskKeeps
  <2>2. ASSUME NEW k \in Askers, CountOwn(k) PROVE QuotaInv' BY <2>2, CountKeeps
  <2>3. ASSUME NEW k \in Askers, SumAllocated(k) PROVE QuotaInv' BY <2>3, SumKeeps
  <2>4. ASSUME NEW k \in Askers, InsertInstance(k) PROVE QuotaInv' BY <2>4, InsertInstanceKeeps
  <2>5. ASSUME NEW k \in Askers, InsertClient(k) PROVE QuotaInv' BY <2>5, InsertClientKeeps
  <2>6. ASSUME NEW k \in Askers, UpdateClient(k) PROVE QuotaInv' BY <2>6, UpdateKeeps
  <2>7. ASSUME NEW k \in Askers, AskFails(k) PROVE QuotaInv'
    BY <2>7, AnsweredKeeps DEF AskFails
  <2>8. CASE DeleteInstance BY <2>8, DeleteKeeps
  <2>9. CASE UNCHANGED quotaVars BY <2>9 DEF quotaVars, QuotaInv
  <2> QED BY <2>1, <2>2, <2>3, <2>4, <2>5, <2>6, <2>7, <2>8, <2>9 DEF QuotaNext
<1>3. QuotaInv => QuotaOverrun BY QuotaFollows
<1> QED BY <1>1, <1>2, <1>3, PTL DEF QuotaSpec
================================================================================
