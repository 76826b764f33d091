-------------------------------- MODULE Quota ---------------------------------
(***************************************************************************)
(* The instance quota of a reseller account in server.ts: the quota covers *)
(* its own instances and what it has granted to its client accounts.       *)
(* Every request counts in several statements and inserts or updates in    *)
(* another, and an edit of a client writes back what it has read.          *)
(***************************************************************************)
EXTENDS Integers, FiniteSets, FiniteSetsExt

CONSTANTS
    Askers,      \* concurrent requests of the reseller
    Clients,     \* client accounts, created or not
    Total,       \* the quota of the reseller
    MaxGrant     \* bound: the quota a request may name for a client

ASSUME QuotaAssumption ==
    /\ IsFiniteSet(Askers) /\ Askers # {}
    /\ IsFiniteSet(Clients) /\ Clients # {}
    /\ Total \in Nat \ {0}          \* zero means unlimited
    /\ MaxGrant \in Nat \ {0}

VARIABLES
    own,      \* rows of instances of the reseller
    grant,    \* grant[c]: instance_quota of client c, NoGrant: no such account
    asker     \* asker[k]: the request k is handling

quotaVars == <<own, grant, asker>>

NoGrant == MaxGrant + 1
Grants == 0..MaxGrant
Kind == {"instance", "client", "edit"}
AskRow == [pc : {"idle", "count", "sum", "insert"}, kind : Kind, who : Clients,
           ask : Nat, next : Grants, own : Nat]

QuotaTypeOK ==
    /\ own \in Nat
    /\ grant \in [Clients -> Grants \cup {NoGrant}]
    /\ asker \in [Askers -> AskRow]

Quiet == [pc |-> "idle", kind |-> "edit", who |-> CHOOSE c \in Clients : TRUE,
          ask |-> 0, next |-> 0, own |-> 0]

\* Accounts that exist already have no quota of their own.
QuotaInit ==
    /\ own = 0
    /\ grant \in [Clients -> {0, NoGrant}]
    /\ asker = [k \in Askers |-> Quiet]

-----------------------------------------------------------------------------
\* SUM of the quotas of the client accounts.
Granted(c) == IF grant[c] = NoGrant THEN 0 ELSE grant[c]
Allocated == MapThenSumSet(Granted, Clients)

Asks(k, kind, c, ask, next) ==
    asker' = [asker EXCEPT ![k] =
        [pc |-> IF kind = "edit" /\ ask = 0 THEN "insert" ELSE "count",
         kind |-> kind, who |-> c, ask |-> ask, next |-> next, own |-> 0]]

Answered(k) == asker' = [asker EXCEPT ![k] = Quiet]

\* An instance of the reseller itself: the panel, /instance/create and the v1
\* API come to the same two helpers.
AskInstance(k) ==
    /\ asker[k].pc = "idle"
    /\ Asks(k, "instance", Quiet.who, 1, 0)
    /\ UNCHANGED <<own, grant>>

AskV1Instance(k) == AskInstance(k)

\* A client account with a quota of its own.
AskClient(k) ==
    /\ asker[k].pc = "idle"
    /\ \E c \in Clients, q \in Grants : grant[c] = NoGrant /\ Asks(k, "client", c, q, q)
    /\ UNCHANGED <<own, grant>>

\* Mutant: an edit that raises the quota of a client is not counted.
EditUncounted(k) ==
    /\ asker[k].pc = "idle"
    /\ \E c \in Clients, q \in Grants : grant[c] # NoGrant /\ Asks(k, "edit", c, 0, q)
    /\ UNCHANGED <<own, grant>>

\* An edit of a client reads it, asks for the difference, and writes the whole
\* row; without a quota in the body it is the quota it has read.
AskEdit(k) ==
    /\ asker[k].pc = "idle"
    /\ \E c \in Clients, q \in Grants :
         /\ grant[c] # NoGrant
         /\ Asks(k, "edit", c, IF q > grant[c] THEN q - grant[c] ELSE 0, q)
    /\ UNCHANGED <<own, grant>>

\* getAccountQuotaUsage: the instances first, the allocation to clients later.
CountOwn(k) ==
    /\ asker[k].pc = "count"
    /\ asker' = [asker EXCEPT ![k].pc = "sum", ![k].own = own]
    /\ UNCHANGED <<own, grant>>

SumAllocated(k) ==
    /\ asker[k].pc = "sum"
    /\ IF asker[k].own + Allocated + asker[k].ask > Total
       THEN Answered(k)
       ELSE asker' = [asker EXCEPT ![k].pc = "insert"]
    /\ UNCHANGED <<own, grant>>

\* createInstanceWithCredentials.
InsertInstance(k) ==
    /\ asker[k].pc = "insert" /\ asker[k].kind = "instance"
    /\ own' = own + 1
    /\ Answered(k)
    /\ UNCHANGED grant

\* Two requests never insert the same account: the slot is another by then.
InsertClient(k) ==
    /\ asker[k].pc = "insert" /\ asker[k].kind = "client"
    /\ LET free == {c \in Clients : grant[c] = NoGrant}
       IN  IF free = {} THEN UNCHANGED grant
           ELSE \E c \in free : grant' = [grant EXCEPT ![c] = asker[k].next]
    /\ Answered(k)
    /\ UNCHANGED own

UpdateClient(k) ==
    /\ asker[k].pc = "insert" /\ asker[k].kind = "edit"
    /\ grant' = [grant EXCEPT ![asker[k].who] = asker[k].next]
    /\ Answered(k)
    /\ UNCHANGED own

\* An INSERT or UPDATE fails: the user exists by then, or the database is away.
AskFails(k) ==
    /\ asker[k].pc # "idle"
    /\ Answered(k)
    /\ UNCHANGED <<own, grant>>

DeleteInstance ==
    /\ own > 0
    /\ own' = own - 1
    /\ UNCHANGED <<grant, asker>>

QuotaNext ==
    \/ \E k \in Askers :
         \/ AskInstance(k) \/ AskV1Instance(k) \/ AskClient(k) \/ AskEdit(k)
         \/ CountOwn(k) \/ SumAllocated(k)
         \/ InsertInstance(k) \/ InsertClient(k) \/ UpdateClient(k) \/ AskFails(k)
    \/ DeleteInstance

QuotaSpec == QuotaInit /\ [][QuotaNext]_quotaVars

-----------------------------------------------------------------------------
\* Counting and inserting are separate statements, the two counts are taken at
\* different times, and edits write back what they read: a reseller exceeds its
\* quota, but by less than one grant and one instance for each request that is
\* under way with it.  A grant alone is not enough: with three requests and
\* grants of one, an instance counted before two others were inserted passes
\* once a client is lowered, and an edit that had read the client restores it.
QuotaOverrun == own + Allocated <= Total + Cardinality(Askers) * (MaxGrant + 1) - 2
=============================================================================
