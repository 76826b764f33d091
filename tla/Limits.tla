-------------------------------- MODULE Limits --------------------------------
(***************************************************************************)
(* The limits of a plan on leads, AI agents, campaigns and team members of *)
(* one account in server.ts.  A request counts what there is, compares it  *)
(* with the plan, and inserts row after row in statements of their own; two *)
(* endpoints of the uazapi compatible surface insert without counting.     *)
(***************************************************************************)
EXTENDS Naturals, FiniteSets

CONSTANTS
    Importers,   \* concurrent requests of the account
    Allowed,     \* the limit of the plan for each resource, 0: unlimited
    MaxBatch,    \* bound: the leads one request names
    MaxUnchecked,  \* bound: rows present that nobody compared with the plan
    Logins,      \* rows of the account in the table users
    MaxTeam      \* bound: rows of team_members

Resources == {"leads", "agents", "campaigns", "team"}

ASSUME LimitsAssumption ==
    /\ IsFiniteSet(Importers) /\ Importers # {}
    /\ Allowed \in [Resources -> Nat]
    /\ MaxBatch \in Nat \ {0}
    /\ Logins \in Nat /\ MaxTeam \in Nat /\ MaxUnchecked \in Nat

VARIABLES
    stock,      \* rows of each resource
    unchecked,  \* history: how many of them came in without a check
    importer    \* importer[k]: the request k is handling

limitVars == <<stock, unchecked, importer>>

Batch == 1..MaxBatch
LimitsTypeOK ==
    /\ stock \in [Resources -> Nat] /\ unchecked \in [Resources -> Nat]
    /\ importer \in [Importers -> [pc : {"idle", "decide", "insert"}, what : Resources,
                                   left : 0..MaxBatch, counted : Nat]]

NoImport == [pc |-> "idle", what |-> "leads", left |-> 0, counted |-> 0]

LimitsInit ==
    /\ stock = [x \in Resources |-> 0]
    /\ unchecked = [x \in Resources |-> 0]
    /\ importer = [k \in Importers |-> NoImport]

-----------------------------------------------------------------------------
ImportEnds(k) == importer' = [importer EXCEPT ![k] = NoImport]

\* getAccountUsage.  The limit of the team is compared with the logins of the
\* account, which another table keeps.
CountOf(x) == IF x = "team" THEN Logins ELSE stock[x]

Counts(k, x, n) ==
    /\ importer[k].pc = "idle"
    /\ importer' = [importer EXCEPT ![k] =
                      [pc |-> "decide", what |-> x, left |-> n, counted |-> CountOf(x)]]
    /\ UNCHANGED <<stock, unchecked>>

\* Several leads come in one request; of the others one at a time.
ImportLeads(k) == \E n \in Batch : Counts(k, "leads", n)
AddAgent(k) == Counts(k, "agents", 1)
AddCampaign(k) == Counts(k, "campaigns", 1)
AddMember(k) == stock["team"] < MaxTeam /\ Counts(k, "team", 1)

\* Mutant: the leads of the request are not added to those of the account.
AtLimitAlready(x, counted, n) == Allowed[x] > 0 /\ counted >= Allowed[x]

\* ensureLimit
AtLimit(x, counted, n) == Allowed[x] > 0 /\ counted + n - 1 >= Allowed[x]

\* What follows the count in the request (eight more counts, the plan, the
\* instance of a campaign) takes its time, and may refuse it.
LimitDecides(k) ==
    /\ importer[k].pc = "decide"
    /\ \/ ImportEnds(k)
       \/ /\ ~AtLimit(importer[k].what, importer[k].counted, importer[k].left)
          /\ importer' = [importer EXCEPT ![k].pc = "insert", ![k].counted = 0]
    /\ UNCHANGED <<stock, unchecked>>

\* One row; the request ends with the last one.
InsertRow(k) ==
    /\ importer[k].pc = "insert"
    /\ stock' = [stock EXCEPT ![importer[k].what] = @ + 1]
    /\ IF importer[k].left > 1
       THEN importer' = [importer EXCEPT ![k].left = @ - 1]
       ELSE ImportEnds(k)
    /\ UNCHANGED unchecked

\* A statement fails: the rows before it stay.
ImportFails(k) ==
    /\ importer[k].pc = "insert"
    /\ ImportEnds(k)
    /\ UNCHANGED <<stock, unchecked>>

\* One row of x that nobody compared with the plan.
InsertUnchecked(x) ==
    /\ unchecked[x] < MaxUnchecked
    /\ stock' = [stock EXCEPT ![x] = @ + 1]
    /\ unchecked' = [unchecked EXCEPT ![x] = @ + 1]
    /\ UNCHANGED importer

\* POST /crm/lead inserts a lead whose phone it does not find.
CrmLead == InsertUnchecked("leads")

\* POST /sender/create inserts a campaign.
SenderCreate == InsertUnchecked("campaigns")

\* The row deleted came in by a check or not.
DeleteRow(x) ==
    /\ stock[x] > 0
    /\ stock' = [stock EXCEPT ![x] = @ - 1]
    /\ \/ unchecked[x] < stock[x] /\ UNCHANGED unchecked
       \/ unchecked[x] > 0 /\ unchecked' = [unchecked EXCEPT ![x] = @ - 1]
    /\ UNCHANGED importer

LimitsNext ==
    \/ \E k \in Importers :
         \/ ImportLeads(k) \/ AddAgent(k) \/ AddCampaign(k) \/ AddMember(k)
         \/ LimitDecides(k) \/ InsertRow(k) \/ ImportFails(k)
    \/ CrmLead \/ SenderCreate
    \/ \E x \in Resources : DeleteRow(x)

LimitsSpec == LimitsInit /\ [][LimitsNext]_limitVars

-----------------------------------------------------------------------------
\* Requests count before they insert, so that together they pass the limit of
\* the plan, but by no more than one batch for each request beyond the first;
\* agents and campaigns come one by one.  Left out are the rows that POST
\* /crm/lead and POST /sender/create inserted without looking at the plan, which
\* nothing bounds, and the team, which nothing limits.
LimitsBounded ==
    \A x \in Resources \ {"team"} :
        Allowed[x] > 0 =>
          stock[x] - unchecked[x] <=
              Allowed[x] + (Cardinality(Importers) - 1) * (IF x = "leads" THEN MaxBatch ELSE 1)
=============================================================================
