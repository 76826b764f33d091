--------------------------------- MODULE Plans ---------------------------------
(***************************************************************************)
(* The plans on sale, in server.ts and billing.ts.  Every start of the     *)
(* server writes the default plans and the owner, one statement after the  *)
(* other, before it listens, and may end after any of them.  A pass that   *)
(* nobody awaits then creates the plans in Stripe, while administrators    *)
(* add plans, edit them and give them to accounts.                         *)
(***************************************************************************)
EXTENDS Naturals, Sequences, FiniteSets

CONSTANTS
    Starter, Beta,   \* names the start retires
    Trial,           \* "Teste Gratis"
    Defaults,        \* the other names the start provides for, in order
    Subscribers,     \* accounts
    Clerks,          \* requests of administrators
    Passes,          \* 2 on SQLite (migrate, then the commercial plans), 1 on Postgres
    MaxPlans,        \* bound: plans ever made
    MaxStarts,       \* bound: starts of the server
    MaxErrands       \* bound: requests of administrators

VARIABLES
    plans,       \* the rows of plans, by id; one that is deleted stays, marked
    planOf,      \* planOf[a]: the plan id of account a; 0 is none
    todo,        \* what the start has still to do; it listens when nothing is left
    running,          \* the server runs
    owners,      \* rows of the owner's account and of the owner's user
    stripe,      \* products made, and [product, price] on sale
    syncing,     \* the rows that syncPlansToStripe has to look at, and its step
    request,     \* request[k]: what request k has read
    starts, errands     \* bounds

plansVars == <<plans, planOf, todo, running, owners, stripe, syncing, request, starts, errands>>

Names == {Starter, Beta, Trial} \cup {Defaults[i] : i \in DOMAIN Defaults}
Ids == 1..MaxPlans
\* 0 is free, 1 the default's price, 2 another.
Prices == 0..2
DefaultPrice(name) == IF name = Trial THEN 0 ELSE 1

ASSUME PlansAssumption ==
    /\ Trial \notin {Starter, Beta}
    /\ Defaults \in Seq({Defaults[i] : i \in DOMAIN Defaults} \ {Starter, Beta, Trial})
    /\ Passes \in {1, 2}
    /\ {MaxPlans, MaxStarts, MaxErrands} \subseteq Nat

PlanRow == [name : Names, price : Prices, on : BOOLEAN, product : Nat, gone : BOOLEAN]
Plan(name, price) == [name |-> name, price |-> price, on |-> TRUE, product |-> 0, gone |-> FALSE]
NoSync == [rows |-> {}, pc |-> "rest", product |-> 0]
NoClerk == [pc |-> "rest", id |-> 0, who |-> CHOOSE a \in Subscribers : TRUE, row |-> Plan(Trial, 0)]

PlansTypeOK ==
    /\ Len(plans) <= MaxPlans /\ \A i \in DOMAIN plans : plans[i] \in PlanRow
    /\ planOf \in [Subscribers -> 0..MaxPlans]
    /\ running \in BOOLEAN
    /\ owners \in [accounts : Nat, users : Nat]
    /\ stripe.products \in Nat /\ stripe.prices \subseteq (1..stripe.products) \X Prices
    /\ syncing.pc \in {"rest", "due", "list", "product", "store", "price"}
    /\ \A k \in Clerks : request[k].pc \in {"rest", "patch", "give"}
    /\ starts \in 0..MaxStarts /\ errands \in 0..MaxErrands

\* A new database, or one from before the names were retired.
PlansInit ==
    /\ \/ plans = <<>> /\ planOf = [a \in Subscribers |-> 0]
       \/ /\ plans = <<Plan(Starter, 1), Plan(Beta, 1)>>
          /\ planOf \in [Subscribers -> {1, 2}]
    /\ todo = <<>> /\ running = FALSE
    /\ owners = [accounts |-> 0, users |-> 0]
    /\ stripe = [products |-> 0, prices |-> {}] /\ syncing = NoSync
    /\ request = [k \in Clerks |-> NoClerk]
    /\ starts = 0 /\ errands = 0

-----------------------------------------------------------------------------
(* The start.                                                              *)

StartStep(do, name) == [do |-> do, name |-> name, id |-> 0]
Retire(do, i) == [do |-> do, name |-> Trial, id |-> i]

\* Mutant: the plan goes first and its accounts afterwards.
RetiresPlanFirst(i) == <<Retire("delete", i), Retire("move", i)>>

Retires(i) == <<Retire("move", i), Retire("delete", i)>>

Pass == <<StartStep("rename", Starter), StartStep("ensure", Trial)>>
        \o [i \in DOMAIN Defaults |-> StartStep("ensure", Defaults[i])]
        \o <<StartStep("find", Starter), StartStep("find", Beta)>>

Start ==
    /\ ~running /\ starts < MaxStarts
    /\ starts' = starts + 1 /\ running' = TRUE
    /\ todo' = (IF Passes = 2 THEN Pass \o Pass ELSE Pass) \o <<StartStep("owner", Trial)>>
    /\ syncing' = [NoSync EXCEPT !.pc = "due"]
    /\ UNCHANGED <<plans, planOf, owners, stripe, request, errands>>

\* plans.name is not unique: a look by name finds one of them.
Named(name) == {i \in DOMAIN plans : plans[i].name = name /\ ~plans[i].gone}

Booting(do) == running /\ todo # <<>> /\ Head(todo).do = do
StartGoes == todo' = Tail(todo)
BootKeeps == UNCHANGED <<running, stripe, syncing, request, starts, errands>>

RenameStarter ==
    /\ Booting("rename") /\ StartGoes
    /\ IF Named(Trial) # {} \/ Named(Starter) = {} THEN UNCHANGED plans
       ELSE \E i \in Named(Starter) : plans' = [plans EXCEPT ![i].name = Trial]
    /\ UNCHANGED <<planOf, owners>> /\ BootKeeps

\* ensurePlan writes price and limits over whatever an administrator has made of
\* the plan, and sells it again.
EnsurePlan ==
    /\ Booting("ensure") /\ StartGoes
    /\ LET name == Head(todo).name
       IN  IF Named(name) = {}
           THEN /\ Len(plans) < MaxPlans
                /\ plans' = Append(plans, Plan(name, DefaultPrice(name)))
           ELSE \E i \in Named(name) :
                  plans' = [plans EXCEPT ![i].price = DefaultPrice(name), ![i].on = TRUE]
    /\ UNCHANGED <<planOf, owners>> /\ BootKeeps

\* An administrator's plan of a retired name goes the same way.
FindLegacy ==
    /\ Booting("find")
    /\ LET found == Named(Head(todo).name)
       IN  IF found = {} THEN StartGoes
           ELSE \E i \in found : todo' = Retires(i) \o Tail(todo)
    /\ UNCHANGED <<plans, planOf, owners>> /\ BootKeeps
MoveAccounts ==
    /\ Booting("move") /\ StartGoes
    /\ \E t \in Named(Trial) :
         planOf' = [a \in Subscribers |-> IF planOf[a] = Head(todo).id THEN t ELSE planOf[a]]
    /\ UNCHANGED <<plans, owners>> /\ BootKeeps
DeletePlan ==
    /\ Booting("delete") /\ StartGoes
    /\ plans' = [plans EXCEPT ![Head(todo).id].gone = TRUE]
    /\ UNCHANGED <<planOf, owners>> /\ BootKeeps

\* ensureDefaultSuperAdmin, unless WOZAPI_OWNER_EMAIL is not set: by the user's
\* address, then by the account's.  What is there is only updated.
OwnerAccount ==
    /\ Booting("owner")
    /\ \/ todo' = <<>> /\ UNCHANGED owners
       \/ /\ todo' = IF owners.users > 0 THEN <<>> ELSE <<StartStep("user", Trial)>>
          /\ owners' = [owners EXCEPT !.accounts = IF owners.users = 0 /\ @ = 0 THEN 1 ELSE @]
    /\ UNCHANGED <<plans, planOf>> /\ BootKeeps
OwnerUser ==
    /\ Booting("user") /\ StartGoes
    /\ owners' = [owners EXCEPT !.users = @ + 1]
    /\ UNCHANGED <<plans, planOf>> /\ BootKeeps

\* The process ends, while it starts or later.  Its requests end with it.
ServerEnds ==
    /\ running /\ running' = FALSE /\ todo' = <<>>
    /\ syncing' = NoSync /\ request' = [k \in Clerks |-> NoClerk]
    /\ UNCHANGED <<plans, planOf, owners, stripe, starts, errands>>

-----------------------------------------------------------------------------
(* syncPlansToStripe, once after each start.                               *)

Listens == running /\ todo = <<>>
SyncKeeps == UNCHANGED <<planOf, todo, running, owners, request, starts, errands>>

\* It selects the plans on sale and goes on with these rows.
StripeBegins ==
    /\ Listens /\ syncing.pc = "due"
    /\ syncing' = [NoSync EXCEPT !.pc = "list",
          !.rows = {[id |-> i, price |-> plans[i].price, product |-> plans[i].product] :
                      i \in {j \in DOMAIN plans : ~plans[j].gone /\ plans[j].on}}]
    /\ UNCHANGED <<plans, stripe>> /\ SyncKeeps

Current == CHOOSE r \in syncing.rows : \A o \in syncing.rows : r.id <= o.id
SyncGoesOn == syncing' = [syncing EXCEPT !.pc = "list", !.rows = @ \ {Current}, !.product = 0]

\* The prices of a plan that has no product yet are everybody's prices: once one
\* is on sale, that plan is passed over.
OnSale(r) == IF r.product = 0 THEN stripe.prices
             ELSE {x \in stripe.prices : x[1] = r.product}
ListPrices ==
    /\ syncing.pc = "list" /\ syncing.rows # {}
    /\ IF Current.price = 0 \/ OnSale(Current) # {} THEN SyncGoesOn
       ELSE syncing' = [syncing EXCEPT !.product = Current.product,
                                       !.pc = IF Current.product = 0 THEN "product" ELSE "price"]
    /\ UNCHANGED <<plans, stripe>> /\ SyncKeeps
CreateProduct ==
    /\ syncing.pc = "product"
    /\ stripe' = [stripe EXCEPT !.products = @ + 1]
    /\ syncing' = [syncing EXCEPT !.pc = "store", !.product = stripe.products + 1]
    /\ UNCHANGED plans /\ SyncKeeps
StoreProduct ==
    /\ syncing.pc = "store"
    /\ plans' = [plans EXCEPT ![Current.id].product = syncing.product]
    /\ syncing' = [syncing EXCEPT !.pc = "price"]
    /\ UNCHANGED stripe /\ SyncKeeps
CreatePrice ==
    /\ syncing.pc = "price"
    /\ stripe' = [stripe EXCEPT !.prices = @ \cup {<<syncing.product, Current.price>>}]
    /\ SyncGoesOn
    /\ UNCHANGED plans /\ SyncKeeps
\* Nothing is left, or a call fails; its effect may be there.
StripeEnds ==
    /\ syncing.pc \notin {"rest", "due"}
    /\ syncing' = NoSync
    /\ UNCHANGED <<plans, stripe>> /\ SyncKeeps

-----------------------------------------------------------------------------
(* Administrators.                                                         *)

AdminKeeps == UNCHANGED <<todo, running, owners, stripe, syncing, starts>>
Reads(k, r) == request' = [request EXCEPT ![k] = r]
Counts == Listens /\ errands < MaxErrands /\ errands' = errands + 1

AddPlan ==
    /\ Counts /\ Len(plans) < MaxPlans
    /\ \E name \in Names, price \in Prices : plans' = Append(plans, Plan(name, price))
    /\ UNCHANGED <<planOf, request>> /\ AdminKeeps

\* PATCH reads the row and writes it whole, with what the body changes.
ReadPlan(k, i) ==
    /\ Counts /\ request[k].pc = "rest" /\ ~plans[i].gone
    /\ Reads(k, [NoClerk EXCEPT !.pc = "patch", !.id = i, !.row = plans[i]])
    /\ UNCHANGED <<plans, planOf>> /\ AdminKeeps
PatchPlan(k) ==
    /\ request[k].pc = "patch"
    /\ LET i == request[k].id
           old == [request[k].row EXCEPT !.product = plans[i].product]
       IN  \E new \in {[old EXCEPT !.name = n] : n \in Names}
                       \cup {[old EXCEPT !.price = c] : c \in Prices}
                       \cup {[old EXCEPT !.on = ~@]} : plans' = [plans EXCEPT ![i] = new]
    /\ Reads(k, NoClerk)
    /\ UNCHANGED <<planOf, errands>> /\ AdminKeeps

\* A plan is given to an account if it was on sale when it was looked up; trials
\* look up theirs by its name.
LookUpPlan(k, a, i) ==
    /\ Counts /\ request[k].pc = "rest"
    /\ ~plans[i].gone /\ (plans[i].on \/ (planOf[a] = 0 /\ i \in Named(Trial)))
    /\ Reads(k, [NoClerk EXCEPT !.pc = "give", !.id = i, !.who = a])
    /\ UNCHANGED <<plans, planOf>> /\ AdminKeeps
GivePlan(k) ==
    /\ request[k].pc = "give"
    /\ planOf' = [planOf EXCEPT ![request[k].who] = request[k].id]
    /\ Reads(k, NoClerk)
    /\ UNCHANGED <<plans, errands>> /\ AdminKeeps
TakePlan(a) ==
    /\ Counts
    /\ planOf' = [planOf EXCEPT ![a] = 0]
    /\ UNCHANGED <<plans, request>> /\ AdminKeeps

PlansNext ==
    \/ Start \/ ServerEnds
    \/ RenameStarter \/ EnsurePlan \/ FindLegacy \/ MoveAccounts \/ DeletePlan
    \/ OwnerAccount \/ OwnerUser
    \/ StripeBegins \/ ListPrices \/ CreateProduct \/ StoreProduct \/ CreatePrice \/ StripeEnds
    \/ AddPlan \/ \E a \in Subscribers : TakePlan(a)
    \/ \E k \in Clerks :
         \/ PatchPlan(k) \/ GivePlan(k)
         \/ \E i \in DOMAIN plans : ReadPlan(k, i) \/ \E a \in Subscribers : LookUpPlan(k, a, i)

PlansSpec == PlansInit /\ [][PlansNext]_plansVars

-----------------------------------------------------------------------------
\* Wherever a start is cut off, and whatever administrators have made of the
\* plans before: each step leaves the accounts on plans that exist, a start takes
\* one away only for its retired name and gives the trial's plan in its place, and
\* there is one owner.
PlansStand ==
    /\ \A a \in Subscribers :
         planOf[a] # 0 => (planOf[a] \in DOMAIN plans /\ ~plans[planOf[a]].gone)
    /\ owners.accounts <= 1 /\ owners.users <= 1
StartMoves ==
    \A a \in Subscribers : (todo # <<>> /\ planOf'[a] # planOf[a]) =>
        /\ planOf[a] # 0 /\ plans[planOf[a]].name \in {Starter, Beta}
        /\ planOf'[a] # 0 /\ plans[planOf'[a]].name = Trial
PlansKept == [][PlansStand' /\ StartMoves]_plansVars
=============================================================================
