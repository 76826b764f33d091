------------------------------- MODULE Accounts -------------------------------
(***************************************************************************)
(* The life of an account in server.ts and billing.ts: a trial of one hour *)
(* that is deleted when it is over, Stripe's events, the administrator's   *)
(* edits and the billing check of every request.  Each of them reads the   *)
(* account in one statement and writes it, by id only, in a later one.     *)
(***************************************************************************)
EXTENDS Naturals

CONSTANTS
    Accts,      \* accounts
    Cleanups,     \* runs of deleteExpiredTrialAccounts, which may overlap
    Handlers,   \* requests of a tenant, of an administrator, or of Stripe
    MaxBoots    \* bound: starts of the server process

ASSUME AccountsAssumption == MaxBoots \in Nat \ {0}

VARIABLES
    acct,      \* the accounts rows
    sweep,     \* sweep[w]: the accounts that w selected and has not deleted
    marking,   \* the accounts that checkExpiredTrials selected
    handler,   \* what each request has read
    boots,     \* bound
    left       \* history: how each account left its trial: not, with nobody
               \* deleting it, or in a race

accountsVars == <<acct, sweep, marking, handler, boots, left>>

AcctStatus == {"absent", "trial", "active", "paused", "blocked", "expired",
           "cancelled", "deleted"}
Editable == AcctStatus \ {"absent", "deleted"}        \* accountStatuses
AcctRow == [status : AcctStatus, ends : {"none", "running", "over"},
            billing : {"none", "trial", "active", "past_due", "cancelled", "expired"},
            blockedAt : BOOLEAN, sub : BOOLEAN]
Asked == {"idle", "block", "paid", "failed", "updated", "unpaid", "ended", "edit", "upgrade"}

AccountsTypeOK ==
    /\ acct \in [Accts -> AcctRow]
    /\ sweep \in [Cleanups -> SUBSET Accts]
    /\ marking \subseteq Accts
    /\ handler \in [Handlers -> [for : Asked, who : Accts, status : AcctStatus]]
    /\ boots \in 0..MaxBoots
    /\ left \in [Accts -> {"no", "clean", "raced"}]

NoAccount == [status |-> "absent", ends |-> "none", billing |-> "none",
              blockedAt |-> FALSE, sub |-> FALSE]
Nothing == [for |-> "idle", who |-> CHOOSE a \in Accts : TRUE, status |-> "absent"]

AccountsInit ==
    /\ acct = [a \in Accts |-> NoAccount]
    /\ sweep = [w \in Cleanups |-> {}]
    /\ marking = {}
    /\ handler = [h \in Handlers |-> Nothing]
    /\ boots = 1
    /\ left = [a \in Accts |-> "no"]

-----------------------------------------------------------------------------
Live(a) == acct[a].status \notin {"absent", "deleted"}
EndedTrials == {a \in Accts : acct[a].status = "trial" /\ acct[a].ends = "over"}
Idle(h) == handler[h].for = "idle"
Done(h) == handler' = [handler EXCEPT ![h] = Nothing]
Reads(h, what, a) ==
    handler' = [handler EXCEPT ![h] = [for |-> what, who |-> a, status |-> acct[a].status]]

\* An UPDATE of a row that was deleted changes nothing.
Update(a, row) == acct' = [acct EXCEPT ![a] = IF Live(a) THEN row ELSE @]

\* Account a is no trial any more, or is one again.
Leaves(a) ==
    left' = [left EXCEPT ![a] =
        IF ~Live(a) \/ acct[a].status # "trial" THEN @
        ELSE IF \E w \in Cleanups : a \in sweep[w] THEN "raced" ELSE "clean"]
Returns(a) == left' = [left EXCEPT ![a] = IF acct[a].status # "trial" THEN "raced" ELSE @]

TrialBegins(a) ==
    /\ acct[a].status = "absent"
    /\ acct' = [acct EXCEPT ![a] = [NoAccount EXCEPT !.status = "trial",
                                    !.ends = "running", !.billing = "trial"]]
    /\ UNCHANGED <<sweep, marking, handler, boots, left>>

TrialEnds(a) ==
    /\ acct[a].ends = "running"
    /\ acct' = [acct EXCEPT ![a].ends = "over"]
    /\ UNCHANGED <<sweep, marking, handler, boots, left>>

-----------------------------------------------------------------------------
(* deleteExpiredTrialAccounts, every minute and at startup.                *)

\* Mutant: the selection goes by the billing status.
SelectByBilling(w) ==
    /\ sweep[w] = {}
    /\ {a \in EndedTrials : acct[a].billing = "trial"} # {}
    /\ sweep' = [sweep EXCEPT ![w] = {a \in EndedTrials : acct[a].billing = "trial"}]
    /\ UNCHANGED <<acct, marking, handler, boots, left>>

SelectEnded(w) ==
    /\ sweep[w] = {}
    /\ EndedTrials # {}
    /\ sweep' = [sweep EXCEPT ![w] = EndedTrials]
    /\ UNCHANGED <<acct, marking, handler, boots, left>>

\* The rows of the other tables go first, and their errors are swallowed; then
\* the users and the account, whatever it has become meanwhile.
DeleteAccount(w, a) ==
    /\ a \in sweep[w]
    /\ acct' = [acct EXCEPT ![a] = [NoAccount EXCEPT !.status = "deleted"]]
    /\ sweep' = [sweep EXCEPT ![w] = @ \ {a}]
    /\ UNCHANGED <<marking, handler, boots, left>>

\* One of the last two statements fails: the sweep ends, the other accounts wait.
SweepFails(w) ==
    /\ sweep[w] # {}
    /\ sweep' = [sweep EXCEPT ![w] = {}]
    /\ UNCHANGED <<acct, marking, handler, boots, left>>

\* startServer starts the sweep and checkExpiredTrials in the same turn: what
\* they select differs by no more than the trials that end in between.
Boot ==
    /\ boots < MaxBoots
    /\ boots' = boots + 1
    /\ \E w \in Cleanups : sweep' = [v \in Cleanups |-> IF v = w THEN EndedTrials ELSE {}]
    /\ marking' = EndedTrials
    /\ handler' = [h \in Handlers |-> Nothing]
    /\ UNCHANGED <<acct, left>>

MarkExpired(a) ==
    /\ a \in marking
    /\ Update(a, [acct[a] EXCEPT !.status = "expired", !.billing = "expired"])
    /\ marking' = marking \ {a}
    /\ UNCHANGED <<sweep, handler, boots, left>>
MarkFails ==
    /\ marking # {}
    /\ marking' = {}
    /\ UNCHANGED <<acct, sweep, handler, boots, left>>

-----------------------------------------------------------------------------
(* requireAccount, requireV1Account: accountCanOperate, then enforceBilling *)

CanOperate(a) ==
    /\ acct[a].status \in {"active", "trial"}
    /\ a \notin EndedTrials

\* The grace is counted from blocked_at, which a failed payment does not set.
RequestBlocks(h) ==
    /\ Idle(h)
    /\ \E a \in Accts :
         /\ CanOperate(a)
         /\ acct[a].billing = "past_due" /\ acct[a].blockedAt
         /\ Reads(h, "block", a)
    /\ UNCHANGED <<acct, sweep, marking, boots, left>>

Block(h) ==
    /\ handler[h].for = "block"
    /\ LET a == handler[h].who
       IN  /\ Update(a, [acct[a] EXCEPT !.status = "blocked"])
           /\ Leaves(a)
    /\ Done(h)
    /\ UNCHANGED <<sweep, marking, boots>>

-----------------------------------------------------------------------------
(* handleStripeWebhook: events come late, again, or in another order.      *)

\* Mutant: the checkout records the subscription and leaves the status.
CheckoutOnly(a) ==
    /\ Live(a)
    /\ acct' = [acct EXCEPT ![a].billing = "active", ![a].sub = TRUE]
    /\ Leaves(a)
    /\ UNCHANGED <<sweep, marking, handler, boots>>

Checkout(a) ==
    /\ Live(a)
    /\ acct' = [acct EXCEPT ![a].billing = "active", ![a].sub = TRUE, ![a].status = "active"]
    /\ Leaves(a)
    /\ UNCHANGED <<sweep, marking, handler, boots>>

\* The other events name the subscription: one that comes before the checkout
\* finds no account and is dropped.
StripeLooksUp(h) ==
    /\ Idle(h)
    /\ \E a \in Accts, e \in {"paid", "failed", "updated", "unpaid", "ended"} :
         Live(a) /\ acct[a].sub /\ Reads(h, e, a)
    /\ UNCHANGED <<acct, sweep, marking, boots, left>>

StripeRow(e, row) ==
    CASE e \in {"paid", "updated"} ->
             [row EXCEPT !.billing = "active", !.status = "active", !.blockedAt = FALSE]
      [] e = "failed" -> [row EXCEPT !.billing = "past_due"]
      [] e = "unpaid" ->
             [row EXCEPT !.billing = "cancelled", !.status = "expired", !.blockedAt = TRUE]
      [] OTHER -> [row EXCEPT !.billing = "cancelled", !.status = "cancelled", !.sub = FALSE]

\* Errors are swallowed and Stripe is answered that the event was received.
StripeWrites(h) ==
    /\ handler[h].for \in {"paid", "failed", "updated", "unpaid", "ended"}
    /\ LET a == handler[h].who
       IN  \/ /\ Update(a, StripeRow(handler[h].for, acct[a]))
              /\ IF handler[h].for = "failed" THEN UNCHANGED left ELSE Leaves(a)
           \/ UNCHANGED <<acct, left>>
    /\ Done(h)
    /\ UNCHANGED <<sweep, marking, boots>>

-----------------------------------------------------------------------------
(* PATCH /api/admin/accounts/:id, and /plan                                *)

AdminReads(h) ==
    /\ Idle(h)
    /\ \E a \in Accts, e \in {"edit", "upgrade"} : Live(a) /\ Reads(h, e, a)
    /\ UNCHANGED <<acct, sweep, marking, boots, left>>

\* A status that the body does not give is written back as it was read.
AdminWrites(h) ==
    /\ handler[h].for \in {"edit", "upgrade"}
    /\ LET a == handler[h].who
           seen == handler[h].status
           upgrade == handler[h].for = "upgrade"
       IN  \E s \in {seen} \cup (IF upgrade THEN {} ELSE Editable) :
             LET status == IF upgrade /\ seen = "trial" THEN "active" ELSE s
             IN  /\ Update(a, [acct[a] EXCEPT
                        !.status = status,
                        !.billing = IF upgrade /\ @ = "trial" THEN "active" ELSE @,
                        !.ends = IF upgrade /\ acct[a].status = "trial" THEN "none" ELSE @,
                        !.blockedAt = @ \/ status = "blocked"])
                 /\ IF ~Live(a) THEN UNCHANGED left
                    ELSE IF status = "trial" THEN Returns(a) ELSE Leaves(a)
    /\ Done(h)
    /\ UNCHANGED <<sweep, marking, boots>>

\* One UPDATE, whose CASEs read the row itself.
PlanChanges(a) ==
    /\ Live(a)
    /\ LET trial == acct[a].status = "trial"
       IN  acct' = [acct EXCEPT
             ![a].status = IF trial THEN "active" ELSE @,
             ![a].billing = IF @ = "trial" THEN "active" ELSE @,
             ![a].ends = IF trial THEN "none" ELSE @]
    /\ Leaves(a)
    /\ UNCHANGED <<sweep, marking, handler, boots>>

AccountsNext ==
    \/ \E a \in Accts :
         \/ TrialBegins(a) \/ TrialEnds(a) \/ MarkExpired(a) \/ Checkout(a) \/ PlanChanges(a)
         \/ \E w \in Cleanups : DeleteAccount(w, a)
    \/ \E w \in Cleanups : SelectEnded(w) \/ SweepFails(w)
    \/ \E h \in Handlers :
         \/ RequestBlocks(h) \/ Block(h) \/ StripeLooksUp(h) \/ StripeWrites(h)
         \/ AdminReads(h) \/ AdminWrites(h)
    \/ Boot \/ MarkFails

AccountsSpec == AccountsInit /\ [][AccountsNext]_accountsVars

\* The clean-up starts every minute, every run of it ends, by a failing statement
\* perhaps, and the database does not fail for ever.
AccountsFairness ==
    /\ WF_accountsVars(\E w \in Cleanups : SelectEnded(w))
    /\ \A w \in Cleanups : WF_accountsVars(SweepFails(w))
    /\ \A a \in Accts : SF_accountsVars(\E w \in Cleanups : DeleteAccount(w, a))
AccountsFairSpec == AccountsSpec /\ AccountsFairness

-----------------------------------------------------------------------------
\* An account that has left its trial, by a payment or by another plan, is
\* deleted only when that happened while a sweep already had it on its list, or
\* when an administrator has made it a trial again, by an edit that was read
\* before, or on purpose.
UpgradedKept == \A a \in Accts : acct[a].status = "deleted" => left[a] # "clean"

\* A trial that is over is deleted, made something else by a payment or an
\* administrator, or marked expired by the check at startup, whichever
\* statements fail.
TrialsConclude ==
    \A a \in Accts : a \in EndedTrials ~> a \notin EndedTrials
=============================================================================
