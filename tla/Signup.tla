-------------------------------- MODULE Signup --------------------------------
(***************************************************************************)
(* How accounts come into being in server.ts (registration, trial, by an   *)
(* administrator, by a reseller) and how a partner is credited for them.   *)
(* A request makes one statement after the other, without a transaction;   *)
(* a statement that is rejected rejects the handler, which nothing         *)
(* catches, and so ends the process and every request in progress.         *)
(***************************************************************************)
EXTENDS Naturals, FiniteSets

CONSTANTS
    Emails,       \* addresses: users.email is UNIQUE
    Partners,     \* partners, by referral_code
    Signups,      \* requests, one each; an account bears its request's name
    MaxEnds,      \* bound: ends of the server process
    NoPartner     \* no referral code, or none that is known

ASSUME SignupAssumption == Emails # {} /\ NoPartner \notin Partners /\ MaxEnds \in Nat

VARIABLES
    users,          \* users[e]: the accounts with a user of that address
    created,        \* the rows of accounts
    referrals,      \* the rows of partner_referrals, UNIQUE(partner, account)
    commissions,    \* how many automatic partner_commissions a pair has
    active,         \* the partners with status 'active'
    signup,         \* signup[r]: where request r is, and what it has read
    ends            \* bound

signupVars == <<users, created, referrals, commissions, active, signup, ends>>

Pairs == Partners \X Signups
SignupPlaces == {"idle", "partner", "account", "user", "find", "look", "insert",
                 "commission", "answered", "refused", "lost"}

SignupTypeOK ==
    /\ users \in [Emails -> SUBSET Signups]
    /\ created \subseteq Signups
    /\ referrals \subseteq Pairs
    /\ commissions \in [Pairs -> Nat]
    /\ active \subseteq Partners
    /\ signup \in [Signups -> [pc : SignupPlaces, email : Emails, for : Signups,
                               code : Partners \cup {NoPartner}]]
    /\ ends \in 0..MaxEnds

SignupInit ==
    /\ users = [e \in Emails |-> {}]
    /\ created = {}
    /\ referrals = {}
    /\ commissions = [x \in Pairs |-> 0]
    /\ active = Partners
    /\ signup = [r \in Signups |-> [pc |-> "idle", email |-> CHOOSE e \in Emails : TRUE,
                                    for |-> r, code |-> NoPartner]]
    /\ ends = 0

-----------------------------------------------------------------------------
Moves(r, pc) == signup' = [signup EXCEPT ![r].pc = pc]
Underway(r) == signup[r].pc \notin {"idle", "answered", "refused", "lost"}
Pair(r) == <<signup[r].code, signup[r].for>>

\* Nothing catches a rejection: the process ends, and is started again.
ProcessEnds ==
    /\ ends < MaxEnds
    /\ ends' = ends + 1
    /\ signup' = [r \in Signups |->
                    IF Underway(r) THEN [signup[r] EXCEPT !.pc = "lost"] ELSE signup[r]]

ServerDies ==
    /\ ProcessEnds
    /\ UNCHANGED <<users, created, referrals, commissions, active>>

\* The address is looked up before anything else.
AsksFor(r, p) ==
    /\ signup[r].pc = "idle"
    /\ \E e \in Emails :
         signup' = [signup EXCEPT ![r] =
             [pc |-> IF users[e] # {} THEN "refused" ELSE "partner",
              email |-> e, for |-> r, code |-> p]]
    /\ UNCHANGED <<users, created, referrals, commissions, active, ends>>

\* A registration or a trial; an administrator or a reseller names no partner.
AsksAccount(r) == \E p \in Partners \cup {NoPartner} : AsksFor(r, p)
AdminAsksAccount(r) == AsksFor(r, NoPartner)

\* Then the plan, without which a trial is refused, and the partner.
ReadsPartner(r) ==
    /\ signup[r].pc = "partner"
    /\ \/ signup' = [signup EXCEPT ![r].pc = "account",
                                   ![r].code = IF @ \in active THEN @ ELSE NoPartner]
       \/ Moves(r, "refused")
    /\ UNCHANGED <<users, created, referrals, commissions, active, ends>>

InsertsAccount(r) ==
    /\ signup[r].pc = "account"
    /\ created' = created \cup {r}
    /\ Moves(r, "user")
    /\ UNCHANGED <<users, referrals, commissions, active, ends>>

\* Two requests for one address may both be here: the second is rejected.
InsertsUser(r) ==
    /\ signup[r].pc = "user"
    /\ IF users[signup[r].email] = {}
       THEN /\ users' = [users EXCEPT ![signup[r].email] = {r}]
            /\ Moves(r, IF signup[r].code = NoPartner THEN "answered" ELSE "find")
            /\ UNCHANGED ends
       ELSE ProcessEnds /\ UNCHANGED users
    /\ UNCHANGED <<created, referrals, commissions, active>>

-----------------------------------------------------------------------------
(* recordPartnerReferral, for a new account or for one that an             *)
(* administrator links to a partner.                                       *)

AsksLink(r) ==
    /\ signup[r].pc = "idle"
    /\ \E p \in Partners, a \in created :
         signup' = [signup EXCEPT ![r] = [@ EXCEPT !.pc = "find", !.for = a, !.code = p]]
    /\ UNCHANGED <<users, created, referrals, commissions, active, ends>>

\* A partner that is not active by now is not credited.  The UPDATE of the
\* account that follows swallows its errors.
FindsPartner(r) ==
    /\ signup[r].pc = "find"
    /\ Moves(r, IF signup[r].code \in active THEN "look" ELSE "answered")
    /\ UNCHANGED <<users, created, referrals, commissions, active, ends>>

LooksReferral(r) ==
    /\ signup[r].pc = "look"
    /\ Moves(r, IF Pair(r) \in referrals THEN "answered" ELSE "insert")
    /\ UNCHANGED <<users, created, referrals, commissions, active, ends>>

\* Mutant: a referral that is there by now is taken for this request's own.
InsertsAnyway(r) ==
    /\ signup[r].pc = "insert"
    /\ referrals' = referrals \cup {Pair(r)}
    /\ Moves(r, "commission")
    /\ UNCHANGED <<users, created, commissions, active, ends>>

InsertsReferral(r) ==
    /\ signup[r].pc = "insert"
    /\ IF Pair(r) \notin referrals
       THEN /\ referrals' = referrals \cup {Pair(r)}
            /\ Moves(r, "commission")
            /\ UNCHANGED ends
       ELSE ProcessEnds /\ UNCHANGED referrals
    /\ UNCHANGED <<users, created, commissions, active>>

\* Its errors are swallowed: the pair then has no commission, for ever.
InsertsCommission(r) ==
    /\ signup[r].pc = "commission"
    /\ commissions' \in {commissions, [commissions EXCEPT ![Pair(r)] = @ + 1]}
    /\ Moves(r, "answered")
    /\ UNCHANGED <<users, created, referrals, active, ends>>

\* An administrator edits the partner's status.
EditsPartner(p) ==
    /\ active' = IF p \in active THEN active \ {p} ELSE active \cup {p}
    /\ UNCHANGED <<users, created, referrals, commissions, signup, ends>>

SignupNext ==
    \/ \E r \in Signups :
         \/ AsksAccount(r) \/ AdminAsksAccount(r) \/ ReadsPartner(r) \/ InsertsAccount(r) \/ InsertsUser(r)
         \/ AsksLink(r) \/ FindsPartner(r) \/ LooksReferral(r)
         \/ InsertsReferral(r) \/ InsertsCommission(r)
    \/ \E p \in Partners : EditsPartner(p)
    \/ ServerDies

SignupSpec == SignupInit /\ [][SignupNext]_signupVars

-----------------------------------------------------------------------------
\* A partner is credited at most once for an account, whatever overlaps and
\* whatever is repeated after the process ended: the constraint stops the
\* second referral, and the commission comes after it.
CreditedOnce == \A x \in Pairs : commissions[x] <= 1
=============================================================================
