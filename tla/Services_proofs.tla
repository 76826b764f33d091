---------------------------- MODULE Services_proofs ----------------------------
(***************************************************************************)
(* What stays true when requests overlap, for any number of them: who is   *)
(* credited, whose consent holds, which targets are silent, that a message *)
(* has one row, that a number that was logged out stays so, that the panel *)
(* asks for what it shows, and that it calls sent what was sent.           *)
(***************************************************************************)
EXTENDS Signup, Consent, Targets, Inbox, WozapiBridge, PanelViews, PanelChat,
        FiniteSetTheorems, SequenceTheorems, TLAPS

-----------------------------------------------------------------------------
(* Signup: a request that is about to insert a commission owns the pair,    *)
(* because it inserted the referral, and there is no commission of it yet.  *)

Credits == {r \in Signups : signup[r].pc = "commission"}
SignupInv ==
    /\ SignupTypeOK
    /\ \A r \in Signups :
         signup[r].pc \in {"find", "look", "insert", "commission"} => signup[r].code \in Partners
    /\ \A r \in Credits : Pair(r) \in referrals /\ commissions[Pair(r)] = 0
    /\ \A r, q \in Credits : Pair(r) = Pair(q) => r = q
    /\ \A x \in Pairs : commissions[x] <= 1 /\ (x \notin referrals => commissions[x] = 0)

\* A request that moves where it owes no commission leaves who is owed one.
LEMMA SignupMoves ==
    ASSUME SignupInv, NEW r \in Signups,
           NEW s \in [pc : SignupPlaces, email : Emails, for : Signups,
                      code : Partners \cup {NoPartner}],
           signup' = [signup EXCEPT ![r] = s], s.pc # "commission",
           s.pc \in {"find", "look", "insert"} => s.code \in Partners,
           commissions' = commissions, referrals' = referrals,
           users' \in [Emails -> SUBSET Signups], created' \subseteq Signups,
           active' = active, ends' = ends
    PROVE  SignupInv'
<1> USE DEF SignupInv
<1>1. SignupTypeOK' BY DEF SignupTypeOK
<1>2. \A q \in Signups \ {r} : signup'[q] = signup[q] BY DEF SignupTypeOK
<1>3. signup'[r] = s BY DEF SignupTypeOK
<1>4. Credits' = Credits \ {r} BY <1>2, <1>3 DEF Credits
<1>5. \A q \in Credits' : q # r /\ Pair(q)' = Pair(q) BY <1>2, <1>4 DEF Pair
<1> QED BY <1>1, <1>2, <1>3, <1>4, <1>5

\* When the process ends, every request that owed a commission is lost.
LEMMA SignupEnds ==
    ASSUME SignupInv, ProcessEnds,
           UNCHANGED <<users, created, referrals, commissions, active>>
    PROVE  SignupInv'
<1> USE DEF SignupInv
<1>1. /\ ends < MaxEnds /\ ends' = ends + 1
      /\ signup' = [r \in Signups |->
            IF Underway(r) THEN [signup[r] EXCEPT !.pc = "lost"] ELSE signup[r]]
  BY DEF ProcessEnds
<1>2. \A r \in Signups : /\ signup'[r].pc \notin {"find", "look", "insert", "commission"}
                         /\ signup'[r] \in [pc : SignupPlaces, email : Emails, for : Signups,
                                            code : Partners \cup {NoPartner}]
  <2> TAKE r \in Signups
  <2>1. signup[r] \in [pc : SignupPlaces, email : Emails, for : Signups,
                       code : Partners \cup {NoPartner}]
    BY DEF SignupTypeOK
  <2>2. CASE Underway(r) BY <1>1, <2>1, <2>2 DEF SignupPlaces
  <2>3. CASE ~Underway(r) BY <1>1, <2>1, <2>3 DEF Underway
  <2> QED BY <2>2, <2>3
<1>3. signup' \in [Signups -> [pc : SignupPlaces, email : Emails, for : Signups,
                               code : Partners \cup {NoPartner}]]
  BY <1>1, <1>2
<1>4. SignupTypeOK' BY <1>1, <1>3, SignupAssumption DEF SignupTypeOK, SignupAssumption
<1>5. Credits' = {} BY <1>2 DEF Credits
<1> QED BY <1>2, <1>4, <1>5

LEMMA SignupStep == SignupInv /\ [SignupNext]_signupVars => SignupInv'
<1> SUFFICES ASSUME SignupInv, [SignupNext]_signupVars PROVE SignupInv' OBVIOUS
<1> USE DEF SignupInv
<1> DEFINE SignupRows == [pc : SignupPlaces, email : Emails, for : Signups,
                    code : Partners \cup {NoPartner}]
<1>t. /\ signup \in [Signups -> SignupRows] /\ users \in [Emails -> SUBSET Signups]
      /\ created \subseteq Signups /\ referrals \subseteq Pairs
      /\ commissions \in [Pairs -> Nat]
  BY DEF SignupTypeOK
<1>1. CASE UNCHANGED signupVars
  <2>1. Credits' = Credits /\ \A r \in Signups : Pair(r)' = Pair(r)
    BY <1>1 DEF signupVars, Credits, Pair
  <2>2. SignupTypeOK' BY <1>1 DEF signupVars, SignupTypeOK
  <2> QED BY <1>1, <2>1, <2>2 DEF signupVars, Credits
<1>2. ASSUME NEW r \in Signups, NEW p \in Partners \cup {NoPartner}, AsksFor(r, p)
      PROVE  SignupInv'
  <2>1. PICK e \in Emails :
          signup' = [signup EXCEPT ![r] =
             [pc |-> IF users[e] # {} THEN "refused" ELSE "partner",
              email |-> e, for |-> r, code |-> p]]
    BY <1>2 DEF AsksFor
  <2> DEFINE s == [pc |-> IF users[e] # {} THEN "refused" ELSE "partner",
                   email |-> e, for |-> r, code |-> p]
  <2>2. s \in SignupRows /\ s.pc \in {"refused", "partner"} BY <1>2 DEF SignupPlaces
  <2>3. signup' = [signup EXCEPT ![r] = s] BY <2>1
  <2> HIDE DEF s
  <2> QED BY <1>2, <1>t, <2>2, <2>3, SignupMoves DEF AsksFor
<1>m. ASSUME NEW r \in Signups, NEW pc \in SignupPlaces,
             pc # "commission", Moves(r, pc),
             pc \in {"find", "look", "insert"} => signup[r].code \in Partners,
             commissions' = commissions, referrals' = referrals,
             users' \in [Emails -> SUBSET Signups], created' \subseteq Signups,
             active' = active, ends' = ends
      PROVE  SignupInv'
  <2> DEFINE s == [signup[r] EXCEPT !.pc = pc]
  <2>1. s \in SignupRows /\ s.pc = pc /\ s.code = signup[r].code BY <1>t
  <2>2. signup' = [signup EXCEPT ![r] = s] BY <1>m DEF Moves
  <2> HIDE DEF s
  <2> QED BY <1>m, <2>1, <2>2, SignupMoves
<1>3. ASSUME NEW r \in Signups, ReadsPartner(r) PROVE SignupInv'
  <2>1. CASE Moves(r, "refused") BY <1>3, <2>1, <1>m, <1>t DEF ReadsPartner, SignupPlaces
  <2>2. CASE signup' = [signup EXCEPT ![r].pc = "account",
                                      ![r].code = IF @ \in active THEN @ ELSE NoPartner]
    <3> DEFINE code == IF signup[r].code \in active THEN signup[r].code ELSE NoPartner
               s == [signup[r] EXCEPT !.pc = "account", !.code = code]
    <3>3. /\ signup[r] \in SignupRows /\ "account" \in SignupPlaces
          /\ code \in Partners \cup {NoPartner}
      BY <1>t DEF SignupPlaces
    <3>1. s \in SignupRows /\ s.pc = "account"
      <4> HIDE DEF SignupInv, code
      <4> QED BY <3>3
    <3>2. signup' = [signup EXCEPT ![r] = s] BY <2>2, <1>t
    <3> HIDE DEF s
    <3> QED BY <1>3, <1>t, <3>1, <3>2, SignupMoves DEF ReadsPartner
  <2> QED BY <1>3, <2>1, <2>2 DEF ReadsPartner
<1>4. ASSUME NEW r \in Signups, InsertsAccount(r) PROVE SignupInv'
  BY <1>4, <1>m, <1>t DEF InsertsAccount, SignupPlaces
<1>5. ASSUME NEW r \in Signups, InsertsUser(r) PROVE SignupInv'
  <2>1. CASE users[signup[r].email] = {}
    <3>1. users' \in [Emails -> SUBSET Signups] BY <1>5, <2>1, <1>t DEF InsertsUser
    <3>2. CASE signup[r].code = NoPartner
      BY <1>5, <2>1, <3>1, <3>2, <1>m, <1>t DEF InsertsUser, SignupPlaces
    <3>3. CASE signup[r].code # NoPartner
      <4>1. signup[r].code \in Partners BY <3>3, <1>t
      <4> QED BY <1>5, <2>1, <3>1, <3>3, <4>1, <1>m, <1>t DEF InsertsUser, SignupPlaces
    <3> QED BY <3>2, <3>3
  <2>2. CASE users[signup[r].email] # {} BY <1>5, <2>2, SignupEnds DEF InsertsUser
  <2> QED BY <2>1, <2>2
<1>6. ASSUME NEW r \in Signups, AsksLink(r) PROVE SignupInv'
  <2>1. PICK p \in Partners, a \in created :
          signup' = [signup EXCEPT ![r] = [@ EXCEPT !.pc = "find", !.for = a, !.code = p]]
    BY <1>6 DEF AsksLink
  <2> DEFINE s == [signup[r] EXCEPT !.pc = "find", !.for = a, !.code = p]
  <2>4. signup[r] \in SignupRows /\ a \in Signups /\ "find" \in SignupPlaces BY <1>t DEF SignupPlaces
  <2>2. s \in SignupRows /\ s.pc = "find" /\ s.code = p
    <3> HIDE DEF SignupInv
    <3> QED BY <2>4
  <2>3. signup' = [signup EXCEPT ![r] = s] BY <2>1
  <2> HIDE DEF s
  <2> QED BY <1>6, <1>t, <2>2, <2>3, SignupMoves DEF AsksLink
<1>7. ASSUME NEW r \in Signups, FindsPartner(r) \/ LooksReferral(r) PROVE SignupInv'
  <2>1. signup[r].code \in Partners BY <1>7 DEF FindsPartner, LooksReferral
  <2>2. CASE FindsPartner(r)
    BY <2>1, <2>2, <1>m, <1>t DEF FindsPartner, SignupPlaces
  <2>3. CASE LooksReferral(r)
    BY <2>1, <2>3, <1>m, <1>t DEF LooksReferral, SignupPlaces
  <2> QED BY <1>7, <2>2, <2>3
<1>8. ASSUME NEW r \in Signups, InsertsReferral(r) PROVE SignupInv'
  <2>1. CASE Pair(r) \in referrals BY <1>8, <2>1, SignupEnds DEF InsertsReferral
  <2>2. CASE Pair(r) \notin referrals
    <3>1. /\ signup[r].pc = "insert" /\ referrals' = referrals \cup {Pair(r)}
          /\ signup' = [signup EXCEPT ![r].pc = "commission"]
          /\ UNCHANGED <<users, created, commissions, active, ends>>
      BY <1>8, <2>2 DEF InsertsReferral, Moves
    <3>2. Pair(r) \in Pairs BY <3>1, <1>t DEF Pair, Pairs
    <3>3. \A q \in Signups : Pair(q)' = Pair(q) /\ signup'[q].code = signup[q].code
      BY <3>1, <1>t DEF Pair
    <3>4. Credits' = Credits \cup {r} BY <3>1, <1>t DEF Credits
    <3>5. commissions[Pair(r)] = 0 BY <2>2, <3>2
    <3>6. \A q \in Credits : Pair(q) # Pair(r) BY <2>2
    <3>7. SignupTypeOK'
      <4>1. signup' \in [Signups -> SignupRows] BY <3>1, <1>t DEF SignupPlaces
      <4> QED BY <3>1, <3>2, <4>1, <1>t DEF SignupTypeOK
    <3>8. \A q \in Signups : signup'[q].pc \in {"find", "look", "insert", "commission"} =>
                               signup'[q].code \in Partners
      BY <3>1, <3>3, <1>t
    <3>9. \A q \in Credits' : Pair(q)' \in referrals' /\ commissions'[Pair(q)'] = 0
      BY <3>1, <3>3, <3>4, <3>5 DEF Credits
    <3>10. \A q, p \in Credits' : Pair(q)' = Pair(p)' => q = p
      BY <3>3, <3>4, <3>6 DEF Credits
    <3> QED BY <3>1, <3>2, <3>7, <3>8, <3>9, <3>10
  <2> QED BY <2>1, <2>2
<1>9. ASSUME NEW r \in Signups, InsertsCommission(r) PROVE SignupInv'
  <2>1. /\ r \in Credits /\ signup' = [signup EXCEPT ![r].pc = "answered"]
        /\ commissions' \in {commissions, [commissions EXCEPT ![Pair(r)] = @ + 1]}
        /\ UNCHANGED <<users, created, referrals, active, ends>>
    BY <1>9 DEF InsertsCommission, Moves, Credits
  <2>2. Pair(r) \in referrals /\ Pair(r) \in Pairs /\ commissions[Pair(r)] = 0
    BY <2>1, <1>t
  <2>3. \A q \in Signups : Pair(q)' = Pair(q) /\ signup'[q].code = signup[q].code
    BY <2>1, <1>t DEF Pair
  <2>4. Credits' = Credits \ {r} BY <2>1, <1>t DEF Credits
  <2>5. /\ commissions' \in [Pairs -> Nat] /\ commissions'[Pair(r)] <= 1
        /\ \A x \in Pairs \ {Pair(r)} : commissions'[x] = commissions[x]
    BY <2>1, <2>2, <1>t
  <2>6. \A q \in Credits' : Pair(q) \in Pairs /\ Pair(q) # Pair(r)
    BY <2>1, <2>4, <1>t
  <2>7. signup' \in [Signups -> SignupRows] BY <2>1, <1>t DEF SignupPlaces
  <2>8. SignupTypeOK' BY <2>1, <2>5, <2>7 DEF SignupTypeOK
  <2>9. \A q \in Signups : signup'[q].pc \in {"find", "look", "insert", "commission"} =>
                             signup'[q].code \in Partners
    BY <2>1, <2>3, <1>t
  <2>10. \A q \in Credits' : Pair(q)' \in referrals' /\ commissions'[Pair(q)'] = 0
    BY <2>1, <2>3, <2>4, <2>5, <2>6 DEF Credits
  <2>11. \A q, p \in Credits' : Pair(q)' = Pair(p)' => q = p
    BY <2>3, <2>4 DEF Credits
  <2>12. \A x \in Pairs : commissions'[x] <= 1 /\ (x \notin referrals' => commissions'[x] = 0)
    BY <2>1, <2>2, <2>5
  <2> QED BY <2>8, <2>9, <2>10, <2>11, <2>12
<1>10. ASSUME NEW p \in Partners, EditsPartner(p) PROVE SignupInv'
  <2>1. /\ active' \subseteq Partners
        /\ UNCHANGED <<users, created, referrals, commissions, signup, ends>>
    BY <1>10 DEF EditsPartner, SignupTypeOK
  <2>2. Credits' = Credits /\ \A r \in Signups : Pair(r)' = Pair(r)
    BY <2>1 DEF Credits, Pair
  <2>3. SignupTypeOK' BY <2>1 DEF SignupTypeOK
  <2> QED BY <2>1, <2>2, <2>3 DEF Credits
<1>11. CASE ServerDies BY <1>11, SignupEnds DEF ServerDies
<1> QED
  BY <1>1, <1>2, <1>3, <1>4, <1>5, <1>6, <1>7, <1>8, <1>9, <1>10, <1>11
     DEF SignupNext, AsksAccount, AdminAsksAccount

\* A partner is credited at most once for an account: the constraint on the
\* referrals serialises requests that looked for the referral together.
THEOREM OneCredit == SignupSpec => []CreditedOnce
<1>1. SignupInit => SignupInv
  <2> SUFFICES ASSUME SignupInit PROVE SignupInv OBVIOUS
  <2>1. PICK e \in Emails :
          signup = [r \in Signups |-> [pc |-> "idle", email |-> e, for |-> r,
                                       code |-> NoPartner]]
    BY SignupAssumption DEF SignupInit, SignupAssumption
  <2>2. SignupTypeOK
    BY <2>1, SignupAssumption
       DEF SignupInit, SignupTypeOK, SignupAssumption, SignupPlaces
  <2>3. Credits = {} BY <2>1 DEF Credits
  <2> QED BY <2>1, <2>2, <2>3 DEF SignupInv, SignupInit
<1>2. SignupInv => CreditedOnce BY DEF SignupInv, CreditedOnce
<1> QED BY <1>1, <1>2, SignupStep, PTL DEF SignupSpec

-----------------------------------------------------------------------------
(* Consent: an INSERT that a revoke may have overlapped is remembered until *)
(* the next revoke, and so is every row it leaves.                          *)

Granting == {g \in Grantors : grantor[g].pc = "insert"}
ConsentInv ==
    /\ grantor \in [Grantors -> [pc : {"idle", "insert", "granted", "failed"},
                                 user : Users, fresh : BOOLEAN]]
    /\ current \subseteq Users
    /\ ConsentHolds
    /\ Granting # {} => renewed

LEMMA ConsentStep == ConsentInv /\ [ConsentNext]_consentVars => ConsentInv'
<1> SUFFICES ASSUME ConsentInv, [ConsentNext]_consentVars PROVE ConsentInv' OBVIOUS
<1> USE DEF ConsentInv, ConsentHolds, Granting
<1>1. ASSUME UNCHANGED <<current, grantor, renewed>> PROVE ConsentInv'
  BY <1>1
<1>2. ASSUME NEW g \in Grantors, GrantLooks(g) PROVE ConsentInv'
  <2>1. PICK u \in Users, pc \in {"insert", "granted", "failed"} :
          /\ pc = "granted" => u \in current
          /\ grantor' = [grantor EXCEPT ![g] = [pc |-> pc, user |-> u, fresh |-> TRUE]]
          /\ renewed' = (renewed \/ pc = "insert")
    BY <1>2 DEF GrantLooks
  <2>2. current' = current /\ grantor[g].pc = "idle" BY <1>2 DEF GrantLooks
  <2>3. grantor'[g] = [pc |-> pc, user |-> u, fresh |-> TRUE]
        /\ \A h \in Grantors \ {g} : grantor'[h] = grantor[h]
    BY <2>1
  <2>4. grantor' \in [Grantors -> [pc : {"idle", "insert", "granted", "failed"},
                                   user : Users, fresh : BOOLEAN]]
    BY <2>1
  <2>5. current' # {} => renewed' BY <2>1, <2>2
  <2>6. Granting' # {} => renewed' BY <2>1, <2>3
  <2>7. \A h \in Grantors : (grantor'[h].pc = "granted" /\ grantor'[h].fresh)
                               => grantor'[h].user \in current'
    BY <2>1, <2>2, <2>3
  <2> QED BY <2>2, <2>4, <2>5, <2>6, <2>7
<1>3. ASSUME NEW g \in Grantors, GrantInserts(g) PROVE ConsentInv'
  <2>1. g \in Granting /\ renewed' = renewed BY <1>3 DEF GrantInserts
  <2>2. PICK pc \in {"granted", "failed"} :
          /\ grantor' = [grantor EXCEPT ![g].pc = pc]
          /\ current' = IF pc = "granted" THEN current \cup {grantor[g].user} ELSE current
    BY <1>3 DEF GrantInserts
  <2>3. /\ grantor'[g].pc = pc /\ grantor'[g].user = grantor[g].user
        /\ \A h \in Grantors \ {g} : grantor'[h] = grantor[h]
    BY <2>2
  <2>4. grantor' \in [Grantors -> [pc : {"idle", "insert", "granted", "failed"},
                                   user : Users, fresh : BOOLEAN]]
    BY <2>2
  <2>5. current' \subseteq Users BY <2>2
  <2>6. \A h \in Grantors : (grantor'[h].pc = "granted" /\ grantor'[h].fresh)
                               => grantor'[h].user \in current'
    BY <2>2, <2>3
  <2> QED BY <2>1, <2>4, <2>5, <2>6
<1>4. ASSUME Revoke PROVE ConsentInv'
  <2>1. /\ current' = {} /\ renewed' = (Granting # {})
        /\ grantor' = [g \in Grantors |-> [grantor[g] EXCEPT !.fresh = FALSE]]
    BY <1>4 DEF Revoke, RevokeFor
  <2>2. \A g \in Grantors :
          /\ grantor'[g].pc = grantor[g].pc /\ ~grantor'[g].fresh
          /\ grantor'[g] \in [pc : {"idle", "insert", "granted", "failed"},
                              user : Users, fresh : BOOLEAN]
    BY <2>1
  <2>3. Granting' = Granting BY <2>2
  <2>4. grantor' \in [Grantors -> [pc : {"idle", "insert", "granted", "failed"},
                                   user : Users, fresh : BOOLEAN]]
    BY <2>1, <2>2
  <2> QED BY <2>1, <2>2, <2>3, <2>4
<1> QED
  BY <1>1, <1>2, <1>3, <1>4
     DEF ConsentNext, Forgets, AnonymizeBegins, AnonymizeStep, consentVars

\* After a revoke nobody's consent is current until a grant inserts it, and a
\* grant that was answered stands until something is revoked, for any number of
\* users and of requests that overlap.
THEOREM ConsentIsRight == ConsentSpec => []ConsentHolds
<1>1. ConsentInit => ConsentInv
  <2> SUFFICES ASSUME ConsentInit PROVE ConsentInv OBVIOUS
  <2>1. AnyUser \in Users BY ConsentAssumption DEF ConsentAssumption, AnyUser
  <2>2. /\ grantor = [g \in Grantors |-> [pc |-> "idle", user |-> AnyUser, fresh |-> TRUE]]
        /\ current = {}
    BY DEF ConsentInit
  <2> QED BY <2>1, <2>2 DEF ConsentInv, ConsentHolds, Granting
<1>2. ConsentInv => ConsentHolds BY DEF ConsentInv
<1> QED BY <1>1, <1>2, ConsentStep, PTL DEF ConsentSpec

-----------------------------------------------------------------------------
(* Targets: what was switched off is off in the rows, nobody is about to    *)
(* switch it on without knowing, and no dispatch has found it.              *)

HooksSilent ==
    \A h \in Hooks \cap silenced :
        \/ webhooks[h].is = "deleted"
        \/ /\ webhooks[h].is = "live" /\ ~webhooks[h].on
           /\ \A e \in Editors : edit[e].of = h => ~edit[e].row.on
EditsLive ==
    \A e \in Editors : edit[e].of # NoWebhook =>
        edit[e].row.is = "live" /\ webhooks[edit[e].of].is # "none"
UrlsSilent ==
    /\ "legacy" \in silenced => ~(legacy.url /\ legacy.enabled)
    /\ "global" \in silenced => ~global.on
SendsQuietly ==
    /\ sending.quiet \subseteq silenced
    /\ sending.left \cap sending.quiet = {}
    /\ noted \cap sending.quiet = {} /\ queued \cap sending.quiet = {}
    /\ sending.pc = "queue" => sending.now \in AllTargets \ sending.quiet
    /\ sending.legacy => "legacy" \notin sending.quiet
    /\ sending.pc = "idle" => noted = {} /\ queued = {} /\ sending.left = {}
TargetsInv == TargetsTypeOK /\ HooksSilent /\ EditsLive /\ UrlsSilent /\ SendsQuietly

SendingRow == [pc : Stages, only : Hooks \cup {NoWebhook}, bypass : BOOLEAN,
               legacy : BOOLEAN, left : SUBSET AllTargets,
               now : AllTargets \cup {NoWebhook}, quiet : SUBSET AllTargets]

\* A dispatch under way stays quiet when targets are switched off or on.
LEMMA StaysQuiet ==
    ASSUME TargetsInv, NEW ts \in SUBSET AllTargets,
           \/ Silence(ts) \/ Revive(ts) \/ UNCHANGED <<silenced, sending>>,
           SendingSame
    PROVE  /\ SendsQuietly' /\ silenced' \subseteq AllTargets
           /\ sending' \in SendingRow
           /\ noted' \subseteq AllTargets /\ queued' \subseteq AllTargets
<1>1. sending \in SendingRow BY DEF TargetsInv, TargetsTypeOK, SendingRow
<1>2. noted' = noted /\ queued' = queued BY DEF SendingSame
<1>3. CASE Silence(ts) \/ UNCHANGED <<silenced, sending>>
  BY <1>1, <1>2, <1>3 DEF TargetsInv, TargetsTypeOK, SendsQuietly, Silence
<1>4. CASE Revive(ts)
  <2> DEFINE q == sending.quiet \ ts
  <2>1. silenced' = silenced \ ts /\ sending' = [sending EXCEPT !.quiet = q]
    BY <1>4 DEF Revive
  <2>2. q \in SUBSET AllTargets BY <1>1 DEF SendingRow
  <2>3. /\ sending' \in SendingRow /\ sending'.quiet = q /\ sending'.left = sending.left
        /\ sending'.pc = sending.pc /\ sending'.now = sending.now
        /\ sending'.legacy = sending.legacy
    BY <2>1, <2>2, <1>1 DEF SendingRow
  <2> QED BY <1>2, <2>1, <2>3 DEF TargetsInv, TargetsTypeOK, SendsQuietly
<1> QED BY <1>3, <1>4

LEMMA HookStep ==
    ASSUME TargetsInv, NEW h \in Hooks
    PROVE  /\ \A hears \in Filters : Inserts(h, hears) => TargetsInv'
           /\ \A e \in Editors, ask \in WaysToEdit : ReadsHook(e, h, ask) => TargetsInv'
           /\ DeletesHook(h) => TargetsInv'
<1> USE TargetsAssumption DEF TargetsAssumption
<1>t. /\ webhooks \in [Hooks -> HookRow]
      /\ edit \in [Editors -> [of : Hooks \cup {NoWebhook}, row : HookRow,
                               ask : {"rename", "on", "off"} \cup Filters]]
      /\ orders \in 0..MaxOrders
  BY DEF TargetsInv, TargetsTypeOK
<1>o. Order => orders' \in 0..MaxOrders BY <1>t DEF Order
<1>s. ASSUME \/ Silence({h}) \/ UNCHANGED <<silenced, sending>>,
             SendingSame, Order, UNCHANGED <<legacy, global>>,
             webhooks' \in [Hooks -> HookRow],
             edit' \in [Editors -> [of : Hooks \cup {NoWebhook}, row : HookRow,
                                    ask : {"rename", "on", "off"} \cup Filters]],
             HooksSilent', EditsLive'
      PROVE  TargetsInv'
  <2>1. /\ SendsQuietly' /\ silenced' \subseteq AllTargets /\ sending' \in SendingRow
        /\ noted' \subseteq AllTargets /\ queued' \subseteq AllTargets
    BY <1>s, StaysQuiet DEF AllTargets
  <2>2. UrlsSilent'
    <3>1. "legacy" \notin {h} /\ "global" \notin {h} OBVIOUS
    <3> QED BY <1>s, <3>1 DEF TargetsInv, UrlsSilent, Silence
  <2>3. TargetsTypeOK' BY <1>s, <1>o, <2>1 DEF TargetsInv, TargetsTypeOK, SendingRow
  <2> QED BY <1>s, <2>1, <2>2, <2>3 DEF TargetsInv
<1>1. ASSUME NEW hears \in Filters, Inserts(h, hears) PROVE TargetsInv'
  <2>1. /\ webhooks[h].is = "none" /\ Order /\ SendingSame
        /\ webhooks' = [webhooks EXCEPT ![h] = [is |-> "live", on |-> TRUE, hears |-> hears]]
        /\ UNCHANGED <<legacy, global, edit, sending, silenced>>
    BY <1>1 DEF Inserts, NoHook
  <2>2. webhooks' \in [Hooks -> HookRow] BY <2>1, <1>t DEF HookRow
  <2>3. HooksSilent' BY <2>1, <1>t DEF TargetsInv, HooksSilent
  <2>4. EditsLive' BY <2>1, <1>t DEF TargetsInv, EditsLive
  <2> QED BY <1>s, <1>t, <2>1, <2>2, <2>3, <2>4
<1>2. ASSUME NEW e \in Editors, NEW ask \in WaysToEdit, ReadsHook(e, h, ask)
      PROVE  TargetsInv'
  <2>1. /\ webhooks[h].is = "live" /\ Order /\ SendingSame
        /\ edit' = [edit EXCEPT ![e] = [of |-> h, row |-> webhooks[h], ask |-> ask]]
        /\ UNCHANGED <<webhooks, legacy, global, sending, silenced>>
    BY <1>2 DEF ReadsHook, Live
  <2>2. edit' \in [Editors -> [of : Hooks \cup {NoWebhook}, row : HookRow,
                               ask : {"rename", "on", "off"} \cup Filters]]
    BY <2>1, <1>t DEF WaysToEdit
  <2>3. HooksSilent' BY <2>1, <1>t DEF TargetsInv, HooksSilent
  <2>4. EditsLive' BY <2>1, <1>t DEF TargetsInv, EditsLive
  <2> QED BY <1>s, <1>t, <2>1, <2>2, <2>3, <2>4
<1>3. ASSUME DeletesHook(h) PROVE TargetsInv'
  <2>1. /\ webhooks' = [webhooks EXCEPT ![h].is = "deleted"]
        /\ Order /\ SendingSame /\ Silence({h}) /\ UNCHANGED <<legacy, global, edit>>
    BY <1>3 DEF DeletesHook
  <2>2. webhooks' \in [Hooks -> HookRow] BY <2>1, <1>t DEF HookRow
  <2>3. /\ webhooks'[h].is = "deleted"
        /\ \A x \in Hooks \ {h} : webhooks'[x] = webhooks[x]
    BY <2>1, <1>t DEF HookRow
  <2>4. HooksSilent' BY <2>1, <2>3 DEF TargetsInv, HooksSilent, Silence
  <2>5. EditsLive' BY <2>1, <2>3, <1>t DEF TargetsInv, EditsLive
  <2> QED BY <1>s, <1>t, <2>1, <2>2, <2>4, <2>5
<1> QED BY <1>1, <1>2, <1>3

\* The UPDATE of an edit: the last word, unless another edit overlaps it.
LEMMA WriteStep == ASSUME TargetsInv, NEW e \in Editors, WritesHook(e) PROVE TargetsInv'
<1> USE TargetsAssumption DEF TargetsAssumption
<1> DEFINE h == edit[e].of
           ask == edit[e].ask
           new == Edited(edit[e].row, ask)
           alone == \A d \in Editors \ {e} : edit[d].of # h
           Edits == [of : Hooks \cup {NoWebhook}, row : HookRow,
                     ask : {"rename", "on", "off"} \cup Filters]
<1>t. webhooks \in [Hooks -> HookRow] /\ edit \in [Editors -> Edits]
  BY DEF TargetsInv, TargetsTypeOK
<1>1. /\ h # NoWebhook
      /\ webhooks' = IF Live(h) THEN [webhooks EXCEPT ![h] = new] ELSE webhooks
      /\ edit' = [edit EXCEPT ![e] = NoEdit]
      /\ UNCHANGED <<legacy, global, orders>> /\ SendingSame
  BY DEF WritesHook
<1>2. \/ ask = "on" /\ Live(h) /\ Revive({h})
      \/ ask = "off" /\ alone /\ Silence({h})
      \/ ~(ask = "on" /\ Live(h)) /\ UNCHANGED <<silenced, sending>>
  <2>1. CASE ask = "on" /\ Live(h) BY <2>1 DEF WritesHook
  <2>2. CASE ~(ask = "on" /\ Live(h)) /\ ask = "off" /\ alone BY <2>2 DEF WritesHook
  <2>3. CASE ~(ask = "on" /\ Live(h)) /\ ~(ask = "off" /\ alone) BY <2>3 DEF WritesHook
  <2> QED BY <2>1, <2>2, <2>3
<1>3. h \in Hooks /\ edit[e].row \in HookRow BY <1>1, <1>t
<1>4. edit[e].row.is = "live" /\ webhooks[h].is # "none"
  BY <1>1 DEF TargetsInv, EditsLive
<1>5. /\ new \in HookRow /\ new.is = "live"
      /\ new.on = IF ask = "on" THEN TRUE ELSE IF ask = "off" THEN FALSE ELSE edit[e].row.on
  BY <1>3, <1>4 DEF Edited, HookRow, Filters
<1>6. NoEdit \in Edits BY DEF NoEdit, NoHook, HookRow, Filters
<1>7. /\ edit' \in [Editors -> Edits] /\ edit'[e] = NoEdit
      /\ \A d \in Editors \ {e} : edit'[d] = edit[d]
  BY <1>1, <1>6, <1>t
<1> HIDE DEF new
<1>8. /\ webhooks' \in [Hooks -> HookRow]
      /\ \A x \in Hooks \ {h} : webhooks'[x] = webhooks[x]
      /\ Live(h) => webhooks'[h] = new
      /\ ~Live(h) => webhooks'[h] = webhooks[h]
  BY <1>1, <1>3, <1>5, <1>t
<1>9. EditsLive'
  BY <1>4, <1>5, <1>7, <1>8, <1>t DEF TargetsInv, EditsLive, NoEdit
<1>10. ASSUME NEW x \in Hooks \cap silenced', x # h
       PROVE  \/ webhooks'[x].is = "deleted"
              \/ /\ webhooks'[x].is = "live" /\ ~webhooks'[x].on
                 /\ \A d \in Editors : edit'[d].of = x => ~edit'[d].row.on
  <2>1. x \in silenced BY <1>2, <1>10 DEF Revive, Silence
  <2>2. NoEdit.of # x BY DEF NoEdit
  <2> QED BY <1>7, <1>8, <1>10, <2>1, <2>2 DEF TargetsInv, HooksSilent
<1>11. ASSUME h \in silenced'
       PROVE  \/ webhooks'[h].is = "deleted"
              \/ /\ webhooks'[h].is = "live" /\ ~webhooks'[h].on
                 /\ \A d \in Editors : edit'[d].of = h => ~edit'[d].row.on
  <2>1. CASE ~Live(h)
    <3>1. webhooks[h].is \in {"none", "live", "deleted"} BY <1>3, <1>t DEF HookRow
    <3> QED BY <2>1, <3>1, <1>4, <1>8 DEF Live
  <2>2. CASE Live(h) /\ ask = "off" /\ alone
    <3>1. \A d \in Editors : edit'[d].of # h BY <1>1, <1>7, <2>2 DEF NoEdit
    <3> QED BY <1>5, <1>8, <2>2, <3>1
  <2>3. CASE Live(h) /\ ~(ask = "off" /\ alone)
    <3>1. h \in silenced /\ ask # "on" BY <1>2, <1>11, <2>3 DEF Revive, Silence
    <3>2. \A d \in Editors : edit[d].of = h => ~edit[d].row.on
      BY <2>3, <3>1, <1>3 DEF TargetsInv, HooksSilent, Live
    <3>3. ~new.on BY <1>5, <3>1, <3>2
    <3>4. NoEdit.of # h BY <1>1 DEF NoEdit
    <3>5. webhooks'[h].is = "live" /\ ~webhooks'[h].on BY <1>5, <1>8, <2>3, <3>3
    <3>6. ASSUME NEW d \in Editors, edit'[d].of = h
          PROVE  ~edit'[d].row.on
      <4>1. d # e BY <1>7, <3>4, <3>6
      <4> QED BY <1>7, <3>2, <3>6, <4>1
    <3> QED BY <3>5, <3>6
  <2> QED BY <2>1, <2>2, <2>3
<1>12. HooksSilent' BY <1>10, <1>11 DEF HooksSilent
<1>13. UrlsSilent'
  <2>1. "legacy" # h /\ "global" # h BY <1>3
  <2> QED BY <1>1, <1>2, <2>1 DEF TargetsInv, UrlsSilent, Revive, Silence
<1>14. /\ SendsQuietly' /\ silenced' \subseteq AllTargets /\ sending' \in SendingRow
       /\ noted' \subseteq AllTargets /\ queued' \subseteq AllTargets
  <2>1. {h} \in SUBSET AllTargets BY <1>3 DEF AllTargets
  <2> QED BY <1>1, <1>2, <2>1, StaysQuiet
<1>15. TargetsTypeOK'
  BY <1>1, <1>7, <1>8, <1>14 DEF TargetsInv, TargetsTypeOK, SendingRow
<1> QED BY <1>9, <1>12, <1>13, <1>14, <1>15 DEF TargetsInv

LEMMA UrlStep ==
    ASSUME TargetsInv
    PROVE  /\ \A new \in [url : BOOLEAN, enabled : BOOLEAN, hears : Filters] :
                SetsLegacy(new) => TargetsInv'
           /\ SetsGlobal => TargetsInv'
<1> USE TargetsAssumption DEF TargetsAssumption
<1>t. orders \in 0..MaxOrders /\ {"legacy"} \in SUBSET AllTargets
      /\ {"global"} \in SUBSET AllTargets
  BY DEF TargetsInv, TargetsTypeOK, AllTargets
<1>s. ASSUME NEW t \in {"legacy", "global"}, Silence({t}) \/ Revive({t}),
             SendingSame, Order, UNCHANGED <<webhooks, edit>>,
             legacy' \in [url : BOOLEAN, enabled : BOOLEAN, hears : Filters],
             global' \in [on : BOOLEAN, hears : Filters],
             UrlsSilent'
      PROVE  TargetsInv'
  <2>1. /\ SendsQuietly' /\ silenced' \subseteq AllTargets /\ sending' \in SendingRow
        /\ noted' \subseteq AllTargets /\ queued' \subseteq AllTargets
    BY <1>s, <1>t, StaysQuiet
  <2>2. Hooks \cap silenced' = Hooks \cap silenced BY <1>s DEF Silence, Revive
  <2>3. HooksSilent' /\ EditsLive'
    BY <1>s, <2>2 DEF TargetsInv, HooksSilent, EditsLive
  <2>4. orders' \in 0..MaxOrders BY <1>s, <1>t DEF Order
  <2>5. TargetsTypeOK' BY <1>s, <2>1, <2>4 DEF TargetsInv, TargetsTypeOK, SendingRow
  <2> QED BY <1>s, <2>1, <2>3, <2>5 DEF TargetsInv
<1>1. ASSUME NEW new \in [url : BOOLEAN, enabled : BOOLEAN, hears : Filters],
             SetsLegacy(new)
      PROVE  TargetsInv'
  <2>1. /\ Order /\ SendingSame /\ legacy' = new /\ UNCHANGED <<webhooks, global, edit>>
        /\ IF new.url /\ new.enabled THEN Revive({"legacy"}) ELSE Silence({"legacy"})
    BY <1>1 DEF SetsLegacy
  <2>2. UrlsSilent' BY <2>1 DEF TargetsInv, UrlsSilent, Revive, Silence
  <2>3. global' \in [on : BOOLEAN, hears : Filters]
    BY <2>1 DEF TargetsInv, TargetsTypeOK
  <2> QED BY <1>s, <2>1, <2>2, <2>3
<1>2. ASSUME SetsGlobal PROVE TargetsInv'
  <2>1. /\ Order /\ SendingSame /\ global' \in [on : BOOLEAN, hears : Filters]
        /\ UNCHANGED <<webhooks, legacy, edit>>
        /\ IF global'.on THEN Revive({"global"}) ELSE Silence({"global"})
    BY <1>2 DEF SetsGlobal
  <2>2. UrlsSilent' BY <2>1 DEF TargetsInv, UrlsSilent, Revive, Silence
  <2>3. legacy' \in [url : BOOLEAN, enabled : BOOLEAN, hears : Filters]
    BY <2>1 DEF TargetsInv, TargetsTypeOK
  <2> QED BY <1>s, <2>1, <2>2, <2>3
<1> QED BY <1>1, <1>2

\* The reads and the deliveries of a dispatch: the settings stay as they are.
LEMMA SendStep ==
    ASSUME TargetsInv
    PROVE  /\ \A only \in Hooks \cup {NoWebhook}, bypass \in BOOLEAN :
                Dispatch(only, bypass) => TargetsInv'
           /\ ReadsTargets \/ ReadsGlobal \/ QueuesEvent \/ DispatchEnds => TargetsInv'
           /\ \A t \in AllTargets : NotesEvent(t) \/ RetriesEvent(t) => TargetsInv'
<1> USE TargetsAssumption DEF TargetsAssumption
<1>t. /\ sending \in SendingRow /\ orders \in 0..MaxOrders
      /\ noted \subseteq AllTargets /\ queued \subseteq AllTargets
      /\ silenced \subseteq AllTargets
  BY DEF TargetsInv, TargetsTypeOK, SendingRow
<1>s. ASSUME UNCHANGED Settings, orders' \in 0..MaxOrders, sending' \in SendingRow,
             noted' \subseteq AllTargets, queued' \subseteq AllTargets, SendsQuietly'
      PROVE  TargetsInv'
  <2>1. HooksSilent' /\ EditsLive' /\ UrlsSilent'
    BY <1>s DEF Settings, TargetsInv, HooksSilent, EditsLive, UrlsSilent
  <2>2. TargetsTypeOK'
    BY <1>s DEF Settings, TargetsInv, TargetsTypeOK, SendingRow
  <2> QED BY <1>s, <2>1, <2>2 DEF TargetsInv
<1>q. SendsQuietly BY DEF TargetsInv
<1>1. ASSUME NEW only \in Hooks \cup {NoWebhook}, NEW bypass \in BOOLEAN,
             Dispatch(only, bypass)
      PROVE  TargetsInv'
  <2> DEFINE found == only = NoWebhook /\ legacy.url /\ legacy.enabled
                      /\ (bypass \/ legacy.hears = "this")
  <2>1. /\ sending.pc = "idle" /\ UNCHANGED Settings /\ noted' = noted /\ queued' = queued
        /\ sending' = [sending EXCEPT !.pc = "hooks", !.only = only, !.bypass = bypass,
                                      !.quiet = silenced, !.legacy = found]
    BY <1>1 DEF Dispatch, SendingSame
  <2>2. orders' \in 0..MaxOrders BY <1>1, <1>t DEF Dispatch, Order
  <2>3. found \in BOOLEAN /\ (found => "legacy" \notin silenced)
    BY DEF TargetsInv, UrlsSilent
  <2> HIDE DEF found
  <2>4. /\ sending' \in SendingRow /\ sending'.pc = "hooks" /\ sending'.left = sending.left
        /\ sending'.quiet = silenced /\ sending'.legacy = found
    BY <2>1, <2>3, <1>t DEF SendingRow, Stages
  <2>5. noted = {} /\ queued = {} /\ sending.left = {} BY <1>q, <2>1 DEF SendsQuietly
  <2>6. silenced' = silenced BY <2>1 DEF Settings
  <2>7. SendsQuietly' BY <2>1, <2>3, <2>4, <2>5, <2>6 DEF SendsQuietly
  <2> QED BY <1>s, <1>t, <2>1, <2>2, <2>4, <2>7
<1>2. ASSUME ReadsTargets PROVE TargetsInv'
  <2> DEFINE pc == IF sending.only = NoWebhook THEN "global" ELSE "next"
             found == {h \in Hooks : Reached(h) /\ sending.only \in {NoWebhook, h}}
                      \cup IF sending.legacy THEN {"legacy"} ELSE {}
  <2>1. /\ sending.pc = "hooks" /\ UNCHANGED Settings /\ UNCHANGED <<orders, noted, queued>>
        /\ sending' = [sending EXCEPT !.pc = pc, !.left = found]
    BY <1>2 DEF ReadsTargets, SendingSame
  <2>2. found \in SUBSET AllTargets /\ pc \in {"global", "next"} BY DEF AllTargets
  <2>3. found \cap sending.quiet = {}
    <3>1. \A h \in Hooks : Reached(h) => h \notin silenced
      BY DEF Reached, Live, TargetsInv, HooksSilent
    <3> QED BY <3>1, <1>q DEF SendsQuietly
  <2> HIDE DEF pc, found
  <2>4. /\ sending' \in SendingRow /\ sending'.pc = pc /\ sending'.left = found
        /\ sending'.quiet = sending.quiet /\ sending'.legacy = sending.legacy
    BY <2>1, <2>2, <1>t DEF SendingRow, Stages
  <2>5. SendsQuietly'
    BY <1>q, <2>1, <2>2, <2>3, <2>4 DEF SendsQuietly, Settings
  <2> QED BY <1>s, <1>t, <2>1, <2>4, <2>5
<1>3. ASSUME ReadsGlobal PROVE TargetsInv'
  <2> DEFINE found == IF global.on /\ Hears(global) THEN sending.left \cup {"global"}
                      ELSE sending.left
  <2>1. /\ sending.pc = "global" /\ UNCHANGED Settings /\ UNCHANGED <<orders, noted, queued>>
        /\ sending' = [sending EXCEPT !.pc = "next", !.left = found]
    BY <1>3 DEF ReadsGlobal, SendingSame
  <2>2. found \in SUBSET AllTargets BY <1>t DEF AllTargets, SendingRow
  <2>3. found \cap sending.quiet = {}
    BY <1>q DEF SendsQuietly, TargetsInv, UrlsSilent
  <2> HIDE DEF found
  <2>4. /\ sending' \in SendingRow /\ sending'.pc = "next" /\ sending'.left = found
        /\ sending'.quiet = sending.quiet /\ sending'.legacy = sending.legacy
    BY <2>1, <2>2, <1>t DEF SendingRow, Stages
  <2>5. SendsQuietly'
    BY <1>q, <2>1, <2>2, <2>3, <2>4 DEF SendsQuietly, Settings
  <2> QED BY <1>s, <1>t, <2>1, <2>4, <2>5
<1>4. ASSUME NEW t \in AllTargets, NotesEvent(t) PROVE TargetsInv'
  <2>1. /\ sending.pc = "next" /\ t \in sending.left /\ noted' = noted \cup {t}
        /\ sending' = [sending EXCEPT !.pc = "queue", !.left = @ \ {t}, !.now = t]
        /\ UNCHANGED Settings /\ UNCHANGED <<queued, orders>>
    BY <1>4 DEF NotesEvent
  <2>2. /\ sending' \in SendingRow /\ sending'.pc = "queue" /\ sending'.now = t
        /\ sending'.left = sending.left \ {t}
        /\ sending'.quiet = sending.quiet /\ sending'.legacy = sending.legacy
    BY <2>1, <1>t DEF SendingRow, Stages
  <2>3. SendsQuietly' BY <1>q, <2>1, <2>2 DEF SendsQuietly, Settings
  <2> QED BY <1>s, <1>t, <2>1, <2>2, <2>3
<1>5. ASSUME QueuesEvent PROVE TargetsInv'
  <2>1. /\ sending.pc = "queue" /\ queued' \in {queued, queued \cup {sending.now}}
        /\ sending' = [sending EXCEPT !.pc = "next", !.now = NoWebhook]
        /\ UNCHANGED Settings /\ UNCHANGED <<noted, orders>>
    BY <1>5 DEF QueuesEvent
  <2>2. /\ sending' \in SendingRow /\ sending'.pc = "next" /\ sending'.left = sending.left
        /\ sending'.quiet = sending.quiet /\ sending'.legacy = sending.legacy
    BY <2>1, <1>t DEF SendingRow, Stages
  <2>3. sending.now \in AllTargets \ sending.quiet BY <1>q, <2>1 DEF SendsQuietly
  <2>4. SendsQuietly' BY <1>q, <2>1, <2>2, <2>3 DEF SendsQuietly, Settings
  <2> QED BY <1>s, <1>t, <2>1, <2>2, <2>3, <2>4
<1>6. ASSUME DispatchEnds PROVE TargetsInv'
  <2>1. /\ sending' = [sending EXCEPT !.pc = "done", !.left = {}, !.now = NoWebhook]
        /\ UNCHANGED Settings /\ UNCHANGED <<orders, noted, queued>>
    BY <1>6 DEF DispatchEnds, SendingSame
  <2>2. /\ sending' \in SendingRow /\ sending'.pc = "done" /\ sending'.left = {}
        /\ sending'.quiet = sending.quiet /\ sending'.legacy = sending.legacy
    BY <2>1, <1>t DEF SendingRow, Stages
  <2>3. SendsQuietly' BY <1>q, <2>1, <2>2 DEF SendsQuietly, Settings
  <2> QED BY <1>s, <1>t, <2>1, <2>2, <2>3
<1>7. ASSUME NEW t \in AllTargets, RetriesEvent(t) PROVE TargetsInv'
  <2>1. /\ t \in noted /\ queued' = queued \cup {t}
        /\ UNCHANGED Settings /\ UNCHANGED <<sending, noted, orders>>
    BY <1>7 DEF RetriesEvent
  <2>2. SendsQuietly' BY <1>q, <2>1 DEF SendsQuietly, Settings
  <2> QED BY <1>s, <1>t, <2>1, <2>2
<1> QED BY <1>1, <1>2, <1>3, <1>4, <1>5, <1>6, <1>7

LEMMA TargetsStep == TargetsInv /\ [TargetsNext]_targetVars => TargetsInv'
<1> SUFFICES ASSUME TargetsInv, [TargetsNext]_targetVars PROVE TargetsInv' OBVIOUS
<1>l. legacy \in [url : BOOLEAN, enabled : BOOLEAN, hears : Filters]
  BY DEF TargetsInv, TargetsTypeOK
<1>f. "this" \in Filters BY DEF Filters
<1>1. CASE UNCHANGED targetVars
  BY <1>1 DEF targetVars, TargetsInv, TargetsTypeOK, HooksSilent, EditsLive, UrlsSilent,
              SendsQuietly
<1>2. ASSUME NEW h \in Hooks,
             DefaultWebhook(h) \/ PanelCreates(h) \/ V1Creates(h) \/ N8nRegisters(h)
      PROVE  TargetsInv'
  <2>1. \E hears \in Filters : Inserts(h, hears)
    BY <1>2, <1>f DEF DefaultWebhook, PanelCreates, V1Creates, N8nRegisters
  <2> QED BY <2>1, HookStep
<1>3. ASSUME NEW h \in Hooks, PanelDeletes(h) \/ V1Deletes(h) PROVE TargetsInv'
  BY <1>3, HookStep DEF PanelDeletes, V1Deletes
<1>4. ASSUME NEW h \in Hooks, PanelTests(h) \/ V1Tests(h) PROVE TargetsInv'
  <2>1. Dispatch(h, TRUE) BY <1>4 DEF PanelTests, V1Tests
  <2> QED BY <2>1, SendStep
<1>5. ASSUME NEW h \in Hooks, NEW e \in Editors, PanelEdits(e, h) \/ V1Edits(e, h)
      PROVE  TargetsInv'
  <2>1. \E ask \in WaysToEdit : ReadsHook(e, h, ask) BY <1>5 DEF PanelEdits, V1Edits
  <2> QED BY <2>1, HookStep
<1>6. ASSUME NEW e \in Editors, WritesHook(e) PROVE TargetsInv' BY <1>6, WriteStep
<1>7. CASE PanelSetsUrl \/ V1SetsWebhook \/ UazSetsWebhook
  <2>1. \A u \in BOOLEAN : [legacy EXCEPT !.url = u]
                             \in [url : BOOLEAN, enabled : BOOLEAN, hears : Filters]
    BY <1>l
  <2>2. \E new \in [url : BOOLEAN, enabled : BOOLEAN, hears : Filters] : SetsLegacy(new)
    BY <1>7, <2>1 DEF PanelSetsUrl, V1SetsWebhook, UazSetsWebhook
  <2> QED BY <2>2, UrlStep
<1>8. CASE SetsGlobal BY <1>8, UrlStep
<1>9. CASE EventHappens \/ V1TestsAll
  <2>1. Dispatch(NoWebhook, FALSE) \/ Dispatch(NoWebhook, TRUE)
    BY <1>9 DEF EventHappens, V1TestsAll
  <2> QED BY <2>1, SendStep
<1>10. CASE ReadsTargets \/ ReadsGlobal \/ QueuesEvent \/ DispatchEnds
  BY <1>10, SendStep
<1>11. ASSUME NEW t \in AllTargets, NotesEvent(t) \/ RetriesEvent(t) PROVE TargetsInv'
  BY <1>11, SendStep
<1> QED
  BY <1>1, <1>2, <1>3, <1>4, <1>5, <1>6, <1>7, <1>8, <1>9, <1>10, <1>11 DEF TargetsNext

\* A target that was switched off or deleted, with no other edit of it under
\* way, gets nothing queued by a dispatch that begins later, nor by a retry.
THEOREM SilentTargets == TargetsSpec => []OffMeansOff
<1>1. TargetsInit => TargetsInv
  <2> SUFFICES ASSUME TargetsInit PROVE TargetsInv OBVIOUS
  <2>1. NoHook \in HookRow BY DEF NoHook, HookRow, Filters
  <2>2. TargetsTypeOK
    <3>1. /\ NoEdit \in [of : Hooks \cup {NoWebhook}, row : HookRow,
                         ask : {"rename", "on", "off"} \cup Filters]
      BY <2>1 DEF NoEdit
    <3>2. Off \in [on : BOOLEAN, hears : Filters] BY DEF Off, Filters
    <3> QED BY <2>1, <3>1, <3>2, TargetsAssumption
            DEF TargetsInit, TargetsTypeOK, Filters, Stages, AllTargets, TargetsAssumption
  <2>3. Hooks \cap silenced = {} BY TargetsAssumption DEF TargetsInit, TargetsAssumption
  <2>4. HooksSilent BY <2>3 DEF HooksSilent
  <2>5. EditsLive BY DEF TargetsInit, EditsLive, NoEdit
  <2>6. UrlsSilent BY DEF TargetsInit, UrlsSilent, Off
  <2>7. SendsQuietly BY DEF TargetsInit, SendsQuietly
  <2> QED BY <2>2, <2>4, <2>5, <2>6, <2>7 DEF TargetsInv
<1>2. TargetsInv => OffMeansOff BY DEF TargetsInv, SendsQuietly, OffMeansOff
<1> QED BY <1>1, <1>2, TargetsStep, PTL DEF TargetsSpec

-----------------------------------------------------------------------------
(* The inbox: a message that no two calls stored together has one row, or   *)
(* one call that is about to write its row, or neither.                     *)

Storing(m) == {c \in Calls : call[c].msg = m /\ call[c].pc \in {"insert", "record"}}
Single(m) ==
    /\ \A i, j \in RowsOf(m) : i = j
    /\ \A c, d \in Storing(m) : c = d
    /\ RowsOf(m) = {} \/ Storing(m) = {}
Letter == [msg : Msgs \cup {Pending}, status : Delivery]
CallRow == [pc : Ahead \cup {"idle"}, kind : {"message", "send", "receipt"},
            msg : Msgs \cup {Pending}, mine : BOOLEAN, conv : Convs \cup {0},
            row : Rows \cup {0}, status : Delivery, left : Int]
StoredInv ==
    /\ rows \in [Rows -> {NoRow} \cup Letter]
    /\ call \in [Calls -> CallRow]
    /\ convs \subseteq Convs
    /\ \A m \in Msgs \ overlapped : Single(m)

LEMMA InboxNames == NoRow.msg \notin Msgs /\ Pending \notin Msgs
BY InboxAssumption DEF NoRow, Pending

\* A call that neither looks nor stores goes on, and no row gets another message.
LEMMA CallMoves ==
    ASSUME StoredInv, NEW c \in Calls, NEW new \in CallRow,
           call' = [call EXCEPT ![c] = new],
           new.pc \in {"insert", "record"} => new.msg \notin Msgs \ overlapped,
           rows' \in [Rows -> {NoRow} \cup Letter],
           \A i \in Rows : rows'[i].msg = rows[i].msg \/ rows'[i].msg \notin Msgs,
           overlapped' = overlapped, convs' \subseteq Convs
    PROVE  StoredInv'
<1>1. call' \in [Calls -> CallRow]
    BY DEF StoredInv
<1>2. ASSUME NEW m \in Msgs \ overlapped PROVE Single(m)'
    <2>1. RowsOf(m)' \subseteq RowsOf(m)
        BY DEF RowsOf
    <2>2. Storing(m)' \subseteq Storing(m)
        BY DEF Storing, StoredInv
    <2>3. Single(m)
        BY DEF StoredInv
    <2> QED BY <2>1, <2>2, <2>3 DEF Single
<1> QED BY <1>1, <1>2 DEF StoredInv

\* A call writes the row of its message, if it is there, and stores no more.
LEMMA StoresMessage ==
    ASSUME StoredInv, NEW c \in Calls, call[c].pc \in {"insert", "record"}, NEW new \in CallRow,
           call' = [call EXCEPT ![c] = new], new.pc \notin {"insert", "record"},
           rows' \in [Rows -> {NoRow} \cup Letter],
           NEW i, \A j \in Rows : rows'[j] = rows[j] \/ j = i,
           i \in Rows => rows'[i].msg \in {call[c].msg, rows[i].msg, NoRow.msg},
           overlapped' = overlapped, convs' \subseteq Convs
    PROVE  StoredInv'
<1>1. call' \in [Calls -> CallRow]
    BY DEF StoredInv
<1>2. ASSUME NEW m \in Msgs \ overlapped PROVE Single(m)'
    <2>1. Single(m)
        BY DEF StoredInv
    <2>2. Storing(m)' \subseteq Storing(m) \ {c}
        BY DEF Storing, StoredInv
    <2>3. CASE m # call[c].msg
        <3>1. RowsOf(m)' \subseteq RowsOf(m)
            BY <2>3, InboxNames DEF RowsOf
        <3> QED BY <2>1, <2>2, <3>1 DEF Single
    <2>4. CASE m = call[c].msg
        <3>1. c \in Storing(m)
            BY <2>4 DEF Storing
        <3>2. RowsOf(m) = {} /\ Storing(m)' = {}
            BY <2>1, <2>2, <3>1 DEF Single
        <3>3. \A j \in RowsOf(m)' : j = i
            BY <3>2 DEF RowsOf
        <3> QED BY <3>2, <3>3 DEF Single
    <2> QED BY <2>3, <2>4
<1> QED BY <1>1, <1>2 DEF StoredInv

LEMMA RestingRow == Resting \in CallRow /\ Resting.pc = "idle"
BY InboxAssumption DEF Resting, CallRow, Ahead, Delivery

\* Again gives up the message of the attempt.
LEMMA AgainRow ==
    ASSUME StoredInv, NEW c \in Calls
    PROVE  Again(c) \in CallRow /\ Again(c).pc \in {"wire", "fail"}
<1>1. call[c] \in CallRow
    BY DEF StoredInv
<1>2. PICK pc \in {"wire", "fail"} :
        Again(c) = [call[c] EXCEPT !.left = @ - 1, !.msg = Pending, !.pc = pc]
    BY DEF Again
<1>3. call[c].left - 1 \in Int
    BY <1>1 DEF CallRow
<1> QED BY <1>1, <1>2, <1>3 DEF CallRow, Ahead

LEMMA Writing ==
    ASSUME StoredInv, NEW i, NEW r, Write(i, r), i \in Rows => r \in {NoRow} \cup Letter \/ rows[i] = NoRow
    PROVE  /\ rows' \in [Rows -> {NoRow} \cup Letter]
           /\ \A j \in Rows : rows'[j] = rows[j] \/ j = i
           /\ i \in Rows => rows'[i] = IF rows[i] = NoRow THEN NoRow ELSE r
BY DEF StoredInv, Write

LEMMA InboxStep == StoredInv /\ [InboxNext]_inboxVars => StoredInv'
<1> SUFFICES ASSUME StoredInv, [InboxNext]_inboxVars PROVE StoredInv'
    OBVIOUS
<1>t. /\ rows \in [Rows -> {NoRow} \cup Letter] /\ call \in [Calls -> CallRow]
      /\ convs \subseteq Convs
    BY DEF StoredInv
<1>r. \A c \in Calls : call[c] \in CallRow
    BY <1>t
\* Steps that leave the rows alone.
<1>c. ASSUME NEW c \in Calls, NEW new \in CallRow, call' = [call EXCEPT ![c] = new],
             new.pc \notin {"insert", "record"}, UNCHANGED <<rows, overlapped>>,
             convs' \subseteq Convs
      PROVE  StoredInv'
    BY <1>c, <1>t, CallMoves
<1>1. ASSUME NEW c \in Calls, MessageEvent(c) PROVE StoredInv'
    <2>1. PICK m \in Msgs, mine \in BOOLEAN :
            call' = [call EXCEPT ![c] = [Resting EXCEPT !.pc = "find", !.msg = m, !.mine = mine]]
        BY <1>1 DEF MessageEvent
    <2>2. /\ [Resting EXCEPT !.pc = "find", !.msg = m, !.mine = mine] \in CallRow
          /\ [Resting EXCEPT !.pc = "find", !.msg = m, !.mine = mine].pc = "find"
        BY RestingRow DEF CallRow, Ahead
    <2> QED BY <1>1, <1>c, <1>t, <2>1, <2>2 DEF MessageEvent
<1>2. ASSUME NEW c \in Calls, SendAsked(c) PROVE StoredInv'
    <2>1. PICK n \in {1, Tries} :
            call' = [call EXCEPT ![c] = [Resting EXCEPT !.pc = "find", !.kind = "send", !.left = n]]
        BY <1>2 DEF SendAsked
    <2>2. /\ [Resting EXCEPT !.pc = "find", !.kind = "send", !.left = n] \in CallRow
          /\ [Resting EXCEPT !.pc = "find", !.kind = "send", !.left = n].pc = "find"
        <3>1. n \in Int
            BY InboxAssumption
        <3> QED BY <3>1, RestingRow DEF CallRow, Ahead
    <2> QED BY <1>2, <1>c, <1>t, <2>1, <2>2 DEF SendAsked
<1>3. ASSUME NEW c \in Calls, FindConversation(c) PROVE StoredInv'
    <2>1. CASE Step(c, "open")
        <3>1. /\ [call[c] EXCEPT !.pc = "open"] \in CallRow
              /\ [call[c] EXCEPT !.pc = "open"].pc = "open"
            BY <1>r DEF CallRow, Ahead
        <3> QED BY <1>3, <1>c, <1>t, <2>1, <3>1 DEF FindConversation, Step
    <2>2. ASSUME NEW v \in convs, call' = [call EXCEPT ![c].pc = AfterConv(c), ![c].conv = v]
          PROVE  StoredInv'
        <3>1. PICK pc \in {"row", "look"} : pc = AfterConv(c)
            BY DEF AfterConv
        <3>2. /\ [call[c] EXCEPT !.pc = pc, !.conv = v] \in CallRow
              /\ [call[c] EXCEPT !.pc = pc, !.conv = v].pc = pc
            BY <1>r, <1>t, <2>2 DEF CallRow, Ahead
        <3>3. call' = [call EXCEPT ![c] = [call[c] EXCEPT !.pc = pc, !.conv = v]]
            BY <2>2, <3>1, <1>t
        <3> QED BY <1>3, <1>c, <1>t, <3>2, <3>3 DEF FindConversation
    <2> QED BY <1>3, <2>1, <2>2 DEF FindConversation
<1>4. ASSUME NEW c \in Calls, OpenConversation(c) PROVE StoredInv'
    <2>1. PICK v \in Convs : /\ convs' = convs \cup {v}
                             /\ call' = [call EXCEPT ![c].pc = AfterConv(c), ![c].conv = v]
        BY <1>4 DEF OpenConversation
    <2>2. PICK pc \in {"row", "look"} : pc = AfterConv(c)
        BY DEF AfterConv
    <2>3. /\ [call[c] EXCEPT !.pc = pc, !.conv = v] \in CallRow
          /\ [call[c] EXCEPT !.pc = pc, !.conv = v].pc = pc
        BY <1>r DEF CallRow, Ahead
    <2>4. call' = [call EXCEPT ![c] = [call[c] EXCEPT !.pc = pc, !.conv = v]]
        BY <2>1, <2>2, <1>t
    <2>5. UNCHANGED <<rows, overlapped>> /\ convs' \subseteq Convs
        BY <1>4, <1>t, <2>1 DEF OpenConversation
    <2> QED BY <1>c, <2>3, <2>4, <2>5
<1>5. ASSUME NEW c \in Calls, LookDuplicate(c) PROVE StoredInv'
    <2> DEFINE others == {d \in Calls \ {c} : call[d].msg = call[c].msg
                                              /\ call[d].pc \in {"insert", "record"}}
    <2>1. UNCHANGED <<convs, rows>>
        BY <1>5 DEF LookDuplicate
    <2>2. CASE Rests(c) /\ UNCHANGED overlapped
        BY <2>1, <2>2, <1>c, <1>t, RestingRow DEF Rests
    <2>3. CASE /\ RowsOf(call[c].msg) = {} /\ Step(c, "insert")
               /\ overlapped' = IF others # {} THEN overlapped \cup {call[c].msg} ELSE overlapped
        <3>1. /\ [call[c] EXCEPT !.pc = "insert"] \in CallRow
              /\ [call[c] EXCEPT !.pc = "insert"].msg = call[c].msg
            BY <1>r DEF CallRow, Ahead
        <3>2. call' \in [Calls -> CallRow]
            BY <2>3, <3>1, <1>t DEF Step
        <3>3. /\ call'[c].msg = call[c].msg
              /\ \A d \in Calls \ {c} : call'[d] = call[d]
            BY <2>3, <3>1, <1>t DEF Step
        <3>4. ASSUME NEW m \in Msgs \ overlapped' PROVE Single(m)'
            <4>1. Single(m) /\ m \notin overlapped
                BY <2>3, <3>4 DEF StoredInv
            <4>2. RowsOf(m)' = RowsOf(m)
                BY <2>1 DEF RowsOf
            <4>3. CASE m # call[c].msg
                <5>1. Storing(m)' = Storing(m)
                    BY <3>3, <4>3 DEF Storing
                <5> QED BY <4>1, <4>2, <5>1 DEF Single
            <4>4. CASE m = call[c].msg
                <5>1. others = {}
                    BY <2>3, <3>4, <4>4
                <5>2. \A d \in Storing(m)' : d = c
                    BY <3>3, <4>4, <5>1 DEF Storing
                <5> QED BY <2>3, <4>1, <4>2, <4>4, <5>2 DEF Single
            <4> QED BY <4>3, <4>4
        <3> QED BY <2>1, <3>2, <3>4, <1>t DEF StoredInv
    <2> QED BY <1>5, <2>2, <2>3 DEF LookDuplicate
<1>6. ASSUME NEW c \in Calls, InsertMessage(c) PROVE StoredInv'
    <2>1. call' = [call EXCEPT ![c] = Resting] /\ UNCHANGED <<convs, overlapped>>
          /\ call[c].pc = "insert"
        BY <1>6 DEF InsertMessage, Rests
    <2>2. CASE UNCHANGED rows
        BY <2>1, <2>2, <1>c, <1>t, RestingRow
    <2>3. ASSUME NEW i \in Free, NEW s \in {"sent", "received"},
                 rows' = [rows EXCEPT ![i] = [msg |-> call[c].msg, status |-> s]]
          PROVE  StoredInv'
        <3>1. [msg |-> call[c].msg, status |-> s] \in Letter
            BY <1>r DEF Letter, CallRow, Delivery
        <3>2. /\ rows' \in [Rows -> {NoRow} \cup Letter]
              /\ \A j \in Rows : rows'[j] = rows[j] \/ j = i
              /\ i \in Rows => rows'[i].msg = call[c].msg
            BY <2>3, <3>1, <1>t
        <3> QED BY <2>1, <3>2, <1>t, RestingRow, StoresMessage
    <2> QED BY <1>6, <2>2, <2>3 DEF InsertMessage
<1>7. ASSUME NEW c \in Calls, InsertPending(c) PROVE StoredInv'
    <2>1. PICK i \in Free : /\ rows' = [rows EXCEPT ![i] = [msg |-> Pending, status |-> "pending"]]
                            /\ call' = [call EXCEPT ![c].pc = "wire", ![c].row = i]
        BY <1>7 DEF InsertPending
    <2>2. i \in Rows /\ [msg |-> Pending, status |-> "pending"] \in Letter
        BY DEF Free, Letter, Delivery
    <2>3. /\ [call[c] EXCEPT !.pc = "wire", !.row = i] \in CallRow
          /\ [call[c] EXCEPT !.pc = "wire", !.row = i].pc = "wire"
        BY <1>r, <2>2 DEF CallRow, Ahead
    <2>4. call' = [call EXCEPT ![c] = [call[c] EXCEPT !.pc = "wire", !.row = i]]
        BY <2>1, <1>t
    <2>5. /\ rows' \in [Rows -> {NoRow} \cup Letter]
          /\ \A j \in Rows : rows'[j].msg = rows[j].msg \/ rows'[j].msg = Pending
        BY <2>1, <2>2, <1>t
    <2> QED BY <1>7, <2>3, <2>4, <2>5, <1>t, InboxNames, CallMoves DEF InsertPending
<1>8. ASSUME NEW c \in Calls, SendToBridge(c) PROVE StoredInv'
    <2>1. UNCHANGED <<convs, rows, overlapped>>
        BY <1>8 DEF SendToBridge
    <2>2. CASE call' = [call EXCEPT ![c] = Again(c)]
        BY <2>1, <2>2, <1>c, <1>t, AgainRow
    <2>3. ASSUME NEW m \in Msgs \ wired, RowsOf(m) = {}, \A d \in Calls : call[d].msg # m,
                 call' = [call EXCEPT ![c].pc = "record", ![c].msg = m]
          PROVE  StoredInv'
        <3>1. /\ [call[c] EXCEPT !.pc = "record", !.msg = m] \in CallRow
              /\ [call[c] EXCEPT !.pc = "record", !.msg = m].msg = m
            BY <1>r DEF CallRow, Ahead
        <3>2. call' = [call EXCEPT ![c] = [call[c] EXCEPT !.pc = "record", !.msg = m]]
            BY <2>3, <1>t
        <3>3. /\ call' \in [Calls -> CallRow] /\ call'[c].msg = m
              /\ \A d \in Calls \ {c} : call'[d] = call[d]
            BY <3>1, <3>2, <1>t
        <3>4. ASSUME NEW n \in Msgs \ overlapped PROVE Single(n)'
            <4>1. Single(n)
                BY DEF StoredInv
            <4>2. RowsOf(n)' = RowsOf(n)
                BY <2>1 DEF RowsOf
            <4>3. CASE n # m
                <5>1. Storing(n)' \subseteq Storing(n)
                    BY <3>3, <4>3 DEF Storing
                <5> QED BY <4>1, <4>2, <5>1 DEF Single
            <4>4. CASE n = m
                <5>1. \A d \in Storing(n)' : d = c
                    BY <2>3, <3>3, <4>4 DEF Storing
                <5> QED BY <2>3, <4>2, <4>4, <5>1 DEF Single
            <4> QED BY <4>3, <4>4
        <3> QED BY <2>1, <3>3, <3>4, <1>t DEF StoredInv
    <2> QED BY <1>8, <2>2, <2>3 DEF SendToBridge
<1>9. ASSUME NEW c \in Calls, RecordSent(c) PROVE StoredInv'
    <2>1. PICK new \in {Resting, Again(c)} : call' = [call EXCEPT ![c] = new]
        BY <1>9 DEF RecordSent, Rests
    <2>2. new \in CallRow /\ new.pc \notin {"insert", "record"}
        BY <2>1, RestingRow, AgainRow
    <2>3. call[c].pc = "record" /\ UNCHANGED <<convs, overlapped>>
        BY <1>9 DEF RecordSent
    <2>4. CASE UNCHANGED rows
        BY <2>1, <2>2, <2>3, <2>4, <1>c, <1>t
    <2>5. CASE Write(call[c].row, [msg |-> call[c].msg, status |-> "sent"])
        <3>1. PICK i : i = call[c].row
            OBVIOUS
        <3>2. [msg |-> call[c].msg, status |-> "sent"] \in Letter
            BY <1>r DEF Letter, CallRow, Delivery
        <3>3. /\ rows' \in [Rows -> {NoRow} \cup Letter]
              /\ \A j \in Rows : rows'[j] = rows[j] \/ j = i
              /\ i \in Rows => rows'[i] = IF rows[i] = NoRow THEN NoRow
                                          ELSE [msg |-> call[c].msg, status |-> "sent"]
            BY <2>5, <3>1, <3>2, Writing
        <3>4. i \in Rows => rows'[i].msg \in {call[c].msg, rows[i].msg, NoRow.msg}
            BY <3>3
        <3> QED BY <2>1, <2>2, <2>3, <3>3, <3>4, <1>t, StoresMessage
    <2> QED BY <1>9, <2>4, <2>5 DEF RecordSent
\* The status of a row changes, and its message does not.
<1>m. ASSUME NEW c \in Calls, NEW s \in Delivery, Rests(c), UNCHANGED <<convs, overlapped>>,
             Write(call[c].row, [rows[call[c].row] EXCEPT !.status = s])
      PROVE  StoredInv'
    <2>1. PICK i : i = call[c].row
        OBVIOUS
    <2>2. ASSUME i \in Rows, rows[i] # NoRow
          PROVE  /\ [rows[i] EXCEPT !.status = s] \in Letter
                 /\ [rows[i] EXCEPT !.status = s].msg = rows[i].msg
        <3>1. rows[i] \in Letter
            BY <2>2, <1>t
        <3> QED BY <3>1 DEF Letter
    <2>3. /\ rows' \in [Rows -> {NoRow} \cup Letter]
          /\ \A j \in Rows : rows'[j] = rows[j] \/ j = i
          /\ i \in Rows => rows'[i] = IF rows[i] = NoRow THEN NoRow
                                      ELSE [rows[i] EXCEPT !.status = s]
        BY <1>m, <2>1, <2>2, Writing
    <2>4. \A j \in Rows : rows'[j].msg = rows[j].msg
        BY <2>2, <2>3
    <2> QED BY <1>m, <1>t, <2>3, <2>4, RestingRow, CallMoves DEF Rests
<1>10. ASSUME NEW c \in Calls, MarkFailed(c) PROVE StoredInv'
    BY <1>10, <1>m DEF MarkFailed, Delivery
<1>11. ASSUME NEW c \in Calls, ReceiptEvent(c) PROVE StoredInv'
    <2>1. PICK m \in Msgs, s \in {"delivered", "read", "failed"} :
            call' = [call EXCEPT ![c] = [Resting EXCEPT !.pc = "receipt", !.kind = "receipt",
                                         !.msg = m, !.status = s]]
        BY <1>11 DEF ReceiptEvent
    <2>2. /\ [Resting EXCEPT !.pc = "receipt", !.kind = "receipt", !.msg = m, !.status = s] \in CallRow
          /\ [Resting EXCEPT !.pc = "receipt", !.kind = "receipt", !.msg = m, !.status = s].pc
                = "receipt"
        BY RestingRow DEF CallRow, Ahead, Delivery
    <2> QED BY <1>11, <1>c, <1>t, <2>1, <2>2 DEF ReceiptEvent
<1>12. ASSUME NEW c \in Calls, ReceiptLooks(c) PROVE StoredInv'
    <2>1. UNCHANGED <<convs, rows, overlapped>>
        BY <1>12 DEF ReceiptLooks
    <2>2. CASE Rests(c)
        BY <2>1, <2>2, <1>c, <1>t, RestingRow DEF Rests
    <2>3. ASSUME NEW i \in RowsOf(call[c].msg), call' = [call EXCEPT ![c].pc = "mark", ![c].row = i]
          PROVE  StoredInv'
        <3>1. /\ [call[c] EXCEPT !.pc = "mark", !.row = i] \in CallRow
              /\ [call[c] EXCEPT !.pc = "mark", !.row = i].pc = "mark"
            BY <1>r, <2>3 DEF CallRow, Ahead, RowsOf
        <3>2. call' = [call EXCEPT ![c] = [call[c] EXCEPT !.pc = "mark", !.row = i]]
            BY <2>3, <1>t
        <3> QED BY <2>1, <1>c, <1>t, <3>1, <3>2
    <2> QED BY <1>12, <2>2, <2>3 DEF ReceiptLooks
<1>13. ASSUME NEW c \in Calls, ReceiptMarksMessage(c) PROVE StoredInv'
    <2>1. call[c].status \in Delivery
        BY <1>r DEF CallRow
    <2> QED BY <1>13, <1>m, <2>1 DEF ReceiptMarksMessage
<1>14. ASSUME NEW c \in Calls, CallDies(c) PROVE StoredInv'
    BY <1>14, <1>c, <1>t, RestingRow DEF CallDies, Rests
<1>15. ASSUME NEW i \in Rows, DeleteMessage(i) PROVE StoredInv'
    <2>1. rows' \in [Rows -> {NoRow} \cup Letter] /\ UNCHANGED <<call, convs, overlapped>>
        BY <1>15, <1>t DEF DeleteMessage
    <2>2. ASSUME NEW m \in Msgs \ overlapped PROVE Single(m)'
        <3>1. RowsOf(m)' \subseteq RowsOf(m)
            BY <1>15, <1>t, InboxNames DEF DeleteMessage, RowsOf
        <3>2. Storing(m)' = Storing(m) /\ Single(m)
            BY <2>1 DEF Storing, StoredInv
        <3> QED BY <3>1, <3>2 DEF Single
    <2> QED BY <2>1, <2>2, <1>t DEF StoredInv
<1>16. CASE UNCHANGED inboxVars \/ \E v \in Convs : DeleteConversation(v)
    <2>1. UNCHANGED <<rows, call, overlapped>> /\ convs' \subseteq Convs
        BY <1>16, <1>t DEF inboxVars, DeleteConversation
    <2> QED BY <2>1 DEF StoredInv, Single, RowsOf, Storing
<1> QED BY <1>1, <1>2, <1>3, <1>4, <1>5, <1>6, <1>7, <1>8, <1>9, <1>10, <1>11, <1>12, <1>13,
           <1>14, <1>15, <1>16 DEF InboxNext

LEMMA InboxStarts == InboxInit => StoredInv
<1> SUFFICES ASSUME InboxInit PROVE StoredInv
    OBVIOUS
<1>1. rows \in [Rows -> {NoRow} \cup Letter] /\ call \in [Calls -> CallRow] /\ convs \subseteq Convs
    BY RestingRow DEF InboxInit
<1>2. \A m \in Msgs : RowsOf(m) = {} /\ Storing(m) = {}
    BY InboxNames, RestingRow DEF InboxInit, RowsOf, Storing
<1> QED BY <1>1, <1>2 DEF StoredInv, Single

\* A message has one row in the inbox, however often the bridge posts it and
\* whoever is sending it, unless the calls that store it overlapped.
THEOREM OneRowEach == InboxSpec => []StoredOnce
<1>1. InboxInit => StoredInv
    BY InboxStarts
<1>2. StoredInv => StoredOnce
    <2> SUFFICES ASSUME StoredInv, NEW m \in Msgs, m \notin overlapped
                 PROVE  ~(Cardinality(RowsOf(m)) > 1)
        BY DEF StoredOnce
    <2>1. RowsOf(m) = {} \/ \E i \in RowsOf(m) : RowsOf(m) = {i}
        BY DEF StoredInv, Single
    <2>2. Cardinality(RowsOf(m)) \in {0, 1}
        BY <2>1, FS_EmptySet, FS_Singleton
    <2> QED BY <2>2
<1> QED BY <1>1, <1>2, InboxStep, PTL DEF InboxSpec

-----------------------------------------------------------------------------
(* The status of a message: while a receipt is about to mark a row nobody   *)
(* else touches it, or the row is remembered as raced for; and a call that  *)
(* records a message writes it over another one.                            *)

Transmits(c) == call[c].pc \in {"wire", "record", "fail"}
Fits(old, new) == new = "failed" \/ Rank(old) < Rank(new)
OneSender ==
    \A c, d \in Calls : (Transmits(c) /\ Transmits(d) /\ call[c].row = call[d].row
                         /\ call[c].row \in Rows) => c = d
MarksAlone ==
    \A c \in Calls, i \in Rows :
        (call[c].pc = "mark" /\ call[c].row = i /\ rows[i] # NoRow /\ i \notin racing) =>
            Fits(rows[i].status, call[c].status) /\ Touching(c, i) = {}
RecordsAnew ==
    \A c \in Calls, i \in Rows :
        (call[c].pc = "record" /\ call[c].row = i /\ rows[i] # NoRow) => rows[i].msg # call[c].msg
AdvanceInv == StoredInv /\ OneSender /\ MarksAlone /\ RecordsAnew

LEMMA Ranks == /\ \A s \in Delivery : Rank(s) \in 0..4
               /\ Rank("failed") = 4 /\ Rank(NoRow.status) = 4
BY DEF Rank, Delivery, NoRow

\* What call c may do to the rows: nothing, fill a free one, or write its own.
WritesOwn(c, i) ==
    /\ call[c].row = i /\ call[c].pc # "idle"
    /\ (rows[i] = NoRow) => (rows'[i] = NoRow)
    /\ (rows'[i].msg = rows[i].msg) \/ Transmits(c)

\* A call goes on with its row, or with none.
LEMMA GoesOn ==
    ASSUME AdvanceInv, StoredInv', NEW c \in Calls, NEW new \in CallRow,
           call' = [call EXCEPT ![c] = new], racing' = racing,
           new.pc # "mark",
           (new.pc # "idle" /\ new.row \in Rows) =>
               call[c].pc # "idle" /\ new.row = call[c].row
               /\ (new.pc \in {"wire", "record", "fail"} => Transmits(c)),
           new.pc = "record" => UNCHANGED rows /\ RowsOf(new.msg) = {},
           \A i \in Rows : rows'[i] = rows[i] \/ i \in Free \/ WritesOwn(c, i)
    PROVE  AdvanceInv'
<1>t. /\ call \in [Calls -> CallRow] /\ call'[c] = new
      /\ \A d \in Calls \ {c} : call'[d] = call[d]
    BY DEF AdvanceInv, StoredInv
<1>0. 0 \notin Rows
    BY InboxAssumption
<1>1. OneSender'
    <2> SUFFICES ASSUME NEW a \in Calls, NEW b \in Calls, Transmits(a)', Transmits(b)',
                        call'[a].row = call'[b].row, call'[a].row \in Rows, a # b
                 PROVE  FALSE
        BY DEF OneSender
    <2>1. ASSUME NEW d \in {a, b} PROVE Transmits(d) /\ call[d].row = call'[d].row
        <3>1. CASE d = c
            BY <1>t, <3>1 DEF Transmits
        <3>2. CASE d # c
            BY <1>t, <3>2 DEF Transmits
        <3> QED BY <3>1, <3>2
    <2> QED BY <2>1 DEF AdvanceInv, OneSender
<1>2. MarksAlone'
    <2> SUFFICES ASSUME NEW d \in Calls, NEW i \in Rows, call'[d].pc = "mark",
                        call'[d].row = i, rows'[i] # NoRow, i \notin racing
                 PROVE  Fits(rows'[i].status, call'[d].status) /\ Touching(d, i)' = {}
        BY DEF MarksAlone, NoRow
    <2>1. d # c /\ call'[d] = call[d]
        BY <1>t
    <2>2. ~(i \in Free)
        BY <2>1 DEF Free
    <2>3. ASSUME WritesOwn(c, i) PROVE (rows[i] # NoRow) /\ c \in Touching(d, i)
        <3>1. call[c].row = i /\ call[c].pc # "idle"
            BY <2>3 DEF WritesOwn
        <3>2. rows[i] # NoRow
            BY <2>3 DEF WritesOwn, NoRow
        <3>3. c # d
            BY <2>1
        <3> QED BY <3>1, <3>2, <3>3 DEF Touching
    <2>4. rows[i] # NoRow => Fits(rows[i].status, call[d].status) /\ Touching(d, i) = {}
        BY <2>1 DEF AdvanceInv, MarksAlone
    <2>5. rows'[i] = rows[i]
        BY <2>2, <2>3, <2>4
    <2>6. Touching(d, i)' \subseteq Touching(d, i)
        BY <1>t DEF Touching
    <2> QED BY <2>1, <2>4, <2>5, <2>6
<1>3. RecordsAnew'
    <2> SUFFICES ASSUME NEW d \in Calls, NEW i \in Rows, call'[d].pc = "record",
                        call'[d].row = i, rows'[i] # NoRow
                 PROVE  rows'[i].msg # call'[d].msg
        BY DEF RecordsAnew, NoRow
    <2>1. CASE d = c
        <3>1. rows' = rows /\ RowsOf(new.msg) = {}
            BY <1>t, <2>1
        <3> QED BY <1>t, <2>1, <3>1 DEF RowsOf
    <2>2. CASE d # c
        <3>1. call'[d] = call[d]
            BY <1>t, <2>2
        <3>2. ~(i \in Free)
            BY <3>1 DEF Free
        <3>3. ASSUME WritesOwn(c, i) PROVE (rows'[i].msg = rows[i].msg) /\ (rows[i] # NoRow)
            <4>1. Transmits(d) /\ call[d].row = i
                BY <3>1 DEF Transmits
            <4>2. call[c].row = i
                BY <3>3 DEF WritesOwn
            <4>3. ~Transmits(c)
                BY <2>2, <4>1, <4>2 DEF AdvanceInv, OneSender
            <4>4. rows[i] # NoRow
                BY <3>3 DEF WritesOwn, NoRow
            <4> QED BY <3>3, <4>3, <4>4 DEF WritesOwn
        <3> QED BY <3>1, <3>2, <3>3 DEF AdvanceInv, RecordsAnew
    <2> QED BY <2>1, <2>2
<1> QED BY <1>1, <1>2, <1>3 DEF AdvanceInv

\* A call that touches no row.
LEMMA GoesWithout ==
    ASSUME AdvanceInv, StoredInv', NEW c \in Calls, NEW new \in CallRow,
           call' = [call EXCEPT ![c] = new], UNCHANGED <<rows, racing>>,
           new.pc \notin {"mark", "record"},
           new.pc = "idle" \/ new.row = 0 \/ (new.row = call[c].row /\ call[c].pc # "idle"
                                             /\ new.pc \notin {"wire", "fail"})
    PROVE  AdvanceInv'
<1>1. 0 \notin Rows
    BY InboxAssumption
<1> QED BY <1>1, GoesOn

LEMMA RestsAdvance ==
    ASSUME AdvanceInv, StoredInv', NEW c \in Calls, Rests(c), racing' = racing,
           \A i \in Rows : rows'[i] = rows[i] \/ i \in Free \/ WritesOwn(c, i)
    PROVE  AdvanceInv'
BY GoesOn, RestingRow DEF Rests

LEMMA AdvanceStep == AdvanceInv /\ [InboxNext]_inboxVars => AdvanceInv'
<1> SUFFICES ASSUME AdvanceInv, [InboxNext]_inboxVars PROVE AdvanceInv'
    OBVIOUS
<1>t. /\ StoredInv /\ StoredInv'
      /\ rows \in [Rows -> {NoRow} \cup Letter] /\ call \in [Calls -> CallRow]
      /\ convs \subseteq Convs
    BY InboxStep DEF AdvanceInv, StoredInv
<1>r. \A c \in Calls : call[c] \in CallRow
    BY <1>t
<1>0. 0 \notin Rows
    BY InboxAssumption
<1>1. ASSUME NEW c \in Calls, MessageEvent(c) PROVE AdvanceInv'
    <2>1. PICK m \in Msgs, mine \in BOOLEAN :
            call' = [call EXCEPT ![c] = [Resting EXCEPT !.pc = "find", !.msg = m, !.mine = mine]]
        BY <1>1 DEF MessageEvent
    <2>2. /\ [Resting EXCEPT !.pc = "find", !.msg = m, !.mine = mine] \in CallRow
          /\ [Resting EXCEPT !.pc = "find", !.msg = m, !.mine = mine].pc = "find"
          /\ [Resting EXCEPT !.pc = "find", !.msg = m, !.mine = mine].row = 0
        BY RestingRow DEF CallRow, Ahead, Resting
    <2>3. UNCHANGED <<rows, racing>>
        BY <1>1 DEF MessageEvent
    <2> QED BY <1>t, <2>1, <2>2, <2>3, GoesWithout
<1>2. ASSUME NEW c \in Calls, SendAsked(c) PROVE AdvanceInv'
    <2>1. PICK n \in {1, Tries} :
            call' = [call EXCEPT ![c] = [Resting EXCEPT !.pc = "find", !.kind = "send", !.left = n]]
        BY <1>2 DEF SendAsked
    <2>2. /\ [Resting EXCEPT !.pc = "find", !.kind = "send", !.left = n] \in CallRow
          /\ [Resting EXCEPT !.pc = "find", !.kind = "send", !.left = n].pc = "find"
          /\ [Resting EXCEPT !.pc = "find", !.kind = "send", !.left = n].row = 0
        <3>1. n \in Int
            BY InboxAssumption
        <3> QED BY <3>1, RestingRow DEF CallRow, Ahead, Resting
    <2>3. UNCHANGED <<rows, racing>>
        BY <1>2 DEF SendAsked
    <2> QED BY <1>t, <2>1, <2>2, <2>3, GoesWithout
<1>3. ASSUME NEW c \in Calls, FindConversation(c) PROVE AdvanceInv'
    <2>1. PICK pc \in {"open", "row", "look"}, v \in Convs \cup {0} :
            call' = [call EXCEPT ![c] = [call[c] EXCEPT !.pc = pc, !.conv = v]]
        <3>1. CASE Step(c, "open")
            <4>1. call[c].conv \in Convs \cup {0}
                BY <1>r DEF CallRow
            <4>2. [call[c] EXCEPT !.pc = "open", !.conv = call[c].conv] = [call[c] EXCEPT !.pc = "open"]
                BY <1>r DEF CallRow
            <4> QED BY <3>1, <4>1, <4>2 DEF Step
        <3>2. ASSUME NEW v \in convs, call' = [call EXCEPT ![c].pc = AfterConv(c), ![c].conv = v]
              PROVE  call' = [call EXCEPT ![c] = [call[c] EXCEPT !.pc = AfterConv(c), !.conv = v]]
            BY <3>2, <1>t
        <3>3. AfterConv(c) \in {"row", "look"}
            BY DEF AfterConv
        <3> QED BY <1>3, <1>t, <3>1, <3>2, <3>3 DEF FindConversation
    <2>2. /\ [call[c] EXCEPT !.pc = pc, !.conv = v] \in CallRow
          /\ [call[c] EXCEPT !.pc = pc, !.conv = v].pc = pc
          /\ [call[c] EXCEPT !.pc = pc, !.conv = v].row = call[c].row
        BY <1>r, <2>1 DEF CallRow, Ahead
    <2>3. UNCHANGED <<rows, racing>> /\ call[c].pc = "find"
        BY <1>3 DEF FindConversation
    <2> QED BY <1>t, <2>1, <2>2, <2>3, GoesWithout
<1>4. ASSUME NEW c \in Calls, OpenConversation(c) PROVE AdvanceInv'
    <2>1. PICK v \in Convs : call' = [call EXCEPT ![c].pc = AfterConv(c), ![c].conv = v]
        BY <1>4 DEF OpenConversation
    <2>2. PICK pc \in {"row", "look"} : pc = AfterConv(c)
        BY DEF AfterConv
    <2>3. /\ [call[c] EXCEPT !.pc = pc, !.conv = v] \in CallRow
          /\ [call[c] EXCEPT !.pc = pc, !.conv = v].pc = pc
          /\ [call[c] EXCEPT !.pc = pc, !.conv = v].row = call[c].row
        BY <1>r DEF CallRow, Ahead
    <2>4. call' = [call EXCEPT ![c] = [call[c] EXCEPT !.pc = pc, !.conv = v]]
        BY <2>1, <2>2, <1>t
    <2>5. UNCHANGED <<rows, racing>> /\ call[c].pc = "open"
        BY <1>4 DEF OpenConversation
    <2> QED BY <1>t, <2>3, <2>4, <2>5, GoesWithout
<1>5. ASSUME NEW c \in Calls, LookDuplicate(c) PROVE AdvanceInv'
    <2>1. UNCHANGED <<rows, racing>> /\ call[c].pc = "look"
        BY <1>5 DEF LookDuplicate
    <2>2. CASE Rests(c)
        BY <1>t, <2>1, <2>2, RestsAdvance
    <2>3. CASE Step(c, "insert")
        <3>1. /\ [call[c] EXCEPT !.pc = "insert"] \in CallRow
              /\ [call[c] EXCEPT !.pc = "insert"].pc = "insert"
              /\ [call[c] EXCEPT !.pc = "insert"].row = call[c].row
            BY <1>r DEF CallRow, Ahead
        <3>2. call' = [call EXCEPT ![c] = [call[c] EXCEPT !.pc = "insert"]]
            BY <2>3 DEF Step
        <3> QED BY <1>t, <2>1, <3>1, <3>2, GoesWithout
    <2> QED BY <1>5, <2>2, <2>3 DEF LookDuplicate
<1>6. ASSUME NEW c \in Calls, InsertMessage(c) PROVE AdvanceInv'
    <2>1. Rests(c) /\ racing' = racing
        BY <1>6 DEF InsertMessage
    <2>2. \A i \in Rows : rows'[i] = rows[i] \/ i \in Free
        BY <1>6, <1>t DEF InsertMessage
    <2> QED BY <1>t, <2>1, <2>2, RestsAdvance
<1>7. ASSUME NEW c \in Calls, InsertPending(c) PROVE AdvanceInv'
    <2>1. PICK i \in Free : /\ rows' = [rows EXCEPT ![i] = [msg |-> Pending, status |-> "pending"]]
                            /\ call' = [call EXCEPT ![c].pc = "wire", ![c].row = i]
        BY <1>7 DEF InsertPending
    <2>2. /\ i \in Rows /\ racing' = racing /\ \A d \in Calls : call[d].row # i
          /\ call[c].pc = "row"
        BY <1>7 DEF Free, InsertPending
    <2>3. /\ call'[c].pc = "wire" /\ call'[c].row = i
          /\ \A d \in Calls \ {c} : call'[d] = call[d]
          /\ \A j \in Rows : rows'[j] = rows[j] \/ j = i
        BY <1>r, <1>t, <2>1 DEF CallRow
    <2>4. OneSender'
        BY <2>2, <2>3 DEF OneSender, Transmits, AdvanceInv
    <2>5. MarksAlone'
        <3> SUFFICES ASSUME NEW d \in Calls, NEW j \in Rows, call'[d].pc = "mark",
                            call'[d].row = j, rows'[j] # NoRow, j \notin racing
                     PROVE  Fits(rows'[j].status, call'[d].status) /\ Touching(d, j)' = {}
            BY <2>2 DEF MarksAlone, NoRow
        <3>1. d # c /\ call'[d] = call[d] /\ j # i /\ rows'[j] = rows[j]
            BY <2>2, <2>3
        <3>2. Touching(d, j)' \subseteq Touching(d, j)
            BY <2>2, <2>3, <3>1 DEF Touching
        <3>3. Fits(rows[j].status, call[d].status) /\ Touching(d, j) = {}
            BY <3>1 DEF AdvanceInv, MarksAlone
        <3> QED BY <3>1, <3>2, <3>3
    <2>6. RecordsAnew'
        <3> SUFFICES ASSUME NEW d \in Calls, NEW j \in Rows, call'[d].pc = "record",
                            call'[d].row = j, rows'[j] # NoRow
                     PROVE  rows'[j].msg # call'[d].msg
            BY DEF RecordsAnew, NoRow
        <3>1. d # c /\ call'[d] = call[d] /\ j # i /\ rows'[j] = rows[j]
            BY <2>2, <2>3
        <3> QED BY <3>1 DEF AdvanceInv, RecordsAnew
    <2> QED BY <1>t, <2>4, <2>5, <2>6 DEF AdvanceInv
<1>s. ASSUME NEW c \in Calls, Transmits(c), racing' = racing, call' = [call EXCEPT ![c] = Again(c)],
             \A i \in Rows : rows'[i] = rows[i] \/ i \in Free \/ WritesOwn(c, i)
      PROVE  AdvanceInv'
    <2>1. Again(c) \in CallRow /\ Again(c).pc \in {"wire", "fail"}
        BY <1>t, AgainRow
    <2>2. Again(c).row = call[c].row
        BY <1>r DEF Again, CallRow
    <2>3. call[c].pc # "idle"
        BY <1>s DEF Transmits
    <2> QED BY <1>s, <1>t, <2>1, <2>2, <2>3, GoesOn
<1>8. ASSUME NEW c \in Calls, SendToBridge(c) PROVE AdvanceInv'
    <2>1. UNCHANGED <<rows, racing>> /\ Transmits(c) /\ call[c].pc = "wire"
        BY <1>8 DEF SendToBridge, Transmits
    <2>2. CASE call' = [call EXCEPT ![c] = Again(c)]
        BY <2>1, <2>2, <1>s
    <2>3. ASSUME NEW m \in Msgs \ wired, RowsOf(m) = {},
                 call' = [call EXCEPT ![c].pc = "record", ![c].msg = m]
          PROVE  AdvanceInv'
        <3>1. /\ [call[c] EXCEPT !.pc = "record", !.msg = m] \in CallRow
              /\ [call[c] EXCEPT !.pc = "record", !.msg = m].msg = m
              /\ [call[c] EXCEPT !.pc = "record", !.msg = m].pc = "record"
              /\ [call[c] EXCEPT !.pc = "record", !.msg = m].row = call[c].row
            BY <1>r DEF CallRow, Ahead
        <3>2. call' = [call EXCEPT ![c] = [call[c] EXCEPT !.pc = "record", !.msg = m]]
            BY <2>3, <1>t
        <3>3. PICK new \in CallRow : /\ new = [call[c] EXCEPT !.pc = "record", !.msg = m]
                                     /\ new.msg = m /\ new.pc = "record" /\ new.row = call[c].row
            BY <3>1
        <3>4. call' = [call EXCEPT ![c] = new]
            BY <3>2, <3>3
        <3> QED BY <1>t, <2>1, <2>3, <3>3, <3>4, GoesOn
    <2> QED BY <1>8, <2>2, <2>3 DEF SendToBridge
<1>9. ASSUME NEW c \in Calls, RecordSent(c) PROVE AdvanceInv'
    <2>1. Rests(c) \/ call' = [call EXCEPT ![c] = Again(c)]
        BY <1>9 DEF RecordSent
    <2>2. racing' = racing /\ Transmits(c) /\ call[c].pc = "record"
        BY <1>9 DEF RecordSent, Transmits
    <2>3. ASSUME NEW i \in Rows PROVE rows'[i] = rows[i] \/ WritesOwn(c, i)
        BY <1>9, <1>t, <2>2 DEF RecordSent, Write, WritesOwn
    <2> QED BY <1>t, <2>1, <2>2, <2>3, <1>s, RestsAdvance
<1>m. ASSUME NEW c \in Calls, NEW s, call[c].pc # "idle", Rests(c), racing' = racing,
             Write(call[c].row, [rows[call[c].row] EXCEPT !.status = s])
      PROVE  AdvanceInv'
    <2>1. ASSUME NEW i \in Rows PROVE rows'[i] = rows[i] \/ WritesOwn(c, i)
        <3>1. CASE i # call[c].row
            BY <1>m, <1>t, <3>1 DEF Write
        <3>2. CASE i = call[c].row
            <4>1. rows[i] = NoRow => rows'[i] = NoRow
                BY <1>m, <1>t, <3>2 DEF Write
            <4>2. rows[i] # NoRow => rows'[i].msg = rows[i].msg
                <5>1. rows[i] # NoRow => rows'[i] = [rows[i] EXCEPT !.status = s] /\ rows[i] \in Letter
                    BY <1>m, <1>t, <3>2 DEF Write
                <5> QED BY <5>1 DEF Letter
            <4> QED BY <1>m, <3>2, <4>1, <4>2 DEF WritesOwn
        <3> QED BY <3>1, <3>2
    <2> QED BY <1>m, <1>t, <2>1, RestsAdvance
<1>10. ASSUME NEW c \in Calls, MarkFailed(c) PROVE AdvanceInv'
    BY <1>10, <1>m DEF MarkFailed
<1>11. ASSUME NEW c \in Calls, ReceiptEvent(c) PROVE AdvanceInv'
    <2>1. PICK m \in Msgs, s \in {"delivered", "read", "failed"} :
            call' = [call EXCEPT ![c] = [Resting EXCEPT !.pc = "receipt", !.kind = "receipt",
                                         !.msg = m, !.status = s]]
        BY <1>11 DEF ReceiptEvent
    <2>2. PICK new : new = [Resting EXCEPT !.pc = "receipt", !.kind = "receipt",
                                           !.msg = m, !.status = s]
        OBVIOUS
    <2>3. new \in CallRow /\ new.pc = "receipt" /\ new.row = 0
        BY <2>2, RestingRow DEF CallRow, Ahead, Delivery, Resting
    <2>4. UNCHANGED <<rows, racing>> /\ call' = [call EXCEPT ![c] = new]
        BY <1>11, <2>1, <2>2 DEF ReceiptEvent
    <2> QED BY <1>t, <2>3, <2>4, GoesWithout
<1>12. ASSUME NEW c \in Calls, ReceiptLooks(c) PROVE AdvanceInv'
    <2>1. UNCHANGED rows /\ call[c].pc = "receipt"
        BY <1>12 DEF ReceiptLooks
    <2>2. CASE Rests(c) /\ UNCHANGED racing
        BY <1>t, <2>1, <2>2, RestsAdvance
    <2>3. ASSUME NEW i \in RowsOf(call[c].msg), ~Behind(rows[i].status, call[c].status),
                 call' = [call EXCEPT ![c].pc = "mark", ![c].row = i],
                 racing' = IF Touching(c, i) # {} THEN racing \cup {i} ELSE racing
          PROVE  AdvanceInv'
        <3>1. /\ call'[c].pc = "mark" /\ call'[c].row = i /\ call'[c].status = call[c].status
              /\ \A d \in Calls \ {c} : call'[d] = call[d]
              /\ i \in Rows
            BY <1>r, <1>t, <2>3 DEF CallRow, RowsOf
        <3>2. OneSender'
            BY <3>1 DEF OneSender, Transmits, AdvanceInv
        <3>3. RecordsAnew'
            BY <2>1, <3>1 DEF RecordsAnew, AdvanceInv
        <3>4. MarksAlone'
            <4> SUFFICES ASSUME NEW d \in Calls, NEW j \in Rows, call'[d].pc = "mark",
                                call'[d].row = j, rows[j] # NoRow, j \notin racing'
                         PROVE  Fits(rows[j].status, call'[d].status) /\ Touching(d, j)' = {}
                BY <2>1 DEF MarksAlone
            <4>1. j \notin racing
                BY <2>3
            <4>2. CASE d = c
                <5>1. j = i /\ Touching(c, i) = {}
                    BY <2>3, <3>1, <4>2
                <5>2. Touching(c, i)' = Touching(c, i)
                    BY <3>1 DEF Touching
                <5>3. Fits(rows[i].status, call[c].status)
                    <6>1. rows[i].status \in Delivery /\ call[c].status \in Delivery
                        <7>1. rows[i] \in Letter
                            BY <1>t, <3>1, <4>2, <5>1
                        <7> QED BY <1>r, <7>1 DEF CallRow, Letter
                    <6>2. Rank(rows[i].status) \in 0..4 /\ Rank(call[c].status) \in 0..4
                        BY <6>1, Ranks
                    <6> QED BY <2>3, <6>2 DEF Behind, Fits
                <5> QED BY <3>1, <4>2, <5>1, <5>2, <5>3
            <4>3. CASE d # c
                <5>1. call'[d] = call[d]
                    BY <3>1, <4>3
                <5>2. Fits(rows[j].status, call[d].status) /\ Touching(d, j) = {}
                    BY <4>1, <5>1 DEF AdvanceInv, MarksAlone
                <5>3. j # i
                    <6>1. ASSUME j = i PROVE FALSE
                        <7>1. d \in Touching(c, i)
                            BY <4>3, <5>1, <6>1 DEF Touching
                        <7> QED BY <2>3, <6>1, <7>1
                    <6> QED BY <6>1
                <5>4. Touching(d, j)' \subseteq Touching(d, j)
                    BY <3>1, <5>3 DEF Touching
                <5> QED BY <5>1, <5>2, <5>4
            <4> QED BY <4>2, <4>3
        <3> QED BY <1>t, <3>2, <3>3, <3>4 DEF AdvanceInv
    <2> QED BY <1>12, <2>2, <2>3 DEF ReceiptLooks
<1>13. ASSUME NEW c \in Calls, ReceiptMarksMessage(c) PROVE AdvanceInv'
    BY <1>13, <1>m DEF ReceiptMarksMessage
<1>14. ASSUME NEW c \in Calls, CallDies(c) PROVE AdvanceInv'
    BY <1>14, <1>t, RestsAdvance DEF CallDies
<1>15. ASSUME NEW i \in Rows, DeleteMessage(i) PROVE AdvanceInv'
    <2>1. /\ call' = call /\ rows'[i] = NoRow
          /\ \A j \in Rows \ {i} : rows'[j] = rows[j] /\ (j \in racing' <=> j \in racing)
        BY <1>15, <1>t DEF DeleteMessage
    <2>2. OneSender'
        BY <2>1 DEF OneSender, Transmits, AdvanceInv
    <2>3. MarksAlone'
        <3> SUFFICES ASSUME NEW d \in Calls, NEW j \in Rows, call[d].pc = "mark",
                            call[d].row = j, rows'[j] # NoRow, j \notin racing'
                     PROVE  Fits(rows'[j].status, call[d].status) /\ Touching(d, j) = {}
            BY <2>1 DEF MarksAlone, NoRow, Touching
        <3>1. rows'[j] = rows[j] /\ j \notin racing
            BY <2>1
        <3> QED BY <3>1 DEF AdvanceInv, MarksAlone
    <2>4. RecordsAnew'
        <3> SUFFICES ASSUME NEW d \in Calls, NEW j \in Rows, call[d].pc = "record",
                            call[d].row = j, rows'[j] # NoRow
                     PROVE  rows'[j].msg # call[d].msg
            BY <2>1 DEF RecordsAnew, NoRow
        <3>1. rows'[j] = rows[j]
            BY <2>1
        <3> QED BY <3>1 DEF AdvanceInv, RecordsAnew
    <2> QED BY <1>t, <2>2, <2>3, <2>4 DEF AdvanceInv
<1>16. CASE UNCHANGED inboxVars \/ \E v \in Convs : DeleteConversation(v)
    <2>1. UNCHANGED <<rows, call, racing>>
        BY <1>16 DEF inboxVars, DeleteConversation
    <2>2. OneSender'
        BY <2>1 DEF OneSender, Transmits, AdvanceInv
    <2>3. MarksAlone'
        BY <2>1 DEF MarksAlone, Touching, AdvanceInv
    <2>4. RecordsAnew'
        BY <2>1 DEF RecordsAnew, AdvanceInv
    <2> QED BY <1>t, <2>2, <2>3, <2>4 DEF AdvanceInv
<1> QED BY <1>1, <1>2, <1>3, <1>4, <1>5, <1>6, <1>7, <1>8, <1>9, <1>10, <1>11, <1>12, <1>13,
           <1>14, <1>15, <1>16 DEF InboxNext

\* What the steps do to a row whose message stays.
LEMMA AdvanceRows ==
    ASSUME AdvanceInv, [InboxNext]_inboxVars, NEW i \in Rows, i \notin racing,
           rows'[i].msg = rows[i].msg
    PROVE  Rank(rows'[i].status) >= Rank(rows[i].status)
<1>t. /\ StoredInv /\ rows \in [Rows -> {NoRow} \cup Letter] /\ call \in [Calls -> CallRow]
    BY DEF AdvanceInv, StoredInv
<1>r. \A s \in Delivery \cup {NoRow.status} : Rank(s) \in 0..4
    BY Ranks
<1>0. rows[i].status \in Delivery \cup {NoRow.status} /\ Rank(rows[i].status) \in 0..4
    <2>1. rows[i] = NoRow \/ rows[i] \in Letter
        BY <1>t
    <2> QED BY <2>1, <1>r DEF Letter
<1>1. NoRow.msg # Pending /\ NoRow.msg \notin Msgs
    BY InboxNames, InboxAssumption DEF NoRow, Pending
<1>2. CASE rows'[i] = rows[i]
    BY <1>0, <1>2
<1>3. ASSUME NEW c \in Calls, InsertMessage(c) PROVE rows'[i] = rows[i]
    <2>1. CASE UNCHANGED rows
        BY <2>1
    <2>2. ASSUME NEW j \in Free, NEW s,
                 rows' = [rows EXCEPT ![j] = [msg |-> call[c].msg, status |-> s]]
          PROVE  rows'[i] = rows[i]
        <3>1. ASSUME j = i PROVE FALSE
            <4>1. rows[i] = NoRow /\ rows'[i].msg = call[c].msg
                BY <1>t, <2>2, <3>1 DEF Free
            <4>2. call[c].msg \in Msgs \cup {Pending}
                BY <1>t DEF CallRow
            <4> QED BY <1>1, <4>1, <4>2
        <3> QED BY <1>t, <2>2, <3>1
    <2> QED BY <1>3, <2>1, <2>2 DEF InsertMessage
<1>4. ASSUME NEW c \in Calls, InsertPending(c) PROVE rows'[i] = rows[i]
    <2>1. PICK j \in Free : rows' = [rows EXCEPT ![j] = [msg |-> Pending, status |-> "pending"]]
        BY <1>4 DEF InsertPending
    <2>2. ASSUME j = i PROVE FALSE
        <3>1. rows[i] = NoRow /\ rows'[i].msg = Pending
            BY <1>t, <2>1, <2>2 DEF Free
        <3> QED BY <1>1, <3>1
    <2> QED BY <1>t, <2>1, <2>2
<1>5. ASSUME NEW c \in Calls, RecordSent(c) PROVE rows'[i] = rows[i]
    <2>1. ASSUME rows'[i] # rows[i] PROVE FALSE
        <3>1. call[c].pc = "record" /\ call[c].row = i /\ rows[i] # NoRow
              /\ rows'[i].msg = call[c].msg
            BY <1>5, <1>t, <2>1 DEF RecordSent, Write
        <3> QED BY <3>1 DEF AdvanceInv, RecordsAnew
    <2> QED BY <2>1
<1>6. ASSUME NEW c \in Calls, MarkFailed(c) PROVE Rank(rows'[i].status) >= Rank(rows[i].status)
    <2>1. CASE rows'[i] = rows[i]
        BY <1>2, <2>1
    <2>2. CASE rows'[i] # rows[i]
        <3>1. rows[i] # NoRow /\ rows'[i] = [rows[i] EXCEPT !.status = "failed"]
            BY <1>6, <1>t, <2>2 DEF MarkFailed, Write
        <3>2. rows'[i].status = "failed"
            BY <1>t, <3>1 DEF Letter
        <3> QED BY <1>0, <3>2, Ranks
    <2> QED BY <2>1, <2>2
<1>7. ASSUME NEW c \in Calls, ReceiptMarksMessage(c)
      PROVE  Rank(rows'[i].status) >= Rank(rows[i].status)
    <2>1. CASE rows'[i] = rows[i]
        BY <1>2, <2>1
    <2>2. CASE rows'[i] # rows[i]
        <3>1. /\ rows[i] # NoRow /\ rows'[i] = [rows[i] EXCEPT !.status = call[c].status]
              /\ call[c].pc = "mark" /\ call[c].row = i
            BY <1>7, <1>t, <2>2 DEF ReceiptMarksMessage, Write
        <3>2. rows'[i].status = call[c].status
            BY <1>t, <3>1 DEF Letter
        <3>3. Fits(rows[i].status, call[c].status)
            BY <3>1 DEF AdvanceInv, MarksAlone
        <3>4. Rank(call[c].status) \in 0..4 /\ Rank("failed") = 4
            BY <1>t, Ranks DEF CallRow
        <3> QED BY <1>0, <3>2, <3>3, <3>4 DEF Fits
    <2> QED BY <2>1, <2>2
<1>8. ASSUME NEW j \in Rows, DeleteMessage(j) PROVE rows'[i] = rows[i]
    <2>1. ASSUME j = i PROVE FALSE
        <3>1. rows[i] \in Letter /\ rows'[i] = NoRow
            BY <1>8, <1>t, <2>1 DEF DeleteMessage
        <3>2. rows[i].msg \in Msgs \cup {Pending}
            BY <3>1 DEF Letter
        <3> QED BY <1>1, <3>1, <3>2
    <2> QED BY <1>8, <1>t, <2>1 DEF DeleteMessage
<1>9. CASE UNCHANGED rows
    BY <1>0, <1>9
<1> HIDE DEF Rank
<1>10. ASSUME NEW c \in Calls,
              \/ MessageEvent(c) \/ SendAsked(c) \/ FindConversation(c) \/ OpenConversation(c)
              \/ LookDuplicate(c) \/ SendToBridge(c) \/ ReceiptEvent(c) \/ ReceiptLooks(c)
              \/ CallDies(c)
       PROVE  UNCHANGED rows
    BY <1>10 DEF MessageEvent, SendAsked, FindConversation, OpenConversation, LookDuplicate,
       SendToBridge, ReceiptEvent, ReceiptLooks, CallDies
<1>11. ASSUME (\E v \in Convs : DeleteConversation(v)) \/ UNCHANGED inboxVars
       PROVE  UNCHANGED rows
    BY <1>11 DEF DeleteConversation, inboxVars
<1> QED BY <1>2, <1>3, <1>4, <1>5, <1>6, <1>7, <1>8, <1>9, <1>10, <1>11 DEF InboxNext

\* Receipts of a message come repeated and in any order, while the worker or
\* the panel records it, and its status never goes back unless two calls had
\* read the same row before either of them wrote it.
THEOREM StatusNeverBack == InboxSpec => StatusAdvances
<1>1. InboxInit => AdvanceInv
    <2> SUFFICES ASSUME InboxInit PROVE AdvanceInv
        OBVIOUS
    <2>1. StoredInv
        BY InboxStarts
    <2>2. \A c \in Calls : call[c].pc = "idle"
        BY RestingRow DEF InboxInit
    <2> QED BY <2>1, <2>2 DEF AdvanceInv, OneSender, MarksAlone, RecordsAnew, Transmits
<1>2. AdvanceInv /\ [InboxNext]_inboxVars =>
        \A i \in Rows : (rows'[i].msg = rows[i].msg
                         /\ Rank(rows'[i].status) < Rank(rows[i].status)) => i \in racing
    <2> SUFFICES ASSUME AdvanceInv, [InboxNext]_inboxVars, NEW i \in Rows,
                        rows'[i].msg = rows[i].msg, i \notin racing
                 PROVE  ~(Rank(rows'[i].status) < Rank(rows[i].status))
        OBVIOUS
    <2>1. Rank(rows'[i].status) >= Rank(rows[i].status)
        BY AdvanceRows
    <2>2. Rank(rows'[i].status) \in 0..4 /\ Rank(rows[i].status) \in 0..4
        <3>1. AdvanceInv'
            BY AdvanceStep
        <3>2. /\ rows[i] \in {NoRow} \cup Letter
              /\ rows'[i] \in {NoRow} \cup Letter
            BY <3>1 DEF AdvanceInv, StoredInv
        <3> QED BY <3>2, Ranks DEF Letter
    <2> QED BY <2>1, <2>2
<1> QED BY <1>1, <1>2, AdvanceStep, PTL DEF InboxSpec, StatusAdvances

-----------------------------------------------------------------------------
(* Logging out: a connect call that is being served is wanted, and only     *)
(* connect calls start a session.                                           *)

Connects(r) == Connecting(r) /\ Serving(r)
ReqRow == [pc : Places, kind : Kinds, started : BOOLEAN, tries : Nat, clean : BOOLEAN]
LogoutInv ==
    /\ req \in [Requests -> ReqRow]
    /\ \A r \in Requests : Connects(r) => wanted
    /\ \A r \in Requests : req[r].pc = "start" => Connecting(r)
    /\ LogoutLasts

\* A step of request r that leaves the upstream session, and who wanted it.
LEMMA BridgeMoves ==
    ASSUME LogoutInv, NEW r \in Requests, req' \in [Requests -> ReqRow],
           up' = up \/ up' \notin {"qr", "open"} \/ wanted,
           wanted' = wanted,
           \A q \in Requests \ {r} : req'[q].pc = req[q].pc /\ req'[q].kind = req[q].kind,
           req'[r].kind = req[r].kind,
           Serving(r)' => Serving(r),
           req'[r].pc = "start" => Connecting(r)
    PROVE  LogoutInv'
<1>1. ASSUME NEW q \in Requests, Connects(q)' PROVE Connects(q)
    BY <1>1 DEF Connects, Connecting, Serving
<1>2. ASSUME NEW q \in Requests, req'[q].pc = "start" PROVE Connecting(q)'
    BY <1>2 DEF LogoutInv, Connecting
<1> QED BY <1>1, <1>2 DEF LogoutInv, LogoutLasts

LEMMA StainedRow ==
    ASSUME LogoutInv, NEW q \in Requests
    PROVE  Stained(q) \in ReqRow /\ Stained(q).pc = req[q].pc /\ Stained(q).kind = req[q].kind
<1>1. req[q] \in ReqRow /\ (~Connecting(q)) \in BOOLEAN
    BY DEF LogoutInv, Connecting
<1> HIDE DEF LogoutInv, Connecting
<1> QED BY <1>1 DEF Stained, ReqRow

LEMMA Spoils ==
    ASSUME LogoutInv, NEW r \in Requests, NEW pc \in Places, Spoil(r, pc)
    PROVE  /\ req' \in [Requests -> ReqRow]
           /\ \A q \in Requests \ {r} : req'[q] = req[q]
           /\ req'[r].kind = req[r].kind /\ req'[r].pc = pc
<1>1. Stained(r) \in ReqRow /\ Stained(r).kind = req[r].kind
    BY StainedRow
<1>2. /\ [Stained(r) EXCEPT !.pc = pc] \in ReqRow
      /\ [Stained(r) EXCEPT !.pc = pc].kind = req[r].kind
      /\ [Stained(r) EXCEPT !.pc = pc].pc = pc
    BY <1>1 DEF ReqRow
<1>3. req \in [Requests -> ReqRow]
    BY DEF LogoutInv
<1> QED BY <1>2, <1>3 DEF Spoil

LEMMA Throws ==
    ASSUME LogoutInv, NEW r \in Requests, Throw(r)
    PROVE  /\ req' \in [Requests -> ReqRow]
           /\ \A q \in Requests \ {r} : req'[q] = req[q]
           /\ req'[r].kind = req[r].kind /\ req'[r].pc # "start"
<1>1. PICK pc \in {"code", "answered", "failed"} : Spoil(r, pc)
    BY DEF Throw, LookAgain
<1>2. pc \in Places
    BY DEF Places
<1> QED BY <1>1, <1>2, Spoils

LEMMA BridgeStep == LogoutInv /\ [BridgeNext]_bridgeVars => LogoutInv'
<1> SUFFICES ASSUME LogoutInv, [BridgeNext]_bridgeVars PROVE LogoutInv'
    OBVIOUS
<1>t. req \in [Requests -> ReqRow]
    BY DEF LogoutInv
<1>a. ASSUME NEW r \in Requests, Arrives(r) PROVE LogoutInv'
    <2>1. PICK k \in Kinds :
            /\ req' = [req EXCEPT ![r].kind = k,
                                  ![r].pc = IF k \in {"fresh", "logout"} THEN "wipe" ELSE "look"]
            /\ wanted' = (wanted \/ k \in {"connect", "fresh"})
        BY <1>a DEF Arrives
    <2>2. req' \in [Requests -> ReqRow] /\ up' = up
        <3> DEFINE pc == IF k \in {"fresh", "logout"} THEN "wipe" ELSE "look"
        <3>1. pc \in Places
            BY DEF Places
        <3> HIDE DEF pc
        <3> QED BY <1>a, <2>1, <3>1, <1>t DEF Arrives, ReqRow, pc
    <2>3. ASSUME NEW q \in Requests, Connects(q)' PROVE wanted'
        <3>1. CASE q = r
            <4>1. req'[r].kind = k
                BY <2>1, <1>t DEF ReqRow
            <4> QED BY <2>1, <2>3, <3>1, <4>1 DEF Connects, Connecting
        <3>2. CASE q # r
            <4>1. Connects(q)
                BY <2>1, <2>3, <3>2, <1>t DEF Connects, Connecting, Serving
            <4> QED BY <2>1, <4>1 DEF LogoutInv
        <3> QED BY <3>1, <3>2
    <2>4. ASSUME NEW q \in Requests, req'[q].pc = "start" PROVE Connecting(q)'
        BY <2>1, <2>4, <1>t DEF LogoutInv, Connecting
    <2> QED BY <2>1, <2>2, <2>3, <2>4 DEF LogoutInv, LogoutLasts
<1>b. ASSUME NEW r \in Requests, LogoutUpstream(r) PROVE LogoutInv'
    <2>1. req' \in [Requests -> ReqRow] /\ wanted' = wanted
        BY <1>b, <1>t DEF LogoutUpstream, To, Places, ReqRow
    <2>2. up' = up \/ wanted
        BY <1>b DEF LogoutUpstream, LogoutInv, LogoutLasts
    <2> QED BY <1>b, <1>t, <2>1, <2>2, BridgeMoves DEF LogoutUpstream, To, Serving
<1>c. ASSUME NEW r \in Requests, DeleteUpstream(r) PROVE LogoutInv'
    <2> DEFINE others == {q \in Requests \ {r} : Connecting(q) /\ Serving(q)}
               next == IF req[r].kind = "fresh" THEN "look" ELSE "answered"
    <2>1. CASE Spoil(r, next) /\ up' = up /\ wanted' = wanted
        <3>1. next \in Places /\ (next = "look" => req[r].kind = "fresh") /\ req[r].pc = "erase"
            BY <1>c DEF Places, DeleteUpstream
        <3>2. /\ req' \in [Requests -> ReqRow]
              /\ \A q \in Requests \ {r} : req'[q] = req[q]
              /\ req'[r].kind = req[r].kind /\ req'[r].pc = next
            <4> HIDE DEF next
            <4> QED BY <2>1, <3>1, Spoils
        <3>3. Serving(r)
            BY <3>1 DEF Serving
        <3>4. req'[r].pc # "start"
            BY <3>2
        <3> HIDE DEF next
        <3> QED BY <2>1, <3>2, <3>3, <3>4, BridgeMoves
    <2>2. CASE /\ up' = "absent"
               /\ wanted' = (others # {} \/ req[r].kind = "fresh")
               /\ req' = [q \in Requests |-> IF q = r THEN [req[r] EXCEPT !.pc = next]
                                             ELSE Stained(q)]
        <3>1. \A q \in Requests : Stained(q) \in ReqRow /\ Stained(q).pc = req[q].pc
                                  /\ Stained(q).kind = req[q].kind
            BY StainedRow
        <3>2. [req[r] EXCEPT !.pc = next] \in ReqRow
            <4>1. next \in Places
                BY DEF Places
            <4> HIDE DEF next
            <4> QED BY <4>1, <1>t DEF ReqRow
        <3>3. req' \in [Requests -> ReqRow]
            BY <2>2, <3>1, <3>2
        <3>4. ASSUME NEW q \in Requests, Connects(q)' PROVE wanted'
            <4>1. CASE q = r
                <5>1. req'[r].kind = req[r].kind /\ req'[r].pc = next
                    <6> HIDE DEF next
                    <6> QED BY <2>2, <1>t DEF ReqRow
                <5> QED BY <2>2, <3>4, <4>1, <5>1 DEF Connects, Connecting, Serving
            <4>2. CASE q # r
                <5>1. q \in others
                    BY <2>2, <3>1, <3>4, <4>2 DEF Connects, Connecting, Serving
                <5> QED BY <5>1, <2>2
            <4> QED BY <4>1, <4>2
        <3>5. ASSUME NEW q \in Requests, req'[q].pc = "start" PROVE Connecting(q)'
            BY <2>2, <3>1, <3>5, <1>t DEF LogoutInv, Connecting
        <3> HIDE DEF others
        <3> QED BY <2>2, <3>3, <3>4, <3>5 DEF LogoutInv, LogoutLasts
    <2> QED BY <1>c, <2>1, <2>2 DEF DeleteUpstream
<1>d. ASSUME NEW r \in Requests, GetSession(r) PROVE LogoutInv'
    <2>1. up' = up /\ wanted' = wanted /\ req[r].pc = "look"
        BY <1>d DEF GetSession
    <2>2. CASE Throw(r)
        BY <2>1, <2>2, Throws, BridgeMoves DEF Serving
    <2>3. CASE Spoil(r, "create")
        <3>1. "create" \in Places
            BY DEF Places
        <3> QED BY <2>1, <2>3, <3>1, Spoils, BridgeMoves DEF Serving
    <2>4. ASSUME NEW pc \in {"create", "start", "send", "read"}, To(r, pc),
                 pc = "start" => Connecting(r)
          PROVE  LogoutInv'
        <3>1. /\ req' \in [Requests -> ReqRow]
              /\ \A q \in Requests \ {r} : req'[q] = req[q]
              /\ req'[r].kind = req[r].kind /\ req'[r].pc = pc
            BY <2>4, <1>t DEF To, Places, ReqRow
        <3> QED BY <2>1, <2>4, <3>1, BridgeMoves DEF Serving
    <2> QED BY <1>d, <2>2, <2>3, <2>4 DEF GetSession, Starting, AfterEnsure
<1>e. ASSUME NEW r \in Requests, CreateSession(r) PROVE LogoutInv'
    <2>1. wanted' = wanted /\ req[r].pc = "create"
        BY <1>e DEF CreateSession, CreateAs
    <2>2. /\ req' \in [Requests -> ReqRow]
          /\ \A q \in Requests \ {r} : req'[q] = req[q]
          /\ req'[r].kind = req[r].kind
          /\ req'[r].pc # "start"
        <3>1. CASE Throw(r)
            BY <3>1, Throws
        <3>2. CASE req' = [req EXCEPT ![r].pc = IF Starting(r) THEN "look" ELSE AfterEnsure(r),
                                      ![r].started = Connecting(r)]
            <4>1. PICK pc \in {"look", "send", "read"} :
                    req' = [req EXCEPT ![r].pc = pc, ![r].started = Connecting(r)]
                BY <3>2 DEF AfterEnsure
            <4>2. Connecting(r) \in BOOLEAN
                BY DEF Connecting
            <4> HIDE DEF Connecting
            <4> QED BY <4>1, <4>2, <1>t DEF ReqRow, Places
        <3> QED BY <1>e, <3>1, <3>2 DEF CreateSession, CreateAs
    <2>4. up' = up \/ up' \notin {"qr", "open"} \/ wanted
        BY <1>e, <2>1 DEF CreateSession, CreateAs, Starting, LogoutInv, Connects, Serving
    <2> QED BY <2>1, <2>2, <2>4, BridgeMoves DEF Serving
<1>f. ASSUME NEW r \in Requests, StartSession(r) PROVE LogoutInv'
    <2>1. wanted' = wanted /\ req[r].pc = "start"
        BY <1>f DEF StartSession
    <2>2. /\ req' \in [Requests -> ReqRow]
          /\ \A q \in Requests \ {r} : req'[q] = req[q]
          /\ req'[r].kind = req[r].kind
          /\ req'[r].pc = "look"
        <3>1. PICK found \in ReqRow : /\ found.kind = req[r].kind
                                      /\ req' = [req EXCEPT ![r] = [found EXCEPT !.pc = "look",
                                                                                 !.started = TRUE]]
            <4>1. CASE req' = [req EXCEPT ![r].pc = "look", ![r].started = TRUE]
                <5>1. req' = [req EXCEPT ![r] = [req[r] EXCEPT !.pc = "look", !.started = TRUE]]
                    BY <4>1, <1>t
                <5> QED BY <5>1, <1>t
            <4>2. CASE req' = [req EXCEPT ![r] = [Stained(r) EXCEPT !.pc = "look", !.started = TRUE]]
                BY <4>2, StainedRow
            <4> QED BY <1>f, <4>1, <4>2 DEF StartSession
        <3>2. [found EXCEPT !.pc = "look", !.started = TRUE] \in ReqRow
            BY DEF ReqRow, Places
        <3>3. /\ [found EXCEPT !.pc = "look", !.started = TRUE].pc = "look"
              /\ [found EXCEPT !.pc = "look", !.started = TRUE].kind = found.kind
            BY DEF ReqRow
        <3> QED BY <3>1, <3>2, <3>3, <1>t
    <2>4. wanted
        BY <2>1 DEF LogoutInv, Connects, Serving
    <2> QED BY <2>1, <2>2, <2>4, BridgeMoves DEF Serving
<1>g. ASSUME NEW r \in Requests, ReadStatus(r) PROVE LogoutInv'
    <2>1. up' = up /\ wanted' = wanted /\ req[r].pc = "read"
        BY <1>g DEF ReadStatus
    <2>2. CASE Throw(r)
        BY <2>1, <2>2, Throws, BridgeMoves DEF Serving
    <2>3. ASSUME NEW pc \in {"code", "answered"}, To(r, pc)
          PROVE  LogoutInv'
        <3>1. /\ req' \in [Requests -> ReqRow]
              /\ \A q \in Requests \ {r} : req'[q] = req[q]
              /\ req'[r].kind = req[r].kind /\ req'[r].pc = pc
            BY <2>3, <1>t DEF To, Places, ReqRow
        <3> QED BY <2>1, <2>3, <3>1, BridgeMoves DEF Serving
    <2> QED BY <1>g, <2>2, <2>3 DEF ReadStatus, LookAgain
<1>h. ASSUME NEW r \in Requests, ReadQR(r) PROVE LogoutInv'
    <2>1. up' = up /\ wanted' = wanted /\ req[r].pc = "code"
        BY <1>h DEF ReadQR
    <2>2. req' \in [Requests -> ReqRow]
        BY <1>h, <1>t DEF ReadQR, To, Places, ReqRow
    <2>3. /\ \A q \in Requests \ {r} : req'[q] = req[q]
          /\ req'[r].kind = req[r].kind
          /\ req'[r].pc # "start"
        BY <1>h, <1>t DEF ReadQR, To, ReqRow
    <2> QED BY <2>1, <2>2, <2>3, BridgeMoves DEF Serving
<1>i. ASSUME NEW r \in Requests, SendUpstream(r) PROVE LogoutInv'
    <2>1. up' = up /\ wanted' = wanted /\ req[r].pc = "send"
        BY <1>i DEF SendUpstream
    <2>2. req' \in [Requests -> ReqRow]
        BY <1>i, <1>t DEF SendUpstream, To, Places, ReqRow
    <2>3. /\ \A q \in Requests \ {r} : req'[q] = req[q]
          /\ req'[r].kind = req[r].kind
          /\ req'[r].pc # "start"
        BY <1>i, <1>t DEF SendUpstream, To
    <2> QED BY <2>1, <2>2, <2>3, BridgeMoves DEF Serving
<1>j. CASE UpstreamTurns
    <2>1. wanted' = wanted /\ wanted
        BY <1>j DEF UpstreamTurns, LogoutInv, LogoutLasts
    <2>2. \A q \in Requests : Stained(q) \in ReqRow /\ Stained(q).pc = req[q].pc
                              /\ Stained(q).kind = req[q].kind
        BY StainedRow
    <2>3. req' = [q \in Requests |-> Stained(q)]
        BY <1>j DEF UpstreamTurns
    <2> QED BY <2>1, <2>2, <2>3 DEF LogoutInv, LogoutLasts, Connecting
<1>k. CASE Webhook \/ UNCHANGED bridgeVars
    <2>1. UNCHANGED <<up, req, wanted>>
        BY <1>k DEF Webhook, bridgeVars
    <2> QED BY <2>1 DEF LogoutInv, LogoutLasts, Connects, Connecting, Serving
<1> QED BY <1>a, <1>b, <1>c, <1>d, <1>e, <1>f, <1>g, <1>h, <1>i, <1>j, <1>k
        DEF BridgeNext, Proceeds

LEMMA LogoutStarts == BridgeInit => LogoutInv
<1> SUFFICES ASSUME BridgeInit PROVE LogoutInv
    OBVIOUS
<1>1. [pc |-> "idle", kind |-> "send", started |-> FALSE, tries |-> 0, clean |-> TRUE] \in ReqRow
    BY DEF ReqRow, Places, Kinds
<1>2. req \in [Requests -> ReqRow]
    BY <1>1 DEF BridgeInit
<1>3. /\ \A r \in Requests : req[r].pc = "idle" /\ req[r].kind = "send"
      /\ up \in {"qr", "open"} => wanted
    BY DEF BridgeInit
<1> QED BY <1>2, <1>3 DEF LogoutInv, LogoutLasts, Connects, Connecting, Serving

\* A WhatsApp session that the user has logged out does not run again until
\* somebody connects, whatever polls and sends were under way and however many.
THEOREM NoReturn == BridgeSpec => []LogoutLasts
BY LogoutStarts, BridgeStep, PTL DEF BridgeSpec, LogoutInv

-----------------------------------------------------------------------------
(* A connect call that nothing disturbed: once it has started the session,  *)
(* the session runs, and only then is it past its first ensureSession.      *)

Runs == {"qr", "open"}
Begun(r) ==
    /\ req[r].pc \in {"idle", "wipe", "erase"} => ~req[r].started
    /\ req[r].pc \in {"wipe", "erase"} => req[r].kind \in {"fresh", "logout"}
    /\ (Connecting(r) /\ req[r].clean /\ req[r].started) => up \in Runs
    /\ (Connecting(r) /\ req[r].clean /\ req[r].pc = "start") => up # "absent"
    /\ (Connecting(r) /\ req[r].clean /\ req[r].pc \in {"read", "code", "answered"}) =>
            req[r].started
    /\ req[r].pc = "send" => ~Connecting(r)
ConnectInv == LogoutInv /\ (\A r \in Requests : Begun(r)) /\ up \in Normal
\* The session is neither stopped nor removed.
UpKeeps == (up \in Runs => up' \in Runs) /\ (up # "absent" => up' # "absent")

LEMMA BegunStays ==
    ASSUME NEW q \in Requests, Begun(q), UpKeeps, req'[q] = req[q]
    PROVE  Begun(q)'
BY DEF Begun, UpKeeps, Connecting

LEMMA BegunStained ==
    ASSUME LogoutInv, NEW q \in Requests, Begun(q), req'[q] = Stained(q)
    PROVE  Begun(q)'
<1>1. /\ Stained(q).pc = req[q].pc /\ Stained(q).kind = req[q].kind
      /\ Stained(q).started = req[q].started /\ Stained(q).clean = ~Connecting(q)
    BY DEF LogoutInv, ReqRow, Stained
<1>2. Connecting(q)' = Connecting(q)
    BY <1>1 DEF Connecting
<1> HIDE DEF Connecting
<1> QED BY <1>1, <1>2 DEF Begun

\* Request r goes on with its row, the others keep theirs.
LEMMA BegunGoes ==
    ASSUME ConnectInv, UpKeeps, NEW r \in Requests, NEW new \in ReqRow,
           req' = [req EXCEPT ![r] = new], new.kind = req[r].kind,
           new.pc \notin {"idle", "wipe"},
           new.pc = "erase" => (req[r].pc = "wipe" /\ new.started = req[r].started),
           (Connecting(r) /\ new.clean /\ new.started) => up' \in Runs,
           (Connecting(r) /\ new.clean /\ new.pc = "start") => up' # "absent",
           (Connecting(r) /\ new.clean /\ new.pc \in {"read", "code", "answered"}) => new.started,
           new.pc = "send" => ~Connecting(r)
    PROVE  \A q \in Requests : Begun(q)'
<1> SUFFICES ASSUME NEW q \in Requests PROVE Begun(q)'
    OBVIOUS
<1>1. CASE q = r
    <2>1. req'[q] = new /\ Begun(q)
        BY <1>1 DEF ConnectInv, LogoutInv
    <2>2. Connecting(q)' = Connecting(r)
        BY <1>1, <2>1 DEF Connecting
    <2> HIDE DEF Connecting
    <2> QED BY <1>1, <2>1, <2>2 DEF Begun
<1>2. CASE q # r
    <2>1. req'[q] = req[q] /\ Begun(q)
        BY <1>2 DEF ConnectInv, LogoutInv
    <2> QED BY <2>1, BegunStays
<1> QED BY <1>1, <1>2

LEMMA BegunSpoils ==
    ASSUME ConnectInv, up' = up, NEW r \in Requests,
           NEW pc \in Places \ {"idle", "wipe", "erase", "send"}, Spoil(r, pc)
    PROVE  \A q \in Requests : Begun(q)'
<1> DEFINE new == [Stained(r) EXCEPT !.pc = pc]
<1>1. Stained(r) \in ReqRow /\ Stained(r).kind = req[r].kind /\ Stained(r).clean = ~Connecting(r)
    <2>1. Stained(r).clean = ~Connecting(r)
        BY DEF ConnectInv, LogoutInv, ReqRow, Stained
    <2> QED BY <2>1, StainedRow DEF ConnectInv
<1>2. /\ new \in ReqRow /\ new.kind = req[r].kind /\ new.pc = pc
      /\ new.clean = ~Connecting(r)
    BY <1>1 DEF ReqRow
<1>3. UpKeeps
    BY DEF UpKeeps
<1>4. req' = [req EXCEPT ![r] = new]
    BY DEF Spoil
<1> HIDE DEF new, Connecting
<1> QED BY <1>2, <1>3, <1>4, BegunGoes

LEMMA BegunThrows ==
    ASSUME ConnectInv, up' = up, NEW r \in Requests, Throw(r)
    PROVE  \A q \in Requests : Begun(q)'
<1>1. PICK pc \in {"code", "answered", "failed"} : Spoil(r, pc)
    BY DEF Throw, LookAgain
<1>2. pc \in Places \ {"idle", "wipe", "erase", "send"}
    BY DEF Places
<1> QED BY <1>1, <1>2, BegunSpoils

\* Request r goes on to pc, and nothing else of it changes.
LEMMA BegunTo ==
    ASSUME ConnectInv, UpKeeps, NEW r \in Requests, NEW pc \in Places, To(r, pc),
           pc \notin {"idle", "wipe"}, pc = "erase" => req[r].pc = "wipe",
           (Connecting(r) /\ req[r].clean /\ pc = "start") => up' # "absent",
           (Connecting(r) /\ req[r].clean /\ pc \in {"read", "code", "answered"}) => req[r].started,
           pc = "send" => ~Connecting(r)
    PROVE  \A q \in Requests : Begun(q)'
<1> DEFINE new == [req[r] EXCEPT !.pc = pc]
<1>1. /\ new \in ReqRow /\ new.kind = req[r].kind /\ new.pc = pc
      /\ new.clean = req[r].clean /\ new.started = req[r].started
    BY DEF ConnectInv, LogoutInv, ReqRow
<1>2. req' = [req EXCEPT ![r] = new]
    BY DEF To, ConnectInv, LogoutInv
<1>3. (Connecting(r) /\ req[r].clean /\ req[r].started) => up' \in Runs
    BY DEF ConnectInv, Begun, UpKeeps
<1> HIDE DEF new, Connecting
<1> QED BY <1>1, <1>2, <1>3, BegunGoes

LEMMA ConnectStep == ConnectInv /\ [BridgeNext]_bridgeVars => ConnectInv'
<1> SUFFICES ASSUME ConnectInv, [BridgeNext]_bridgeVars PROVE ConnectInv'
    OBVIOUS
<1>t. /\ req \in [Requests -> ReqRow] /\ up \in Normal /\ LogoutInv
      /\ \A q \in Requests : Begun(q)
    BY DEF ConnectInv, LogoutInv
<1>i. LogoutInv'
    BY <1>t, BridgeStep
<1>u. up' \in Normal
    BY <1>t DEF BridgeNext, bridgeVars, Proceeds, Arrives, LogoutUpstream, DeleteUpstream, GetSession,
                CreateSession, CreateAs, StartSession, ReadStatus, ReadQR, SendUpstream,
                UpstreamTurns, Webhook, Normal
<1>k. (up' = up) => UpKeeps
    BY DEF UpKeeps
<1>a. ASSUME NEW r \in Requests, Arrives(r) PROVE \A q \in Requests : Begun(q)'
    <2>1. PICK k \in Kinds :
            req' = [req EXCEPT ![r].kind = k,
                               ![r].pc = IF k \in {"fresh", "logout"} THEN "wipe" ELSE "look"]
        BY <1>a DEF Arrives
    <2>2. up' = up /\ req[r].pc = "idle"
        BY <1>a DEF Arrives
    <2> SUFFICES ASSUME NEW q \in Requests PROVE Begun(q)'
        OBVIOUS
    <2>3. CASE q = r
        <3>1. ~req[r].started
            BY <1>t, <2>2 DEF Begun
        <3>2. /\ req'[r].kind = k /\ req'[r].started = req[r].started
              /\ req'[r].pc = IF k \in {"fresh", "logout"} THEN "wipe" ELSE "look"
            BY <1>t, <2>1 DEF ReqRow
        <3> QED BY <2>3, <3>1, <3>2 DEF Begun
    <2>4. CASE q # r
        <3>1. req'[q] = req[q]
            BY <1>t, <2>1, <2>4
        <3> QED BY <1>t, <1>k, <2>2, <3>1, BegunStays
    <2> QED BY <2>3, <2>4
<1>b. ASSUME NEW r \in Requests, LogoutUpstream(r) PROVE \A q \in Requests : Begun(q)'
    <2>1. UpKeeps /\ To(r, "erase") /\ req[r].pc = "wipe"
        BY <1>b DEF LogoutUpstream, UpKeeps, Runs
    <2>2. "erase" \in Places
        BY DEF Places
    <2> QED BY <2>1, <2>2, BegunTo
<1>c. ASSUME NEW r \in Requests, DeleteUpstream(r) PROVE \A q \in Requests : Begun(q)'
    <2> DEFINE next == IF req[r].kind = "fresh" THEN "look" ELSE "answered"
    <2>1. next \in Places \ {"idle", "wipe", "erase", "send"}
        BY DEF Places
    <2>2. CASE Spoil(r, next) /\ up' = up
        <3> HIDE DEF next
        <3> QED BY <2>1, <2>2, BegunSpoils
    <2>3. CASE req' = [q \in Requests |-> IF q = r THEN [req[r] EXCEPT !.pc = next]
                                          ELSE Stained(q)]
        <3> SUFFICES ASSUME NEW q \in Requests PROVE Begun(q)'
            OBVIOUS
        <3>1. CASE q = r
            <4>1. ~req[r].started /\ req[r].kind \in {"fresh", "logout"}
                BY <1>c, <1>t DEF DeleteUpstream, Begun
            <4>2. /\ req'[r].kind = req[r].kind /\ req'[r].started = req[r].started
                  /\ req'[r].pc = next
                <5> HIDE DEF next
                <5> QED BY <1>t, <2>3 DEF ReqRow
            <4> QED BY <3>1, <4>1, <4>2 DEF Begun, Connecting
        <3>2. CASE q # r
            <4>1. req'[q] = Stained(q)
                BY <2>3, <3>2
            <4> QED BY <1>t, <4>1, BegunStained
        <3> QED BY <3>1, <3>2
    <2> QED BY <1>c, <2>2, <2>3 DEF DeleteUpstream
<1>d. ASSUME NEW r \in Requests, GetSession(r) PROVE \A q \in Requests : Begun(q)'
    <2>1. up' = up /\ UpKeeps
        BY <1>d, <1>k DEF GetSession
    <2>2. CASE Throw(r)
        BY <2>1, <2>2, BegunThrows
    <2>3. CASE Spoil(r, "create")
        <3>1. "create" \in Places \ {"idle", "wipe", "erase", "send"}
            BY DEF Places
        <3> QED BY <2>1, <2>3, <3>1, BegunSpoils
    <2>4. ASSUME NEW pc \in {"create", "start", "send", "read"}, To(r, pc),
                 pc = "start" => up # "absent",
                 (Connecting(r) /\ pc = "read") => req[r].started,
                 pc = "send" => ~Connecting(r)
          PROVE  \A q \in Requests : Begun(q)'
        <3>1. pc \in Places
            BY DEF Places
        <3> HIDE DEF Connecting
        <3> QED BY <2>1, <2>4, <3>1, BegunTo
    <2>5. CASE up # "absent" /\ To(r, IF Starting(r) THEN "start" ELSE AfterEnsure(r))
        <3>1. CASE Starting(r)
            BY <2>4, <2>5, <3>1
        <3>2. CASE ~Starting(r)
            <4>1. /\ AfterEnsure(r) \in {"send", "read"}
                  /\ Connecting(r) => req[r].started
                  /\ AfterEnsure(r) = "send" => ~Connecting(r)
                BY <3>2 DEF AfterEnsure, Starting, Connecting
            <4> HIDE DEF AfterEnsure, Connecting
            <4> QED BY <2>4, <2>5, <3>2, <4>1
        <3> QED BY <3>1, <3>2
    <2>6. CASE To(r, "create")
        BY <2>4, <2>6
    <2> QED BY <1>d, <2>2, <2>3, <2>5, <2>6 DEF GetSession
<1>e. ASSUME NEW r \in Requests, CreateSession(r) PROVE \A q \in Requests : Begun(q)'
    <2>1. CASE Throw(r) /\ up' = up
        BY <2>1, BegunThrows
    <2>2. CASE /\ up = "absent"
               /\ up' = IF Starting(r) THEN "qr" ELSE "close"
               /\ req' = [req EXCEPT ![r].pc = IF Starting(r) THEN "look" ELSE AfterEnsure(r),
                                     ![r].started = Connecting(r)]
        <3>1. UpKeeps
            BY <2>2 DEF UpKeeps, Runs
        <3>2. PICK pc \in {"look", "send", "read"} :
                /\ pc = IF Starting(r) THEN "look" ELSE AfterEnsure(r)
                /\ req' = [req EXCEPT ![r].pc = pc, ![r].started = Connecting(r)]
            BY <2>2 DEF AfterEnsure
        <3> DEFINE new == [req[r] EXCEPT !.pc = pc, !.started = Connecting(r)]
        <3>3. Connecting(r) \in BOOLEAN
            BY DEF Connecting
        <3>4. (Connecting(r) /\ req[r].clean) => Starting(r)
            BY <1>t, <2>2 DEF Begun, Starting, Runs
        <3>5. /\ new \in ReqRow /\ new.kind = req[r].kind /\ new.pc = pc
              /\ new.clean = req[r].clean /\ new.started = Connecting(r)
            <4> HIDE DEF Connecting
            <4> QED BY <1>t, <3>2, <3>3 DEF ReqRow, Places
        <3>6. req' = [req EXCEPT ![r] = new]
            <4> HIDE DEF Connecting
            <4> QED BY <1>t, <3>2
        <3>7. (Connecting(r) /\ req[r].clean) => (up' \in Runs)
            BY <2>2, <3>4 DEF Runs
        <3>8. pc = "send" => ~Connecting(r)
            BY <3>2 DEF AfterEnsure, Connecting
        <3> HIDE DEF new, Connecting, Starting
        <3> QED BY <3>1, <3>2, <3>5, <3>6, <3>7, <3>8, BegunGoes
    <2> QED BY <1>e, <2>1, <2>2 DEF CreateSession, CreateAs
<1>f. ASSUME NEW r \in Requests, StartSession(r) PROVE \A q \in Requests : Begun(q)'
    <2>1. req[r].pc = "start" /\ UpKeeps
        BY <1>f DEF StartSession, UpKeeps, Runs
    <2>2. CASE /\ up' = IF up = "close" THEN "qr" ELSE up
               /\ req' = [req EXCEPT ![r].pc = "look", ![r].started = TRUE]
        <3> DEFINE new == [req[r] EXCEPT !.pc = "look", !.started = TRUE]
        <3>1. /\ new \in ReqRow /\ new.kind = req[r].kind /\ new.pc = "look"
              /\ new.clean = req[r].clean
            BY <1>t DEF ReqRow, Places
        <3>2. req' = [req EXCEPT ![r] = new]
            BY <1>t, <2>2
        <3>3. (Connecting(r) /\ req[r].clean) => up' \in Runs
            BY <1>t, <2>1, <2>2 DEF Begun, Normal, Runs
        <3> HIDE DEF new, Connecting
        <3> QED BY <2>1, <3>1, <3>2, <3>3, BegunGoes
    <2>3. CASE req' = [req EXCEPT ![r] = [Stained(r) EXCEPT !.pc = "look", !.started = TRUE]]
        <3> DEFINE new == [Stained(r) EXCEPT !.pc = "look", !.started = TRUE]
        <3>1. Stained(r) \in ReqRow /\ Stained(r).kind = req[r].kind
            BY <1>t, StainedRow
        <3>2. Stained(r).clean = ~Connecting(r)
            BY <1>t DEF ReqRow, Stained
        <3>3. /\ new \in ReqRow /\ new.kind = req[r].kind /\ new.pc = "look"
              /\ new.clean = ~Connecting(r)
            BY <3>1, <3>2 DEF ReqRow, Places
        <3>4. req' = [req EXCEPT ![r] = new]
            BY <2>3
        <3> HIDE DEF new, Connecting
        <3> QED BY <2>1, <3>3, <3>4, BegunGoes
    <2> QED BY <1>f, <2>2, <2>3 DEF StartSession
<1>g. ASSUME NEW r \in Requests, ReadStatus(r) PROVE \A q \in Requests : Begun(q)'
    <2>1. up' = up /\ UpKeeps /\ req[r].pc = "read"
        BY <1>g, <1>k DEF ReadStatus
    <2>2. CASE Throw(r)
        BY <2>1, <2>2, BegunThrows
    <2>3. ASSUME NEW pc \in {"code", "answered"}, To(r, pc)
          PROVE  \A q \in Requests : Begun(q)'
        <3>1. pc \in Places
            BY DEF Places
        <3>2. (Connecting(r) /\ req[r].clean) => req[r].started
            BY <1>t, <2>1 DEF Begun
        <3> HIDE DEF Connecting
        <3> QED BY <2>1, <2>3, <3>1, <3>2, BegunTo
    <2> QED BY <1>g, <2>2, <2>3 DEF ReadStatus, LookAgain
<1>h. ASSUME NEW r \in Requests, ReadQR(r) PROVE \A q \in Requests : Begun(q)'
    <2>1. up' = up /\ UpKeeps /\ req[r].pc = "code"
        BY <1>h, <1>k DEF ReadQR
    <2>2. (Connecting(r) /\ req[r].clean) => req[r].started
        BY <1>t, <2>1 DEF Begun
    <2>3. CASE To(r, "answered")
        <3>1. "answered" \in Places
            BY DEF Places
        <3> HIDE DEF Connecting
        <3> QED BY <2>1, <2>2, <2>3, <3>1, BegunTo
    <2>4. CASE req' = [req EXCEPT ![r].tries = @ + 1, ![r].pc = "look"]
        <3>0. PICK n \in Nat : n = req[r].tries + 1
            BY <1>t DEF ReqRow
        <3> DEFINE new == [req[r] EXCEPT !.tries = n, !.pc = "look"]
        <3>1. /\ new \in ReqRow /\ new.kind = req[r].kind /\ new.pc = "look"
              /\ new.clean = req[r].clean /\ new.started = req[r].started
            BY <1>t DEF ReqRow, Places
        <3>2. req' = [req EXCEPT ![r] = new]
            BY <1>t, <2>4, <3>0
        <3>3. (Connecting(r) /\ req[r].clean /\ req[r].started) => up' \in Runs
            BY <1>t, <2>1 DEF Begun
        <3> HIDE DEF new, Connecting
        <3> QED BY <2>1, <3>1, <3>2, <3>3, BegunGoes
    <2> QED BY <1>h, <2>3, <2>4 DEF ReadQR
<1>j. ASSUME NEW r \in Requests, SendUpstream(r) PROVE \A q \in Requests : Begun(q)'
    <2>1. up' = up /\ UpKeeps
        BY <1>j, <1>k DEF SendUpstream
    <2>2. PICK pc \in {"answered", "failed"} : To(r, pc)
        BY <1>j DEF SendUpstream
    <2>3. pc \in Places
        BY DEF Places
    <2>4. ~Connecting(r)
        BY <1>j, <1>t DEF SendUpstream, Begun
    <2> HIDE DEF Connecting
    <2> QED BY <2>1, <2>2, <2>3, <2>4, BegunTo
<1>l. ASSUME UpstreamTurns PROVE \A q \in Requests : Begun(q)'
    <2> SUFFICES ASSUME NEW q \in Requests PROVE Begun(q)'
        OBVIOUS
    <2>1. req'[q] = Stained(q)
        BY <1>l DEF UpstreamTurns
    <2> QED BY <1>t, <2>1, BegunStained
<1>m. ASSUME UNCHANGED <<up, req>> PROVE \A q \in Requests : Begun(q)'
    BY <1>k, <1>m, <1>t, BegunStays
<1> QED BY <1>a, <1>b, <1>c, <1>d, <1>e, <1>f, <1>g, <1>h, <1>i, <1>j, <1>l, <1>m, <1>u
        DEF BridgeNext, Proceeds, Webhook, bridgeVars, ConnectInv

\* A connect call that is answered, with nothing failing, nobody logging out and
\* no change upstream meanwhile, leaves the session running.
THEOREM AnsweredConnectRuns == BridgeSpec => []ConnectStarts
<1>1. BridgeInit => ConnectInv
    BY LogoutStarts DEF BridgeInit, ConnectInv, Begun, Connecting, Normal, Runs
<1>2. ConnectInv => ConnectStarts
    BY DEF ConnectInv, Begun, ConnectStarts, Runs
<1> QED BY <1>1, <1>2, ConnectStep, PTL DEF BridgeSpec

-----------------------------------------------------------------------------
(* The panel's views: a request that is due is new enough, and whatever    *)
(* makes a view out of date ages the others and asks again.                *)

LoadRow == [by : Tenants \cup {Nowhere}, item : Things, from : Nat, newest : BOOLEAN]
HandlerRow == [by : Tenants \cup {Nowhere}, item : Things,
               then : {"rest", "load", "loadIfAnswered", "loadIfDone", "merge", "show",
                       "forgotten"}]
ViewRow == [item : Things, version : Nat]

\* The conversation is kept, and displayed again, whoever logs in meanwhile.
Watching == /\ Displayed /\ choice # Nowhere
            /\ watched = "chat" \/ Owner(choice) = login
Accounted == \/ shown.item = choice /\ shown.version >= due
             \/ \E l \in loads : IsDue(l)
             \/ excuse # "none"
ViewInv ==
    /\ watched \in AllViews
    /\ login \in Tenants \cup {Nowhere} /\ choice \in Things
    /\ loads \subseteq LoadRow /\ writer \in HandlerRow /\ shown \in ViewRow
    /\ data \in Nat /\ due \in Nat /\ due <= data
    /\ opened => watched \in Tabbed
    /\ \A l \in loads : IsDue(l) => l.from >= due
    /\ Watching => Accounted

LEMMA LoadTyped ==
    ASSUME NEW by \in Tenants \cup {Nowhere}, NEW item \in Things, data \in Nat
    PROVE  Load(by, item) \in LoadRow
BY DEF Load, LoadRow

LEMMA AgedRow ==
    ASSUME NEW l \in LoadRow
    PROVE  Aged(l) \in LoadRow /\ Aged(l).newest = FALSE
BY DEF Aged, LoadRow

\* Asking again is all it takes.
LEMMA RefreshKeeps ==
    ASSUME ViewInv, NEW by \in Tenants, NEW item \in Things, Refresh(by, item),
           watched' = watched, data' = data, shown' \in ViewRow, writer' \in HandlerRow,
           opened' => watched \in Tabbed, watched = "chat" => Owner(item) = by
    PROVE  ViewInv'
<1>0. /\ login' = by /\ choice' = item /\ due' = data
      /\ loads' = {Aged(l) : l \in loads} \cup {Load(by, item)}
  BY DEF Refresh
<1>1. loads \subseteq LoadRow /\ data \in Nat
  BY DEF ViewInv
<1>2. PICK new \in LoadRow : /\ new = Load(by, item)
                            /\ new.by = by /\ new.item = item /\ new.from = data /\ new.newest
  <2>1. Load(by, item) \in LoadRow
    BY <1>1, LoadTyped
  <2> QED
    BY <2>1 DEF Load
<1>3. ASSUME NEW l \in loads'
      PROVE  l \in LoadRow /\ (l = new \/ ~l.newest)
  BY <1>0, <1>1, <1>2, <1>3, AgedRow
<1>4. ASSUME Watching'
      PROVE  IsDue(new)' /\ new \in loads'
  BY <1>0, <1>2, <1>4 DEF Watching, IsDue, Served
<1>5. \A l \in loads' : IsDue(l)' => l.from >= due'
  BY <1>0, <1>1, <1>2, <1>3 DEF IsDue
<1>6. Watching' => Accounted'
  BY <1>4 DEF Accounted
<1>7. loads' \subseteq LoadRow
  BY <1>3
<1> QED
  BY <1>0, <1>1, <1>5, <1>6, <1>7 DEF ViewInv

\* Nothing is shown any more.
LEMMA HiddenKeeps ==
    ASSUME ViewInv, login' \in Tenants \cup {Nowhere}, choice' \in Things, ~Watching',
           loads' \subseteq loads, shown' \in ViewRow, writer' \in HandlerRow,
           UNCHANGED <<watched, data, due>>, opened' => opened,
           choice' = choice \/ loads' = {}
    PROVE  ViewInv'
<1>1. ASSUME NEW l \in loads', IsDue(l)'
      PROVE  l.from >= due'
  BY <1>1 DEF ViewInv, IsDue
<1> QED
  BY <1>1 DEF ViewInv

LEMMA ForgottenHandler ==
    ASSUME ViewInv, Unmount
    PROVE  writer' \in HandlerRow /\ shown' \in ViewRow
<1>1. writer \in HandlerRow /\ [writer EXCEPT !.then = "forgotten"] \in HandlerRow
  BY DEF ViewInv, HandlerRow
<1>2. Nothing \in ViewRow
  BY DEF Nothing, ViewRow, Things
<1> QED
  BY <1>1, <1>2 DEF Unmount

LEMMA UnmountKeeps ==
    ASSUME ViewInv, Unmount, login' \in Tenants \cup {Nowhere}, UNCHANGED <<watched, data, due>>
    PROVE  ViewInv'
BY ForgottenHandler, HiddenKeeps DEF Unmount, Watching, Things

LEMMA EnterKeeps ==
    ASSUME ViewInv, ViewsAssumption, NEW a \in Tenants, Enter(a)
    PROVE  ViewInv'
<1>0. <<a, 1>> \in Things /\ Owner(<<a, 1>>) = a
  BY DEF ViewsAssumption, Things, Owner
<1>1. watched' = watched /\ data' = data
  BY DEF Enter
<1>2. CASE watched \in LoginLoads
  <2>1. Refresh(a, <<a, 1>>) /\ UNCHANGED <<opened, shown, writer>>
    BY <1>2 DEF Enter, LoginLoads, AccountViews, SelectionLoads, Mounted
  <2> QED
    BY <1>0, <1>1, <2>1, RefreshKeeps DEF ViewInv
<1>3. CASE watched \notin LoginLoads /\ watched \in SelectionLoads /\ opened /\ choice # Nowhere
  <2>1. Refresh(a, choice) /\ UNCHANGED <<opened, shown, writer>>
    BY <1>3 DEF Enter, LoginLoads, AccountViews, SelectionLoads, Mounted
  <2> QED
    BY <1>1, <1>3, <2>1, RefreshKeeps DEF ViewInv, SelectionLoads
<1>4. CASE /\ watched \notin LoginLoads /\ watched \in Mounted
           /\ ~(watched \in SelectionLoads /\ opened /\ choice # Nowhere)
  BY <1>1, <1>4, UnmountKeeps DEF Enter
<1>5. CASE /\ watched \notin LoginLoads /\ watched \notin Mounted
           /\ ~(watched \in SelectionLoads /\ opened /\ choice # Nowhere)
  <2>1. login' = a /\ UNCHANGED <<choice, opened, due, shown, loads, writer, excuse>>
    BY <1>5 DEF Enter
  <2>2. watched = "chat" \/ (watched \in SelectionLoads /\ watched \in Tabbed)
    BY <1>5 DEF ViewInv, AllViews, ChosenViews, SelectionLoads, LoginLoads, Mounted, Tabbed
  <2>3. Watching' => Watching
    BY <1>1, <1>5, <2>1, <2>2 DEF Watching, Displayed
  <2>4. Accounted => Accounted'
    BY <2>1 DEF Accounted, IsDue
  <2> QED
    BY <1>1, <2>1, <2>3, <2>4 DEF ViewInv, IsDue
<1> QED
  BY <1>2, <1>3, <1>4, <1>5

LEMMA LoggedOutKeeps ==
    ASSUME ViewInv, ViewsAssumption, NEW rest \in SUBSET loads, LoggedOut(rest),
           UNCHANGED <<watched, data, due>>,
           \/ rest = loads /\ excuse' = excuse
           \/ \E l \in loads : /\ rest = loads \ {l}
                               /\ excuse' = IF IsDue(l) THEN "failed" ELSE excuse
    PROVE  ViewInv'
<1>1. CASE watched \in Mounted
  BY <1>1, UnmountKeeps DEF LoggedOut
<1>2. CASE watched \notin Mounted
  <2>1. login' = Nowhere /\ loads' = rest /\ UNCHANGED <<opened, shown, choice, writer>>
    BY <1>2 DEF LoggedOut
  <2>2. Watching' => Watching
    <3>1. choice # Nowhere => Owner(choice) # Nowhere
      BY DEF ViewInv, Things, ViewsAssumption, Owner
    <3> QED
      BY <2>1, <3>1 DEF Watching, Displayed
  <2>3. Accounted => Accounted'
    BY <2>1 DEF Accounted, IsDue
  <2>4. \A l \in loads' : IsDue(l)' => l.from >= due'
    BY <2>1 DEF ViewInv, IsDue
  <2> QED
    BY <2>1, <2>2, <2>3, <2>4 DEF ViewInv
<1> QED
  BY <1>1, <1>2

LEMMA ShownKeeps ==
    ASSUME ViewInv, ViewsAssumption,
           \/ HandleLogout \/ Close \/ AskAgain
           \/ \E n \in {1, 2} : Choose(n) \/ Open(n)
    PROVE  ViewInv'
<1>0. Here => login \in Tenants
  BY DEF ViewInv, Here
<1>1. CASE HandleLogout
  BY <1>1, LoggedOutKeeps DEF HandleLogout
<1>2. CASE Close
  <2>1. CASE watched \in Mounted
    BY <1>2, <2>1, UnmountKeeps DEF Close, ViewInv
  <2>2. CASE watched \notin Mounted
    <3>1. /\ opened /\ opened' = FALSE
          /\ UNCHANGED <<shown, loads, choice, writer, watched, login, data, due>>
      BY <1>2, <2>2 DEF Close
    <3>2. ~Watching'
      BY <3>1 DEF Watching, Displayed, ViewInv
    <3> QED
      BY <3>1, <3>2, HiddenKeeps DEF ViewInv
  <2> QED
    BY <2>1, <2>2
<1>3. CASE AskAgain
  <2>1. /\ UNCHANGED <<watched, login, choice, opened, data, due, shown, writer, excuse>>
        /\ loads' = loads \cup {Load(login, choice)}
    BY <1>3 DEF AskAgain
  <2>2. Load(login, choice) \in LoadRow /\ Load(login, choice).from = data
    BY LoadTyped DEF ViewInv, Load
  <2>3. \A l \in loads' : IsDue(l)' => l.from >= due'
    BY <2>1, <2>2 DEF ViewInv, IsDue
  <2>4. (Watching' => Watching) /\ (Accounted => Accounted')
    BY <2>1 DEF Watching, Displayed, Accounted, IsDue
  <2> QED
    BY <2>1, <2>2, <2>3, <2>4 DEF ViewInv
<1>4. ASSUME NEW n \in {1, 2}, Choose(n) \/ Open(n)
      PROVE  ViewInv'
  <2>1. <<login, n>> \in Things /\ Owner(<<login, n>>) = login /\ login \in Tenants
    BY <1>0, <1>4 DEF Choose, Open, Things, Owner
  <2> QED
    BY <1>4, <2>1, RefreshKeeps DEF Choose, Open, ViewInv
<1> QED
  BY <1>1, <1>2, <1>3, <1>4

\* An answer takes its request away: either it is shown, or there is an excuse.
LEMMA ReadKeeps ==
    ASSUME ViewInv, ViewsAssumption, NEW l \in loads,
           ReadAnswered(l) \/ ReadRefused(l) \/ ReadLost(l) \/ ReadDenied(l)
    PROVE  ViewInv'
<1>0. l \in LoadRow /\ data \in Nat /\ due \in Nat /\ Nothing \in ViewRow
  BY DEF ViewInv, Nothing, ViewRow, Things
<1>1. CASE ReadDenied(l)
  BY <1>1, LoggedOutKeeps DEF ReadDenied
<1>2. ASSUME NEW what \in ViewRow, loads' = loads \ {l},
             UNCHANGED <<watched, login, choice, opened, data, due, writer>>,
             \/ Puts(l, what) /\ (what = Nothing \/ (what.item = l.item /\ what.version >= l.from))
             \/ Misses(l)
      PROVE  ViewInv'
  <2>1. \A m \in loads' : IsDue(m)' => m.from >= due'
    BY <1>2 DEF ViewInv, IsDue
  <2>2. shown' \in ViewRow
    BY <1>2 DEF Puts, Misses, ViewInv
  <2>3. Watching' => Watching
    BY <1>2 DEF Watching, Displayed
  <2>4. CASE Misses(l)
    <3>1. Accounted => Accounted'
      BY <1>2, <2>4 DEF Misses, Accounted, IsDue
    <3> QED
      BY <1>2, <2>1, <2>2, <2>3, <3>1 DEF ViewInv
  <2>5. CASE Puts(l, what) /\ (what = Nothing \/ (what.item = l.item /\ what.version >= l.from))
    <3>1. CASE ~IsDue(l) \/ what = Nothing
      <4>1. excuse' # "none"
        BY <2>5, <3>1 DEF Puts
      <4> QED
        BY <1>2, <2>1, <2>2, <4>1 DEF ViewInv, Accounted
    <3>2. CASE IsDue(l) /\ what # Nothing
      <4>1. l.from >= due /\ l.item = choice
        BY <3>2 DEF ViewInv, IsDue
      <4>2. shown'.item = choice' /\ shown'.version >= due'
        BY <1>0, <1>2, <2>5, <3>2, <4>1 DEF Puts, ViewRow, LoadRow
      <4> QED
        BY <1>2, <2>1, <2>2, <4>2 DEF ViewInv, Accounted
    <3> QED
      BY <3>1, <3>2
  <2> QED
    BY <1>2, <2>4, <2>5
<1>3. CASE ReadAnswered(l)
  <2>1. PICK v \in l.from..data : Puts(l, [item |-> l.item, version |-> v])
    BY <1>3 DEF ReadAnswered
  <2>2. /\ [item |-> l.item, version |-> v] \in ViewRow /\ v >= l.from
    BY <1>0, <2>1 DEF ViewRow, LoadRow
  <2> QED
    BY <1>2, <1>3, <2>1, <2>2 DEF ReadAnswered
<1>4. CASE ReadRefused(l) \/ ReadLost(l)
  BY <1>0, <1>2, <1>4 DEF ReadRefused, ReadLost
<1> QED
  BY <1>1, <1>3, <1>4

LEMMA WritesKeep ==
    ASSUME ViewInv, PanelWrites
    PROVE  ViewInv'
<1>1. /\ writer' \in HandlerRow
      /\ UNCHANGED <<watched, login, choice, opened, data, due, shown, loads, excuse>>
  <2>1. ASSUME NEW views,
               NEW then \in {"load", "loadIfAnswered", "loadIfDone", "merge", "show"},
               Writes(views, then) \/ WritesRow(views, then)
        PROVE  /\ writer' \in HandlerRow
               /\ UNCHANGED <<watched, login, choice, opened, data, due, shown, loads, excuse>>
    BY <2>1 DEF Writes, WritesRow, ViewInv, HandlerRow, ViewRow
  <2> QED
    BY <2>1 DEF PanelWrites, SyncGroups, CreateGroup, GroupAction, JoinGroup, SaveGroupRule,
       ToggleRule, DeleteRule, CreateWebhook, ToggleWebhook, DeleteWebhook, TestWebhook,
       RetryWebhookLog, SendSupportChat, SaveLeads, CreateAgent, CreateClient,
       DeleteConversationRow, UpdateConversation, DeleteChatMessage, CreateCampaign,
       DeleteCampaign, ChangeTeam, ChangeCredential, ChangeSchedule, UpdateKanban, DeleteAgent,
       ChangeAccounts, ChangePartners, ChangeGrant, SaveIntegration, ToggleEnabled
<1>2. (Watching' => Watching) /\ (Accounted => Accounted')
  BY <1>1 DEF Watching, Displayed, Accounted, IsDue
<1> QED
  BY <1>1, <1>2 DEF ViewInv, IsDue

\* What a handler's end means for the view: if the view is told of it, the handler
\* asks again or puts the answer there, and otherwise leaves it what it had.
LEMMA ContinuesKeep ==
    ASSUME ViewInv, NEW asks \in BOOLEAN, NEW puts \in BOOLEAN, NEW changed \in BOOLEAN,
           Continues(asks, puts, changed), changed => Done, puts => changed
    PROVE  ViewInv'
<1> DEFINE mine == writer.by = login /\ writer.item = choice
           told == mine /\ changed /\ (asks \/ puts)
<1>0. /\ writer.by \in Tenants \cup {Nowhere} /\ writer.item \in Things
      /\ data \in Nat /\ due \in Nat /\ due <= data /\ loads \subseteq LoadRow
  BY DEF ViewInv, HandlerRow
<1>1. /\ data' = IF changed THEN data + 1 ELSE data
      /\ writer' = NoHandler
      /\ due' = IF told THEN data' ELSE due
      /\ shown' = IF puts THEN [item |-> writer.item, version |-> data'] ELSE shown
      /\ excuse' = IF puts /\ ~mine THEN "overtaken" ELSE IF told THEN "none" ELSE excuse
      /\ UNCHANGED <<watched, login, choice, opened>>
  BY DEF Continues
<1>2. mine \in BOOLEAN /\ data' \in Nat /\ data' >= data
  BY <1>0, <1>1
<1>3. PICK asked \in LoadRow :
        /\ asked.by = writer.by /\ asked.item = writer.item /\ asked.from = data'
        /\ asked.newest = mine
        /\ loads' = {IF told THEN Aged(l) ELSE l : l \in loads} \cup IF asks THEN {asked} ELSE {}
  <2> DEFINE new == [Load(writer.by, writer.item) EXCEPT !.from = data', !.newest = mine]
  <2>1. /\ new \in LoadRow /\ new.by = writer.by /\ new.item = writer.item
        /\ new.from = data' /\ new.newest = mine
    <3> HIDE DEF mine
    <3> QED
      BY <1>0, <1>2 DEF Load, LoadRow
  <2>2. loads' = {IF told THEN Aged(l) ELSE l : l \in loads} \cup IF asks THEN {new} ELSE {}
    BY DEF Continues
  <2> HIDE DEF new, told, mine
  <2> QED
    BY <2>1, <2>2
<1>4. told => Served(asked) /\ asked.item = choice /\ asked.newest
  BY <1>3 DEF Done, Served
<1> HIDE DEF mine
<1>5. shown' \in ViewRow /\ writer' \in HandlerRow
  <2>1. NoHandler \in HandlerRow
    BY DEF NoHandler, HandlerRow, Things
  <2> QED
    BY <1>0, <1>1, <1>2, <2>1 DEF ViewInv, ViewRow
<1>6. CASE told
  <2>1. ASSUME NEW l \in loads'
        PROVE  l \in LoadRow /\ (l = asked \/ ~l.newest)
    BY <1>0, <1>3, <1>6, <2>1, AgedRow
  <2>2. \A l \in loads' : IsDue(l)' => l.from >= due'
    BY <1>1, <1>2, <1>3, <1>6, <2>1 DEF IsDue
  <2>3. Accounted'
    <3>1. CASE asks
      <4>1. asked \in loads' /\ IsDue(asked)'
        BY <1>1, <1>3, <1>4, <1>6, <3>1 DEF IsDue
      <4> QED
        BY <4>1 DEF Accounted
    <3>2. CASE ~asks
      <4>1. puts
        BY <1>6, <3>2
      <4>2. shown'.item = choice' /\ shown'.version >= due'
        BY <1>1, <1>2, <1>3, <1>4, <1>6, <4>1
      <4> QED
        BY <4>2 DEF Accounted
    <3> QED
      BY <3>1, <3>2
  <2>4. loads' \subseteq LoadRow
    BY <2>1
  <2>5. due' \in Nat /\ due' <= data'
    BY <1>1, <1>2, <1>6
  <2> QED
    BY <1>1, <1>2, <1>5, <2>2, <2>3, <2>4, <2>5 DEF ViewInv
<1>7. CASE ~told
  <2>1. /\ loads \subseteq loads' /\ \A l \in loads' : l \in loads \/ l = asked
        /\ due' = due
    BY <1>1, <1>3, <1>7
  <2>2. \A l \in loads' : IsDue(l)' => l.from >= due'
    BY <1>0, <1>1, <1>2, <1>3, <2>1 DEF ViewInv, IsDue
  <2>3. Watching' => Watching
    BY <1>1 DEF Watching, Displayed
  <2>4. Accounted => Accounted'
    <3>1. CASE puts
      <4>1. ~mine
        BY <1>7, <3>1
      <4> QED
        BY <1>1, <3>1, <4>1 DEF Accounted
    <3>2. CASE ~puts
      BY <1>1, <1>7, <2>1, <3>2 DEF Accounted, IsDue
    <3> QED
      BY <3>1, <3>2
  <2>5. loads' \subseteq LoadRow /\ due' <= data'
    BY <1>0, <1>2, <2>1
  <2> QED
    BY <1>1, <1>2, <1>5, <2>1, <2>2, <2>3, <2>4, <2>5 DEF ViewInv
<1> QED
  BY <1>6, <1>7

LEMMA HandlersKeep ==
    ASSUME ViewInv, WriteDone \/ WriteRefused \/ WriteLost
    PROVE  ViewInv'
<1>1. \A ways : Then(ways) \in BOOLEAN
  BY DEF Then
<1>2. Merges \in BOOLEAN
  BY DEF Merges
<1>3. CASE WriteDone
  <2>1. PICK asks \in BOOLEAN, puts \in BOOLEAN : Continues(asks, puts, TRUE)
    BY <1>1, <1>2, <1>3 DEF WriteDone
  <2> QED
    BY <1>3, <2>1, ContinuesKeep DEF WriteDone
<1>4. CASE WriteRefused
  BY <1>1, <1>4, ContinuesKeep DEF WriteRefused
<1>5. CASE WriteLost
  BY <1>1, <1>5, ContinuesKeep DEF WriteLost
<1> QED
  BY <1>3, <1>4, <1>5

\* Nothing that is displayed stays out of date because nobody asked.
THEOREM ViewsFollow == ViewsSpec => []ViewFollows
<1>1. ViewsInit => ViewInv
  BY ViewsAssumption DEF ViewsAssumption, ViewsInit, ViewInv, Things, Nothing, NoHandler, ViewRow, HandlerRow, Watching, IsDue
<1>2. ViewInv /\ [ViewsNext]_viewVars => ViewInv'
  <2> SUFFICES ASSUME ViewInv, [ViewsNext]_viewVars
               PROVE  ViewInv'
    OBVIOUS
  <2>1. CASE UNCHANGED viewVars
    BY <2>1 DEF viewVars, ViewInv, IsDue, Watching, Displayed, Accounted
  <2> QED
    BY <2>1, ViewsAssumption, EnterKeeps, ShownKeeps, ReadKeeps, WritesKeep, HandlersKeep
       DEF ViewsNext, HandleLogin, HandleImpersonate
<1>3. ViewInv => ViewFollows
  BY DEF ViewInv, ViewFollows, Watching, Accounted
<1> QED
  BY <1>1, <1>2, <1>3, PTL DEF ViewsSpec

-----------------------------------------------------------------------------
(* The open conversation: whatever says that a message was sent, on the      *)
(* screen or on its way to it, is about a row with the id of the provider,   *)
(* and such a row keeps that id.                                             *)

Told == {"sent", "read"}
Providers(r) == {m \in Sends : r[m].id = "provider"}
TrueBubble(R) == {b \in Bubble : b.status \in Told => b.msg \in R}
TrueEvent(R) == {e \in Event : e.status \in Told => e.msg \in R}
ChatRow == [id : Label \cup {"none"}, status : Shown \cup {"none", "deleted"},
            chat : Chats \cup {Nobody}]
Fetch(R) == [pc : {"none", "asked", "answered"}, rows : Seq(TrueBubble(R))]
PanelInv ==
    /\ bubbles \in Seq(TrueBubble(Providers(row)))
    /\ openChat \in Chats \cup {Nobody}
    /\ fetch \in [Chats -> Fetch(Providers(row))]
    /\ post \in [Sends -> {"none", "asked", "inserted", "ok", "error", "over"}]
    /\ row \in [Sends -> ChatRow]
    /\ wire \in Seq(TrueEvent(Providers(row)))
    /\ \A m \in Sends :
         /\ post[m] = "ok" => row[m].id = "provider"
         /\ row[m].id = "provider" => post[m] \in {"ok", "over"}
         /\ row[m].status \in Told => row[m].id = "provider"
         /\ row[m].status \in Shown \/ post[m] = "inserted" => row[m].id \in Label
    /\ openChat = Nobody => wire = <<>> /\ \A m \in Sends : post[m] = "none"

LEMMA PanelInvTells == ASSUME PanelInv PROVE SentIsTrue
<1> SUFFICES ASSUME NEW i \in DOMAIN bubbles, bubbles[i].status \in {"sent", "read"}
             PROVE  row[bubbles[i].msg].id = "provider"
  BY DEF SentIsTrue
<1>1. bubbles[i] \in TrueBubble(Providers(row))
  BY LenProperties, ElementOfSeq DEF PanelInv
<1> QED BY <1>1 DEF TrueBubble, Providers, Told

\* More rows with the provider's id leave what was true true.
LEMMA StaysTrue ==
    ASSUME NEW R, NEW T, R \subseteq T
    PROVE  /\ \A s \in Seq(TrueBubble(R)) : s \in Seq(TrueBubble(T))
           /\ \A s \in Seq(TrueEvent(R)) : s \in Seq(TrueEvent(T))
           /\ \A f \in [Chats -> Fetch(R)] : f \in [Chats -> Fetch(T)]
<1>1. TrueBubble(R) \subseteq TrueBubble(T) /\ TrueEvent(R) \subseteq TrueEvent(T)
  BY DEF TrueBubble, TrueEvent
<1>2. Seq(TrueBubble(R)) \subseteq Seq(TrueBubble(T)) /\ Seq(TrueEvent(R)) \subseteq Seq(TrueEvent(T))
  BY <1>1, SeqMonotonic
<1>3. Fetch(R) \subseteq Fetch(T) BY <1>2 DEF Fetch
<1> QED BY <1>2, <1>3

LEMMA FunSeq ==
    ASSUME NEW S, NEW n \in Nat, NEW f \in [1..n -> S] PROVE f \in Seq(S)
OBVIOUS

LEMMA MapSeq ==
    ASSUME NEW S, NEW T, NEW s \in Seq(S), NEW f, DOMAIN f = DOMAIN s,
           f = [i \in DOMAIN f |-> f[i]],
           \A i \in DOMAIN s : s[i] \in S => f[i] \in T
    PROVE  f \in Seq(T)
<1>1. Len(s) \in Nat /\ DOMAIN s = 1..Len(s) /\ \A i \in 1..Len(s) : s[i] \in S
  BY LenProperties, ElementOfSeq
<1>2. f \in [1..Len(s) -> T] BY <1>1
<1> QED BY <1>1, <1>2, FunSeq

\* The answer to a fetch holds the rows of the conversation.
LEMMA ListedTrue ==
    ASSUME PanelInv, IsFiniteSet(Sends), NEW c \in Chats
    PROVE  Listed(c) \in Seq(TrueBubble(Providers(row)))
<1> DEFINE here == {m \in Sends : row[m].chat = c /\ row[m].status \in Shown}
           B(m) == [msg |-> m, id |-> row[m].id, status |-> row[m].status, chat |-> c]
           S == {B(m) : m \in here}
<1>1. row \in [Sends -> ChatRow] BY DEF PanelInv
<1>2. IsFiniteSet(here) BY FS_Subset
<1>3. IsFiniteSet(S)
  <2> DEFINE f == [m \in here |-> B(m)]
  <2>1. f \in Surjection(here, S) BY DEF Surjection
  <2> HIDE DEF f, S, B, here
  <2>2. IsFiniteSet(S) BY <1>2, <2>1, FS_Surjection DEF ExistsSurjection
  <2> QED BY <2>2
<1>4. S \subseteq TrueBubble(Providers(row))
  <2> SUFFICES ASSUME NEW m \in here PROVE B(m) \in TrueBubble(Providers(row))
    OBVIOUS
  <2>1. row[m].id \in Label /\ (row[m].status \in Told => m \in Providers(row))
    BY <1>1 DEF PanelInv, Providers
  <2>2. B(m) \in Bubble BY <2>1 DEF Bubble
  <2> QED BY <2>1, <2>2 DEF TrueBubble
<1> HIDE DEF S
<1>5. Cardinality(S) \in Nat /\ \E f \in [1..Cardinality(S) -> S] : IsInjective(f)
  BY <1>3, FS_CardinalityType DEF ExistsBijection, Bijection, Injection
<1>6. SetToSeq(S) \in [1..Cardinality(S) -> S] BY <1>5 DEF SetToSeq
<1>7. SetToSeq(S) \in Seq(S) BY <1>5, <1>6, FunSeq
<1>8. Seq(S) \subseteq Seq(TrueBubble(Providers(row))) BY <1>4, SeqMonotonic
<1> QED BY <1>7, <1>8 DEF Listed, S

-----------------------------------------------------------------------------
\* What a step does to the rows and the answers that are due leaves what is told
\* true, when no row loses the id of the provider.
RowsStand(r, p) ==
    /\ post' = p /\ p \in [Sends -> {"none", "asked", "inserted", "ok", "error", "over"}]
    /\ row' = r /\ r \in [Sends -> ChatRow]
    /\ Providers(row) \subseteq Providers(r)
    /\ \A m \in Sends :
         /\ p[m] = "ok" => r[m].id = "provider"
         /\ r[m].id = "provider" => p[m] \in {"ok", "over"}
         /\ r[m].status \in Told => r[m].id = "provider"
         /\ r[m].status \in Shown \/ p[m] = "inserted" => r[m].id \in Label

LEMMA TrueStep ==
    ASSUME PanelInv, NEW r, NEW p, RowsStand(r, p),
           NEW b, bubbles' = b, b \in Seq(TrueBubble(Providers(r))),
           NEW f, fetch' = f, f \in [Chats -> Fetch(Providers(r))],
           NEW w, wire' = w, w \in Seq(TrueEvent(Providers(r))),
           NEW o \in Chats \cup {Nobody}, openChat' = o,
           o = Nobody => w = <<>> /\ \A m \in Sends : p[m] = "none"
    PROVE  PanelInv'
BY DEF PanelInv, RowsStand

LEMMA RowsStay == ASSUME PanelInv, UNCHANGED <<row, post>> PROVE RowsStand(row, post)
BY DEF PanelInv, RowsStand

LEMMA OpenStays == ASSUME PanelInv, NEW m \in Sends, post[m] # "none" PROVE openChat \in Chats
BY DEF PanelInv

LEMMA RefuseTrue == ASSUME PanelInv, NEW m \in Sends, Refuse(m) PROVE PanelInv'
<1> DEFINE p == [post EXCEPT ![m] = "error"]
<1>1. RowsStand(row, p) BY DEF PanelInv, RowsStand, Refuse
<1>2. openChat \in Chats BY OpenStays DEF Refuse
<1>3. openChat # Nobody BY <1>2, PanelAssumption
<1>4. UNCHANGED <<bubbles, openChat, fetch, row, wire>> BY DEF Refuse
<1> HIDE DEF p
<1> QED BY <1>1, <1>2, <1>3, <1>4, TrueStep DEF PanelInv

LEMMA EmitTrue ==
    ASSUME PanelInv, NEW R, Providers(row) \subseteq R, NEW m \in Sends,
           NEW kind \in {"new", "status"}, NEW id \in Label, NEW status \in Shown,
           status \in Told => m \in R, Emit(kind, m, id, status)
    PROVE  wire' \in Seq(TrueEvent(R))
<1>1. wire \in Seq(TrueEvent(R)) BY StaysTrue DEF PanelInv
<1>2. [kind |-> kind, msg |-> m, id |-> id, status |-> status] \in TrueEvent(R)
  BY DEF TrueEvent, Event
<1> QED BY <1>1, <1>2, AppendProperties DEF Emit

\* The three steps of the server that change a row and announce it.
LEMMA AnnouncedTrue ==
    ASSUME PanelInv, NEW m \in Sends, post[m] # "none", NEW r, NEW p, RowsStand(r, p),
           NEW kind \in {"new", "status"}, NEW id \in Label, NEW status \in Shown,
           status \in Told => m \in Providers(r), Emit(kind, m, id, status),
           UNCHANGED <<bubbles, openChat, fetch>>
    PROVE  PanelInv'
<1>1. openChat \in Chats /\ openChat # Nobody BY OpenStays, PanelAssumption
<1>2. Providers(row) \subseteq Providers(r) BY DEF RowsStand
<1>3. wire' \in Seq(TrueEvent(Providers(r))) BY <1>2, EmitTrue
<1>4. bubbles \in Seq(TrueBubble(Providers(r))) /\ fetch \in [Chats -> Fetch(Providers(r))]
  BY <1>2, StaysTrue DEF PanelInv
<1>5. PICK w : wire' = w OBVIOUS
<1> QED BY <1>1, <1>3, <1>4, <1>5, TrueStep

LEMMA InsertOutTrue == ASSUME PanelInv, NEW m \in Sends, InsertOut(m) PROVE PanelInv'
<1> DEFINE p == [post EXCEPT ![m] = "inserted"]
           r == [row EXCEPT ![m].id = "pending", ![m].status = "pending"]
<1>1. row[m] \in ChatRow /\ row[m].id # "provider" BY DEF PanelInv, InsertOut
<1>2. r[m] \in ChatRow /\ r[m].id = "pending" /\ r[m].status = "pending"
      /\ \A k \in Sends : k # m => r[k] = row[k]
  BY <1>1 DEF PanelInv, ChatRow, Label, Shown
<1>3. r \in [Sends -> ChatRow] BY <1>2 DEF PanelInv
<1>4. row' = r /\ post' = p /\ post[m] = "asked" BY DEF InsertOut
<1>5. p \in [Sends -> {"none", "asked", "inserted", "ok", "error", "over"}]
      /\ p[m] = "inserted" /\ \A k \in Sends : k # m => p[k] = post[k]
  BY DEF PanelInv
<1> HIDE DEF p, r
<1>6. RowsStand(r, p) BY <1>1, <1>2, <1>3, <1>4, <1>5 DEF PanelInv, RowsStand, Providers, Told, Label
<1>7. Emit("new", m, "pending", "pending") /\ UNCHANGED <<bubbles, openChat, fetch>> BY DEF InsertOut
<1>8. "new" \in {"new", "status"} /\ "pending" \in Label /\ "pending" \in Shown /\ "pending" \notin Told
  BY DEF Label, Shown, Told
<1> QED BY <1>4, <1>6, <1>7, <1>8, AnnouncedTrue

LEMMA AcceptTrue == ASSUME PanelInv, NEW m \in Sends, Accept(m) PROVE PanelInv'
<1> DEFINE p == [post EXCEPT ![m] = "ok"]
           r == [row EXCEPT ![m].id = "provider", ![m].status = IF @ = "deleted" THEN @ ELSE "sent"]
<1>1. row[m] \in ChatRow BY DEF PanelInv
<1>2. r[m] \in ChatRow /\ r[m].id = "provider" /\ \A k \in Sends : k # m => r[k] = row[k]
  BY <1>1 DEF PanelInv, ChatRow, Label, Shown
<1>3. r \in [Sends -> ChatRow] BY <1>2 DEF PanelInv
<1>4. row' = r /\ post' = p /\ post[m] = "inserted" BY DEF Accept
<1>5. p \in [Sends -> {"none", "asked", "inserted", "ok", "error", "over"}]
      /\ p[m] = "ok" /\ \A k \in Sends : k # m => p[k] = post[k]
  BY DEF PanelInv
<1> HIDE DEF p, r
<1>6. RowsStand(r, p) BY <1>2, <1>3, <1>4, <1>5 DEF PanelInv, RowsStand, Providers, Told, Label
<1>7. Emit("status", m, "provider", "sent") /\ UNCHANGED <<bubbles, openChat, fetch>> BY DEF Accept
<1>8. "status" \in {"new", "status"} /\ "provider" \in Label /\ "sent" \in Shown /\ m \in Providers(r)
  BY <1>2 DEF Label, Shown, Providers
<1> QED BY <1>4, <1>6, <1>7, <1>8, AnnouncedTrue

LEMMA RejectTrue == ASSUME PanelInv, NEW m \in Sends, RejectSend(m) PROVE PanelInv'
<1> DEFINE p == [post EXCEPT ![m] = "error"]
           r == [row EXCEPT ![m].status = IF @ = "deleted" THEN @ ELSE "failed"]
<1>1. row[m] \in ChatRow /\ row[m].id # "provider" /\ row[m].id \in Label BY DEF PanelInv, RejectSend
<1>2. r[m] \in ChatRow /\ r[m].id = row[m].id /\ r[m].status \in {"deleted", "failed"}
      /\ \A k \in Sends : k # m => r[k] = row[k]
  BY <1>1 DEF PanelInv, ChatRow, Label, Shown
<1>3. r \in [Sends -> ChatRow] BY <1>2 DEF PanelInv
<1>4. row' = r /\ post' = p /\ post[m] = "inserted" BY DEF RejectSend
<1>5. p \in [Sends -> {"none", "asked", "inserted", "ok", "error", "over"}]
      /\ p[m] = "error" /\ \A k \in Sends : k # m => p[k] = post[k]
  BY DEF PanelInv
<1> HIDE DEF p, r
<1>6. RowsStand(r, p) BY <1>1, <1>2, <1>3, <1>4, <1>5 DEF PanelInv, RowsStand, Providers, Told, Label, Shown
<1>7. Emit("status", m, "pending", "failed") /\ UNCHANGED <<bubbles, openChat, fetch>> BY DEF RejectSend
<1>8. "status" \in {"new", "status"} /\ "pending" \in Label /\ "failed" \in Shown /\ "failed" \notin Told
  BY DEF Label, Shown, Told
<1> QED BY <1>4, <1>6, <1>7, <1>8, AnnouncedTrue

LEMMA ReceiptTrue == ASSUME PanelInv, NEW m \in Sends, Receipt(m) PROVE PanelInv'
<1> DEFINE r == [row EXCEPT ![m].status = "read"]
<1>1. row[m] \in ChatRow /\ row[m].id = "provider" BY DEF PanelInv, Receipt
<1>2. r[m] \in ChatRow /\ r[m].id = "provider" /\ \A k \in Sends : k # m => r[k] = row[k]
  BY <1>1 DEF PanelInv, ChatRow, Label, Shown
<1>3. r \in [Sends -> ChatRow] BY <1>2 DEF PanelInv
<1>4. row' = r /\ post' = post /\ post[m] # "none" BY <1>1 DEF Receipt, PanelInv
<1> HIDE DEF r
<1>5. RowsStand(r, post) BY <1>1, <1>2, <1>3, <1>4 DEF PanelInv, RowsStand, Providers, Told, Label
<1>6. Emit("status", m, "provider", "read") /\ UNCHANGED <<bubbles, openChat, fetch>> BY DEF Receipt
<1>7. "status" \in {"new", "status"} /\ "provider" \in Label /\ "read" \in Shown /\ m \in Providers(r)
  BY <1>2 DEF Label, Shown, Providers
<1> QED BY <1>4, <1>5, <1>6, <1>7, AnnouncedTrue

-----------------------------------------------------------------------------
(* The steps of the panel.                                                   *)

\* A step that changes the bubbles, the answers and the events, not the rows.
LEMMA ShownTrue ==
    ASSUME PanelInv, UNCHANGED row, NEW p, post' = p,
           p \in [Sends -> {"none", "asked", "inserted", "ok", "error", "over"}],
           \A m \in Sends : p[m] = post[m] \/ (post[m] \in {"ok", "error"} /\ p[m] = "over"),
           NEW b, bubbles' = b, b \in Seq(TrueBubble(Providers(row))),
           NEW f, fetch' = f, f \in [Chats -> Fetch(Providers(row))],
           NEW w, wire' = w, w \in Seq(TrueEvent(Providers(row))),
           NEW o \in Chats \cup {Nobody}, openChat' = o,
           o = Nobody => openChat = Nobody /\ w = wire
    PROVE  PanelInv'
<1>1. RowsStand(row, p) BY DEF PanelInv, RowsStand
<1>2. o = Nobody => w = <<>> /\ \A m \in Sends : p[m] = "none" BY DEF PanelInv
<1> QED BY <1>1, <1>2, TrueStep

LEMMA FetchKept ==
    ASSUME PanelInv, NEW c \in Chats, NEW R, Providers(row) \subseteq R, NEW x \in Fetch(R)
    PROVE  [fetch EXCEPT ![c] = x] \in [Chats -> Fetch(R)]
BY StaysTrue DEF PanelInv

LEMMA NoRows == ASSUME NEW R, NEW s \in {"none", "asked", "answered"}
                PROVE  [pc |-> s, rows |-> <<>>] \in Fetch(R)
BY EmptySeq DEF Fetch

LEMMA AnswerTrue == ASSUME PanelInv, NEW c \in Chats, AnswerFetch(c) PROVE PanelInv'
<1>1. [pc |-> "answered", rows |-> Listed(c)] \in Fetch(Providers(row))
  BY ListedTrue, PanelAssumption DEF Fetch
<1>2. PICK f : f = fetch' OBVIOUS
<1>3. f \in [Chats -> Fetch(Providers(row))] BY <1>1, <1>2, FetchKept DEF AnswerFetch
<1> QED BY <1>2, <1>3, ShownTrue DEF AnswerFetch, PanelInv

LEMMA OpenChatTrue == ASSUME PanelInv, NEW c \in Chats, OpenChat(c) PROVE PanelInv'
<1>1. [pc |-> "asked", rows |-> <<>>] \in Fetch(Providers(row)) BY NoRows
<1>2. PICK f : f = fetch' OBVIOUS
<1>3. f \in [Chats -> Fetch(Providers(row))] BY <1>1, <1>2, FetchKept DEF OpenChat, Fetching
<1>4. c # Nobody BY PanelAssumption
<1> QED BY <1>2, <1>3, <1>4, ShownTrue DEF OpenChat, PanelInv

LEMMA ShowTrue == ASSUME PanelInv, NEW c \in Chats, ShowFetch(c) PROVE PanelInv'
<1>1. NoFetch \in Fetch(Providers(row)) BY NoRows DEF NoFetch
<1>2. PICK f : f = fetch' OBVIOUS
<1>3. f \in [Chats -> Fetch(Providers(row))] BY <1>1, <1>2, FetchKept DEF ShowFetch
<1>4. fetch[c] \in Fetch(Providers(row)) BY DEF PanelInv
<1>5. PICK b : b = bubbles' OBVIOUS
<1>6. b \in Seq(TrueBubble(Providers(row))) BY <1>4, <1>5 DEF ShowFetch, PanelInv, Fetch
<1> QED BY <1>2, <1>3, <1>5, <1>6, ShownTrue DEF ShowFetch, PanelInv

LEMMA SendTrue == ASSUME PanelInv, NEW m \in Sends, SendMessage(m) PROVE PanelInv'
<1> DEFINE p == [post EXCEPT ![m] = "asked"]
           r == [row EXCEPT ![m].chat = openChat]
           b == [msg |-> m, id |-> "optimistic", status |-> "pending", chat |-> openChat]
<1>1. openChat \in Chats /\ openChat # Nobody BY PanelAssumption DEF SendMessage, PanelInv
<1>2. row[m] \in ChatRow BY DEF PanelInv
<1>3. r[m] \in ChatRow /\ r[m].id = row[m].id /\ r[m].status = row[m].status
      /\ \A k \in Sends : k # m => r[k] = row[k]
  BY <1>1, <1>2 DEF PanelInv, ChatRow
<1>4. r \in [Sends -> ChatRow] BY <1>3 DEF PanelInv
<1>5. p \in [Sends -> {"none", "asked", "inserted", "ok", "error", "over"}]
      /\ p[m] = "asked" /\ \A k \in Sends : k # m => p[k] = post[k]
  BY DEF PanelInv
<1>6. b \in TrueBubble(Providers(row))
  BY <1>1 DEF TrueBubble, Bubble, Label, Shown, Told
<1>7. Append(bubbles, b) \in Seq(TrueBubble(Providers(row)))
  BY <1>6, AppendProperties DEF PanelInv
<1>8. row' = r /\ post' = p /\ post[m] = "none" /\ bubbles' = Append(bubbles, b)
      /\ UNCHANGED <<openChat, fetch, wire>>
  BY DEF SendMessage
<1> HIDE DEF p, r, b
<1>9. RowsStand(r, p) BY <1>3, <1>4, <1>5, <1>8 DEF PanelInv, RowsStand, Providers, Told, Label
<1>10. Providers(row) \subseteq Providers(r) BY <1>9 DEF RowsStand
<1>11. PICK bs : bs = Append(bubbles, b) OBVIOUS
<1>12. bs \in Seq(TrueBubble(Providers(r))) /\ fetch \in [Chats -> Fetch(Providers(r))]
       /\ wire \in Seq(TrueEvent(Providers(r)))
  BY <1>7, <1>10, <1>11, StaysTrue DEF PanelInv
<1>13. bubbles' = bs /\ fetch' = fetch /\ wire' = wire /\ openChat' = openChat
       /\ openChat \in Chats \cup {Nobody} /\ openChat # Nobody
  BY <1>1, <1>8, <1>11
<1> QED BY <1>9, <1>12, <1>13, TrueStep

\* A bubble may be marked with what is true of its message.
LEMMA MarkedTrue ==
    ASSUME PanelInv, NEW m \in Sends, NEW id \in Label, NEW newId \in Label,
           NEW status \in Shown, status \in Told => m \in Providers(row)
    PROVE  Marked(m, id, newId, status) \in Seq(TrueBubble(Providers(row)))
<1> DEFINE f == Marked(m, id, newId, status)
<1>1. DOMAIN f = DOMAIN bubbles /\ f = [i \in DOMAIN f |-> f[i]] BY DEF Marked
<1>2. ASSUME NEW i \in DOMAIN bubbles, bubbles[i] \in TrueBubble(Providers(row))
      PROVE  f[i] \in TrueBubble(Providers(row))
  <2>1. PICK x : x = bubbles[i] OBVIOUS
  <2>2. x \in Bubble /\ (x.status \in Told => x.msg \in Providers(row)) BY <1>2, <2>1 DEF TrueBubble
  <2>3. f[i] = IF x.msg = m /\ x.id = id THEN [x EXCEPT !.id = newId, !.status = status] ELSE x
    BY <2>1 DEF Marked
  <2>4. CASE x.msg = m /\ x.id = id
    <3>1. [x EXCEPT !.id = newId, !.status = status] \in Bubble BY <2>2 DEF Bubble
    <3>2. [x EXCEPT !.id = newId, !.status = status].msg = m
          /\ [x EXCEPT !.id = newId, !.status = status].status = status
      BY <2>2, <2>4 DEF Bubble
    <3> QED BY <2>3, <2>4, <3>1, <3>2 DEF TrueBubble
  <2>5. CASE ~(x.msg = m /\ x.id = id) BY <1>2, <2>1, <2>3, <2>5
  <2> QED BY <2>4, <2>5
<1>3. bubbles \in Seq(TrueBubble(Providers(row))) BY DEF PanelInv
<1> HIDE DEF f
<1>4. f \in Seq(TrueBubble(Providers(row))) BY <1>1, <1>2, <1>3, MapSeq
<1> QED BY <1>4 DEF f

LEMMA ReturnsTrue == ASSUME PanelInv, NEW m \in Sends, PostReturns(m) PROVE PanelInv'
<1> DEFINE p == [post EXCEPT ![m] = "over"]
<1>1. PICK b : b = bubbles' OBVIOUS
<1>2. b \in Seq(TrueBubble(Providers(row)))
  <2>1. CASE post[m] = "ok" /\ bubbles' = Marked(m, "optimistic", "provider", "sent")
    <3>1. m \in Providers(row) BY <2>1 DEF PanelInv, Providers
    <3>2. "optimistic" \in Label /\ "provider" \in Label /\ "sent" \in Shown BY DEF Label, Shown
    <3> QED BY <1>1, <2>1, <3>1, <3>2, MarkedTrue
  <2>2. CASE post[m] = "error" /\ bubbles' = Marked(m, "optimistic", "optimistic", "failed")
    <3>1. "optimistic" \in Label /\ "failed" \in Shown /\ "failed" \notin Told BY DEF Label, Shown, Told
    <3> QED BY <1>1, <2>2, <3>1, MarkedTrue
  <2>3. CASE UNCHANGED bubbles BY <1>1, <2>3 DEF PanelInv
  <2> QED BY <2>1, <2>2, <2>3 DEF PostReturns
<1>3. post[m] \in {"ok", "error"} /\ post' = p /\ UNCHANGED <<openChat, fetch, row, wire>>
  BY DEF PostReturns
<1>4. p \in [Sends -> {"none", "asked", "inserted", "ok", "error", "over"}]
      /\ p[m] = "over" /\ \A k \in Sends : k # m => p[k] = post[k]
  BY DEF PanelInv
<1> HIDE DEF p
<1> QED BY <1>1, <1>2, <1>3, <1>4, ShownTrue DEF PanelInv

LEMMA NewBubbleTrue ==
    ASSUME PanelInv, openChat \in Chats, NEW e \in TrueEvent(Providers(row))
    PROVE  NewBubble(e) \in Seq(TrueBubble(Providers(row)))
<1> DEFINE S == TrueBubble(Providers(row))
           b == [msg |-> e.msg, id |-> e.id, status |-> e.status, chat |-> row[e.msg].chat]
           same == {i \in DOMAIN bubbles : /\ bubbles[i].id = "optimistic"
                                           /\ bubbles[i].chat = b.chat
                                           /\ Text[bubbles[i].msg] = Text[e.msg]}
           first == CHOOSE i \in same : \A j \in same : i <= j
<1>1. bubbles \in Seq(S) BY DEF PanelInv
<1>2. CASE b.chat # openChat BY <1>1, <1>2 DEF NewBubble
<1>3. CASE b.chat = openChat
  <2>1. b \in S BY <1>3 DEF TrueEvent, Event, TrueBubble, Bubble
  <2>2. Append(bubbles, b) \in Seq(S) BY <1>1, <2>1, AppendProperties
  <2>3. [bubbles EXCEPT ![first] = b] \in Seq(S)
    <3>1. PICK x : x = first OBVIOUS
    <3>2. PICK f : f = [bubbles EXCEPT ![x] = b] OBVIOUS
    <3> HIDE DEF S, b, first, same
    <3>3. DOMAIN f = DOMAIN bubbles /\ f = [i \in DOMAIN f |-> f[i]]
          /\ \A i \in DOMAIN bubbles : f[i] = (IF i = x THEN b ELSE bubbles[i])
      BY <3>2
    <3>4. f \in Seq(S) BY <1>1, <2>1, <3>3, MapSeq
    <3> QED BY <3>1, <3>2, <3>4
  <2>4. NewBubble(e) \in {bubbles, Append(bubbles, b), [bubbles EXCEPT ![first] = b]}
    BY DEF NewBubble
  <2> HIDE DEF b, first, same
  <2> QED BY <1>1, <2>2, <2>3, <2>4
<1> QED BY <1>2, <1>3

LEMMA NextEvent ==
    ASSUME PanelInv, wire # <<>>
    PROVE  /\ Head(wire) \in TrueEvent(Providers(row))
           /\ Tail(wire) \in Seq(TrueEvent(Providers(row)))
           /\ openChat \in Chats
BY HeadTailProperties DEF PanelInv

LEMMA SocketTrue == ASSUME PanelInv, SocketDelivers PROVE PanelInv'
<1> DEFINE S == Seq(TrueBubble(Providers(row)))
<1>1. PICK e : e = Head(wire) OBVIOUS
<1>2. PICK w : w = Tail(wire) OBVIOUS
<1>3. PICK b : b = bubbles' OBVIOUS
<1>4. e \in TrueEvent(Providers(row)) /\ w \in Seq(TrueEvent(Providers(row))) /\ openChat \in Chats
  BY <1>1, <1>2, NextEvent DEF SocketDelivers
<1>5. b = IF e.kind = "new" THEN NewBubble(e) ELSE Marked(e.msg, e.id, e.id, e.status)
  BY <1>1, <1>3 DEF SocketDelivers
<1>6. NewBubble(e) \in S BY <1>4, NewBubbleTrue
<1>7. e.msg \in Sends /\ e.id \in Label /\ e.status \in Shown
      /\ (e.status \in Told => e.msg \in Providers(row))
  BY <1>4 DEF TrueEvent, Event
<1>8. Marked(e.msg, e.id, e.id, e.status) \in S BY <1>7, MarkedTrue
<1>9. b \in S BY <1>5, <1>6, <1>8
<1>10. wire' = w /\ UNCHANGED <<openChat, fetch, post, row>> BY <1>2 DEF SocketDelivers
<1>11. openChat # Nobody BY <1>4, PanelAssumption
<1> QED BY <1>3, <1>4, <1>9, <1>10, <1>11, ShownTrue DEF PanelInv

LEMMA LostTrue == ASSUME PanelInv, EventLost PROVE PanelInv'
<1>1. PICK w : w = Tail(wire) OBVIOUS
<1>2. w \in Seq(TrueEvent(Providers(row))) /\ openChat \in Chats
  BY <1>1, NextEvent DEF EventLost
<1>3. openChat # Nobody BY <1>2, PanelAssumption
<1>4. wire' = w /\ UNCHANGED <<bubbles, openChat, fetch, post, row>> BY <1>1 DEF EventLost
<1> QED BY <1>2, <1>3, <1>4, ShownTrue DEF PanelInv

LEMMA DeleteTrue == ASSUME PanelInv, NEW m \in Sends, DeleteBubble(m) PROVE PanelInv'
<1> DEFINE r == [row EXCEPT ![m].status = "deleted"]
<1>1. openChat \in Chats /\ openChat # Nobody BY PanelAssumption DEF DeleteBubble, PanelInv
<1>2. row[m] \in ChatRow BY DEF PanelInv
<1>3. r[m] \in ChatRow /\ r[m].id = row[m].id /\ r[m].status = "deleted"
      /\ \A k \in Sends : k # m => r[k] = row[k]
  BY <1>2 DEF PanelInv, ChatRow
<1>4. r \in [Sends -> ChatRow] BY <1>3 DEF PanelInv
<1>5. row' = r BY DEF DeleteBubble
<1> HIDE DEF r
<1>6. RowsStand(r, post)
  BY <1>3, <1>4, <1>5 DEF PanelInv, RowsStand, Providers, Told, Shown, DeleteBubble
<1>7. Providers(row) \subseteq Providers(r) BY <1>6 DEF RowsStand
<1>8. PICK f : f = fetch' OBVIOUS
<1>9. f \in [Chats -> Fetch(Providers(r))]
  BY <1>1, <1>7, <1>8, NoRows, FetchKept DEF DeleteBubble, Fetching
<1>10. bubbles \in Seq(TrueBubble(Providers(r))) /\ wire \in Seq(TrueEvent(Providers(r)))
  BY <1>7, StaysTrue DEF PanelInv
<1> QED BY <1>1, <1>6, <1>8, <1>9, <1>10, TrueStep DEF DeleteBubble

LEMMA PanelStarts == ASSUME PanelInit PROVE PanelInv
<1>1. NoFetch \in Fetch(Providers(row)) BY NoRows DEF NoFetch
<1>2. NoMessage \in ChatRow /\ NoMessage.id = "none" /\ NoMessage.status = "none"
  BY DEF NoMessage, ChatRow
<1> QED BY <1>1, <1>2, EmptySeq DEF PanelInit, PanelInv, Told, Shown

LEMMA PanelSteps == ASSUME PanelInv, [PanelNext]_panelVars PROVE PanelInv'
<1>1. ASSUME NEW m \in Sends, Refuse(m) \/ InsertOut(m) \/ Accept(m) \/ RejectSend(m) \/ Receipt(m)
      PROVE  PanelInv'
  BY <1>1, RefuseTrue, InsertOutTrue, AcceptTrue, RejectTrue, ReceiptTrue
<1>2. ASSUME NEW m \in Sends, SendMessage(m) \/ PostReturns(m) \/ DeleteBubble(m) PROVE PanelInv'
  BY <1>2, SendTrue, ReturnsTrue, DeleteTrue
<1>3. ASSUME NEW c \in Chats, AnswerFetch(c) \/ OpenChat(c) \/ ShowFetch(c) PROVE PanelInv'
  BY <1>3, AnswerTrue, OpenChatTrue, ShowTrue
<1>4. ASSUME UNCHANGED panelVars PROVE PanelInv'
  BY <1>4 DEF panelVars, PanelInv
<1> QED BY <1>1, <1>2, <1>3, <1>4, SocketTrue, LostTrue DEF PanelNext

\* Whatever order the socket, the answers and the fetches arrive in, and
\* whatever two messages with the same text are taken for, no bubble says that a
\* message was sent which the bridge has not accepted.
THEOREM SentHeld == PanelSpec => []SentIsTrue
<1>1. PanelInit => PanelInv BY PanelStarts
<1>2. PanelInv /\ [PanelNext]_panelVars => PanelInv' BY PanelSteps
<1>3. PanelInv => SentIsTrue BY PanelInvTells
<1> QED BY <1>1, <1>2, <1>3, PTL DEF PanelSpec
================================================================================
