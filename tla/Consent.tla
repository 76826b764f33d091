------------------------------- MODULE Consent --------------------------------
(***************************************************************************)
(* The data protection endpoints of server.ts: consent to one purpose in   *)
(* one account, and the anonymization of an account on request.  Each      *)
(* statement is a step of its own, and the database may reject any.        *)
(***************************************************************************)
EXTENDS Naturals, Sequences

CONSTANTS
    Users,        \* the user_id of a consent
    Grantors,     \* requests to grant consent, one each
    MaxRevokes    \* bound: requests to revoke consent

ASSUME ConsentAssumption == Users # {} /\ MaxRevokes \in Nat

VARIABLES
    current,    \* the users with a row of data_consent that is granted
    revoked,    \* the users with a row that was revoked
    grantor,    \* grantor[g]: where the request is, and for which user
    renewed,    \* history: an INSERT since the last revoke
    revokes,    \* bound
    dsr,        \* the row of data_subject_requests, and what is left to mask
    masked      \* the sections of the account whose rows were masked

requestVars == <<dsr, masked>>
consentVars == <<current, revoked, grantor, renewed, revokes, requestVars>>

Sections == {"messages", "leads", "conversations", "account"}
AnyUser == CHOOSE u \in Users : TRUE

ConsentTypeOK ==
    /\ current \subseteq Users
    /\ revoked \subseteq Users
    /\ grantor \in [Grantors -> [pc : {"idle", "insert", "granted", "failed"},
                                 user : Users, fresh : BOOLEAN]]
    /\ renewed \in BOOLEAN
    /\ revokes \in 0..MaxRevokes
    /\ dsr \in [status : {"none", "processing", "completed"}, left : Seq(Sections)]
    /\ masked \subseteq Sections

ConsentInit ==
    /\ current = {} /\ revoked = {}
    /\ grantor = [g \in Grantors |-> [pc |-> "idle", user |-> AnyUser, fresh |-> TRUE]]
    /\ renewed = FALSE
    /\ revokes = 0
    /\ dsr = [status |-> "none", left |-> <<>>]
    /\ masked = {}

-----------------------------------------------------------------------------
(* Consent.  A grant reads, and inserts in a later statement; two of them  *)
(* may insert a row each for one user, which no statement tells apart.     *)

GrantLooks(g) ==
    /\ grantor[g].pc = "idle"
    /\ \E u \in Users, pc \in {"insert", "granted", "failed"} :
         /\ pc = "granted" => u \in current
         /\ pc = "insert" => u \notin current
         /\ grantor' = [grantor EXCEPT ![g] = [pc |-> pc, user |-> u, fresh |-> TRUE]]
         /\ renewed' = (renewed \/ pc = "insert")
    /\ UNCHANGED <<current, revoked, revokes, requestVars>>

GrantInserts(g) ==
    /\ grantor[g].pc = "insert"
    /\ \/ /\ current' = current \cup {grantor[g].user}
          /\ grantor' = [grantor EXCEPT ![g].pc = "granted"]
       \/ /\ grantor' = [grantor EXCEPT ![g].pc = "failed"]
          /\ UNCHANGED current
    /\ UNCHANGED <<revoked, renewed, revokes, requestVars>>

RevokeFor(users) ==
    /\ revokes < MaxRevokes
    /\ revokes' = revokes + 1
    /\ current' = current \ users
    /\ revoked' = revoked \cup (current \cap users)
    /\ grantor' = [g \in Grantors |-> [grantor[g] EXCEPT !.fresh = FALSE]]
    /\ renewed' = \E g \in Grantors : grantor[g].pc = "insert"
    /\ UNCHANGED requestVars

\* Mutant: only the consent of the user who asks is revoked, as it is granted.
RevokeOfUser == \E u \in Users : RevokeFor({u})

\* One UPDATE: the purpose is revoked in the account, whoever had granted it.
Revoke == RevokeFor(Users)

\* Retention deletes rows that were revoked long ago.
Forgets == revoked # {} /\ revoked' = {} /\ UNCHANGED <<current, grantor, renewed, revokes, requestVars>>

-----------------------------------------------------------------------------
(* Anonymization: one UPDATE for each section, in this order.              *)

InScope(scope) ==
    CASE scope = "all" -> <<"messages", "leads", "conversations", "account">>
      [] scope \in Sections -> <<scope>>
      [] OTHER -> <<>>                     \* not checked: completed at once

AnonymizeBegins ==
    /\ dsr.status = "none"
    /\ \E scope \in Sections \cup {"all", "other"} :
         dsr' = [status |-> "processing", left |-> InScope(scope)]
    /\ UNCHANGED <<current, revoked, grantor, renewed, revokes, masked>>

\* When an UPDATE is rejected, the request is answered with 500 and its row
\* stays 'processing': no step follows.
AnonymizeStep ==
    /\ dsr.status = "processing"
    /\ IF dsr.left = <<>>
       THEN dsr' = [dsr EXCEPT !.status = "completed"] /\ UNCHANGED masked
       ELSE /\ dsr' = [dsr EXCEPT !.left = Tail(@)]
            /\ masked' = masked \cup {Head(dsr.left)}
    /\ UNCHANGED <<current, revoked, grantor, renewed, revokes>>

ConsentNext ==
    \/ \E g \in Grantors : GrantLooks(g) \/ GrantInserts(g)
    \/ Revoke \/ Forgets
    \/ AnonymizeBegins \/ AnonymizeStep

ConsentSpec == ConsentInit /\ [][ConsentNext]_consentVars

-----------------------------------------------------------------------------
\* After a revoke nobody's consent is current, until a request to grant it that
\* overlapped the revoke, or came later, inserts it; and a grant that was
\* answered stands for as long as nothing was revoked since it began.
ConsentHolds ==
    /\ current # {} => renewed
    /\ \A g \in Grantors :
         (grantor[g].pc = "granted" /\ grantor[g].fresh) => grantor[g].user \in current
=============================================================================
