------------------------------ MODULE Retention -------------------------------
(***************************************************************************)
(* The retention scheduler of server.ts: every hour it reads the policies  *)
(* and deletes what they let expire, one DELETE after the other, each of   *)
(* which the database may reject.                                          *)
(***************************************************************************)
EXTENDS Naturals, Sequences, FiniteSets

CONSTANTS
    Owners,      \* accounts
    Insts,       \* instances
    OwnerOf,     \* OwnerOf[i]: the account of instance i
    All,         \* the instance_id NULL of a policy for the whole account
    Policies,    \* the rows of data_retention_policies: no endpoint writes them
    CleanupDays, \* CLEANUP_LOG_RETENTION_DAYS of the clean-up worker
    MaxDay,      \* bound: days
    MaxStored    \* bound: rows stored at a time

\* A consent counts from the day it was revoked; one that was not never expires.
DataTables == {"messages", "message_logs", "connection_logs", "webhook_events",
               "webhook_delivery_logs", "data_consent"}
DataRow == [table : DataTables, inst : Insts, born : 0..MaxDay]
PolicyRow == [kind : {"messages", "logs", "webhooks", "consent"}, acct : Owners,
              inst : Insts \cup {All}, days : Nat]

ASSUME RetentionAssumption ==
    /\ OwnerOf \in [Insts -> Owners]
    /\ All \notin Insts
    /\ Policies \subseteq PolicyRow
    /\ CleanupDays \in Nat /\ MaxDay \in Nat /\ MaxStored \in Nat

VARIABLES
    today,     \* the clock, in days
    stored,    \* the rows of the tables that retention deletes from
    pass       \* the retention pass: what is left of it

retentionVars == <<today, stored, pass>>

NoPass == [todo |-> {}, by |-> {}, tables |-> <<>>, asOf |-> 0]

RetentionTypeOK ==
    /\ today \in 0..MaxDay
    /\ stored \subseteq DataRow
    /\ pass \in [todo : SUBSET Policies, by : SUBSET Policies,
                 tables : Seq(DataTables), asOf : 0..MaxDay]

RetentionInit == today = 0 /\ stored = {} /\ pass = NoPass

DayPasses == today < MaxDay /\ today' = today + 1 /\ UNCHANGED <<stored, pass>>

\* Messages, logs, webhook deliveries and revocations come in as they always do.
RowArrives ==
    /\ Cardinality(stored) < MaxStored
    /\ \E t \in DataTables, i \in Insts :
         stored' = stored \cup {[table |-> t, inst |-> i, born |-> today]}
    /\ UNCHANGED <<today, pass>>

-----------------------------------------------------------------------------
TablesOf(p) ==
    CASE p.kind = "messages" -> <<"messages">>
      [] p.kind = "logs"     -> <<"message_logs", "connection_logs">>
      [] p.kind = "webhooks" -> <<"webhook_events", "webhook_delivery_logs">>
      [] p.kind = "consent"  -> <<"data_consent">>

Owned(p, x) == OwnerOf[x.inst] = p.acct
Covers(p, x) == p.inst = All \/ x.inst = p.inst \/ x.table = "data_consent"
Expires(p, x, asOf) == x.born + p.days < asOf

\* account_id = ? AND ? = 0 OR (instance_id = ? AND created_at < ?): AND binds
\* before OR.
MessageGoes(p, x, asOf) ==
    \/ Owned(p, x) /\ p.inst = All
    \/ x.inst = p.inst /\ Expires(p, x, asOf)

\* account_id = ? AND (? = 0 OR instance_id = ?) AND created_at < ?
RowGoes(p, x, asOf) == Owned(p, x) /\ Covers(p, x) /\ Expires(p, x, asOf)

Goes(p, x, asOf) ==
    IF x.table = "messages" THEN MessageGoes(p, x, asOf) ELSE RowGoes(p, x, asOf)

PassBegins ==
    /\ pass = NoPass
    /\ pass' = [NoPass EXCEPT !.todo = Policies]
    /\ UNCHANGED <<today, stored>>

\* The next DELETE: of the policy at hand, or the first one of the next policy,
\* with the cutoff computed when that policy's turn comes.
DeleteStep ==
    \E p \in IF pass.tables # <<>> THEN pass.by ELSE pass.todo :
      LET first  == pass.tables = <<>>
          asOf   == IF first THEN today ELSE pass.asOf
          tables == IF first THEN TablesOf(p) ELSE pass.tables
          rest   == [pass EXCEPT !.todo = @ \ {p}, !.tables = Tail(tables)]
      IN  /\ stored' = {x \in stored : ~(x.table = Head(tables) /\ Goes(p, x, asOf))}
          /\ pass' = IF rest.tables = <<>> THEN [NoPass EXCEPT !.todo = rest.todo]
                     ELSE [rest EXCEPT !.by = {p}, !.asOf = asOf]
          /\ UNCHANGED today

\* A statement is rejected: the rest of the pass is left to the next hour.
PassFails == pass # NoPass /\ pass' = NoPass /\ UNCHANGED <<today, stored>>

\* runCleanup: whatever the policies say, one table after the other; a DELETE
\* that is rejected leaves its table for another day.
Cleaned == {"webhook_delivery_logs", "webhook_events", "message_logs", "connection_logs"}
TooOld(x) == x.table \in Cleaned /\ x.born + CleanupDays < today
CleanUp(t) ==
    /\ stored' = {x \in stored : ~(x.table = t /\ TooOld(x))}
    /\ UNCHANGED <<today, pass>>

RetentionNext ==
    \/ DayPasses \/ RowArrives \/ \E t \in Cleaned : CleanUp(t)
    \/ PassBegins \/ DeleteStep \/ PassFails

RetentionSpec == RetentionInit /\ [][RetentionNext]_retentionVars

-----------------------------------------------------------------------------
\* "messages: deleta mensagens antigas": a row that is deleted is older than
\* some policy for its table and its account allows, or than the logs may grow.
OnlyOldDeleted ==
    [][\A x \in stored \ stored' :
         TooOld(x) \/ \E p \in Policies :
            /\ \E n \in DOMAIN TablesOf(p) : TablesOf(p)[n] = x.table
            /\ RowGoes(p, x, today)]_retentionVars
=============================================================================
