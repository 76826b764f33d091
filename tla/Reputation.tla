------------------------------ MODULE Reputation ------------------------------
(***************************************************************************)
(* platform/reputation.ts and what is decided on it.  The scores of a      *)
(* phone and of the account are computed once and then read for ever, the  *)
(* one of the node each time.  The message worker takes for "the phone"    *)
(* the recipient, whichever instance writes to it.                         *)
(***************************************************************************)
EXTENDS Integers, FiniteSets, FiniteSetsExt

CONSTANTS
    Askers,      \* concurrent calls of getReputationSnapshot
    Lines,        \* instances, all of one account and on one node
    Subjects,     \* phones: of recipients and of instances
    Today,        \* the first figures of every instance
    Volumes,      \* figures of a day: messages in the logs, and failed ones
    Drops,        \* figures of a day: disconnections
    AlertCounts,  \* open alerts of the account
    NodeStates,   \* sets of faults a node may report
    NoScore,      \* no row in reputation_scores
    MaxFacts      \* bound: changes of the figures

ASSUME ReputationAssumption ==
    /\ IsFiniteSet(Lines) /\ Lines # {} /\ Subjects # {}
    /\ "tenant" \notin Subjects
    /\ NoScore \notin Int
    /\ Today \in [total : Nat, failed : Nat, drops : Nat, counted : Nat, young : BOOLEAN]
    /\ Volumes \subseteq [total : Nat, failed : Nat]
    /\ \A v \in Volumes \cup {Today} : v.failed <= v.total   \* counted by one query
    /\ Drops \subseteq Nat /\ AlertCounts \subseteq Nat
    /\ NodeStates \subseteq SUBSET {"inactive", "cpu", "memory", "errors"}
    /\ MaxFacts \in Nat

VARIABLES
    figures,      \* of each instance: today's messages, and what the monitor noted
    openAlerts,   \* open alerts of the account
    nodeFaults,       \* what is wrong with the node
    score,        \* reputation_scores
    asking,       \* the calls
    barred,       \* instances with status 'blocked'
    unfair,       \* history: instances blocked for neither reason of BlockDeserved
    failing,      \* history: phones whose score was made from a failing instance
    facts         \* bound

reputationVars ==
    <<figures, openAlerts, nodeFaults, score, asking, barred, unfair, failing, facts>>

NodeFaults == {"inactive", "cpu", "memory", "errors"}
\* The score of the node is stored too, and only listed.
ScoreKeys == Subjects \cup {"tenant"}
Scores == (0..100) \cup {NoScore}
Steps == {"idle", "phone", "tenant", "node", "logs", "row", "alerts",
          "look", "write", "decide"}
Asking == [pc : Steps, line : Lines, phone : Subjects, p : Scores, t : Scores, n : Scores,
           volume : [total : Nat, failed : Nat], save : 1..2, found : BOOLEAN]
Figures == [total : Nat, failed : Nat, drops : Nat, counted : Nat, young : BOOLEAN]
NoVolume == [total |-> 0, failed |-> 0]
NotAsking == [pc |-> "idle", line |-> CHOOSE i \in Lines : TRUE,
              phone |-> CHOOSE s \in Subjects : TRUE, p |-> NoScore, t |-> NoScore,
              n |-> NoScore, volume |-> NoVolume, save |-> 1, found |-> FALSE]

ReputationTypeOK ==
    /\ figures \in [Lines -> Figures]
    /\ openAlerts \in Nat /\ nodeFaults \subseteq NodeFaults
    /\ score \in [ScoreKeys -> Scores]
    /\ asking \in [Askers -> Asking]
    /\ barred \subseteq Lines /\ unfair \subseteq Lines /\ failing \subseteq Subjects
    /\ facts \in 0..MaxFacts

ReputationInit ==
    /\ figures = [i \in Lines |-> Today]
    /\ openAlerts = 0 /\ nodeFaults = {}
    /\ score = [k \in ScoreKeys |-> NoScore]
    /\ asking = [c \in Askers |-> NotAsking]
    /\ barred = {} /\ unfair = {} /\ failing = {}
    /\ facts = 0

-----------------------------------------------------------------------------
(* The formulas.                                                           *)

Clamped(x) == Max({0, Min({100, x})})
\* Math.round of base - weight * failed / total.
Less(base, weight, failed, total) ==
    IF total = 0 THEN base
    ELSE (2 * (base * total - weight * failed) + total) \div (2 * total)

\* Failed messages of the logs, or when there is none the last count of the monitor.
PhoneFailed(volume, f) == IF volume.failed # 0 THEN volume.failed ELSE f.counted
\* Mutant: six points for each disconnection, however many.
PhoneScoreUncapped(volume, f) ==
    LET churn == IF f.drops > 2 THEN 6 * f.drops ELSE 0
        rush == IF f.young /\ volume.total > 20 THEN 20 ELSE 0
    IN  Clamped(Less(100 - churn - rush, 45, PhoneFailed(volume, f), volume.total))
PhoneScore(volume, f) ==
    LET churn == IF f.drops > 2 THEN Min({6 * f.drops, 24}) ELSE 0
        rush == IF f.young /\ volume.total > 20 THEN 20 ELSE 0
    IN  Clamped(Less(100 - churn - rush, 45, PhoneFailed(volume, f), volume.total))

TenantScore(volume, alerts) ==
    Clamped(Less(100 - Min({5 * alerts, 25}), 35, volume.failed, volume.total))

Weight == [inactive |-> 35, cpu |-> 15, memory |-> 15, errors |-> 25]
NodeScore == 100 - MapThenSumSet(LAMBDA w : Weight[w], nodeFaults)

-----------------------------------------------------------------------------
(* getReputationSnapshot, a statement at a time.                           *)

Figured == UNCHANGED <<figures, openAlerts, nodeFaults, facts>>
Undecided == UNCHANGED <<barred, unfair>>

AsksReputation(c, i, s) ==
    /\ asking[c].pc = "idle"
    /\ asking' = [asking EXCEPT ![c] = [NotAsking EXCEPT !.pc = "phone", !.line = i,
                                                         !.phone = s]]
    /\ UNCHANGED <<score, failing>> /\ Figured /\ Undecided

\* Only of an instance that is connected; the phone is the recipient.
WorkerAsks(c, i, s) == i \notin barred /\ AsksReputation(c, i, s)
OrchestratorAsks(c, i, s) == AsksReputation(c, i, s)
\* Before a node is chosen: nothing is decided on the answer.
AssignAsks(c, i, s) == AsksReputation(c, i, s)

Learns(c, at, then) ==
    /\ asking[c].pc = at
    /\ asking' = [asking EXCEPT ![c] = then]
    /\ UNCHANGED score /\ Figured /\ Undecided

StoredPhone(c) ==
    /\ Learns(c, "phone", [asking[c] EXCEPT !.pc = "tenant", !.p = score[asking[c].phone]])
    /\ UNCHANGED failing
StoredTenant(c) ==
    /\ Learns(c, "tenant", [asking[c] EXCEPT !.pc = "node", !.t = score["tenant"]])
    /\ UNCHANGED failing

\* What is left to compute, if anything.
Onward(a) == IF a.p = NoScore THEN "logs" ELSE IF a.t = NoScore THEN "alerts" ELSE "look"
ReadsNode(c) ==
    /\ Learns(c, "node", [asking[c] EXCEPT !.pc = Onward(asking[c]), !.n = NodeScore])
    /\ UNCHANGED failing

ReadsLogs(c) ==
    LET f == figures[asking[c].line]
    IN  /\ Learns(c, "logs", [asking[c] EXCEPT !.pc = "row",
                             !.volume = [total |-> f.total, failed |-> f.failed]])
        /\ UNCHANGED failing

\* More than a third of the messages failed.
MostlyFailing(volume, f) == 3 * PhoneFailed(volume, f) > volume.total /\ volume.total > 0
ReadsRow(c) ==
    LET a == asking[c]
        f == figures[a.line]
        p == PhoneScore(a.volume, f)
    IN  /\ Learns(c, "row", [a EXCEPT !.pc = Onward([a EXCEPT !.p = p]), !.p = p,
                            !.volume = NoVolume])
        /\ failing' = IF MostlyFailing(a.volume, f) THEN failing \cup {a.phone} ELSE failing

\* The messages of all instances of the account, and its alerts.
ReadsAccount(c) ==
    LET volume == [total  |-> FoldFunction(+, 0, [i \in Lines |-> figures[i].total]),
                   failed |-> FoldFunction(+, 0, [i \in Lines |-> figures[i].failed])]
    IN  /\ Learns(c, "alerts", [asking[c] EXCEPT !.pc = "look",
                               !.t = TenantScore(volume, openAlerts)])
        /\ UNCHANGED failing

\* upsertScore of the two: a look, then an UPDATE, or an INSERT that does
\* nothing when another call was first.
SaveKey(a) == IF a.save = 1 THEN a.phone ELSE "tenant"
LooksForScore(c) ==
    /\ Learns(c, "look", [asking[c] EXCEPT !.pc = "write",
                                          !.found = score[SaveKey(asking[c])] # NoScore])
    /\ UNCHANGED failing
WritesScore(c) ==
    LET a == asking[c] k == SaveKey(a)
    IN  /\ a.pc = "write"
        /\ score' = IF a.found \/ score[k] = NoScore
                    THEN [score EXCEPT ![k] = IF a.save = 1 THEN a.p ELSE a.t] ELSE score
        /\ asking' = [asking EXCEPT ![c] =
               [a EXCEPT !.pc = IF a.save = 1 THEN "look" ELSE "decide",
                         !.save = 2, !.found = FALSE]]
        /\ UNCHANGED failing /\ Figured /\ Undecided

\* canSendMessage and the orchestrator block, if the caller is one of them, the
\* state of the instance allows it and the UPDATE does not fail.
Effective(a) == Min({a.p, a.t, a.n})
Decides(c) ==
    LET a == asking[c]
        fair == a.phone \in failing \/ a.n < 40
    IN  /\ a.pc = "decide"
        /\ asking' = [asking EXCEPT ![c] = NotAsking]
        /\ \/ Undecided
           \/ /\ Effective(a) < 40
              /\ barred' = barred \cup {a.line}
              /\ unfair' = IF fair THEN unfair ELSE unfair \cup {a.line}
        /\ UNCHANGED <<score, failing>> /\ Figured

-----------------------------------------------------------------------------
(* What happens meanwhile.                                                 *)

Fact == /\ facts < MaxFacts /\ facts' = facts + 1
        /\ UNCHANGED <<score, asking, failing>> /\ Undecided

\* Messages are logged, and leave the last 24 hours.
LogsChange(i) ==
    /\ Fact
    /\ \E v \in Volumes :
         figures' = [figures EXCEPT ![i].total = v.total, ![i].failed = v.failed]
    /\ UNCHANGED <<openAlerts, nodeFaults>>

\* The monitor counts failures and disconnections, and days go by.
MonitorCounts(i) ==
    /\ Fact
    /\ \E d \in Drops : figures' = [figures EXCEPT ![i].drops = d,
                                                   ![i].counted = figures[i].failed]
    /\ UNCHANGED <<openAlerts, nodeFaults>>
GrowsUp(i) ==
    /\ Fact
    /\ figures[i].young
    /\ figures' = [figures EXCEPT ![i].young = FALSE]
    /\ UNCHANGED <<openAlerts, nodeFaults>>

AlertsChange == Fact /\ openAlerts' \in AlertCounts /\ UNCHANGED <<figures, nodeFaults>>
NodeReports  == Fact /\ nodeFaults' \in NodeStates /\ UNCHANGED <<figures, openAlerts>>

\* Somebody writes another status: the bridge, an administrator.
Unbarred(i) ==
    /\ i \in barred
    /\ barred' = barred \ {i}
    /\ UNCHANGED <<score, asking, failing, unfair>> /\ Figured

ReputationNext ==
    \/ \E c \in Askers :
         \/ StoredPhone(c) \/ StoredTenant(c) \/ ReadsNode(c) \/ ReadsLogs(c)
         \/ ReadsRow(c) \/ ReadsAccount(c) \/ LooksForScore(c) \/ WritesScore(c)
         \/ Decides(c)
         \/ \E i \in Lines, s \in Subjects :
              WorkerAsks(c, i, s) \/ OrchestratorAsks(c, i, s) \/ AssignAsks(c, i, s)
    \/ \E i \in Lines :
         LogsChange(i) \/ MonitorCounts(i) \/ GrowsUp(i) \/ Unbarred(i)
    \/ AlertsChange \/ NodeReports

ReputationSpec == ReputationInit /\ [][ReputationNext]_reputationVars

-----------------------------------------------------------------------------
\* An instance is blocked only when its node scores below 40 at that moment, or
\* when the score of the phone was once made from an instance more than a third
\* of whose messages failed: an account with open alerts and failures, a churn
\* of connections and the volume of a new instance never block by themselves,
\* however many there are.
BlockDeserved == unfair = {}
=============================================================================
