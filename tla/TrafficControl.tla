---------------------------- MODULE TrafficControl ----------------------------
(***************************************************************************)
(* canSendMessage of platform/traffic-controller.ts: concurrent calls look *)
(* at the same rows of traffic_buckets and write them later.  Each call    *)
(* consumes its buckets side by side (Promise.all) and then decides; the   *)
(* message worker sends at once, after a short sleep, or throws.           *)
(***************************************************************************)
EXTENDS Naturals, FiniteSets

CONSTANTS
    Senders,      \* concurrent calls, each on behalf of one message at a time
    Buckets,      \* bucket keys: global, tenant, instance, phone, node
    Uses,         \* Uses[s]: the buckets of the messages s sends
    Limit,        \* Limit[b]: messages for each window at full reputation
    Window,       \* length of a window
    Errors,       \* whether statements may fail
    MaxTime       \* bound: the clock

ASSUME TrafficAssumption ==
    /\ IsFiniteSet(Senders)
    /\ Senders # {}
    /\ Uses \in [Senders -> SUBSET Buckets]
    /\ Limit \in [Buckets -> Nat \ {0}]
    /\ Window \in Nat \ {0}
    /\ Errors \in BOOLEAN
    /\ MaxTime \in Nat

VARIABLES
    bucket,   \* the traffic_buckets rows
    check,    \* check[s]: what s is doing in canSendMessage and after it
    now,      \* Date.now()
    passes    \* history: passes[b], granted by working statements since the
              \* window of b was opened

trafficVars == <<bucket, check, now, passes>>

BucketRow == [exists : BOOLEAN, count : Nat, reset : Nat]
Phase == {"read", "insert", "blind", "open", "count", "passed", "blocked"}
CheckRow == [pc : {"idle", "consume", "sleep", "send"},
             phase : [Buckets -> Phase], at : [Buckets -> Nat]]

TrafficTypeOK ==
    /\ bucket \in [Buckets -> BucketRow]
    /\ check \in [Senders -> CheckRow]
    /\ now \in Nat
    /\ passes \in [Buckets -> Nat]

IdleCheck == [pc |-> "idle", phase |-> [b \in Buckets |-> "passed"],
              at |-> [b \in Buckets |-> 0]]

TrafficInit ==
    /\ bucket = [b \in Buckets |-> [exists |-> FALSE, count |-> 0, reset |-> 0]]
    /\ check = [s \in Senders |-> IdleCheck]
    /\ now = 0
    /\ passes = [b \in Buckets |-> 0]

-----------------------------------------------------------------------------
Expired(b) == bucket[b].reset <= now

\* The instance is found, active and not at risk: its buckets are consumed.
\* Calls refused before that leave the buckets alone.
Admitted(s) ==
    /\ check[s].pc = "idle"
    /\ check' = [check EXCEPT ![s] =
         [pc |-> "consume", at |-> [b \in Buckets |-> 0],
          phase |-> [b \in Buckets |-> IF b \in Uses[s] THEN "read" ELSE "passed"]]]
    /\ UNCHANGED <<bucket, now, passes>>

InPhase(s, b, p) == check[s].pc = "consume" /\ check[s].phase[b] = p
SetPhase(s, b, p) ==
    check' = [check EXCEPT ![s].phase[b] = p,
                           ![s].at[b] = IF p \in {"insert", "blind", "open"} THEN now ELSE 0]

\* Mutant: the count is compared the wrong way round at the limit.
FullLate(b, max) == bucket[b].count > max
Full(b, max) == bucket[b].count >= max

\* The SELECT, and what the code makes of the row.  The reputation of the
\* caller scales the limit down, but never below one.  A SELECT that fails
\* counts as no row.
ReadBucket(s, b) ==
    /\ InPhase(s, b, "read")
    /\ \E max \in 1..Limit[b] :
         SetPhase(s, b, CASE ~bucket[b].exists -> "insert"
                          [] bucket[b].exists /\ Expired(b) -> "open"
                          [] OTHER -> IF Full(b, max) THEN "blocked" ELSE "count")
    /\ UNCHANGED <<bucket, now, passes>>
ReadFails(s, b) ==
    /\ Errors
    /\ InPhase(s, b, "read")
    /\ SetPhase(s, b, "blind")
    /\ UNCHANGED <<bucket, now, passes>>

FreshRow(s, b) == [exists |-> TRUE, count |-> 1, reset |-> check[s].at[b] + Window]

\* bucket_key is UNIQUE: the INSERT of a row that exists meanwhile fails, and
\* the message passes uncounted.
InsertBucket(s, b) ==
    /\ InPhase(s, b, "insert") \/ InPhase(s, b, "blind")
    /\ IF bucket[b].exists
       THEN /\ passes' = [passes EXCEPT ![b] = IF InPhase(s, b, "insert") THEN @ + 1 ELSE @]
            /\ UNCHANGED bucket
       ELSE /\ bucket' = [bucket EXCEPT ![b] = FreshRow(s, b)]
            /\ passes' = [passes EXCEPT ![b] = 1]
    /\ SetPhase(s, b, "passed")
    /\ UNCHANGED now

\* The UPDATE names the row only: a caller that found the last window expired
\* starts the new one again, and forgets who passed in it meanwhile.
OpenBucket(s, b) ==
    /\ InPhase(s, b, "open")
    /\ bucket' = [bucket EXCEPT ![b] = FreshRow(s, b)]
    /\ passes' = [passes EXCEPT ![b] = IF Expired(b) THEN 1 ELSE @ + 1]
    /\ SetPhase(s, b, "passed")
    /\ UNCHANGED now

CountBucket(s, b) ==
    /\ InPhase(s, b, "count")
    /\ bucket' = [bucket EXCEPT ![b].count = @ + 1]
    /\ passes' = [passes EXCEPT ![b] = @ + 1]
    /\ SetPhase(s, b, "passed")
    /\ UNCHANGED now

\* A failing statement is swallowed: the message passes uncounted.
WriteFails(s, b) ==
    /\ Errors
    /\ \E p \in {"insert", "blind", "open", "count"} : InPhase(s, b, p)
    /\ SetPhase(s, b, "passed")
    /\ UNCHANGED <<bucket, now, passes>>

-----------------------------------------------------------------------------
Consumed(s) ==
    /\ check[s].pc = "consume"
    /\ \A b \in Buckets : check[s].phase[b] \in {"passed", "blocked"}
BlockedBy(s) == {b \in Buckets : check[s].phase[b] = "blocked"}
Continue(s, l) == check' = [check EXCEPT ![s].pc = l]

\* ALLOW; PACED_SEND and RATE_LIMIT sleep in the worker when the delay is
\* short, and are not decided again after it; otherwise the job throws.
Decide(s) ==
    /\ Consumed(s)
    /\ \/ BlockedBy(s) = {} /\ Continue(s, "send")
       \/ Continue(s, "sleep")
       \/ check' = [check EXCEPT ![s] = IdleCheck]
    /\ UNCHANGED <<bucket, now, passes>>

\* A rate-limited message sleeps past the windows that blocked it.
Wake(s) ==
    /\ check[s].pc = "sleep"
    /\ \A b \in BlockedBy(s) : Expired(b)
    /\ Continue(s, "send")
    /\ UNCHANGED <<bucket, now, passes>>

Leave(s) ==
    /\ check[s].pc = "send"
    /\ check' = [check EXCEPT ![s] = IdleCheck]
    /\ UNCHANGED <<bucket, now, passes>>

Tick ==
    /\ now < MaxTime
    /\ now' = now + 1
    /\ UNCHANGED <<bucket, check, passes>>

TrafficNext ==
    \/ \E s \in Senders :
         \/ Admitted(s) \/ Decide(s) \/ Wake(s) \/ Leave(s)
         \/ \E b \in Uses[s] :
              \/ ReadBucket(s, b) \/ ReadFails(s, b) \/ InsertBucket(s, b)
              \/ OpenBucket(s, b) \/ CountBucket(s, b) \/ WriteFails(s, b)
    \/ Tick

TrafficSpec == TrafficInit /\ [][TrafficNext]_trafficVars

-----------------------------------------------------------------------------
N == Cardinality(Senders)

\* consumeBucket reads the count and increments it in another statement: a
\* stored count exceeds its limit by less than the number of callers, however
\* they interleave and whichever statements fail.
CountBounded == \A b \in Buckets : bucket[b].count <= Limit[b] + N - 1

\* Callers that found the old window expired start the new one again and
\* forget its count, so a window lets through more than its limit: in the worst
\* case each caller opens it once, and the callers left then overrun the limit
\* together.  (Passes granted because a statement failed are not counted.)
WindowOverrun ==
    \A b \in Buckets : passes[b] <= N * Limit[b] + (N * (N - 1)) \div 2
=============================================================================
