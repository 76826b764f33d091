----------------------------- MODULE MCRetention ------------------------------
(***************************************************************************)
(* Small instances of the retention scheduler: two accounts, one of them   *)
(* with two instances, and a policy of each kind.                          *)
(***************************************************************************)
EXTENDS Retention

CONSTANTS own1, own2, in1, in2, in3

TwoAndOne == [i \in {in1, in2, in3} |-> IF i = in3 THEN own2 ELSE own1]

Policy(kind, acct, inst, days) ==
    [kind |-> kind, acct |-> acct, inst |-> inst, days |-> days]

OneOfEach ==
    {Policy("messages", own1, All, 1), Policy("logs", own1, in1, 0),
     Policy("webhooks", own2, All, 1), Policy("consent", own1, All, 0)}
=============================================================================
