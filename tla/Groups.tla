-------------------------------- MODULE Groups ---------------------------------
(***************************************************************************)
(* One WhatsApp group in server.ts: its copy in the database, which a sync *)
(* takes from the bridge in two calls, and its moderation.  Every post of a *)
(* participant's message that finds no row of it stores one and has it     *)
(* checked against the enabled rules by a call that nobody awaits, so that *)
(* handlers overlap with each other, with edits of the rules and with the  *)
(* actions of an administrator; two posts of one message that overlap are  *)
(* both stored and checked.                                                *)
(*                                                                         *)
(* What a rule matches (keyword, regex, link, media) is a set of kinds of  *)
(* message, and the window over which violations are counted is a flag of  *)
(* each event that is lowered at some time: on SQLite, which compares the  *)
(* dates as text, it may be down from the start.                           *)
(***************************************************************************)
EXTENDS Naturals, Sequences, FiniteSets

CONSTANTS
    People,        \* participants
    Letters,       \* messages, numbered as they come
    LetterKinds,         \* kinds of message
    Posts,         \* posts of messages by the bridge: a message may come again
    RuleForms,     \* what a rule may say: [matches, threshold, calls]
    MaxRules,      \* bound: rules ever created
    Syncs,         \* requests that synchronise or act on the group
    MaxEdits       \* bound: edits of rules, and changes made on a phone

VARIABLES
    members,      \* participants of the group in WhatsApp
    joined,       \* whether the instance is in the group
    copy,         \* the database's: number of participants, and their rows
    copying,      \* copying[s]: where request s is, and the list it was answered
    rules,        \* the rules, by id
    wrote,        \* wrote[l]: who wrote message l, and of which kind it is
    letterRows,   \* the messages that have a row
    checking,     \* checking[h]: the handler of post h
    counted,      \* group_moderation_events
    acts,         \* history: what the moderation did to whom, and why
    edits         \* bound

groupVars == <<members, joined, copy, copying, rules, wrote, letterRows, checking,
               counted, acts, edits>>

Deeds == {"warn", "delete", "remove"}
RuleIds == 1..MaxRules

\* What the actions of a rule call: warn, delete_message, remove_participant and
\* warn_and_remove, whose warning may be blank, and one that is none of them.
RuleCalls == {<<>>, <<"warn">>, <<"delete">>, <<"remove">>, <<"delete", "remove">>,
              <<"warn", "delete", "remove">>}
RuleForm == [matches : SUBSET LetterKinds, threshold : Nat \ {0}, calls : RuleCalls]
ASSUME GroupsAssumption == RuleForms \subseteq RuleForm /\ {MaxRules, MaxEdits} \subseteq Nat
                              /\ Letters = 1..Cardinality(Letters) /\ IsFiniteSet(Posts)
                              /\ People # {} /\ LetterKinds # {}

GroupCalls == {"create", "settings", "join", "leave", "add", "kick", "invite"}
Unchecked == [pc |-> "idle", letter |-> 0, todo |-> {}, rule |-> 0,
          left |-> <<>>, status |-> "logged"]

GroupsTypeOK ==
    /\ members \subseteq People /\ joined \in BOOLEAN
    /\ copy \in [count : 0..Cardinality(People), people : SUBSET People]
    /\ copying \in [Syncs -> [pc : {"idle", "list", "detail", "done"}, list : SUBSET People]]
    /\ \A i \in DOMAIN rules : rules[i].form \in RuleForms /\ rules[i].enabled \in BOOLEAN
    /\ DOMAIN rules \subseteq RuleIds
    /\ wrote \in [Letters -> [from : People, kind : LetterKinds]]
    /\ letterRows \subseteq Letters
    /\ \A h \in Posts :
         /\ checking[h].pc \in {"idle", "insert", "passed", "rules", "count", "act", "done"}
         /\ checking[h].letter \in Letters \cup {0}
         /\ checking[h].todo \subseteq RuleIds \X RuleForms
         /\ checking[h].status \in {"logged", "applied", "failed"}
    /\ \A e \in counted : e.rule \in RuleIds /\ e.who \in People /\ e.recent \in BOOLEAN
    /\ edits \in 0..MaxEdits

GroupsInit ==
    /\ members = People /\ joined = TRUE
    /\ copy = [count |-> 0, people |-> {}]
    /\ copying = [s \in Syncs |-> [pc |-> "idle", list |-> {}]]
    /\ rules = <<>>
    /\ wrote = [l \in Letters |-> [from |-> CHOOSE p \in People : TRUE,
                                   kind |-> CHOOSE k \in LetterKinds : TRUE]]
    /\ letterRows = {}
    /\ checking = [h \in Posts |-> Unchecked]
    /\ counted = {} /\ acts = {} /\ edits = 0

-----------------------------------------------------------------------------
(* The copy of the group.                                                  *)

Synced(s) == copying' = [copying EXCEPT ![s] = [pc |-> "done", list |-> {}]]
Lists(s) == copying' = [copying EXCEPT ![s].pc = "list"]

GroupSync(s) ==
    /\ copying[s].pc = "idle" /\ Lists(s)
    /\ UNCHANGED <<members, joined, copy, rules, wrote, letterRows, checking, counted, acts, edits>>

\* The bridge does what is asked, or refuses, or does it and its answer is lost.
\* An error ends the request; an invitation is stored and nothing synchronised.
\* The settings (name, topic, photo) are the bridge's alone, like another group.
GroupCall(s, ask) ==
    /\ copying[s].pc = "idle"
    /\ \/ Synced(s) /\ UNCHANGED <<members, joined>>
       \/ /\ CASE ask = "join" -> joined' = TRUE /\ UNCHANGED members
               [] ask = "leave" -> joined' = FALSE /\ UNCHANGED members
               [] ask = "add" -> UNCHANGED joined /\ \E p \in People : members' = members \cup {p}
               [] ask = "kick" -> UNCHANGED joined /\ \E p \in People : members' = members \ {p}
               [] OTHER -> UNCHANGED <<members, joined>>
          /\ Synced(s) \/ (ask # "invite" /\ Lists(s))
    /\ UNCHANGED <<copy, rules, wrote, letterRows, checking, counted, acts, edits>>

\* The bridge's list has the groups the instance is in.
ListGroups(s) ==
    /\ copying[s].pc = "list"
    /\ IF joined THEN copying' = [copying EXCEPT ![s].pc = "detail", ![s].list = members]
                 ELSE Synced(s)
    /\ UNCHANGED <<members, joined, copy, rules, wrote, letterRows, checking, counted, acts, edits>>
ListFails(s) ==
    /\ copying[s].pc = "list"
    /\ Synced(s)
    /\ UNCHANGED <<members, joined, copy, rules, wrote, letterRows, checking, counted, acts, edits>>

\* /groups/info of each, or what the list said when it fails or has nobody.  The
\* rows of participants are inserted and updated, never deleted.
UpsertGroup(s) ==
    /\ copying[s].pc = "detail"
    /\ \E now \in {members, copying[s].list} :
         copy' = [count |-> Cardinality(now), people |-> copy.people \cup now]
    /\ Synced(s)
    /\ UNCHANGED <<members, joined, rules, wrote, letterRows, checking, counted, acts, edits>>

\* Somebody joins or leaves by phone; the bridge's group event is not stored.
PhoneChanges ==
    /\ edits < MaxEdits /\ edits' = edits + 1
    /\ \E p \in People : members' \in {members \cup {p}, members \ {p}} \ {members}
    /\ UNCHANGED <<joined, copy, copying, rules, wrote, letterRows, checking, counted, acts>>

-----------------------------------------------------------------------------
(* The rules.                                                              *)

CreateRule ==
    /\ Len(rules) < MaxRules
    /\ \E f \in RuleForms, on \in BOOLEAN :
         rules' = Append(rules, [form |-> f, enabled |-> on, exists |-> TRUE])
    /\ UNCHANGED <<members, joined, copy, copying, wrote, letterRows, checking, counted, acts, edits>>

\* The events of a rule are counted on under what it has been changed to.
PatchRule(i) ==
    /\ edits < MaxEdits /\ edits' = edits + 1
    /\ rules[i].exists
    /\ \E f \in RuleForms, on \in BOOLEAN :
         rules' = [rules EXCEPT ![i].form = f, ![i].enabled = on]
    /\ UNCHANGED <<members, joined, copy, copying, wrote, letterRows, checking, counted, acts>>

DeleteRuleRow(i) ==
    /\ edits < MaxEdits /\ edits' = edits + 1
    /\ rules' = [rules EXCEPT ![i].exists = FALSE]
    /\ UNCHANGED <<members, joined, copy, copying, wrote, letterRows, checking, counted, acts>>

-----------------------------------------------------------------------------
(* A post of a message, and applyGroupModeration.                          *)

\* Its letter is kept as a history.
Ended(h) == [Unchecked EXCEPT !.pc = "done", !.letter = checking[h].letter]
Passed(l) == [Unchecked EXCEPT !.pc = "passed", !.letter = l]

\* A message that has a row goes no further.  Its participant was in the group
\* when it was written, not when it comes again.
PostLooks(h) ==
    /\ checking[h].pc = "idle"
    /\ \E l \in Letters :
         /\ \A k \in Letters : k < l => \E g \in Posts : checking[g].letter = k
         /\ IF \E g \in Posts : checking[g].letter = l THEN UNCHANGED wrote
            ELSE /\ joined
                 /\ \E p \in members, k \in LetterKinds :
                      wrote' = [wrote EXCEPT ![l] = [from |-> p, kind |-> k]]
         /\ checking' = [checking EXCEPT ![h] =
              IF l \in letterRows THEN Passed(l)
              ELSE [Unchecked EXCEPT !.pc = "insert", !.letter = l]]
    /\ UNCHANGED <<members, joined, copy, copying, rules, letterRows, counted, acts, edits>>

\* Nothing forbids a second row of one message.
InsertLetter(h) ==
    /\ checking[h].pc = "insert"
    /\ letterRows' = letterRows \cup {checking[h].letter}
    /\ checking' = [checking EXCEPT ![h].pc = "rules"]
    /\ UNCHANGED <<members, joined, copy, copying, rules, wrote, counted, acts, edits>>

\* The message, or its conversation, is deleted in the panel.
ForgetLetter(l) ==
    /\ edits < MaxEdits /\ edits' = edits + 1
    /\ l \in letterRows /\ letterRows' = letterRows \ {l}
    /\ UNCHANGED <<members, joined, copy, copying, rules, wrote, checking, counted, acts>>

\* moderationMatch, over the rules as they were read.
Matching(kind) ==
    {<<i, rules[i].form>> : i \in {j \in DOMAIN rules :
        rules[j].exists /\ rules[j].enabled /\ kind \in rules[j].form.matches}}

ReadRules(h) ==
    /\ checking[h].pc = "rules"
    /\ LET todo == Matching(wrote[checking[h].letter].kind)
       IN  checking' = [checking EXCEPT ![h] = IF todo = {} THEN Ended(h)
                          ELSE [@ EXCEPT !.pc = "count", !.todo = todo]]
    /\ UNCHANGED <<members, joined, copy, copying, rules, wrote, letterRows, counted, acts, edits>>

Writer(h) == wrote[checking[h].letter].from

\* The rule whose turn it is.
RuleTurn(h) == CHOOSE t \in checking[h].todo : \A u \in checking[h].todo : t[1] <= u[1]

\* Mutant: everybody's violations count.
RecentOfAll(p, i) == {e \in counted : e.rule = i /\ e.recent}

Recent(p, i) == {e \in counted : e.who = p /\ e.rule = i /\ e.recent}
Earlier(p, i) == Cardinality(Recent(p, i))

CountViolations(h) ==
    /\ checking[h].pc = "count"
    /\ LET t == RuleTurn(h)
           n == Earlier(Writer(h), t[1]) + 1
           reached == n >= t[2].threshold
       IN  checking' = [checking EXCEPT ![h].rule = t[1],
                                  ![h].left = IF reached THEN t[2].calls ELSE <<>>,
                                  ![h].status = IF reached THEN "applied" ELSE "logged",
                                  ![h].pc = "act"]
    /\ UNCHANGED <<members, joined, copy, copying, rules, wrote, letterRows, counted, acts, edits>>

\* The calls of a rule that is reached, one after the other.  One that fails, or
\* whose answer is lost, ends them.
Deed(h) ==
    /\ checking[h].pc = "act" /\ checking[h].left # <<>>
    /\ LET p == Writer(h)
           what == Head(checking[h].left)
           done == /\ acts' = acts \cup {[who |-> p, what |-> what, rule |-> checking[h].rule,
                                          letter |-> checking[h].letter, post |-> h,
                                          threshold |-> RuleTurn(h)[2].threshold]}
                   /\ members' = IF what = "remove" THEN members \ {p} ELSE members
           fails == checking' = [checking EXCEPT ![h].left = <<>>, ![h].status = "failed"]
       IN  \/ done /\ checking' = [checking EXCEPT ![h].left = Tail(@)]
           \/ done /\ fails
           \/ fails /\ UNCHANGED <<acts, members>>
    /\ UNCHANGED <<joined, copy, copying, rules, wrote, letterRows, counted, edits>>

Grave == {"delete", "remove"}
Heavy(form) == \E i \in DOMAIN form.calls : form.calls[i] \in Grave

\* The violation is stored only now, and counts from now on.  A message that was
\* deleted, or whose author was removed, is not checked further.
RecordViolation(h) ==
    /\ checking[h].pc = "act" /\ checking[h].left = <<>>
    /\ LET t == RuleTurn(h)
           stop == checking[h].status = "applied" /\ Heavy(t[2])
           rest == IF stop THEN {} ELSE checking[h].todo \ {t}
       IN  /\ \E now \in BOOLEAN :
                counted' = counted \cup {[who |-> Writer(h), rule |-> t[1], post |-> h,
                                          letter |-> checking[h].letter,
                                          recent |-> now, status |-> checking[h].status]}
           /\ checking' = [checking EXCEPT ![h] = IF rest = {} THEN Ended(h)
                ELSE [Unchecked EXCEPT !.pc = "count", !.letter = checking[h].letter,
                                       !.todo = rest]]
    /\ UNCHANGED <<members, joined, copy, copying, rules, wrote, letterRows, acts, edits>>

\* A statement fails, or the server ends: the rest is not done.
CheckDies(h) ==
    /\ checking[h].pc \in {"insert", "rules", "count", "act"}
    /\ checking' = [checking EXCEPT ![h] =
         IF checking[h].pc = "insert" THEN Passed(checking[h].letter) ELSE Ended(h)]
    /\ UNCHANGED <<members, joined, copy, copying, rules, wrote, letterRows, counted, acts, edits>>

\* The window moves on.
Elapses ==
    \E e \in counted :
      /\ e.recent
      /\ counted' = (counted \ {e}) \cup {[e EXCEPT !.recent = FALSE]}
      /\ UNCHANGED <<members, joined, copy, copying, rules, wrote, letterRows, checking, acts, edits>>

-----------------------------------------------------------------------------
CopyNext ==
    \/ \E s \in Syncs :
         \/ GroupSync(s) \/ \E ask \in GroupCalls : GroupCall(s, ask)
         \/ ListGroups(s) \/ ListFails(s) \/ UpsertGroup(s)
    \/ PhoneChanges
ModerationNext ==
    \/ CreateRule
    \/ \E i \in DOMAIN rules : PatchRule(i) \/ DeleteRuleRow(i)
    \/ \E h \in Posts :
         \/ PostLooks(h) \/ InsertLetter(h) \/ ReadRules(h) \/ CountViolations(h)
         \/ Deed(h) \/ RecordViolation(h) \/ CheckDies(h)
    \/ \E l \in Letters : ForgetLetter(l)
    \/ Elapses
GroupsNext == CopyNext \/ ModerationNext

GroupsSpec == GroupsInit /\ [][GroupsNext]_groupVars

-----------------------------------------------------------------------------
\* The messages that were stored, and so checked, by two posts: they overlapped
\* between the look and the insertion, or the row was deleted between them.
Took(h) == checking[h].pc \in {"rules", "count", "act", "done"}
Again == {l \in Letters : \E g, h \in Posts :
            g # h /\ Took(g) /\ Took(h) /\ checking[g].letter = l /\ checking[h].letter = l}

\* Handlers overlap and rules are edited under them, yet nobody is warned, has a
\* message deleted or is removed before as many of their own messages as the
\* rule's threshold have violated it, this one included; and a rule that deletes a
\* message or removes its author is the last that does anything about it, unless
\* its event says that one of its calls failed.  The exception is a message that
\* two posts stored: it is moderated by each, and counts twice.
RemovalDeserved ==
    /\ \A a \in acts :
         LET own == {e.letter : e \in {x \in counted : x.who = a.who /\ x.rule = a.rule}}
                       \cup {a.letter}
         IN  own \cap Again = {} => Cardinality(own) >= a.threshold
    /\ \A a, b \in acts :
         (a.letter = b.letter /\ a.letter \notin Again /\ a.what \in Grave /\ a.rule < b.rule)
           => \E e \in counted : e.letter = a.letter /\ e.rule = a.rule /\ e.status = "failed"
=============================================================================
