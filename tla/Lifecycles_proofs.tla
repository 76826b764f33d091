-------------------------- MODULE Lifecycles_proofs --------------------------
(***************************************************************************)
(* Proofs about SendChain, for any number of jobs, instances and deaths:   *)
(* its type, the order of the messages of an instance, the entries of the  *)
(* map, and the mutex it implements; about Accounts: an account that left  *)
(* its trial is not deleted; about Groups: what the moderation does to a   *)
(* participant is deserved; about RateLimit: how much passes in any        *)
(* stretch of time; and about Reputation: a block is deserved.             *)
(***************************************************************************)
EXTENDS SendChain, Accounts, Groups, RateLimit, Reputation, Sums_proofs, FiniteSetTheorems,
        SequenceTheorems, TLAPS

\* A call has a rank of its own once it was made, and none before.
Ranked ==
    /\ \A t \in Tasks : IF task[t].pc = "new" THEN task[t].rank = 0
                        ELSE task[t].rank \in 1 .. arrivals
    /\ \A t, u \in Tasks : task[t].pc # "new" /\ task[u].pc # "new"
                              /\ task[t].rank = task[u].rank => t = u

\* Whatever is in progress before a waiting task is its predecessor, or before it.
Linked ==
    \A t, u \in Tasks :
        task[t].pc = "waiting" /\ u \in Busy /\ Before(u, t) =>
            \E p \in Tasks : task[t].prev = p /\ (u = p \/ Before(u, p))

\* The map holds the latest task in progress of each instance.
Latest ==
    \A i \in Instances :
        /\ \A p \in Tasks : last[i] = p => p \in Busy /\ task[p].inst = i
        /\ \A u \in Busy : task[u].inst = i =>
              \E p \in Tasks : last[i] = p /\ (u = p \/ Before(u, p))

ChainInv == ChainTypeOK /\ Ranked /\ Linked /\ Latest /\ InOrder

LEMMA InitChainInv == ASSUME ChainInit PROVE ChainInv
<1>1. AnyInstance \in Instances BY ChainAssumption DEF AnyInstance, ChainAssumption
<1>2. ChainTypeOK BY <1>1 DEF ChainInit, ChainTypeOK, TaskRow
<1>3. /\ \A t \in Tasks : task[t].pc = "new" /\ task[t].rank = 0
      /\ \A i \in Instances : last[i] \notin Tasks
  BY ChainAssumption DEF ChainInit, ChainAssumption
<1>4. Busy = {} BY <1>3 DEF Busy
<1> QED BY <1>2, <1>3, <1>4 DEF ChainInv, Ranked, Linked, Latest, InOrder

LEMMA ArriveKeeps ==
    ASSUME ChainInv, NEW t \in Tasks, NEW i \in Instances, Arrive(t, i)
    PROVE  ChainInv'
<1>1. /\ task[t].pc = "new"
      /\ task' = [task EXCEPT ![t] = [pc |-> "waiting", inst |-> i,
                                      prev |-> last[i], rank |-> arrivals + 1]]
      /\ last' = [last EXCEPT ![i] = t] /\ arrivals' = arrivals + 1 /\ deaths' = deaths
  BY DEF Arrive
<1>2. /\ task \in [Tasks -> TaskRow] /\ last \in [Instances -> Tasks \cup {NoTask}]
      /\ arrivals \in Nat /\ deaths \in Nat
  BY DEF ChainInv, ChainTypeOK
<1>3. \A u \in Tasks : u # t => task'[u] = task[u] BY <1>1, <1>2
<1>4. /\ task'[t].pc = "waiting" /\ task'[t].inst = i /\ task'[t].prev = last[i]
      /\ task'[t].rank = arrivals + 1
  BY <1>1, <1>2
<1>5. ChainTypeOK'
  <2>1. [pc |-> "waiting", inst |-> i, prev |-> last[i], rank |-> arrivals + 1] \in TaskRow
    BY <1>2 DEF TaskRow
  <2> QED BY <2>1, <1>1, <1>2 DEF ChainTypeOK
<1>6. \A u \in Tasks : task[u].rank \in Nat /\ task[u].rank <= arrivals
  BY <1>2 DEF ChainInv, Ranked, TaskRow
<1>7. Ranked'
  BY <1>1, <1>2, <1>3, <1>4, <1>6 DEF ChainInv, Ranked
<1>8. /\ t \notin Busy /\ t \in Busy'
      /\ \A u \in Tasks : u # t => (u \in Busy' <=> u \in Busy)
  BY <1>1, <1>3, <1>4 DEF Busy
<1>9. \A u, v \in Tasks : u # t /\ v # t => (Before(u, v)' <=> Before(u, v))
  BY <1>3 DEF Before
<1>10. \A u \in Tasks : ~Before(t, u)'
  <2> SUFFICES ASSUME NEW u \in Tasks PROVE ~(task'[t].rank < task'[u].rank)
    BY DEF Before
  <2>1. task'[u].rank \in Nat /\ task'[u].rank <= arrivals + 1
    BY <1>2, <1>3, <1>4, <1>6
  <2> QED BY <2>1, <1>2, <1>4
<1>11. \A u \in Tasks : u # t /\ task[u].inst = i => Before(u, t)'
  BY <1>2, <1>3, <1>4, <1>6 DEF Before
<1>12. Linked'
  <2> SUFFICES ASSUME NEW w \in Tasks, NEW u \in Tasks,
                      task'[w].pc = "waiting", u \in Busy', Before(u, w)'
               PROVE  \E p \in Tasks : task'[w].prev = p /\ (u = p \/ Before(u, p)')
    BY DEF Linked
  <2>1. u # t /\ u \in Busy BY <1>8, <1>10
  <2>2. CASE w = t
    <3>1. task[u].inst = i BY <2>1, <2>2, <1>3, <1>4 DEF Before
    <3>2. PICK p \in Tasks : last[i] = p /\ (u = p \/ Before(u, p))
      BY <2>1, <3>1 DEF ChainInv, Latest
    <3>3. p # t BY <3>2, <1>8 DEF ChainInv, Latest
    <3> QED BY <3>2, <3>3, <2>1, <2>2, <1>4, <1>9
  <2>3. CASE w # t
    <3>1. task[w].pc = "waiting" /\ Before(u, w) /\ task'[w].prev = task[w].prev
      BY <2>1, <2>3, <1>3, <1>9
    <3>2. PICK p \in Tasks : task[w].prev = p /\ (u = p \/ Before(u, p))
      BY <3>1, <2>1 DEF ChainInv, Linked
    <3>3. p # t
      <4>1. task[t].rank = 0 BY <1>1 DEF ChainInv, Ranked
      <4> QED BY <3>2, <4>1, <2>1, <1>6 DEF Before
    <3> QED BY <3>1, <3>2, <3>3, <2>1, <1>9
  <2> QED BY <2>2, <2>3
<1>13. Latest'
  <2> SUFFICES ASSUME NEW k \in Instances
               PROVE  /\ \A p \in Tasks : last'[k] = p => p \in Busy' /\ task'[p].inst = k
                      /\ \A u \in Busy' : task'[u].inst = k =>
                            \E p \in Tasks : last'[k] = p /\ (u = p \/ Before(u, p)')
    BY DEF Latest
  <2>0. Busy' \subseteq Tasks BY DEF Busy
  <2>1. CASE k = i
    <3>1. last'[k] = t BY <2>1, <1>1, <1>2
    <3> QED BY <2>0, <2>1, <3>1, <1>3, <1>4, <1>8, <1>11
  <2>2. CASE k # i
    <3>1. last'[k] = last[k] BY <2>2, <1>1, <1>2
    <3>2. \A p \in Tasks : last[k] = p => p # t /\ p \in Busy /\ task[p].inst = k
      BY <1>8 DEF ChainInv, Latest
    <3>3. \A u \in Busy' : task'[u].inst = k => u \in Busy /\ u # t /\ task[u].inst = k
      BY <2>0, <2>2, <1>3, <1>4, <1>8
    <3>4. \A u \in Busy : task[u].inst = k =>
             \E p \in Tasks : last[k] = p /\ (u = p \/ Before(u, p))
      BY DEF ChainInv, Latest
    <3> QED BY <2>0, <3>1, <3>2, <3>3, <3>4, <1>3, <1>8, <1>9
  <2> QED BY <2>1, <2>2
<1>14. InOrder'
  <2> SUFFICES ASSUME NEW u \in Tasks, NEW w \in Tasks,
                      task'[u].pc \in {"waiting", "sending"}, Before(u, w)'
               PROVE  task'[w].pc = "waiting"
    BY DEF InOrder
  <2>1. CASE w = t BY <2>1, <1>4
  <2>2. CASE w # t BY <2>2, <1>3, <1>9, <1>10 DEF ChainInv, InOrder
  <2> QED BY <2>1, <2>2
<1> QED BY <1>5, <1>7, <1>12, <1>13, <1>14 DEF ChainInv

\* Nothing in progress comes before a task whose predecessor's chain resolved.
LEMMA HeadIsFirst ==
    ASSUME ChainInv, NEW t \in Tasks, task[t].pc = "waiting",
           ChainResolved(task[t].prev), NEW u \in Tasks, u \in Busy
    PROVE  ~Before(u, t)
<1> SUFFICES ASSUME Before(u, t) PROVE FALSE OBVIOUS
<1>1. PICK p \in Tasks : task[t].prev = p /\ (u = p \/ Before(u, p))
  BY DEF ChainInv, Linked
<1>2. task[p].pc = "over"
  BY <1>1, ChainAssumption DEF ChainResolved, ChainAssumption
<1>3. task[u].pc \in {"waiting", "sending"} BY DEF Busy
<1> QED BY <1>1, <1>2, <1>3 DEF ChainInv, InOrder

LEMMA BeginKeeps ==
    ASSUME ChainInv, NEW t \in Tasks, Begin(t)
    PROVE  ChainInv'
<1>1. /\ task[t].pc = "waiting" /\ ChainResolved(task[t].prev)
      /\ task' = [task EXCEPT ![t].pc = "sending"]
      /\ last' = last /\ arrivals' = arrivals /\ deaths' = deaths
  BY DEF Begin
<1>2. task \in [Tasks -> TaskRow] BY DEF ChainInv, ChainTypeOK
<1>3. \A u \in Tasks : /\ task'[u].inst = task[u].inst /\ task'[u].prev = task[u].prev
                       /\ task'[u].rank = task[u].rank
                       /\ u # t => task'[u].pc = task[u].pc
  BY <1>1, <1>2 DEF TaskRow
<1>4. task'[t].pc = "sending" BY <1>1, <1>2 DEF TaskRow
<1>5. ChainTypeOK' BY <1>1, <1>2 DEF ChainInv, ChainTypeOK, TaskRow
<1>6. Busy' = Busy BY <1>1, <1>3, <1>4 DEF Busy
<1>7. \A u, v \in Tasks : Before(u, v)' <=> Before(u, v) BY <1>3 DEF Before
<1>8. Ranked' BY <1>1, <1>3, <1>4 DEF ChainInv, Ranked
<1>9. Linked' BY <1>3, <1>4, <1>6, <1>7 DEF ChainInv, Linked, Busy
<1>10. Latest'
  <2>1. Busy \subseteq Tasks BY DEF Busy
  <2> QED BY <2>1, <1>1, <1>3, <1>6, <1>7 DEF ChainInv, Latest
<1>11. InOrder'
  <2> SUFFICES ASSUME NEW u \in Tasks, NEW w \in Tasks,
                      task'[u].pc \in {"waiting", "sending"}, Before(u, w)'
               PROVE  task'[w].pc = "waiting"
    BY DEF InOrder
  <2>1. u \in Busy /\ task[u].pc \in {"waiting", "sending"} BY <1>6 DEF Busy
  <2>2. w # t BY <2>1, <1>1, <1>7, HeadIsFirst
  <2> QED BY <2>1, <2>2, <1>3, <1>7 DEF ChainInv, InOrder
<1> QED BY <1>5, <1>8, <1>9, <1>10, <1>11 DEF ChainInv

\* A task that is sending is alone on its instance, except for waiting ones.
LEMMA SenderIsFirst ==
    ASSUME ChainInv, NEW t \in Tasks, task[t].pc = "sending",
           NEW u \in Tasks, u \in Busy, task[u].inst = task[t].inst, u # t
    PROVE  Before(t, u) /\ task[u].pc = "waiting"
<1>1. task \in [Tasks -> TaskRow] BY DEF ChainInv, ChainTypeOK
<1>2. task[u].pc # "new" /\ task[u].pc \in {"waiting", "sending"} BY DEF Busy
<1>3. task[u].rank # task[t].rank BY <1>2 DEF ChainInv, Ranked
<1>4. Before(t, u) \/ Before(u, t) BY <1>1, <1>3 DEF Before, TaskRow
<1> QED BY <1>2, <1>4 DEF ChainInv, InOrder

LEMMA FinishKeeps ==
    ASSUME ChainInv, NEW t \in Tasks, Finish(t)
    PROVE  ChainInv'
<1>1. /\ task[t].pc = "sending" /\ last' = Forgotten(t)
      /\ task' = [task EXCEPT ![t].pc = "over"]
      /\ arrivals' = arrivals /\ deaths' = deaths
  BY DEF Finish
<1>2. task \in [Tasks -> TaskRow] /\ last \in [Instances -> Tasks \cup {NoTask}]
  BY DEF ChainInv, ChainTypeOK
<1>3. \A u \in Tasks : /\ task'[u].inst = task[u].inst /\ task'[u].prev = task[u].prev
                       /\ task'[u].rank = task[u].rank
                       /\ u # t => task'[u].pc = task[u].pc
  BY <1>1, <1>2 DEF TaskRow
<1>4. task'[t].pc = "over" BY <1>1, <1>2 DEF TaskRow
<1>5. PICK i \in Instances : i = task[t].inst BY <1>2 DEF TaskRow
<1>6. last' = IF last[i] = t THEN [last EXCEPT ![i] = NoTask] ELSE last
  BY <1>1, <1>5 DEF Forgotten
<1>7. ChainTypeOK' BY <1>1, <1>2, <1>6 DEF ChainInv, ChainTypeOK, TaskRow
<1>8. Busy' = Busy \ {t} BY <1>1, <1>3, <1>4 DEF Busy
<1>9. \A u, v \in Tasks : Before(u, v)' <=> Before(u, v) BY <1>3 DEF Before
<1>10. Ranked' BY <1>1, <1>3, <1>4 DEF ChainInv, Ranked
<1>11. Linked' BY <1>3, <1>4, <1>8, <1>9 DEF ChainInv, Linked
<1>12. Busy \subseteq Tasks BY DEF Busy
<1>13. Latest'
  <2> SUFFICES ASSUME NEW k \in Instances
               PROVE  /\ \A p \in Tasks : last'[k] = p => p \in Busy' /\ task'[p].inst = k
                      /\ \A u \in Busy' : task'[u].inst = k =>
                            \E p \in Tasks : last'[k] = p /\ (u = p \/ Before(u, p)')
    BY DEF Latest
  <2>1. CASE last[i] = t /\ k = i
    <3>1. last'[k] = NoTask BY <2>1, <1>2, <1>6
    <3>2. last'[k] \notin Tasks BY <3>1, ChainAssumption DEF ChainAssumption
    <3>3. \A u \in Busy' : task'[u].inst # k
      <4> SUFFICES ASSUME NEW u \in Tasks, u \in Busy, u # t, task[u].inst = i PROVE FALSE
        BY <2>1, <1>3, <1>8, <1>12
      <4>1. Before(t, u) BY <1>1, <1>5, SenderIsFirst
      <4>2. Before(u, t) BY <2>1 DEF ChainInv, Latest
      <4> QED BY <4>1, <4>2, <1>2 DEF Before, TaskRow
    <3> QED BY <3>2, <3>3
  <2>2. CASE ~(last[i] = t /\ k = i)
    <3>1. last'[k] = last[k] BY <2>2, <1>2, <1>6
    <3>2. \A p \in Tasks : last[k] = p => p # t /\ p \in Busy /\ task[p].inst = k
      BY <2>2, <1>5 DEF ChainInv, Latest
    <3>3. \A u \in Busy : task[u].inst = k =>
             \E p \in Tasks : last[k] = p /\ (u = p \/ Before(u, p))
      BY DEF ChainInv, Latest
    <3> QED BY <3>1, <3>2, <3>3, <1>3, <1>8, <1>9, <1>12
  <2> QED BY <2>1, <2>2
<1>14. InOrder'
  <2> SUFFICES ASSUME NEW u \in Tasks, NEW w \in Tasks,
                      task'[u].pc \in {"waiting", "sending"}, Before(u, w)'
               PROVE  task'[w].pc = "waiting"
    BY DEF InOrder
  <2>1. u # t /\ task[u].pc \in {"waiting", "sending"} /\ Before(u, w)
    BY <1>3, <1>4, <1>9
  <2>2. task[w].pc = "waiting" BY <2>1 DEF ChainInv, InOrder
  <2> QED BY <2>2, <1>1, <1>3
<1> QED BY <1>7, <1>10, <1>11, <1>13, <1>14 DEF ChainInv

LEMMA CrashKeeps == ASSUME ChainInv, Crash PROVE ChainInv'
<1>1. /\ deaths' = deaths + 1 /\ arrivals' = arrivals
      /\ last' = [i \in Instances |-> NoTask]
      /\ task' = [t \in Tasks |-> IF t \in Busy THEN [task[t] EXCEPT !.pc = "over"]
                                  ELSE task[t]]
  BY DEF Crash
<1>2. task \in [Tasks -> TaskRow] /\ deaths \in Nat BY DEF ChainInv, ChainTypeOK
<1>3. \A u \in Tasks : /\ task'[u].rank = task[u].rank
                       /\ task'[u].pc = "new" <=> task[u].pc = "new"
                       /\ task'[u].pc \notin {"waiting", "sending"}
  BY <1>1, <1>2 DEF Busy, TaskRow
<1>4. ChainTypeOK' BY <1>1, <1>2 DEF ChainInv, ChainTypeOK, TaskRow
<1>5. Busy' = {} BY <1>3 DEF Busy
<1>6. Ranked' BY <1>1, <1>3 DEF ChainInv, Ranked
<1>7. Linked' /\ InOrder' BY <1>3 DEF Linked, InOrder
<1>8. Latest' BY <1>1, <1>5, ChainAssumption DEF Latest, ChainAssumption
<1> QED BY <1>4, <1>6, <1>7, <1>8 DEF ChainInv

LEMMA NextKeeps == ASSUME ChainInv, [ChainNext]_chainVars PROVE ChainInv'
<1>1. CASE UNCHANGED chainVars
  <2>1. last' = last /\ task' = task /\ arrivals' = arrivals /\ deaths' = deaths
    BY <1>1 DEF chainVars
  <2> QED BY <2>1 DEF ChainInv, ChainTypeOK, Ranked, Linked, Latest, InOrder, Before, Busy
<1>2. CASE ChainNext
  BY <1>2, ArriveKeeps, BeginKeeps, FinishKeeps, CrashKeeps DEF ChainNext
<1> QED BY <1>1, <1>2

-----------------------------------------------------------------------------
LEMMA ChainInvariant == ChainSpec => []ChainInv
<1>1. ChainInit => ChainInv BY InitChainInv
<1>2. ChainInv /\ [ChainNext]_chainVars => ChainInv' BY NextKeeps
<1> QED BY <1>1, <1>2, PTL DEF ChainSpec

\* The messages of an instance leave one after the other, in the order in
\* which the worker was handed their jobs (the await of message.worker.ts:305).
THEOREM MessagesInOrder == ChainSpec => []InOrder
<1>1. ChainInv => InOrder BY DEF ChainInv
<1> QED BY <1>1, ChainInvariant, PTL

\* The map of chains holds an entry exactly while its instance has work: the
\* conditional delete of message.worker.ts:311 neither leaks nor loses a chain.
THEOREM MapIsExact == ChainSpec => []EntryMeansWork
<1>1. ChainInv => EntryMeansWork
  <2> SUFFICES ASSUME ChainInv, NEW i \in Instances
               PROVE  last[i] = NoTask <=> \A t \in Busy : task[t].inst # i
    BY DEF EntryMeansWork
  <2>1. last[i] \in Tasks \cup {NoTask} BY DEF ChainInv, ChainTypeOK
  <2>2. last[i] \in Tasks => last[i] \in Busy /\ task[last[i]].inst = i
    BY DEF ChainInv, Latest
  <2>3. ASSUME NEW u \in Busy, task[u].inst = i PROVE last[i] \in Tasks
    BY <2>3 DEF ChainInv, Latest
  <2> QED BY <2>1, <2>2, <2>3, ChainAssumption DEF ChainAssumption
<1> QED BY <1>1, ChainInvariant, PTL

-----------------------------------------------------------------------------
LEMMA InitMapsToInit == ASSUME ChainInit PROVE Mutex!Init
<1>1. \A i \in Instances : Sending(i) = {} BY DEF ChainInit, Sending
<1> QED BY <1>1 DEF Mutex!Init

\* What the steps do to the set of senders of each instance.
LEMMA BeginMapsToEnter ==
    ASSUME ChainInv, NEW t \in Tasks, Begin(t)
    PROVE  \E i \in Instances : Mutex!Enter(i, t)
<1>1. /\ task[t].pc = "waiting" /\ ChainResolved(task[t].prev)
      /\ task' = [task EXCEPT ![t].pc = "sending"]
  BY DEF Begin
<1>2. task \in [Tasks -> TaskRow] BY DEF ChainInv, ChainTypeOK
<1>3. PICK i \in Instances : i = task[t].inst BY <1>2 DEF TaskRow
<1>4. \A u \in Tasks : /\ task'[u].inst = task[u].inst
                       /\ u # t => task'[u].pc = task[u].pc
  BY <1>1, <1>2 DEF TaskRow
<1>5. task'[t].pc = "sending" BY <1>1, <1>2 DEF TaskRow
<1>6. Sending(i) = {}
  <2> SUFFICES ASSUME NEW u \in Tasks, task[u].pc = "sending", task[u].inst = i
               PROVE  FALSE
    BY DEF Sending
  <2>1. u \in Busy /\ t \in Busy /\ u # t BY <1>1 DEF Busy
  <2>2. Before(u, t) BY <2>1, <1>3, SenderIsFirst
  <2> QED BY <2>1, <2>2, <1>1, HeadIsFirst
<1>7. Sending(i)' = {t} BY <1>3, <1>4, <1>5, <1>6 DEF Sending
<1>8. \A k \in Instances : k # i => Sending(k)' = Sending(k)
  BY <1>1, <1>3, <1>4 DEF Sending
<1> QED BY <1>6, <1>7, <1>8 DEF Mutex!Enter

LEMMA FinishMapsToLeave ==
    ASSUME ChainInv, NEW t \in Tasks, Finish(t)
    PROVE  \E i \in Instances : Mutex!Leave(i)
<1>1. /\ task[t].pc = "sending"
      /\ task' = [task EXCEPT ![t].pc = "over"]
  BY DEF Finish
<1>2. task \in [Tasks -> TaskRow] BY DEF ChainInv, ChainTypeOK
<1>3. PICK i \in Instances : i = task[t].inst BY <1>2 DEF TaskRow
<1>4. \A u \in Tasks : /\ task'[u].inst = task[u].inst
                       /\ u # t => task'[u].pc = task[u].pc
  BY <1>1, <1>2 DEF TaskRow
<1>5. task'[t].pc = "over" BY <1>1, <1>2 DEF TaskRow
<1>6. Sending(i)' = {}
  <2> SUFFICES ASSUME NEW u \in Tasks, task'[u].pc = "sending", task'[u].inst = i
               PROVE  FALSE
    BY DEF Sending
  <2>1. u # t /\ task[u].pc = "sending" /\ task[u].inst = i BY <1>4, <1>5
  <2>2. u \in Busy BY <2>1 DEF Busy
  <2> QED BY <2>1, <2>2, <1>1, <1>3, SenderIsFirst
<1>7. \A k \in Instances : k # i => Sending(k)' = Sending(k)
  BY <1>1, <1>3, <1>4, <1>5 DEF Sending
<1> QED BY <1>6, <1>7 DEF Mutex!Leave

LEMMA StepMapsToStep ==
    ASSUME ChainInv, [ChainNext]_chainVars
    PROVE  [Mutex!Next]_([i \in Instances |-> Sending(i)])
<1>1. CASE UNCHANGED chainVars BY <1>1 DEF chainVars, Sending
<1>2. ASSUME NEW t \in Tasks, NEW i \in Instances, Arrive(t, i)
      PROVE  UNCHANGED [k \in Instances |-> Sending(k)]
  <2>1. /\ task[t].pc = "new"
        /\ task' = [task EXCEPT ![t] = [pc |-> "waiting", inst |-> i,
                                        prev |-> last[i], rank |-> arrivals + 1]]
    BY <1>2 DEF Arrive
  <2>2. task \in [Tasks -> TaskRow] BY DEF ChainInv, ChainTypeOK
  <2>3. \A u \in Tasks : u # t => task'[u] = task[u] BY <2>1, <2>2
  <2>4. task'[t].pc = "waiting" BY <2>1, <2>2
  <2> QED BY <2>1, <2>3, <2>4 DEF Sending
<1>3. ASSUME Crash PROVE Mutex!Reset
  <2>1. task' = [t \in Tasks |-> IF t \in Busy THEN [task[t] EXCEPT !.pc = "over"]
                                 ELSE task[t]]
    BY <1>3 DEF Crash
  <2>2. task \in [Tasks -> TaskRow] BY DEF ChainInv, ChainTypeOK
  <2>3. \A t \in Tasks : task'[t].pc # "sending" BY <2>1, <2>2 DEF Busy, TaskRow
  <2> QED BY <2>3 DEF Mutex!Reset, Sending
<1> QED BY <1>1, <1>2, <1>3, BeginMapsToEnter, FinishMapsToLeave DEF ChainNext, Mutex!Next

\* sendMessagePerInstance is a mutex for each instance: no overlap of arrivals,
\* completions, failures and deaths lets two messages out together.
THEOREM ChainImplementsMutex == ChainSpec => ImplementsMutex
<1>1. ChainInit => Mutex!Init BY InitMapsToInit
<1>2. ChainInv /\ [ChainNext]_chainVars => [Mutex!Next]_([i \in Instances |-> Sending(i)])
  BY StepMapsToStep
<1> QED BY <1>1, <1>2, ChainInvariant, PTL DEF ChainSpec, Mutex!Spec, ImplementsMutex

-----------------------------------------------------------------------------
(* Trials: an account that left its trial with no sweep at work on it is    *)
(* an ordinary account, and no sweep ever has it on its list.               *)

Spared(a) ==
    /\ acct[a].status \notin {"trial", "absent", "deleted"}
    /\ \A w \in Cleanups : a \notin sweep[w]
UpgradeInv ==
    /\ acct \in [Accts -> AcctRow]
    /\ sweep \in [Cleanups -> SUBSET Accts]
    /\ left \in [Accts -> {"no", "clean", "raced"}]
    /\ \A h \in Handlers :
         handler[h].for \in {"edit", "upgrade"} => handler[h].status \in Editable
    /\ \A a \in Accts : left[a] = "clean" => Spared(a)

\* A statement about account a that takes it off its trial, or leaves it as it
\* was, and that no handler and no sweep sees.
LEMMA AccountMoves ==
    ASSUME UpgradeInv, NEW a, acct' \in [Accts -> AcctRow],
           \A b \in Accts : b # a => acct'[b] = acct[b],
           a \in Accts => \/ acct'[a].status \in Editable \ {"trial"}
                          \/ acct'[a].status = acct[a].status,
           a \in Accts /\ ~Live(a) => acct'[a].status = acct[a].status,
           a \in Accts /\ acct'[a].status = "trial" => UNCHANGED left,
           Leaves(a) \/ UNCHANGED left, UNCHANGED sweep,
           \A h \in Handlers : handler'[h].for \in {"edit", "upgrade"}
                                  => handler'[h].status \in Editable
    PROVE  UpgradeInv'
<1>1. left' \in [Accts -> {"no", "clean", "raced"}]
    BY DEF UpgradeInv, Leaves
<1>2. ASSUME NEW b \in Accts, left'[b] = "clean" PROVE Spared(b)'
    <2>1. CASE b # a
        BY <1>2, <2>1 DEF UpgradeInv, Leaves, Spared
    <2>2. CASE b = a /\ left[a] = "clean"
        BY <2>2 DEF UpgradeInv, Spared, Editable
    <2>3. CASE b = a /\ left[a] # "clean"
        <3>1. /\ Live(a) /\ acct[a].status = "trial"
              /\ \A w \in Cleanups : a \notin sweep[w]
              /\ left' # left
            BY <1>2, <2>3 DEF UpgradeInv, Leaves
        <3> QED BY <2>3, <3>1 DEF Spared, Editable
    <2> QED BY <2>1, <2>2, <2>3
<1> QED BY <1>1, <1>2 DEF UpgradeInv

\* The row that an edit of the administrator writes.
AdminRow(h, a, status) ==
    [acct[a] EXCEPT
        !.status = status,
        !.billing = IF handler[h].for = "upgrade" /\ @ = "trial" THEN "active" ELSE @,
        !.ends = IF handler[h].for = "upgrade" /\ acct[a].status = "trial" THEN "none" ELSE @,
        !.blockedAt = @ \/ status = "blocked"]

LEMMA AccountsStep == UpgradeInv /\ [AccountsNext]_accountsVars => UpgradeInv'
<1> SUFFICES ASSUME UpgradeInv, [AccountsNext]_accountsVars PROVE UpgradeInv'
    OBVIOUS
<1>t. /\ acct \in [Accts -> AcctRow]
      /\ sweep \in [Cleanups -> SUBSET Accts]
      /\ left \in [Accts -> {"no", "clean", "raced"}]
    BY DEF UpgradeInv
<1>e. EndedTrials \subseteq Accts /\ \A a \in EndedTrials : acct[a].status = "trial"
    BY DEF EndedTrials
\* Handlers that read an account, and those that are done.
<1>r. ASSUME NEW h \in Handlers, NEW what, NEW a \in Accts, Live(a), Reads(h, what, a),
             UNCHANGED <<acct, sweep, left>>
      PROVE  UpgradeInv'
    <2>1. \A g \in Handlers : handler'[g].for \in {"edit", "upgrade"} => handler'[g].status \in Editable
        BY <1>r, <1>t DEF UpgradeInv, Reads, Live, Editable, AcctRow
    <2> QED BY <1>r, <2>1 DEF UpgradeInv, Spared
<1>d. ASSUME NEW h \in Handlers, Done(h)
      PROVE  \A g \in Handlers :
                handler'[g].for \in {"edit", "upgrade"} => handler'[g].status \in Editable
    BY <1>d DEF UpgradeInv, Done, Nothing
\* Steps of the sweep: the list of w becomes a part of what it was, or the
\* trials that are over now.
<1>w. ASSUME NEW w \in Cleanups, NEW new \in SUBSET Accts, new \subseteq sweep[w] \/ new \subseteq EndedTrials,
             sweep' = [sweep EXCEPT ![w] = new], UNCHANGED <<acct, handler, left>>
      PROVE  UpgradeInv'
    <2>1. sweep' \in [Cleanups -> SUBSET Accts]
        BY <1>w, <1>t
    <2>2. ASSUME NEW a \in Accts, left[a] = "clean" PROVE Spared(a)'
        BY <1>w, <1>e, <1>t, <2>2 DEF UpgradeInv, Spared
    <2> QED BY <1>w, <2>1, <2>2 DEF UpgradeInv
<1>1. ASSUME NEW a \in Accts, TrialBegins(a) PROVE UpgradeInv'
    <2>1. acct[a].status = "absent" /\ UNCHANGED <<sweep, left, handler>>
        BY <1>1 DEF TrialBegins
    <2>2. acct' \in [Accts -> AcctRow]
        BY <1>1, <1>t DEF TrialBegins, NoAccount, AcctRow, AcctStatus
    <2>3. left[a] # "clean"
        BY <2>1 DEF UpgradeInv, Spared
    <2>4. \A b \in Accts : b # a => acct'[b] = acct[b]
        BY <1>1, <1>t DEF TrialBegins
    <2> QED BY <2>1, <2>2, <2>3, <2>4 DEF UpgradeInv, Spared
<1>2. ASSUME NEW a \in Accts, TrialEnds(a) PROVE UpgradeInv'
    <2>1. acct' \in [Accts -> AcctRow] /\ \A b \in Accts : acct'[b].status = acct[b].status
        BY <1>2, <1>t DEF TrialEnds, AcctRow
    <2>2. UNCHANGED <<sweep, left, handler>>
        BY <1>2 DEF TrialEnds
    <2> QED BY <2>1, <2>2 DEF UpgradeInv, Spared
<1>3. ASSUME NEW a \in Accts, MarkExpired(a) PROVE UpgradeInv'
    <2>1. /\ acct' \in [Accts -> AcctRow]
          /\ \A b \in Accts : b # a => acct'[b] = acct[b]
          /\ acct'[a].status = IF Live(a) THEN "expired" ELSE acct[a].status
        <3> DEFINE new == [acct[a] EXCEPT !.status = "expired", !.billing = "expired"]
        <3>1. new \in AcctRow /\ new.status = "expired"
            <4>1. acct[a] \in AcctRow
                BY <1>t
            <4> QED BY <4>1 DEF AcctRow, AcctStatus
        <3>2. acct' = [acct EXCEPT ![a] = IF Live(a) THEN new ELSE @]
            BY <1>3 DEF MarkExpired, Update
        <3> HIDE DEF new
        <3> QED BY <3>1, <3>2, <1>t
    <2>2. UNCHANGED <<sweep, left, handler>>
        BY <1>3 DEF MarkExpired
    <2>3. ASSUME NEW b \in Accts, left[b] = "clean" PROVE Spared(b)'
        BY <2>1, <2>2, <2>3 DEF UpgradeInv, Spared
    <2> QED BY <2>1, <2>2, <2>3 DEF UpgradeInv
<1>4. ASSUME NEW a \in Accts, Checkout(a) PROVE UpgradeInv'
    <2>1. /\ acct' \in [Accts -> AcctRow]
          /\ \A b \in Accts : b # a => acct'[b] = acct[b]
          /\ acct'[a].status = "active"
        <3> DEFINE new == [acct[a] EXCEPT !.billing = "active", !.sub = TRUE, !.status = "active"]
        <3>1. new \in AcctRow /\ new.status = "active"
            <4>1. acct[a] \in AcctRow
                BY <1>t
            <4> QED BY <4>1 DEF AcctRow, AcctStatus
        <3>2. acct' = [acct EXCEPT ![a] = new]
            BY <1>4, <1>t DEF Checkout, AcctRow
        <3> HIDE DEF new
        <3> QED BY <3>1, <3>2, <1>t
    <2>2. Live(a) /\ Leaves(a) /\ UNCHANGED <<sweep, handler>>
        BY <1>4 DEF Checkout
    <2>3. "active" \in Editable \ {"trial"}
        BY DEF Editable, AcctStatus
    <2> QED BY <2>1, <2>2, <2>3, AccountMoves DEF UpgradeInv
<1>5. ASSUME NEW a \in Accts, PlanChanges(a) PROVE UpgradeInv'
    <2>1. /\ acct' \in [Accts -> AcctRow]
          /\ \A b \in Accts : b # a => acct'[b] = acct[b]
          /\ acct'[a].status = IF acct[a].status = "trial" THEN "active" ELSE acct[a].status
        <3>1. PICK status \in AcctStatus, ends \in {"none", "running", "over"},
                   billing \in {"none", "trial", "active", "past_due", "cancelled", "expired"} :
                /\ status = IF acct[a].status = "trial" THEN "active" ELSE acct[a].status
                /\ ends = IF acct[a].status = "trial" THEN "none" ELSE acct[a].ends
                /\ billing = IF acct[a].billing = "trial" THEN "active" ELSE acct[a].billing
            BY <1>t DEF AcctRow, AcctStatus
        <3> DEFINE new == [acct[a] EXCEPT !.status = status, !.billing = billing, !.ends = ends]
        <3>2. new \in AcctRow /\ new.status = status
            <4>1. acct[a] \in AcctRow
                BY <1>t
            <4> QED BY <4>1 DEF AcctRow
        <3>3. acct' = [acct EXCEPT ![a].status = status, ![a].billing = billing, ![a].ends = ends]
            BY <1>5, <1>t, <3>1 DEF PlanChanges, AcctRow
        <3>4. acct' = [acct EXCEPT ![a] = new]
            BY <3>3, <1>t DEF AcctRow
        <3> HIDE DEF new
        <3> QED BY <3>1, <3>2, <3>4, <1>t
    <2>2. Live(a) /\ Leaves(a) /\ UNCHANGED <<sweep, handler>>
        BY <1>5 DEF PlanChanges
    <2>3. "active" \in Editable \ {"trial"}
        BY DEF Editable, AcctStatus
    <2> QED BY <2>1, <2>2, <2>3, AccountMoves DEF UpgradeInv
<1>6. ASSUME NEW a \in Accts, NEW w \in Cleanups, DeleteAccount(w, a) PROVE UpgradeInv'
    <2>1. left[a] # "clean"
        BY <1>6 DEF DeleteAccount, UpgradeInv, Spared
    <2>2. /\ acct' \in [Accts -> AcctRow]
          /\ \A b \in Accts : b # a => acct'[b] = acct[b]
          /\ sweep' \in [Cleanups -> SUBSET Accts]
          /\ \A v \in Cleanups : sweep'[v] \subseteq sweep[v]
          /\ UNCHANGED <<handler, left>>
        BY <1>6, <1>t DEF DeleteAccount, NoAccount, AcctRow, AcctStatus
    <2>3. ASSUME NEW b \in Accts, left[b] = "clean" PROVE Spared(b)'
        BY <2>1, <2>2, <2>3 DEF UpgradeInv, Spared
    <2> QED BY <2>2, <2>3 DEF UpgradeInv
<1>7. ASSUME NEW w \in Cleanups, SelectEnded(w) \/ SweepFails(w) PROVE UpgradeInv'
    BY <1>7, <1>w, <1>e DEF SelectEnded, SweepFails
<1>8. ASSUME NEW h \in Handlers, RequestBlocks(h) \/ StripeLooksUp(h) \/ AdminReads(h)
      PROVE  UpgradeInv'
    BY <1>8, <1>r DEF RequestBlocks, StripeLooksUp, AdminReads, CanOperate, Live
<1>9. ASSUME NEW h \in Handlers, Block(h) PROVE UpgradeInv'
    <2> DEFINE a == handler[h].who
    <2>1. /\ acct' = [acct EXCEPT ![a] = IF Live(a) THEN [acct[a] EXCEPT !.status = "blocked"] ELSE @]
          /\ Leaves(a) /\ Done(h) /\ UNCHANGED sweep
        BY <1>9 DEF Block, Update
    <2> HIDE DEF a
    <2>2. /\ acct' \in [Accts -> AcctRow]
          /\ \A b \in Accts : b # a => acct'[b] = acct[b]
          /\ a \in Accts => acct'[a].status = IF Live(a) THEN "blocked" ELSE acct[a].status
        <3>1. PICK row : row = IF Live(a) THEN [acct[a] EXCEPT !.status = "blocked"] ELSE acct[a]
            OBVIOUS
        <3>2. acct' = [acct EXCEPT ![a] = row]
            BY <2>1, <3>1
        <3>3. ASSUME a \in Accts
              PROVE  row \in AcctRow /\ row.status = IF Live(a) THEN "blocked" ELSE acct[a].status
            <4>1. acct[a] \in AcctRow
                BY <1>t, <3>3
            <4>2. CASE Live(a)
                BY <3>1, <4>1, <4>2 DEF AcctRow, AcctStatus
            <4>3. CASE ~Live(a)
                BY <3>1, <4>1, <4>3
            <4> QED BY <4>2, <4>3
        <3> QED BY <1>t, <3>2, <3>3
    <2>3. "blocked" \in Editable \ {"trial"}
        BY DEF Editable, AcctStatus
    <2> QED BY <2>1, <2>2, <2>3, <1>d, AccountMoves DEF Live
<1>10. ASSUME NEW h \in Handlers, StripeWrites(h) PROVE UpgradeInv'
    <2> DEFINE e == handler[h].for
    <2>1. PICK a : a = handler[h].who
        OBVIOUS
    <2>2. Done(h) /\ UNCHANGED sweep
        BY <1>10 DEF StripeWrites
    <2>3. CASE UNCHANGED <<acct, left>>
        BY <2>2, <2>3, <1>d DEF UpgradeInv, Spared
    <2>4. CASE /\ Update(a, StripeRow(e, acct[a]))
               /\ IF e = "failed" THEN UNCHANGED left ELSE Leaves(a)
        <3>1. e \in {"paid", "failed", "updated", "unpaid", "ended"}
            BY <1>10 DEF StripeWrites
        <3>2. ASSUME NEW row \in AcctRow
              PROVE  /\ StripeRow(e, row) \in AcctRow
                     /\ e = "failed" => StripeRow(e, row).status = row.status
                     /\ e # "failed" => StripeRow(e, row).status \in {"active", "expired", "cancelled"}
            <4> HIDE DEF e
            <4>1. CASE e \in {"paid", "updated"}
                BY <4>1 DEF StripeRow, AcctRow, AcctStatus
            <4>2. CASE e = "failed"
                BY <4>2 DEF StripeRow, AcctRow, AcctStatus
            <4>3. CASE e = "unpaid"
                BY <4>3 DEF StripeRow, AcctRow, AcctStatus
            <4>4. CASE e = "ended"
                BY <4>4 DEF StripeRow, AcctRow, AcctStatus
            <4> QED BY <3>1, <4>1, <4>2, <4>3, <4>4
        <3>3. /\ acct' \in [Accts -> AcctRow]
              /\ \A b \in Accts : b # a => acct'[b] = acct[b]
              /\ a \in Accts => acct'[a].status = IF Live(a) THEN StripeRow(e, acct[a]).status
                                                  ELSE acct[a].status
            <4> HIDE DEF e
            <4> QED BY <2>4, <3>2, <1>t DEF Update
        <3>4. {"active", "expired", "cancelled"} \subseteq Editable \ {"trial"}
            BY DEF Editable, AcctStatus
        <3>5. a \in Accts => acct[a] \in AcctRow
            BY <1>t
        <3>6. CASE e = "failed"
            <4>1. UNCHANGED left
                BY <2>4, <3>6
            <4>2. a \in Accts => acct'[a].status = acct[a].status
                BY <3>2, <3>3, <3>5, <3>6
            <4> HIDE DEF e
            <4> QED BY <4>1, <4>2, <2>2, <3>3, <1>d, AccountMoves
        <3>7. CASE e # "failed"
            <4>1. Leaves(a)
                BY <2>4, <3>7
            <4>2. a \in Accts /\ Live(a) => acct'[a].status \in Editable \ {"trial"}
                BY <3>2, <3>3, <3>4, <3>5, <3>7
            <4> HIDE DEF e
            <4> QED BY <4>1, <4>2, <2>2, <3>3, <1>d, AccountMoves DEF Live
        <3> QED BY <3>6, <3>7
    <2> QED BY <1>10, <2>1, <2>3, <2>4 DEF StripeWrites
<1>11. ASSUME NEW h \in Handlers, AdminWrites(h) PROVE UpgradeInv'
    <2>1. PICK a : a = handler[h].who
        OBVIOUS
    <2>2. Done(h) /\ UNCHANGED sweep /\ handler[h].status \in Editable
        BY <1>11 DEF AdminWrites, UpgradeInv
    <2>3. PICK status \in Editable :
            /\ Update(a, AdminRow(h, a, status))
            /\ IF ~Live(a) THEN UNCHANGED left
               ELSE IF status = "trial" THEN Returns(a) ELSE Leaves(a)
        <3>1. "active" \in Editable
            BY DEF Editable, AcctStatus
        <3> DEFINE what(status) ==
                /\ Update(a, AdminRow(h, a, status))
                /\ IF ~Live(a) THEN UNCHANGED left
                   ELSE IF status = "trial" THEN Returns(a) ELSE Leaves(a)
        <3>2. PICK s \in {handler[h].status}
                         \cup (IF handler[h].for = "upgrade" THEN {} ELSE Editable) :
                what(IF handler[h].for = "upgrade" /\ handler[h].status = "trial"
                     THEN "active" ELSE s)
            BY <1>11, <2>1 DEF AdminWrites, AdminRow
        <3>3. s \in Editable
            BY <2>2, <3>2
        <3> HIDE DEF what
        <3>4. \E status \in Editable : what(status)
            BY <3>1, <3>2, <3>3
        <3> QED BY <3>4 DEF what
    <2> DEFINE row == AdminRow(h, a, status)
    <2>4. a \in Accts => row \in AcctRow /\ row.status = status
        <3>1. SUFFICES ASSUME a \in Accts PROVE row \in AcctRow /\ row.status = status
            OBVIOUS
        <3>2. PICK old \in AcctRow : old = acct[a]
            BY <3>1, <1>t
        <3>3. PICK billing \in {"none", "trial", "active", "past_due", "cancelled", "expired"},
                   ends \in {"none", "running", "over"}, at \in BOOLEAN :
                row = [old EXCEPT !.status = status, !.billing = billing, !.ends = ends,
                                  !.blockedAt = at]
            <4>1. /\ old.billing \in {"none", "trial", "active", "past_due", "cancelled", "expired"}
                  /\ old.ends \in {"none", "running", "over"}
                  /\ (old.blockedAt \/ status = "blocked") \in BOOLEAN
                BY DEF AcctRow
            <4> QED BY <3>2, <4>1 DEF AdminRow
        <3>4. status \in AcctStatus
            BY DEF Editable
        <3> QED BY <3>3, <3>4 DEF AcctRow
    <2> HIDE DEF row
    <2>5. /\ acct' \in [Accts -> AcctRow]
          /\ \A b \in Accts : b # a => acct'[b] = acct[b]
          /\ a \in Accts => acct'[a].status = IF Live(a) THEN status ELSE acct[a].status
        <3>1. Update(a, row)
            BY <2>3 DEF row
        <3> QED BY <2>4, <3>1, <1>t DEF Update
    <2>6. CASE ~Live(a)
        BY <2>2, <2>3, <2>5, <2>6, <1>d, AccountMoves
    <2>7. CASE Live(a) /\ status # "trial"
        BY <2>2, <2>3, <2>5, <2>7, <1>d, AccountMoves
    <2>8. CASE Live(a) /\ status = "trial"
        <3>1. left' \in [Accts -> {"no", "clean", "raced"}]
            BY <2>3, <2>8, <1>t DEF Returns
        <3>2. ASSUME NEW b \in Accts, left'[b] = "clean" PROVE Spared(b)'
            <4>1. b # a
                BY <2>3, <2>8, <3>2, <1>t DEF Returns, UpgradeInv, Spared
            <4>2. left[b] = "clean"
                BY <2>3, <2>8, <3>2, <4>1, <1>t DEF Returns
            <4> QED BY <2>2, <2>5, <4>1, <4>2 DEF UpgradeInv, Spared
        <3> QED BY <2>2, <2>5, <3>1, <3>2, <1>d DEF UpgradeInv
    <2> QED BY <2>6, <2>7, <2>8
<1>12. CASE Boot
    <2>1. UNCHANGED <<acct, left>> /\ handler' = [h \in Handlers |-> Nothing]
        BY <1>12 DEF Boot
    <2>2. /\ sweep' \in [Cleanups -> SUBSET Accts]
          /\ \A v \in Cleanups : sweep'[v] \subseteq EndedTrials
        BY <1>12, <1>e DEF Boot
    <2>3. \A g \in Handlers : handler'[g].for = "idle"
        BY <2>1 DEF Nothing
    <2>4. ASSUME NEW a \in Accts, left[a] = "clean" PROVE Spared(a)'
        <3>1. acct[a].status \notin {"trial", "absent", "deleted"}
            BY <2>4 DEF UpgradeInv, Spared
        <3> QED BY <2>1, <2>2, <3>1, <1>e DEF Spared
    <2> QED BY <2>1, <2>2, <2>3, <2>4 DEF UpgradeInv
<1>13. CASE MarkFails \/ UNCHANGED accountsVars
    BY <1>13 DEF MarkFails, accountsVars, UpgradeInv, Spared
<1> QED BY <1>1, <1>2, <1>3, <1>4, <1>5, <1>6, <1>7, <1>8, <1>9, <1>10, <1>11, <1>12, <1>13
        DEF AccountsNext

\* An account that was upgraded with no sweep at work on it is never deleted by
\* one, for any number of accounts, sweeps and requests.
THEOREM UpgradesKept == AccountsSpec => []UpgradedKept
<1>1. AccountsInit => UpgradeInv
    <2> SUFFICES ASSUME AccountsInit PROVE UpgradeInv
        OBVIOUS
    <2>1. NoAccount \in AcctRow
        BY DEF NoAccount, AcctRow, AcctStatus
    <2>2. \A h \in Handlers : handler[h].for = "idle"
        BY DEF AccountsInit, Nothing
    <2> QED BY <2>1, <2>2 DEF AccountsInit, UpgradeInv
<1>2. UpgradeInv => UpgradedKept
    BY DEF UpgradeInv, UpgradedKept, Spared
<1> QED BY <1>1, <1>2, AccountsStep, PTL DEF AccountsSpec

-----------------------------------------------------------------------------
(* Moderation: each post has one event for each rule its message was counted *)
(* under, so that the events counted for a participant are of as many posts, *)
(* and of as many messages where no message was stored by two posts; and the *)
(* rules still to be looked at come after those that were.                   *)

LEMMA HasLeast ==
    ASSUME NEW T \in SUBSET Nat, T # {}
    PROVE  \E x \in T : \A y \in T : x <= y
  <1> SUFFICES ASSUME \A x \in T : \E y \in T : y < x PROVE FALSE
    OBVIOUS
  <1>1. PICK n \in T : TRUE
    OBVIOUS
  <1> DEFINE U == {k \in 0..n : \A y \in T : k < y}
  <1>2. 0 \in U
    OBVIOUS
  <1>3. ASSUME NEW k \in U, k < n PROVE k + 1 \in U
    <2>1. \A y \in T : k + 1 <= y
      BY <1>3
    <2>2. k + 1 \notin T
      BY <2>1
    <2> QED BY <1>3, <2>1, <2>2
  <1>4. n \in U
    BY <1>1, <1>2, <1>3, UpTo
  <1> QED BY <1>1, <1>4

\* The events of a participant and a rule, their posts, and their messages.
Violating(p, i) == {e \in counted : e.who = p /\ e.rule = i}
PostsOf(p, i) == {e.post : e \in Violating(p, i)}

CheckRow == [pc : {"idle", "insert", "passed", "rules", "count", "act", "done"},
             letter : Letters \cup {0},
             todo : SUBSET (RuleIds \X RuleForms), rule : RuleIds \cup {0},
             left : Seq(Deeds), status : {"logged", "applied", "failed"}]
EventRow == [who : People, rule : RuleIds, post : Posts, letter : Letters,
             recent : BOOLEAN, status : {"logged", "applied", "failed"}]
DeedRow == [who : People, what : Deeds, rule : RuleIds, post : Posts, letter : Letters,
            threshold : Nat]

Turning(h) == checking[h].pc \in {"count", "act"}
DeedOf(h, what) == [who |-> Writer(h), what |-> what, rule |-> checking[h].rule,
                    letter |-> checking[h].letter, post |-> h,
                    threshold |-> RuleTurn(h)[2].threshold]
ActsOf(h) == {a \in acts : a.post = h}
Excused(c, h, i) == \E e \in c : e.post = h /\ e.rule = i /\ e.status = "failed"

\* The letters of what was counted or done are those of the posts that stored them.
Taken == {"rules", "count", "act", "done"}
Signed(c, x) == c[x.post].pc \in Taken /\ c[x.post].letter = x.letter

CheckTrue(h) ==
    /\ checking[h].pc # "idle" => checking[h].letter \in Letters
    /\ \A t, u \in checking[h].todo : t[1] = u[1] => t = u
    /\ Turning(h) => checking[h].todo # {}
    /\ Turning(h) => \A t \in checking[h].todo : \A e \in counted : e.post = h => e.rule # t[1]
    /\ checking[h].pc \in {"idle", "insert", "rules"} =>
         \A e \in counted : e.post # h
    /\ checking[h].pc = "act" =>
         /\ checking[h].rule = RuleTurn(h)[1]
         /\ \A n \in DOMAIN checking[h].left :
              checking[h].left[n] \in Grave => Heavy(RuleTurn(h)[2])
         /\ checking[h].left # <<>> =>
              /\ checking[h].status = "applied"
              /\ Cardinality(PostsOf(Writer(h), checking[h].rule) \cup {h})
                    >= RuleTurn(h)[2].threshold

ActsTrue(h) ==
    /\ checking[h].pc \in {"idle", "insert", "rules"} => ActsOf(h) = {}
    /\ checking[h].pc = "count" =>
         \A a \in ActsOf(h) : /\ \A t \in checking[h].todo : a.rule < t[1]
                              /\ a.what \in Grave => Excused(counted, h, a.rule)
    /\ checking[h].pc = "act" =>
         \A a \in ActsOf(h) :
            /\ a.rule <= checking[h].rule
            /\ a.what \in Grave =>
                 \/ Excused(counted, h, a.rule)
                 \/ /\ a.rule = checking[h].rule /\ checking[h].status # "logged"
                    /\ Heavy(RuleTurn(h)[2])
    /\ \A a, b \in ActsOf(h) : (a.what \in Grave /\ a.rule < b.rule) => Excused(counted, h, a.rule)

RuleRow == [form : RuleForms, enabled : BOOLEAN, exists : BOOLEAN]
RulesTrue == /\ rules \in Seq(RuleRow)
             /\ \A i \in DOMAIN rules : i \in RuleIds /\ rules[i].form \in RuleForms
LetterRow == [from : People, kind : LetterKinds]
GroupsInv ==
    /\ RulesTrue
    /\ members \subseteq People /\ wrote \in [Letters -> LetterRow]
    /\ checking \in [Posts -> CheckRow]
    /\ counted \subseteq EventRow /\ IsFiniteSet(counted) /\ acts \subseteq DeedRow
    /\ \A e, f \in counted : (e.post = f.post /\ e.rule = f.rule) => e = f
    /\ \A e \in counted : Signed(checking, e)
    /\ \A a \in acts : /\ Signed(checking, a)
                       /\ Cardinality(PostsOf(a.who, a.rule) \cup {a.post}) >= a.threshold
    /\ \A h \in Posts : CheckTrue(h) /\ ActsTrue(h)

LEMMA PostsFinite ==
    ASSUME GroupsInv, NEW p, NEW i
    PROVE  IsFiniteSet(PostsOf(p, i)) /\ IsFiniteSet(Violating(p, i))
  <1>1. IsFiniteSet(Violating(p, i))
    BY FS_Subset DEF GroupsInv, Violating
  <1> DEFINE f == [e \in Violating(p, i) |-> e.post]
  <1>2. f \in Surjection(Violating(p, i), PostsOf(p, i))
    BY DEF Surjection, PostsOf
  <1>3. IsFiniteSet(PostsOf(p, i))
    BY <1>1, <1>2, FS_Surjection
  <1> QED BY <1>1, <1>3

\* Posts whose messages nobody stored twice are of as many messages.
LEMMA AsManyLetters ==
    ASSUME GroupsInv, NEW a \in acts,
           ({e.letter : e \in Violating(a.who, a.rule)} \cup {a.letter}) \cap Again = {}
    PROVE  Cardinality({e.letter : e \in Violating(a.who, a.rule)} \cup {a.letter}) >= a.threshold
  <1> DEFINE P == PostsOf(a.who, a.rule) \cup {a.post}
             L == {e.letter : e \in Violating(a.who, a.rule)} \cup {a.letter}
             f == [h \in P |-> checking[h].letter]
  <1>1. /\ \A e \in Violating(a.who, a.rule) :
             e.post \in Posts /\ e.letter \in Letters /\ Signed(checking, e)
        /\ a.post \in Posts /\ a.letter \in Letters /\ Signed(checking, a)
    BY DEF GroupsInv, Violating, EventRow, DeedRow
  <1>2. \A h \in P : h \in Posts /\ Took(h) /\ checking[h].letter \in L
    BY <1>1 DEF PostsOf, Signed, Took, Taken
  <1>3. \A l \in L : l \in Letters /\ \E h \in P : checking[h].letter = l
    BY <1>1 DEF PostsOf, Signed, Took, Taken
  <1>4. \A g, h \in P : checking[g].letter = checking[h].letter => g = h
    BY <1>2, <1>3 DEF Again
  <1>5. f \in Surjection(P, L) /\ f \in Injection(P, L)
    BY <1>2, <1>3, <1>4 DEF Surjection, Injection, IsInjective
  <1>6. IsFiniteSet(P)
    BY PostsFinite, FS_AddElement
  <1>7. Cardinality(L) = Cardinality(P)
    <2> HIDE DEF P, L, f
    <2> QED BY <1>5, <1>6, FS_Surjection
  <1>8. Cardinality(P) >= a.threshold
    BY DEF GroupsInv
  <1> QED BY <1>7, <1>8

LEMMA InvDeserves == ASSUME GroupsInv PROVE RemovalDeserved
  <1>1. ASSUME NEW a \in acts
        PROVE  LET own == {e.letter : e \in {x \in counted : x.who = a.who /\ x.rule = a.rule}}
                             \cup {a.letter}
               IN  own \cap Again = {} => Cardinality(own) >= a.threshold
    BY AsManyLetters DEF Violating
  <1>2. ASSUME NEW a \in acts, NEW b \in acts, a.letter = b.letter,
               a.letter \notin Again, a.what \in Grave, a.rule < b.rule
        PROVE  \E e \in counted : e.letter = a.letter /\ e.rule = a.rule /\ e.status = "failed"
    <2>1. /\ a.letter \in Letters /\ a.post \in Posts /\ b.post \in Posts
          /\ Signed(checking, a) /\ Signed(checking, b)
      BY DEF GroupsInv, DeedRow
    <2>2. a.post = b.post
      BY <1>2, <2>1 DEF Again, Signed, Took, Taken
    <2>3. a \in ActsOf(a.post) /\ b \in ActsOf(a.post)
      BY <2>2 DEF ActsOf
    <2>4. Excused(counted, a.post, a.rule)
      BY <1>2, <2>1, <2>3 DEF GroupsInv, ActsTrue
    <2>5. PICK e \in counted : e.post = a.post /\ e.rule = a.rule /\ e.status = "failed"
      BY <2>4 DEF Excused
    <2>6. e.letter = a.letter
      BY <2>1, <2>5 DEF GroupsInv, Signed
    <2> QED BY <2>5, <2>6
  <1> QED BY <1>1, <1>2 DEF RemovalDeserved

\* The rule whose turn it is is the first of those to be looked at.
LEMMA TurnIsThere ==
    ASSUME GroupsInv, NEW h \in Posts, checking[h].todo # {}
    PROVE  /\ RuleTurn(h) \in checking[h].todo /\ RuleTurn(h) \in RuleIds \X RuleForms
           /\ \A u \in checking[h].todo : RuleTurn(h)[1] <= u[1]
  <1> DEFINE T == {t[1] : t \in checking[h].todo}
  <1>1. checking[h].todo \subseteq RuleIds \X RuleForms
    BY DEF GroupsInv, CheckRow
  <1>2. T \in SUBSET Nat /\ T # {}
    BY <1>1 DEF RuleIds
  <1>3. \E t \in checking[h].todo : \A u \in checking[h].todo : t[1] <= u[1]
    <2>1. PICK n \in T : \A k \in T : n <= k
      BY <1>2, HasLeast
    <2> QED BY <2>1
  <1> QED BY <1>1, <1>3 DEF RuleTurn

\* Each event counted for the participant is of another post, and none of h.
LEMMA EnoughPosts ==
    ASSUME GroupsInv, NEW h \in Posts, checking[h].pc = "count", NEW p,
           Earlier(p, RuleTurn(h)[1]) + 1 >= RuleTurn(h)[2].threshold
    PROVE  Cardinality(PostsOf(p, RuleTurn(h)[1]) \cup {h}) >= RuleTurn(h)[2].threshold
  <1> DEFINE t == RuleTurn(h)
             i == t[1]
             R == Recent(p, i)
             L == {e.post : e \in R}
             f == [e \in R |-> e.post]
  <1>1. t \in checking[h].todo /\ t[2].threshold \in Nat
    <2>1. checking[h].todo # {} /\ t \in checking[h].todo /\ t \in RuleIds \X RuleForms
      BY TurnIsThere DEF GroupsInv, CheckTrue, Turning
    <2> QED BY <2>1, GroupsAssumption DEF RuleForm
  <1> HIDE DEF t
  <1>2. R \subseteq Violating(p, i) /\ IsFiniteSet(R)
    <2>1. R \subseteq Violating(p, i)
      BY DEF Recent, Violating
    <2>2. IsFiniteSet(Violating(p, i))
      BY PostsFinite
    <2> QED BY <2>1, <2>2, FS_Subset
  <1>3. \A e \in R : e \in counted /\ e.rule = i
    BY DEF Recent
  <1>4. h \notin L
    BY <1>1, <1>3 DEF GroupsInv, CheckTrue, Turning
  <1>5. \A e, g \in R : e.post = g.post => e = g
    BY <1>3 DEF GroupsInv
  <1>6. f \in Surjection(R, L)
    BY DEF Surjection
  <1>7. f \in Injection(R, L)
    BY <1>5 DEF Injection, IsInjective
  <1>8. IsFiniteSet(L) /\ Cardinality(L) = Cardinality(R)
    BY <1>2, <1>6, <1>7, FS_Surjection
  <1>9. L \subseteq PostsOf(p, i) /\ IsFiniteSet(PostsOf(p, i))
    BY <1>2, PostsFinite DEF PostsOf
  <1>10. Cardinality(L \cup {h}) = Cardinality(R) + 1 /\ IsFiniteSet(PostsOf(p, i) \cup {h})
    BY <1>4, <1>8, <1>9, FS_AddElement
  <1>11. /\ Cardinality(L \cup {h}) <= Cardinality(PostsOf(p, i) \cup {h})
         /\ Cardinality(PostsOf(p, i) \cup {h}) \in Nat
    BY <1>9, <1>10, FS_Subset, FS_CardinalityType
  <1>12. Cardinality(R) \in Nat /\ Cardinality(R) + 1 >= t[2].threshold
    BY <1>2, FS_CardinalityType DEF Earlier, t
  <1> QED BY <1>1, <1>10, <1>11, <1>12 DEF t

\* What is counted stays counted, though no longer recent.
Kept == /\ IsFiniteSet(counted)' /\ counted' \subseteq EventRow
        /\ \A e \in counted : \E f \in counted' :
             /\ f.who = e.who /\ f.rule = e.rule
             /\ f.post = e.post /\ f.status = e.status

LEMMA KeptGrows ==
    ASSUME GroupsInv, Kept, NEW p, NEW i, NEW h, NEW n \in Nat,
           Cardinality(PostsOf(p, i) \cup {h}) >= n
    PROVE  Cardinality(PostsOf(p, i)' \cup {h}) >= n
  <1>1. PostsOf(p, i) \subseteq PostsOf(p, i)'
    BY DEF Kept, PostsOf, Violating
  <1>2. IsFiniteSet(PostsOf(p, i)')
    <2>1. IsFiniteSet(Violating(p, i)')
      BY FS_Subset DEF Kept, Violating
    <2> DEFINE f == [e \in Violating(p, i)' |-> e.post]
    <2>2. f \in Surjection(Violating(p, i)', PostsOf(p, i)')
      BY DEF Surjection, PostsOf
    <2> QED BY <2>1, <2>2, FS_Surjection
  <1>3. IsFiniteSet(PostsOf(p, i)' \cup {h})
    BY <1>2, FS_AddElement
  <1>4. /\ Cardinality(PostsOf(p, i) \cup {h}) <= Cardinality(PostsOf(p, i)' \cup {h})
        /\ Cardinality(PostsOf(p, i)' \cup {h}) \in Nat
        /\ Cardinality(PostsOf(p, i) \cup {h}) \in Nat
    BY <1>1, <1>3, FS_Subset, FS_CardinalityType
  <1> QED BY <1>4

LEMMA TurnThreshold ==
    ASSUME GroupsInv, NEW h \in Posts, Turning(h)
    PROVE  RuleTurn(h)[2].threshold \in Nat
  <1>1. RuleTurn(h) \in RuleIds \X RuleForms
    BY TurnIsThere DEF GroupsInv, CheckTrue
  <1> QED BY <1>1, GroupsAssumption DEF RuleForm

\* The author of a message, once a post took it up.
LEMMA WriterStays ==
    ASSUME GroupsInv, NEW h \in Posts, checking[h].pc # "idle",
           checking'[h].letter = checking[h].letter,
           \A l \in Letters : (\E g \in Posts : checking[g].letter = l) => wrote'[l] = wrote[l]
    PROVE  Writer(h)' = Writer(h) /\ Writer(h) \in People
  <1>1. checking[h].letter \in Letters
    BY DEF GroupsInv, CheckTrue
  <1> QED BY <1>1 DEF Writer, GroupsInv, LetterRow

\* What was written stays.
WroteStays ==
    /\ wrote' \in [Letters -> LetterRow]
    /\ \A l \in Letters : (\E g \in Posts : checking[g].letter = l) => wrote'[l] = wrote[l]

\* A post whose handler stands still, while others are counted.
LEMMA CheckStays ==
    ASSUME GroupsInv, Kept, WroteStays, NEW h \in Posts, checking'[h] = checking[h],
           ActsOf(h)' = ActsOf(h),
           \A e \in counted' : e.post = h =>
               \E f \in counted : f.post = h /\ f.rule = e.rule
    PROVE  CheckTrue(h)' /\ ActsTrue(h)'
  <1>1. RuleTurn(h)' = RuleTurn(h) /\ Turning(h)' = Turning(h)
    BY DEF RuleTurn, Turning
  <1>2. \A i : Excused(counted, h, i) => Excused(counted', h, i)
    BY DEF Kept, Excused
  <1>3. ActsTrue(h)'
    BY <1>1, <1>2 DEF GroupsInv, ActsTrue
  <1>4. ASSUME checking[h].pc = "act", checking[h].left # <<>>
        PROVE  Cardinality(PostsOf(Writer(h), checking[h].rule)' \cup {h})
                  >= RuleTurn(h)[2].threshold
    <2>1. RuleTurn(h)[2].threshold \in Nat
      BY <1>4, TurnThreshold DEF Turning
    <2>2. Cardinality(PostsOf(Writer(h), checking[h].rule) \cup {h})
                  >= RuleTurn(h)[2].threshold
      BY <1>4 DEF GroupsInv, CheckTrue
    <2>3. Writer(h)' = Writer(h)
      BY <1>4, WriterStays DEF WroteStays
    <2>4. PICK w, i, n : n \in Nat /\ w = Writer(h) /\ i = checking[h].rule
                            /\ n = RuleTurn(h)[2].threshold
      BY <2>1
    <2>5. Cardinality(PostsOf(w, i) \cup {h}) >= n
      BY <2>2, <2>4
    <2>6. Cardinality(PostsOf(w, i)' \cup {h}) >= n
      BY <2>4, <2>5, KeptGrows
    <2>7. PostsOf(Writer(h), checking[h].rule)' = PostsOf(w, i)'
      BY <2>3, <2>4
    <2> QED BY <2>4, <2>6, <2>7
  <1>5. CheckTrue(h)
    BY DEF GroupsInv
  <1>6. \A e \in counted' : e.post = h => \E f \in counted : f.post = h /\ f.rule = e.rule
    OBVIOUS
  <1>7. CheckTrue(h)'
    BY <1>1, <1>4, <1>5, <1>6 DEF CheckTrue
  <1> QED BY <1>3, <1>7

\* What is counted and done stays signed, where handlers that stored their letters
\* go on with them.
LEMMA SignedStays ==
    ASSUME GroupsInv, checking' \in [Posts -> CheckRow],
           \A h \in Posts : Took(h) => /\ checking'[h].pc \in Taken
                                       /\ checking'[h].letter = checking[h].letter
    PROVE  (\A e \in counted : Signed(checking', e)) /\ (\A a \in acts : Signed(checking', a))
  <1>1. \A e \in counted : e.post \in Posts /\ Signed(checking, e)
    BY DEF GroupsInv, EventRow
  <1>2. \A a \in acts : a.post \in Posts /\ Signed(checking, a)
    BY DEF GroupsInv, DeedRow
  <1> QED BY <1>1, <1>2 DEF Signed, Took, Taken

\* The handler of post h goes on; nothing is counted or done.
LEMMA CheckGoesOn ==
    ASSUME GroupsInv, NEW h \in Posts, NEW new \in CheckRow,
           checking' = [checking EXCEPT ![h] = new], members' \subseteq People, WroteStays,
           Took(h) => new.pc \in Taken /\ new.letter = checking[h].letter,
           UNCHANGED <<rules, counted, acts>>, CheckTrue(h)', ActsTrue(h)'
    PROVE  GroupsInv'
  <1>1. Kept
    BY DEF Kept, GroupsInv
  <1>2. ASSUME NEW g \in Posts, g # h PROVE CheckTrue(g)' /\ ActsTrue(g)'
    <2>1. checking'[g] = checking[g] /\ ActsOf(g)' = ActsOf(g)
      BY <1>2 DEF GroupsInv, ActsOf
    <2> QED BY <1>1, <2>1, CheckStays
  <1>3. checking' \in [Posts -> CheckRow]
    BY DEF GroupsInv
  <1>4. \A a \in acts : Cardinality(PostsOf(a.who, a.rule)' \cup {a.post}) >= a.threshold
    BY <1>1, KeptGrows DEF GroupsInv, DeedRow
  <1>5. RulesTrue'
    BY DEF GroupsInv, RulesTrue
  <1>6. \A g \in Posts : Took(g) => /\ checking'[g].pc \in Taken
                                    /\ checking'[g].letter = checking[g].letter
    BY DEF GroupsInv, Took, Taken
  <1>7. (\A e \in counted : Signed(checking', e)) /\ (\A a \in acts : Signed(checking', a))
    BY <1>3, <1>6, SignedStays
  <1>8. wrote' \in [Letters -> LetterRow]
    BY DEF WroteStays
  <1> QED BY <1>2, <1>3, <1>4, <1>5, <1>7, <1>8 DEF GroupsInv

LEMMA UncheckedRow == /\ Unchecked \in CheckRow /\ Unchecked.pc = "idle" /\ Unchecked.todo = {}
                      /\ Unchecked.letter = 0 /\ Unchecked.left = <<>>
  <1>1. <<>> \in Seq(Deeds) /\ 0 \in RuleIds \cup {0}
    OBVIOUS
  <1> QED BY <1>1 DEF Unchecked, CheckRow

\* Rows of handlers that have nothing to check, now or any more.
Plain(pc, l) == [Unchecked EXCEPT !.pc = pc, !.letter = l]
LEMMA PlainRow ==
    ASSUME NEW l \in Letters, NEW pc \in {"insert", "passed", "done"}
    PROVE  /\ Plain(pc, l) \in CheckRow /\ Plain(pc, l).pc = pc
           /\ Plain(pc, l).letter = l /\ Plain(pc, l).todo = {}
  BY UncheckedRow DEF CheckRow, Plain

LEMMA WroteSame == ASSUME GroupsInv, UNCHANGED wrote PROVE WroteStays
  BY DEF GroupsInv, WroteStays

\* A handler that has nothing to check now, or any more.
LEMMA CheckPlain ==
    ASSUME GroupsInv, NEW h \in Posts, checking'[h].letter \in Letters,
           checking'[h].pc \in {"insert", "passed", "done"}, checking'[h].todo = {},
           checking'[h].pc = "insert" => checking[h].pc = "idle",
           UNCHANGED <<counted, acts>>
    PROVE  CheckTrue(h)' /\ ActsTrue(h)'
  <1>1. ActsOf(h)' = ActsOf(h) /\ \A i : Excused(counted', h, i) = Excused(counted, h, i)
    BY DEF ActsOf, Excused
  <1>2. \A a, b \in ActsOf(h) : (a.what \in Grave /\ a.rule < b.rule) => Excused(counted, h, a.rule)
    BY DEF GroupsInv, ActsTrue
  <1>3. ActsTrue(h)'
    BY <1>1, <1>2 DEF GroupsInv, ActsTrue
  <1>4. CheckTrue(h)'
    BY DEF GroupsInv, CheckTrue, Turning
  <1> QED BY <1>3, <1>4

LEMMA StepDies == ASSUME GroupsInv, NEW h \in Posts, CheckDies(h) PROVE GroupsInv'
  <1>1. /\ checking[h].pc \in {"insert", "rules", "count", "act"} /\ checking[h].letter \in Letters
        /\ members' \subseteq People /\ WroteStays /\ UNCHANGED <<rules, counted, acts>>
    BY WroteSame DEF GroupsInv, CheckDies, CheckTrue
  <1>2. PICK pc \in {"passed", "done"} :
          /\ checking' = [checking EXCEPT ![h] = Plain(pc, checking[h].letter)]
          /\ checking[h].pc # "insert" => pc = "done"
    BY DEF CheckDies, Passed, Ended, Plain
  <1> DEFINE new == Plain(pc, checking[h].letter)
  <1>3. new \in CheckRow /\ new.pc = pc /\ new.letter = checking[h].letter /\ new.todo = {}
    BY <1>1, PlainRow
  <1> HIDE DEF new
  <1>4. checking' = [checking EXCEPT ![h] = new] /\ checking'[h] = new
    BY <1>2 DEF GroupsInv, new
  <1>5. CheckTrue(h)' /\ ActsTrue(h)'
    BY <1>1, <1>3, <1>4, CheckPlain
  <1>6. Took(h) => new.pc \in Taken /\ new.letter = checking[h].letter
    BY <1>1, <1>2, <1>3 DEF Took, Taken
  <1> QED BY <1>1, <1>3, <1>4, <1>5, <1>6, CheckGoesOn

LEMMA StepLooks == ASSUME GroupsInv, NEW h \in Posts, PostLooks(h) PROVE GroupsInv'
  <1>1. /\ checking[h].pc = "idle" /\ members' \subseteq People
        /\ UNCHANGED <<rules, counted, acts>>
    BY DEF GroupsInv, PostLooks
  <1>2. PICK l \in Letters :
          /\ IF \E g \in Posts : checking[g].letter = l THEN UNCHANGED wrote
             ELSE \E p \in members, k \in LetterKinds :
                    wrote' = [wrote EXCEPT ![l] = [from |-> p, kind |-> k]]
          /\ checking' = [checking EXCEPT ![h] =
               IF l \in letterRows THEN Passed(l)
               ELSE [Unchecked EXCEPT !.pc = "insert", !.letter = l]]
    BY DEF PostLooks
  <1>3. WroteStays
    <2>1. CASE \E g \in Posts : checking[g].letter = l
      BY <1>2, <2>1, WroteSame
    <2>2. CASE ~\E g \in Posts : checking[g].letter = l
      <3>1. PICK p \in members, k \in LetterKinds :
              wrote' = [wrote EXCEPT ![l] = [from |-> p, kind |-> k]]
        BY <1>2, <2>2
      <3>2. [from |-> p, kind |-> k] \in LetterRow
        BY DEF GroupsInv, LetterRow
      <3> QED BY <2>2, <3>1, <3>2 DEF GroupsInv, WroteStays
    <2> QED BY <2>1, <2>2
  <1>4. PICK pc \in {"insert", "passed"} :
          checking' = [checking EXCEPT ![h] = Plain(pc, l)]
    BY <1>2 DEF Passed, Plain
  <1> DEFINE new == Plain(pc, l)
  <1>5. new \in CheckRow /\ new.pc = pc /\ new.letter = l /\ new.todo = {}
    BY PlainRow
  <1> HIDE DEF new
  <1>6. checking' = [checking EXCEPT ![h] = new] /\ checking'[h] = new
    BY <1>4 DEF GroupsInv, new
  <1>7. CheckTrue(h)' /\ ActsTrue(h)'
    BY <1>1, <1>5, <1>6, CheckPlain
  <1>8. ~Took(h)
    BY <1>1 DEF Took
  <1> QED BY <1>1, <1>3, <1>5, <1>6, <1>7, <1>8, CheckGoesOn

LEMMA StepInsert == ASSUME GroupsInv, NEW h \in Posts, InsertLetter(h) PROVE GroupsInv'
  <1>1. /\ checking[h].pc = "insert" /\ checking[h] \in CheckRow /\ checking[h].letter \in Letters
        /\ members' \subseteq People /\ WroteStays /\ UNCHANGED <<rules, counted, acts>>
    BY WroteSame DEF GroupsInv, InsertLetter, CheckTrue
  <1> DEFINE new == [checking[h] EXCEPT !.pc = "rules"]
  <1>2. /\ new \in CheckRow /\ new.pc = "rules" /\ new.letter = checking[h].letter
        /\ new.todo = checking[h].todo
    BY <1>1 DEF CheckRow
  <1>3. checking' = [checking EXCEPT ![h] = new] /\ checking'[h] = new
    BY DEF GroupsInv, InsertLetter
  <1> HIDE DEF new
  <1>4. CheckTrue(h)'
    BY <1>1, <1>2, <1>3 DEF GroupsInv, CheckTrue, Turning
  <1>5. ActsTrue(h)'
    <2>1. ActsOf(h) = {} /\ ActsOf(h)' = {}
      BY <1>1 DEF GroupsInv, ActsTrue, ActsOf
    <2> QED BY <1>2, <1>3, <2>1 DEF ActsTrue
  <1>6. ~Took(h)
    BY <1>1 DEF Took
  <1> QED BY <1>1, <1>2, <1>3, <1>4, <1>5, <1>6, CheckGoesOn

LEMMA StepRead == ASSUME GroupsInv, NEW h \in Posts, ReadRules(h) PROVE GroupsInv'
  <1> DEFINE todo == Matching(wrote[checking[h].letter].kind)
  <1>1. /\ checking[h].pc = "rules" /\ checking[h] \in CheckRow /\ checking[h].letter \in Letters
        /\ members' \subseteq People /\ WroteStays /\ UNCHANGED <<rules, counted, acts>>
    BY WroteSame DEF GroupsInv, ReadRules, CheckTrue
  <1>2. checking' = [checking EXCEPT ![h] = IF todo = {} THEN Ended(h)
                          ELSE [checking[h] EXCEPT !.pc = "count", !.todo = todo]]
    BY DEF ReadRules
  <1>3. todo \in SUBSET (RuleIds \X RuleForms) /\ \A t, u \in todo : t[1] = u[1] => t = u
    BY DEF GroupsInv, RulesTrue, Matching
  <1>4. ActsOf(h) = {} /\ ActsOf(h)' = {} /\ \A e \in counted : e.post # h
    BY <1>1 DEF GroupsInv, ActsTrue, ActsOf, CheckTrue
  <1> HIDE DEF todo
  <1>5. CASE todo = {}
    <2> DEFINE new == Plain("done", checking[h].letter)
    <2>1. new \in CheckRow /\ new.pc = "done" /\ new.letter = checking[h].letter /\ new.todo = {}
      BY <1>1, PlainRow
    <2>2. checking' = [checking EXCEPT ![h] = new] /\ checking'[h] = new
      BY <1>2, <1>5 DEF GroupsInv, Ended, Plain
    <2> HIDE DEF new
    <2>3. CheckTrue(h)' /\ ActsTrue(h)'
      BY <1>1, <2>1, <2>2, CheckPlain
    <2> QED BY <1>1, <2>1, <2>2, <2>3, CheckGoesOn DEF Taken
  <1>6. CASE todo # {}
    <2> DEFINE new == [checking[h] EXCEPT !.pc = "count", !.todo = todo]
    <2>1. new \in CheckRow /\ new.pc = "count" /\ new.letter = checking[h].letter /\ new.todo = todo
      BY <1>1, <1>3 DEF CheckRow
    <2>2. checking' = [checking EXCEPT ![h] = new] /\ checking'[h] = new
      BY <1>2, <1>6 DEF GroupsInv
    <2> HIDE DEF new
    <2>3. CheckTrue(h)'
      BY <1>1, <1>3, <1>4, <1>6, <2>1, <2>2 DEF CheckTrue, Turning
    <2>4. ActsTrue(h)'
      BY <1>4, <2>1, <2>2 DEF ActsTrue
    <2> QED BY <1>1, <2>1, <2>2, <2>3, <2>4, CheckGoesOn DEF Taken
  <1> QED BY <1>5, <1>6

LEMMA CallsAreDeeds == ASSUME NEW c \in RuleCalls PROVE c \in Seq(Deeds)
  <1>1. "warn" \in Deeds /\ "delete" \in Deeds /\ "remove" \in Deeds
    BY DEF Deeds
  <1> HIDE DEF Deeds
  <1>2. /\ <<>> \in Seq(Deeds) /\ <<"warn">> \in Seq(Deeds) /\ <<"delete">> \in Seq(Deeds)
        /\ <<"remove">> \in Seq(Deeds) /\ <<"delete", "remove">> \in Seq(Deeds)
        /\ <<"warn", "delete", "remove">> \in Seq(Deeds)
    BY <1>1
  <1> QED BY <1>2 DEF RuleCalls

LEMMA StepCount == ASSUME GroupsInv, NEW h \in Posts, CountViolations(h) PROVE GroupsInv'
  <1> DEFINE t == RuleTurn(h)
             reached == Earlier(Writer(h), t[1]) + 1 >= t[2].threshold
  <1>1. /\ checking[h].pc = "count" /\ checking[h] \in CheckRow
        /\ members' \subseteq People /\ WroteStays /\ UNCHANGED <<rules, wrote, counted, acts>>
    BY WroteSame DEF GroupsInv, CountViolations
  <1>2. /\ t \in checking[h].todo /\ t[1] \in RuleIds /\ t[2].calls \in Seq(Deeds)
        /\ \A u \in checking[h].todo : t[1] <= u[1]
    <2>1. /\ checking[h].todo # {} /\ t \in checking[h].todo /\ t \in RuleIds \X RuleForms
          /\ \A u \in checking[h].todo : t[1] <= u[1]
      BY <1>1, TurnIsThere DEF GroupsInv, CheckTrue, Turning
    <2>2. t[2].calls \in RuleCalls
      BY <2>1, GroupsAssumption DEF RuleForm
    <2>3. t[2].calls \in Seq(Deeds)
      BY <2>2, CallsAreDeeds
    <2> QED BY <2>1, <2>3
  <1>3. PICK L \in Seq(Deeds), s \in {"applied", "logged"} :
          /\ checking' = [checking EXCEPT ![h] =
                [checking[h] EXCEPT !.rule = t[1], !.left = L, !.status = s, !.pc = "act"]]
          /\ L # <<>> => (reached /\ L = t[2].calls /\ s = "applied")
    <2>1. checking' = [checking EXCEPT ![h].rule = t[1],
                                  ![h].left = IF reached THEN t[2].calls ELSE <<>>,
                                  ![h].status = IF reached THEN "applied" ELSE "logged",
                                  ![h].pc = "act"]
      BY DEF CountViolations
    <2> HIDE DEF t, reached
    <2>2. CASE reached
      BY <1>2, <2>1, <2>2
    <2>3. CASE ~reached
      <3>1. <<>> \in Seq(Deeds)
        OBVIOUS
      <3> QED BY <2>1, <2>3, <3>1
    <2> QED BY <2>2, <2>3
  <1>4. reached => Cardinality(PostsOf(Writer(h), t[1]) \cup {h}) >= t[2].threshold
    BY <1>1, EnoughPosts DEF t
  <1> HIDE DEF t, reached
  <1> DEFINE new == [checking[h] EXCEPT !.rule = t[1], !.left = L, !.status = s, !.pc = "act"]
  <1>5. /\ new \in CheckRow /\ new.pc = "act" /\ new.rule = t[1]
        /\ new.letter = checking[h].letter /\ new.todo = checking[h].todo
        /\ new.left = L /\ new.status = s
    BY <1>1, <1>2 DEF CheckRow
  <1>6. checking' = [checking EXCEPT ![h] = new] /\ checking'[h] = new
    BY <1>3 DEF GroupsInv
  <1> HIDE DEF new
  <1>7. RuleTurn(h)' = t /\ Writer(h)' = Writer(h)
    BY <1>1, <1>5, <1>6 DEF RuleTurn, Writer, t
  <1>8. PostsOf(Writer(h), checking[h].rule)' = PostsOf(Writer(h), t[1])
    BY <1>1, <1>5, <1>6, <1>7 DEF PostsOf, Violating
  <1>9. CheckTrue(h)'
    <2>1. /\ \A u, v \in new.todo : u[1] = v[1] => u = v
          /\ new.todo # {} /\ new.letter \in Letters
          /\ \A u \in new.todo : \A e \in counted : e.post = h => e.rule # u[1]
      BY <1>1, <1>5 DEF GroupsInv, CheckTrue, Turning
    <2>2. \A n \in DOMAIN new.left : new.left[n] \in Grave => Heavy(t[2])
      <3>1. CASE L = <<>>
        BY <1>5, <3>1
      <3>2. CASE L = t[2].calls
        BY <1>5, <3>2 DEF Heavy
      <3> QED BY <1>3, <3>1, <3>2
    <2>3. new.left # <<>> =>
            /\ new.status = "applied"
            /\ Cardinality(PostsOf(Writer(h), t[1]) \cup {h}) >= t[2].threshold
      BY <1>3, <1>4, <1>5
    <2> QED BY <1>1, <1>5, <1>6, <1>7, <1>8, <2>1, <2>2, <2>3 DEF CheckTrue, Turning
  <1>10. ActsTrue(h)'
    <2>1. ActsOf(h)' = ActsOf(h) /\ \A i : Excused(counted', h, i) = Excused(counted, h, i)
      BY <1>1 DEF ActsOf, Excused
    <2>2. \A a \in ActsOf(h) : a.rule \in Nat /\ a.rule < t[1] /\ (a.what \in Grave => Excused(counted, h, a.rule))
      BY <1>1, <1>2 DEF GroupsInv, ActsTrue, ActsOf, DeedRow, RuleIds
    <2>3. t[1] \in Nat
      BY <1>2 DEF RuleIds
    <2> QED BY <1>1, <1>5, <1>6, <2>1, <2>2, <2>3 DEF GroupsInv, ActsTrue
  <1>11. Took(h) => new.pc \in Taken /\ new.letter = checking[h].letter
    BY <1>5 DEF Taken
  <1> QED BY <1>1, <1>5, <1>6, <1>9, <1>10, <1>11, CheckGoesOn

\* What the rules and the copy of the group become is nobody's deed.
LEMMA NoDeed ==
    ASSUME GroupsInv, UNCHANGED <<wrote, checking, counted, acts>>, members' \subseteq People,
           RulesTrue'
    PROVE  GroupsInv'
  <1>1. Kept /\ WroteStays
    BY WroteSame DEF Kept, GroupsInv
  <1>2. ASSUME NEW h \in Posts PROVE CheckTrue(h)' /\ ActsTrue(h)'
    <2>1. checking'[h] = checking[h] /\ ActsOf(h)' = ActsOf(h)
      BY DEF ActsOf
    <2> QED BY <1>1, <2>1, CheckStays
  <1>3. \A a \in acts : Cardinality(PostsOf(a.who, a.rule)' \cup {a.post}) >= a.threshold
    BY <1>1, KeptGrows DEF GroupsInv, DeedRow
  <1>4. (\A e \in counted : Signed(checking', e)) /\ (\A a \in acts : Signed(checking', a))
    BY DEF GroupsInv
  <1> QED BY <1>2, <1>3, <1>4 DEF GroupsInv

LEMMA StepCopy == ASSUME GroupsInv, CopyNext PROVE GroupsInv'
  <1>1. UNCHANGED <<rules, wrote, checking, counted, acts>>
    BY DEF CopyNext, GroupSync, GroupCall, ListGroups, ListFails, UpsertGroup, PhoneChanges
  <1>2. members' \subseteq People
    <2>1. ASSUME NEW s \in Syncs, NEW ask \in GroupCalls, GroupCall(s, ask)
          PROVE  members' \subseteq People
      <3>1. \/ members' = members
            \/ \E p \in People : members' = members \cup {p} \/ members' = members \ {p}
        BY <2>1 DEF GroupCall, GroupCalls
      <3> QED BY <3>1 DEF GroupsInv
    <2>2. ASSUME NEW s \in Syncs,
                 GroupSync(s) \/ ListGroups(s) \/ ListFails(s) \/ UpsertGroup(s)
          PROVE  members' \subseteq People
      BY <2>2 DEF GroupsInv, GroupSync, ListGroups, ListFails, UpsertGroup
    <2>3. CASE PhoneChanges
      BY <2>3 DEF GroupsInv, PhoneChanges
    <2> QED BY <2>1, <2>2, <2>3 DEF CopyNext
  <1>3. RulesTrue'
    BY <1>1 DEF GroupsInv, RulesTrue
  <1> QED BY <1>1, <1>2, <1>3, NoDeed

LEMMA StepRules ==
    ASSUME GroupsInv, CreateRule \/ \E i \in DOMAIN rules : PatchRule(i) \/ DeleteRuleRow(i)
    PROVE  GroupsInv'
  <1>1. UNCHANGED <<members, wrote, checking, counted, acts>>
    BY DEF CreateRule, PatchRule, DeleteRuleRow
  <1>2. rules \in Seq(RuleRow) /\ DOMAIN rules = 1..Len(rules) /\ Len(rules) \in Nat
    BY DEF GroupsInv, RulesTrue
  <1>3. CASE CreateRule
    <2> USE <1>3 DEF CreateRule
    <2>1. PICK f \in RuleForms, on \in BOOLEAN :
            rules' = Append(rules, [form |-> f, enabled |-> on, exists |-> TRUE])
      OBVIOUS
    <2>2. [form |-> f, enabled |-> on, exists |-> TRUE] \in RuleRow
      BY DEF RuleRow
    <2>3. /\ rules' \in Seq(RuleRow) /\ Len(rules') = Len(rules) + 1
          /\ DOMAIN rules' = 1..(Len(rules) + 1)
      BY <1>2, <2>1, <2>2
    <2>4. ASSUME NEW i \in DOMAIN rules' PROVE i \in RuleIds /\ rules'[i].form \in RuleForms
      <3>1. i \in RuleIds
        BY <1>2, <2>3, GroupsAssumption DEF RuleIds
      <3>2. rules'[i] \in RuleRow
        BY <2>3
      <3> QED BY <3>1, <3>2 DEF RuleRow
    <2>5. RulesTrue'
      BY <2>3, <2>4 DEF RulesTrue
    <2> QED BY <1>1, <2>5, NoDeed DEF GroupsInv
  <1>4. ASSUME NEW i \in DOMAIN rules, PatchRule(i) \/ DeleteRuleRow(i) PROVE GroupsInv'
    <2>1. PICK r \in RuleRow : rules' = [rules EXCEPT ![i] = r]
      <3>1. rules[i] \in RuleRow
        BY <1>2
      <3>2. CASE PatchRule(i)
        <4>1. PICK f \in RuleForms, on \in BOOLEAN :
                rules' = [rules EXCEPT ![i].form = f, ![i].enabled = on]
          BY <3>2 DEF PatchRule
        <4>2. [rules[i] EXCEPT !.form = f, !.enabled = on] \in RuleRow
          BY <3>1 DEF RuleRow
        <4> QED BY <4>1, <4>2
      <3>3. CASE DeleteRuleRow(i)
        <4>1. [rules[i] EXCEPT !.exists = FALSE] \in RuleRow
          BY <3>1 DEF RuleRow
        <4> QED BY <3>3, <4>1 DEF DeleteRuleRow
      <3> QED BY <1>4, <3>2, <3>3
    <2>2. rules' \in Seq(RuleRow) /\ DOMAIN rules' = DOMAIN rules
      BY <1>2, <2>1
    <2>3. ASSUME NEW j \in DOMAIN rules' PROVE j \in RuleIds /\ rules'[j].form \in RuleForms
      <3>1. j \in RuleIds
        BY <2>2 DEF GroupsInv, RulesTrue
      <3>2. rules'[j] \in RuleRow
        BY <1>2, <2>1, <2>2
      <3> QED BY <3>1, <3>2 DEF RuleRow
    <2>4. RulesTrue'
      BY <2>2, <2>3 DEF RulesTrue
    <2> QED BY <1>1, <2>4, NoDeed DEF GroupsInv
  <1> QED BY <1>3, <1>4

LEMMA StepElapses == ASSUME GroupsInv, Elapses PROVE GroupsInv'
  <1>1. PICK e \in counted : counted' = (counted \ {e}) \cup {[e EXCEPT !.recent = FALSE]}
    BY DEF Elapses
  <1>2. UNCHANGED <<members, rules, wrote, checking, acts>>
    BY DEF Elapses
  <1> DEFINE g == [e EXCEPT !.recent = FALSE]
  <1>3. /\ g \in EventRow /\ g.who = e.who /\ g.rule = e.rule
        /\ g.post = e.post /\ g.letter = e.letter /\ g.status = e.status
    BY <1>1 DEF GroupsInv, EventRow
  <1>4. counted' = (counted \ {e}) \cup {g}
    BY <1>1
  <1> HIDE DEF g
  <1>5. IsFiniteSet(counted')
    <2>1. IsFiniteSet(counted \ {e})
      BY FS_RemoveElement DEF GroupsInv
    <2> QED BY <1>4, <2>1, FS_AddElement
  <1>6. Kept /\ WroteStays
    BY <1>2, <1>3, <1>4, <1>5, WroteSame DEF Kept, GroupsInv
  <1>7. \A f \in counted' : \E x \in counted : x.post = f.post /\ x.rule = f.rule /\ x.letter = f.letter
    BY <1>3, <1>4
  <1>8. ASSUME NEW h \in Posts PROVE CheckTrue(h)' /\ ActsTrue(h)'
    <2>1. checking'[h] = checking[h] /\ ActsOf(h)' = ActsOf(h)
      BY <1>2 DEF ActsOf
    <2> QED BY <1>6, <1>7, <2>1, CheckStays
  <1>9. \A a \in acts : Cardinality(PostsOf(a.who, a.rule)' \cup {a.post}) >= a.threshold
    BY <1>6, KeptGrows DEF GroupsInv, DeedRow
  <1>10. \A f, x \in counted' : (f.post = x.post /\ f.rule = x.rule) => f = x
    BY <1>3, <1>4 DEF GroupsInv
  <1>11. RulesTrue'
    BY <1>2 DEF GroupsInv, RulesTrue
  <1>12. (\A f \in counted' : Signed(checking', f)) /\ (\A a \in acts : Signed(checking', a))
    <2>1. (\A x \in counted : Signed(checking, x)) /\ (\A a \in acts : Signed(checking, a))
      BY DEF GroupsInv
    <2>2. checking' = checking
      BY <1>2
    <2> QED BY <1>7, <2>1, <2>2 DEF Signed
  <1> QED BY <1>2, <1>6, <1>8, <1>9, <1>10, <1>11, <1>12 DEF GroupsInv, Kept

LEMMA StepDeed == ASSUME GroupsInv, NEW h \in Posts, Deed(h) PROVE GroupsInv'
  <1> DEFINE what == Head(checking[h].left)
             d == DeedOf(h, what)
             T == RuleTurn(h)
  <1>1. /\ checking[h].pc = "act" /\ checking[h].left # <<>> /\ checking[h] \in CheckRow
        /\ checking[h].letter \in Letters /\ Writer(h) \in People
        /\ UNCHANGED <<rules, wrote, counted>> /\ acts' \in {acts, acts \cup {d}}
    <2>1. checking[h].pc = "act" /\ checking[h].letter \in Letters
      BY DEF GroupsInv, Deed, CheckTrue
    <2> QED BY <2>1 DEF GroupsInv, Deed, DeedOf, Writer, LetterRow
  <1>2. members' \subseteq People /\ WroteStays
    BY <1>1, WroteSame DEF GroupsInv, Deed
  <1>3. PICK L \in Seq(Deeds), s \in {"applied", "failed"} :
          /\ checking' = [checking EXCEPT ![h] = [checking[h] EXCEPT !.left = L, !.status = s]]
          /\ L # <<>> => (L = Tail(checking[h].left) /\ s = "applied")
    <2>1. checking[h].status = "applied"
      BY <1>1 DEF GroupsInv, CheckTrue
    <2>2. \/ checking' = [checking EXCEPT ![h].left = Tail(@)]
          \/ checking' = [checking EXCEPT ![h].left = <<>>, ![h].status = "failed"]
      BY DEF Deed
    <2>3. CASE checking' = [checking EXCEPT ![h].left = Tail(@)]
      <3>1. Tail(checking[h].left) \in Seq(Deeds)
        BY <1>1 DEF CheckRow
      <3>2. [checking[h] EXCEPT !.left = Tail(@)]
              = [checking[h] EXCEPT !.left = Tail(checking[h].left), !.status = "applied"]
        BY <1>1, <2>1 DEF CheckRow
      <3>3. checking' = [checking EXCEPT ![h] = [checking[h] EXCEPT
                                 !.left = Tail(checking[h].left), !.status = "applied"]]
        BY <2>3, <3>2
      <3> QED BY <3>1, <3>3
    <2>4. CASE checking' = [checking EXCEPT ![h].left = <<>>, ![h].status = "failed"]
      <3>1. <<>> \in Seq(Deeds)
        OBVIOUS
      <3>2. checking' = [checking EXCEPT ![h] = [checking[h] EXCEPT !.left = <<>>, !.status = "failed"]]
        BY <2>4
      <3> QED BY <3>1, <3>2
    <2> QED BY <2>2, <2>3, <2>4
  <1> DEFINE new == [checking[h] EXCEPT !.left = L, !.status = s]
  <1>4. /\ new \in CheckRow /\ new.pc = "act" /\ new.rule = checking[h].rule
        /\ new.letter = checking[h].letter /\ new.todo = checking[h].todo
        /\ new.left = L /\ new.status = s
    BY <1>1 DEF CheckRow
  <1>5. /\ checking' = [checking EXCEPT ![h] = new] /\ checking'[h] = new
        /\ checking' \in [Posts -> CheckRow]
    BY <1>3, <1>4 DEF GroupsInv
  <1> HIDE DEF new
  <1>6. RuleTurn(h)' = T /\ Writer(h)' = Writer(h)
    BY <1>1, <1>4, <1>5 DEF RuleTurn, Writer
  <1>7. /\ checking[h].rule = T[1] /\ T[2].threshold \in Nat /\ T[1] \in RuleIds /\ T[1] \in Nat
        /\ \A n \in DOMAIN checking[h].left : checking[h].left[n] \in Grave => Heavy(T[2])
        /\ Cardinality(PostsOf(Writer(h), checking[h].rule) \cup {h}) >= T[2].threshold
    <2>1. T \in RuleIds \X RuleForms /\ T[2].threshold \in Nat
      BY <1>1, TurnIsThere, TurnThreshold DEF GroupsInv, CheckTrue, Turning
    <2>2. CheckTrue(h)
      BY DEF GroupsInv
    <2>3. T[1] \in RuleIds /\ T[1] \in Nat
      BY <2>1, GroupsAssumption DEF RuleIds
    <2> QED BY <1>1, <2>1, <2>2, <2>3 DEF CheckTrue
  <1>8. \A p, i : PostsOf(p, i)' = PostsOf(p, i)
    BY <1>1 DEF PostsOf, Violating
  <1>9. /\ d.who = Writer(h) /\ d.rule = checking[h].rule /\ d.letter = checking[h].letter
        /\ d.threshold = T[2].threshold /\ d.what = what /\ d.post = h
    BY DEF DeedOf
  <1>10. what = checking[h].left[1] /\ 1 \in DOMAIN checking[h].left /\ what \in Deeds
    BY <1>1 DEF CheckRow
  <1>11. d \in DeedRow
    BY <1>1, <1>7, <1>10 DEF DeedOf, DeedRow
  <1>12. CheckTrue(h)'
    <2>1. /\ \A u, v \in new.todo : u[1] = v[1] => u = v
          /\ new.todo # {} /\ new.letter \in Letters
          /\ \A u \in new.todo : \A e \in counted : e.post = h => e.rule # u[1]
      BY <1>1, <1>4 DEF GroupsInv, CheckTrue, Turning
    <2>2. ASSUME NEW n \in DOMAIN L, L[n] \in Grave PROVE Heavy(T[2])
      <3>1. L = Tail(checking[h].left) /\ checking[h].left \in Seq(Deeds)
        BY <1>1, <1>3, <2>2 DEF CheckRow
      <3>2. n + 1 \in DOMAIN checking[h].left /\ L[n] = checking[h].left[n + 1]
        BY <1>1, <2>2, <3>1
      <3> QED BY <1>7, <2>2, <3>2
    <2>3. new.left # <<>> => new.status = "applied"
      BY <1>3, <1>4
    <2>4. PostsOf(Writer(h), checking[h].rule)' = PostsOf(Writer(h), checking[h].rule)
      BY <1>1, <1>4, <1>5, <1>6 DEF PostsOf, Violating
    <2> QED BY <1>1, <1>4, <1>5, <1>6, <1>7, <2>1, <2>2, <2>3, <2>4 DEF CheckTrue, Turning
  <1>13. ActsOf(h)' = ActsOf(h) \/ ActsOf(h)' = ActsOf(h) \cup {d}
    BY <1>1, <1>9 DEF ActsOf
  <1>14. \A i : Excused(counted', h, i) = Excused(counted, h, i)
    BY <1>1 DEF Excused
  <1>15. ActsTrue(h)'
    <2>1. \A a \in ActsOf(h) : a.rule \in Nat /\ a.rule <= checking[h].rule
                               /\ (a.what \in Grave =>
                                     Excused(counted, h, a.rule) \/ (a.rule = checking[h].rule /\ Heavy(T[2])))
      BY <1>1 DEF GroupsInv, ActsTrue, ActsOf, DeedRow, RuleIds
    <2>2. d.rule \in Nat /\ d.rule = checking[h].rule /\ (d.what \in Grave => Heavy(T[2]))
      BY <1>7, <1>9, <1>10
    <2>3. \A a, b \in ActsOf(h) : (a.what \in Grave /\ a.rule < b.rule) => Excused(counted, h, a.rule)
      BY DEF GroupsInv, ActsTrue
    <2> HIDE DEF d, T, what
    <2>4. \A a \in ActsOf(h)' : a.rule \in Nat /\ a.rule <= checking[h].rule
                               /\ (a.what \in Grave =>
                                     Excused(counted, h, a.rule) \/ (a.rule = checking[h].rule /\ Heavy(T[2])))
      BY <1>13, <2>1, <2>2
    <2>5. \A a, b \in ActsOf(h)' : (a.what \in Grave /\ a.rule < b.rule) => Excused(counted, h, a.rule)
      <3> SUFFICES ASSUME NEW a \in ActsOf(h)', NEW b \in ActsOf(h)',
                          a.what \in Grave, a.rule < b.rule
                   PROVE  Excused(counted, h, a.rule)
        OBVIOUS
      <3>1. a.rule \in Nat /\ b.rule \in Nat /\ b.rule <= checking[h].rule /\ checking[h].rule \in Nat
        BY <2>2, <2>4
      <3>2. a.rule # checking[h].rule
        BY <3>1
      <3> QED BY <2>4, <3>2
    <2>6. new.status # "logged"
      BY <1>4
    <2> QED BY <1>4, <1>5, <1>6, <1>14, <2>4, <2>5, <2>6 DEF ActsTrue
  <1>16. ASSUME NEW g \in Posts, g # h PROVE CheckTrue(g)' /\ ActsTrue(g)'
    <2>1. Kept
      BY <1>1 DEF Kept, GroupsInv
    <2>2. checking'[g] = checking[g]
      BY <1>5, <1>16 DEF GroupsInv
    <2>3. ActsOf(g)' = ActsOf(g)
      BY <1>1, <1>9, <1>16 DEF ActsOf
    <2> QED BY <1>1, <1>2, <2>1, <2>2, <2>3, CheckStays
  <1>17. (\A e \in counted : Signed(checking', e)) /\ (\A a \in acts : Signed(checking', a)) /\ Signed(checking', d)
    <2>1. \A g \in Posts : Took(g) => /\ checking'[g].pc \in Taken
                                      /\ checking'[g].letter = checking[g].letter
      BY <1>4, <1>5 DEF GroupsInv, Took, Taken
    <2>2. Signed(checking', d)
      <3> HIDE DEF d
      <3>1. checking'[h].pc \in Taken /\ checking'[h].letter = d.letter
        BY <1>4, <1>5, <1>9 DEF Taken
      <3> QED BY <1>9, <3>1 DEF Signed
    <2> QED BY <1>5, <2>1, <2>2, SignedStays
  <1>18. ASSUME NEW a \in acts'
         PROVE  /\ a \in DeedRow /\ Signed(checking', a)
                /\ Cardinality(PostsOf(a.who, a.rule)' \cup {a.post}) >= a.threshold
    <2>1. CASE a \in acts
      BY <1>8, <1>17, <2>1 DEF GroupsInv
    <2>2. CASE a = d
      <3> QED BY <1>7, <1>8, <1>9, <1>11, <1>17, <2>2
    <2> QED BY <1>1, <2>1, <2>2
  <1>19. RulesTrue'
    BY <1>1 DEF GroupsInv, RulesTrue
  <1> QED BY <1>1, <1>2, <1>5, <1>12, <1>15, <1>16, <1>17, <1>18, <1>19 DEF GroupsInv, WroteStays

LEMMA StepRecord == ASSUME GroupsInv, NEW h \in Posts, RecordViolation(h) PROVE GroupsInv'
  <1> DEFINE t == RuleTurn(h)
             stop == checking[h].status = "applied" /\ Heavy(t[2])
             rest == IF stop THEN {} ELSE checking[h].todo \ {t}
             new == [Unchecked EXCEPT !.pc = "count", !.letter = checking[h].letter, !.todo = rest]
  <1>1. /\ checking[h].pc = "act" /\ checking[h].left = <<>> /\ checking[h] \in CheckRow
        /\ checking[h].letter \in Letters /\ Writer(h) \in People
        /\ UNCHANGED <<rules, wrote, acts>> /\ members' \subseteq People /\ WroteStays
    <2>1. checking[h].pc = "act" /\ checking[h].letter \in Letters
      BY DEF GroupsInv, RecordViolation, CheckTrue
    <2> QED BY <2>1, WroteSame DEF GroupsInv, RecordViolation, Writer, LetterRow
  <1>2. PICK e \in EventRow :
          /\ counted' = counted \cup {e} /\ e.rule = t[1] /\ e.post = h
          /\ e.letter = checking[h].letter /\ e.status = checking[h].status
    <2>1. t \in RuleIds \X RuleForms
      BY <1>1, TurnIsThere DEF GroupsInv, CheckTrue, Turning
    <2>2. PICK now \in BOOLEAN :
            counted' = counted \cup {[who |-> Writer(h), rule |-> t[1], post |-> h,
                                      letter |-> checking[h].letter,
                                      recent |-> now, status |-> checking[h].status]}
      BY DEF RecordViolation
    <2> DEFINE g == [who |-> Writer(h), rule |-> t[1], post |-> h, letter |-> checking[h].letter,
                     recent |-> now, status |-> checking[h].status]
    <2>3. g \in EventRow
      BY <1>1, <2>1 DEF CheckRow, EventRow
    <2> QED BY <2>2, <2>3
  <1>3. checking' = [checking EXCEPT ![h] = IF rest = {} THEN Ended(h) ELSE new]
    BY DEF RecordViolation
  <1>4. /\ \A u, v \in checking[h].todo : u[1] = v[1] => u = v
        /\ \A u \in checking[h].todo : \A f \in counted : f.post = h => f.rule # u[1]
        /\ t \in checking[h].todo /\ checking[h].rule = t[1]
        /\ \A u \in checking[h].todo : t[1] <= u[1] /\ u[1] \in Nat
    <2>1. /\ t \in checking[h].todo /\ checking[h].rule = t[1]
          /\ \A u \in checking[h].todo : t[1] <= u[1]
      BY <1>1, TurnIsThere DEF GroupsInv, CheckTrue, Turning
    <2>2. \A u \in checking[h].todo : u[1] \in Nat
      BY <1>1 DEF CheckRow, RuleIds
    <2> QED BY <1>1, <2>1, <2>2 DEF GroupsInv, CheckTrue, Turning
  <1>5. /\ new \in CheckRow /\ new.pc = "count" /\ new.todo = rest
        /\ new.letter = checking[h].letter
        /\ Ended(h) \in CheckRow /\ Ended(h).pc = "done" /\ Ended(h).todo = {}
        /\ Ended(h).letter = checking[h].letter
        /\ rest \subseteq checking[h].todo \ {t}
    <2>1. rest \subseteq checking[h].todo \ {t} /\ rest \in SUBSET (RuleIds \X RuleForms)
      BY <1>1 DEF CheckRow
    <2> HIDE DEF rest
    <2> QED BY <1>1, <2>1, UncheckedRow, PlainRow DEF CheckRow, Ended, Plain
  <1>6. ActsOf(h)' = ActsOf(h)
    BY <1>1 DEF ActsOf
  <1>7. \A i : (Excused(counted, h, i) \/ (checking[h].status = "failed" /\ i = t[1]))
             => Excused(counted', h, i)
    BY <1>2 DEF Excused
  <1>8. \A a \in ActsOf(h) :
          /\ a.rule \in Nat /\ a.rule <= t[1]
          /\ (a.what \in Grave /\ rest # {}) => Excused(counted', h, a.rule)
    <2>1. \A a \in ActsOf(h) :
            /\ a.rule \in Nat /\ a.rule <= t[1]
            /\ a.what \in Grave =>
                 \/ Excused(counted, h, a.rule)
                 \/ a.rule = t[1] /\ checking[h].status # "logged" /\ Heavy(t[2])
      BY <1>1, <1>4 DEF GroupsInv, ActsTrue, ActsOf, DeedRow, RuleIds
    <2>2. rest # {} => ~stop
      OBVIOUS
    <2>3. checking[h].status \in {"logged", "applied", "failed"}
      BY <1>1 DEF CheckRow
    <2>4. ASSUME NEW a \in ActsOf(h), a.what \in Grave, rest # {} PROVE Excused(counted', h, a.rule)
      <3>1. CASE Excused(counted, h, a.rule)
        BY <1>7, <3>1
      <3>2. CASE a.rule = t[1] /\ checking[h].status # "logged" /\ Heavy(t[2])
        <4>1. checking[h].status = "failed"
          BY <2>2, <2>3, <2>4, <3>2
        <4> QED BY <1>7, <3>2, <4>1
      <3> QED BY <2>1, <2>4, <3>1, <3>2
    <2> QED BY <2>1, <2>4
  <1> HIDE DEF new, rest, t
  <1>9. PICK now \in CheckRow :
          /\ checking' = [checking EXCEPT ![h] = now] /\ checking'[h] = now
          /\ now.letter = checking[h].letter
          /\ \/ now.pc = "done" /\ now.todo = {}
             \/ now.pc = "count" /\ now.todo = rest /\ rest # {}
    <2>1. CASE rest = {}
      BY <1>3, <1>5, <2>1 DEF GroupsInv
    <2>2. CASE rest # {}
      BY <1>3, <1>5, <2>2 DEF GroupsInv
    <2> QED BY <2>1, <2>2
  <1>10. \A u \in rest : u \in checking[h].todo /\ u[1] # t[1] /\ u[1] \in Nat /\ t[1] \in Nat
                          /\ t[1] < u[1]
    <2>1. \A u \in rest : u \in checking[h].todo /\ u[1] # t[1]
      BY <1>4, <1>5
    <2>2. t[1] \in Nat
      BY <1>4
    <2> QED BY <1>4, <2>1, <2>2
  <1>11. CheckTrue(h)'
    <2>1. \A u, v \in rest : u[1] = v[1] => u = v
      BY <1>4, <1>10
    <2>2. \A u \in rest : \A f \in counted' : f.post = h => f.rule # u[1]
      BY <1>2, <1>4, <1>10
    <2>3. checking'[h].letter \in Letters
      BY <1>1, <1>9
    <2>4. CASE now.pc = "done" /\ now.todo = {}
      BY <1>9, <2>3, <2>4 DEF CheckTrue, Turning
    <2>5. CASE now.pc = "count" /\ now.todo = rest /\ rest # {}
      BY <1>9, <2>1, <2>2, <2>3, <2>5 DEF CheckTrue, Turning
    <2> QED BY <1>9, <2>4, <2>5
  <1>12. ActsTrue(h)'
    <2>1. \A a, b \in ActsOf(h) : (a.what \in Grave /\ a.rule < b.rule) => Excused(counted', h, a.rule)
      BY <1>7 DEF GroupsInv, ActsTrue
    <2>2. \A a \in ActsOf(h) : \A u \in rest : a.rule < u[1]
      BY <1>8, <1>10
    <2> QED BY <1>6, <1>8, <1>9, <2>1, <2>2 DEF ActsTrue
  <1>13. Kept
    <2>1. IsFiniteSet(counted')
      BY <1>2, FS_AddElement DEF GroupsInv
    <2> QED BY <1>2, <2>1 DEF Kept, GroupsInv
  <1>14. ASSUME NEW g \in Posts, g # h PROVE CheckTrue(g)' /\ ActsTrue(g)'
    <2>1. checking'[g] = checking[g] /\ ActsOf(g)' = ActsOf(g)
      BY <1>1, <1>9, <1>14 DEF GroupsInv, ActsOf
    <2>2. \A f \in counted' : f.post = g => \E x \in counted : x.post = g /\ x.rule = f.rule
      BY <1>2, <1>14
    <2> QED BY <1>1, <1>13, <2>1, <2>2, CheckStays
  <1>15. \A a \in acts : Cardinality(PostsOf(a.who, a.rule)' \cup {a.post}) >= a.threshold
    BY <1>13, KeptGrows DEF GroupsInv, DeedRow
  <1>16. \A f, x \in counted' : (f.post = x.post /\ f.rule = x.rule) => f = x
    <2>1. \A f \in counted : f.post = h => f.rule # t[1]
      BY <1>4
    <2> QED BY <1>2, <2>1 DEF GroupsInv
  <1>17. RulesTrue' /\ checking' \in [Posts -> CheckRow]
    BY <1>1, <1>9 DEF GroupsInv, RulesTrue
  <1>18. (\A f \in counted' : Signed(checking', f)) /\ (\A a \in acts : Signed(checking', a))
    <2>1. \A g \in Posts : Took(g) => /\ checking'[g].pc \in Taken
                                      /\ checking'[g].letter = checking[g].letter
      BY <1>9 DEF GroupsInv, Took, Taken
    <2>2. (\A f \in counted : Signed(checking', f)) /\ (\A a \in acts : Signed(checking', a))
      BY <1>17, <2>1, SignedStays
    <2>3. Signed(checking', e)
      <3>1. checking'[h].pc \in Taken /\ checking'[h].letter = e.letter
        BY <1>2, <1>9 DEF Taken
      <3> QED BY <1>2, <3>1 DEF Signed
    <2> QED BY <1>2, <2>2, <2>3
  <1> QED BY <1>1, <1>11, <1>12, <1>13, <1>14, <1>15, <1>16, <1>17, <1>18
          DEF GroupsInv, Kept, WroteStays

LEMMA GroupsFirst == GroupsInit => GroupsInv
  <1> SUFFICES ASSUME GroupsInit PROVE GroupsInv
    OBVIOUS
  <1>1. checking \in [Posts -> CheckRow] /\ \A h \in Posts : checking[h] = Unchecked
    BY UncheckedRow DEF GroupsInit
  <1>2. counted = {} /\ acts = {} /\ rules = <<>> /\ members = People
    BY DEF GroupsInit
  <1>3. ASSUME NEW h \in Posts PROVE CheckTrue(h) /\ ActsTrue(h)
    <2>1. checking[h].pc = "idle" /\ checking[h].todo = {}
      BY <1>1, UncheckedRow
    <2> QED BY <1>2, <2>1 DEF CheckTrue, ActsTrue, Turning, ActsOf
  <1>4. RulesTrue
    BY <1>2 DEF RulesTrue
  <1>5. IsFiniteSet(counted)
    BY <1>2, FS_EmptySet
  <1>6. wrote \in [Letters -> LetterRow]
    BY GroupsAssumption DEF GroupsInit, LetterRow
  <1> QED BY <1>1, <1>2, <1>3, <1>4, <1>5, <1>6 DEF GroupsInv

LEMMA GroupsStep == GroupsInv /\ [GroupsNext]_groupVars => GroupsInv'
  <1> SUFFICES ASSUME GroupsInv, [GroupsNext]_groupVars PROVE GroupsInv'
    OBVIOUS
  <1>1. CASE CopyNext
    BY <1>1, StepCopy
  <1>2. CASE ModerationNext
    <2>1. ASSUME NEW l \in Letters, ForgetLetter(l) PROVE GroupsInv'
      <3>1. UNCHANGED <<members, rules, wrote, checking, counted, acts>>
        BY <2>1 DEF ForgetLetter
      <3>2. members' \subseteq People /\ RulesTrue'
        BY <3>1 DEF GroupsInv, RulesTrue
      <3> QED BY <3>1, <3>2, NoDeed
    <2> QED BY <1>2, <2>1, StepRules, StepLooks, StepInsert, StepRead, StepCount, StepDeed,
               StepRecord, StepDies, StepElapses DEF ModerationNext
  <1>3. CASE UNCHANGED groupVars
    <2>1. UNCHANGED <<members, rules, wrote, checking, counted, acts>>
      BY <1>3 DEF groupVars
    <2>2. members' \subseteq People /\ RulesTrue'
      BY <2>1 DEF GroupsInv, RulesTrue
    <2> QED BY <2>1, <2>2, NoDeed
  <1> QED BY <1>1, <1>2, <1>3 DEF GroupsNext

\* Nobody is warned, has a message deleted or is removed before their own messages
\* that violated the rule, this one included, are as many as its threshold; and a
\* rule that deletes a message or removes its author is the last that acts on it,
\* unless one of its calls failed; messages that two posts stored excepted, for
\* any number of posts, rules and edits.
THEOREM RemovalsDeserved == GroupsSpec => []RemovalDeserved
  <1>1. GroupsSpec => []GroupsInv
    BY GroupsFirst, GroupsStep, PTL DEF GroupsSpec
  <1>2. GroupsInv => RemovalDeserved
    BY InvDeserves
  <1> QED BY <1>1, <1>2, PTL

-----------------------------------------------------------------------------
(* The rate limits: the requests let through in a window, and in the one     *)
(* before it as far as a stretch of that length reaches back.                *)

\* A finite set of numbers has a largest one.
LEMMA HasGreatest ==
    ASSUME NEW S, IsFiniteSet(S), S # {}, S \subseteq Nat
    PROVE  \E n \in S : \A m \in S : m <= n
<1>1. PICK N \in Nat : \E f \in [1..N -> S] : \A s \in S : \E i \in 1..N : f[i] = s
  <2>1. Cardinality(S) \in Nat /\ ExistsBijection(1..Cardinality(S), S) BY FS_CardinalityType
  <2> QED BY <2>1 DEF ExistsBijection, Bijection, Surjection, Injection
<1>2. PICK f \in [1..N -> S] : \A s \in S : \E i \in 1..N : f[i] = s BY <1>1
<1> DEFINE U == {n \in 0..N : \E b \in Nat : \A i \in 1..n : f[i] <= b}
<1>3. N \in U
  <2>1. 0 \in U OBVIOUS
  <2>2. ASSUME NEW k \in U, k < N PROVE k + 1 \in U
    <3>1. PICK b \in Nat : \A i \in 1..k : f[i] <= b OBVIOUS
    <3>2. k \in Nat /\ k + 1 \in 1..N BY <2>2
    <3>3. f[k + 1] \in Nat BY <3>2
    <3>4. PICK c \in Nat : b <= c /\ f[k + 1] <= c
      <4>1. CASE b <= f[k + 1] BY <3>3, <4>1
      <4>2. CASE ~(b <= f[k + 1]) BY <3>3, <4>2
      <4> QED BY <4>1, <4>2
    <3>5. ASSUME NEW i \in 1..(k + 1) PROVE f[i] <= c
      <4>1. CASE i = k + 1 BY <3>3, <3>4, <4>1
      <4>2. CASE i # k + 1
        <5>1. i \in 1..k /\ i \in 1..N BY <3>2, <4>2
        <5>2. f[i] \in Nat /\ f[i] <= b BY <3>1, <3>2, <5>1
        <5> QED BY <3>4, <5>2
      <4> QED BY <4>1, <4>2
    <3> QED BY <3>2, <3>4, <3>5
  <2> HIDE DEF U
  <2>3. U \in SUBSET (0..N) BY DEF U
  <2> QED BY <2>1, <2>2, <2>3, UpTo
<1> DEFINE B == {b \in Nat : \A s \in S : s <= b}
<1>4. B # {}
  <2>1. PICK b \in Nat : \A i \in 1..N : f[i] <= b BY <1>3
  <2>2. \A s \in S : s <= b BY <1>2, <2>1
  <2> QED BY <2>1, <2>2
<1>5. PICK n \in B : \A b \in B : n <= b
  <2>1. B \in SUBSET Nat OBVIOUS
  <2> HIDE DEF B
  <2> QED BY <1>4, <2>1, HasLeast
<1>6. n \in S
  <2> SUFFICES ASSUME n \notin S PROVE FALSE OBVIOUS
  <2>1. \A s \in S : s < n BY <1>5
  <2>2. n \in Nat /\ n - 1 \in Nat
    <3>1. PICK s \in S : TRUE OBVIOUS
    <3> QED BY <2>1, <3>1
  <2>3. ASSUME NEW s \in S PROVE s <= n - 1
    <3>1. s \in Nat /\ s < n BY <2>1
    <3> QED BY <2>2, <3>1
  <2>4. n - 1 \in B BY <2>2, <2>3
  <2>5. n <= n - 1 BY <1>5, <2>4
  <2> QED BY <2>2, <2>5
<1> QED BY <1>5, <1>6

LEMMA HighestIs == Highest \in Nat \ {0} /\ \A n \in Limits : n <= Highest
<1>1. IsFiniteSet(Limits)
  BY RateAssumption, FS_AddElement DEF Limits
<1>2. \E n \in Limits : \A m \in Limits : m <= n
  BY <1>1, HasGreatest, RateAssumption DEF Limits
<1>3. Highest \in Limits /\ \A m \in Limits : m <= Highest
  BY <1>2 DEF Highest
<1> QED BY <1>3, RateAssumption DEF Limits

Pasts == [0..(Span - 1) -> Nat]
Summed(f, p) == f = [n \in 0..Span |-> IF n = 0 THEN 0 ELSE f[n - 1] + p[n - 1]]
Lately(p) == CHOOSE f : Summed(f, p)

LEMMA LatelyIsPassed == ASSUME NEW k PROVE PassedLately(k) = Lately(passed[k])[Span]
BY DEF PassedLately, Lately, Summed

LEMMA LatelyExists == ASSUME NEW p \in Pasts PROVE \E f : Summed(f, p)
<1> DEFINE Sums(n) == {f \in [0..n -> Nat] :
                          \A a \in 0..n : f[a] = IF a = 0 THEN 0 ELSE f[a - 1] + p[a - 1]}
           U == {n \in 0..Span : Sums(n) # {}}
<1>1. Span \in Nat \ {0} BY RateAssumption
<1>2. 0 \in U
  <2>1. [x \in 0..0 |-> 0] \in Sums(0) OBVIOUS
  <2> QED BY <1>1, <2>1
<1>3. ASSUME NEW n \in U, n < Span PROVE n + 1 \in U
  <2>1. n \in Nat /\ n + 1 \in 0..Span BY <1>1, <1>3
  <2>2. PICK f \in Sums(n) : TRUE BY <1>3
  <2> DEFINE g == [a \in 0..(n + 1) |-> IF a <= n THEN f[a] ELSE f[n] + p[n]]
  <2>3. p[n] \in Nat BY <1>1, <1>3, <2>1 DEF Pasts
  <2>4. g \in [0..(n + 1) -> Nat] BY <2>1, <2>2, <2>3
  <2>5. ASSUME NEW a \in 0..(n + 1)
        PROVE  g[a] = IF a = 0 THEN 0 ELSE g[a - 1] + p[a - 1]
    <3>1. CASE a <= n BY <2>1, <2>2, <3>1
    <3>2. CASE a = n + 1 BY <2>1, <3>2
    <3> QED BY <2>1, <3>1, <3>2
  <2> HIDE DEF g
  <2>6. g \in Sums(n + 1) BY <2>4, <2>5
  <2> QED BY <2>1, <2>6
<1>4. Span \in U
  <2>1. U \in SUBSET (0..Span) OBVIOUS
  <2> HIDE DEF U
  <2> QED BY <1>1, <1>2, <1>3, <2>1, UpTo
<1>5. PICK f \in Sums(Span) : TRUE BY <1>4
<1> QED BY <1>5 DEF Summed

LEMMA LatelyIs ==
    ASSUME NEW p \in Pasts
    PROVE  /\ Lately(p)[0] = 0
           /\ \A a \in 0..(Span - 1) : Lately(p)[a + 1] = Lately(p)[a] + p[a]
           /\ \A a \in 0..Span : Lately(p)[a] \in Nat
<1> DEFINE f == Lately(p)
<1>0. Span \in Nat \ {0} BY RateAssumption
<1>1. Summed(f, p) BY LatelyExists DEF Lately
<1> HIDE DEF f
<1>2. \A a \in 0..Span : f[a] = IF a = 0 THEN 0 ELSE f[a - 1] + p[a - 1]
  BY <1>1 DEF Summed
<1>3. f[0] = 0 BY <1>0, <1>2
<1>4. ASSUME NEW a \in 0..(Span - 1) PROVE f[a + 1] = f[a] + p[a]
  <2>1. a + 1 \in 0..Span /\ a + 1 # 0 /\ (a + 1) - 1 = a BY <1>0
  <2> QED BY <1>2, <2>1
<1>5. ASSUME NEW n \in 0..Span PROVE f[n] \in Nat
  <2> DEFINE V == {a \in 0..n : f[a] \in Nat}
  <2>1. 0 \in V BY <1>3, <1>0
  <2>2. ASSUME NEW a \in V, a < n PROVE a + 1 \in V
    <3>1. a \in 0..(Span - 1) BY <1>0, <2>2
    <3>2. p[a] \in Nat BY <3>1 DEF Pasts
    <3> QED BY <1>0, <1>4, <2>2, <3>1, <3>2
  <2>3. V \in SUBSET (0..n) /\ n \in Nat BY <1>0
  <2> HIDE DEF V
  <2>4. n \in V BY <2>1, <2>2, <2>3, UpTo
  <2> QED BY <2>4 DEF V
<1> QED BY <1>3, <1>4, <1>5 DEF f

\* A unit of time later, and one request more.
LEMMA LatelyShifts ==
    ASSUME NEW p \in Pasts, NEW q \in Pasts, q[0] = 0,
           \A a \in 1..(Span - 1) : q[a] = p[a - 1]
    PROVE  \A a \in 0..(Span - 1) : Lately(q)[a + 1] = Lately(p)[a]
<1> DEFINE f == Lately(p)
           g == Lately(q)
<1>0. Span \in Nat \ {0} BY RateAssumption
<1>1. f[0] = 0 /\ \A a \in 0..(Span - 1) : f[a + 1] = f[a] + p[a] BY LatelyIs
<1>2. g[0] = 0 /\ \A a \in 0..(Span - 1) : g[a + 1] = g[a] + q[a] BY LatelyIs
<1>3. \A a \in 0..Span : f[a] \in Nat BY LatelyIs
<1> HIDE DEF f, g
<1>4. ASSUME NEW n \in 0..(Span - 1) PROVE g[n + 1] = f[n]
  <2> DEFINE V == {a \in 0..n : g[a + 1] = f[a]}
  <2>1. 0 \in V
    <3>1. 0 \in 0..(Span - 1) /\ 0 \in 0..n /\ 0 + 1 = 1 BY <1>0
    <3>2. g[0 + 1] = g[0] + q[0] BY <1>2, <3>1
    <3> QED BY <1>1, <1>2, <3>1, <3>2
  <2>2. ASSUME NEW a \in V, a < n PROVE a + 1 \in V
    <3>1. a \in 0..(Span - 1) /\ a + 1 \in 1..(Span - 1) /\ (a + 1) - 1 = a /\ a + 1 \in 0..n
      BY <1>0, <2>2
    <3>2. g[(a + 1) + 1] = g[a + 1] + q[a + 1] BY <1>2, <3>1
    <3>3. q[a + 1] = p[a] BY <3>1
    <3>4. f[a + 1] = f[a] + p[a] BY <1>1, <3>1
    <3> QED BY <2>2, <3>1, <3>2, <3>3, <3>4
  <2>3. V \in SUBSET (0..n) /\ n \in Nat BY <1>0
  <2> HIDE DEF V
  <2>4. n \in V BY <2>1, <2>2, <2>3, UpTo
  <2> QED BY <2>4 DEF V
<1> QED BY <1>4 DEF f, g

LEMMA LatelyGrows ==
    ASSUME NEW p \in Pasts, NEW q \in Pasts, q[0] = p[0] + 1,
           \A a \in 1..(Span - 1) : q[a] = p[a]
    PROVE  \A a \in 1..Span : Lately(q)[a] = Lately(p)[a] + 1
<1> DEFINE f == Lately(p)
           g == Lately(q)
<1>0. Span \in Nat \ {0} BY RateAssumption
<1>1. f[0] = 0 /\ \A a \in 0..(Span - 1) : f[a + 1] = f[a] + p[a] BY LatelyIs
<1>2. g[0] = 0 /\ \A a \in 0..(Span - 1) : g[a + 1] = g[a] + q[a] BY LatelyIs
<1>3. \A a \in 0..Span : f[a] \in Nat BY LatelyIs
<1> HIDE DEF f, g
<1>4. ASSUME NEW n \in 0..(Span - 1) PROVE g[n + 1] = f[n + 1] + 1
  <2> DEFINE V == {a \in 0..n : g[a + 1] = f[a + 1] + 1}
  <2>1. 0 \in V
    <3>1. 0 \in 0..(Span - 1) /\ 0 \in 0..n /\ 0 + 1 = 1 BY <1>0
    <3>2. g[0 + 1] = g[0] + q[0] /\ f[0 + 1] = f[0] + p[0] BY <1>1, <1>2, <3>1
    <3>3. p[0] \in Nat BY <3>1 DEF Pasts
    <3> QED BY <1>1, <1>2, <3>1, <3>2, <3>3
  <2>2. ASSUME NEW a \in V, a < n PROVE a + 1 \in V
    <3>1. a + 1 \in 1..(Span - 1) /\ a + 1 \in 0..(Span - 1) /\ a + 1 \in 0..n /\ a + 1 \in 0..Span
      BY <1>0, <2>2
    <3>2. g[(a + 1) + 1] = g[a + 1] + q[a + 1] /\ f[(a + 1) + 1] = f[a + 1] + p[a + 1]
      BY <1>1, <1>2, <3>1
    <3>3. q[a + 1] = p[a + 1] /\ p[a + 1] \in Nat BY <3>1 DEF Pasts
    <3>4. f[a + 1] \in Nat BY <1>3, <3>1
    <3> QED BY <2>2, <3>1, <3>2, <3>3, <3>4
  <2>3. V \in SUBSET (0..n) /\ n \in Nat BY <1>0
  <2> HIDE DEF V
  <2>4. n \in V BY <2>1, <2>2, <2>3, UpTo
  <2> QED BY <2>4 DEF V
<1>5. ASSUME NEW a \in 1..Span PROVE g[a] = f[a] + 1
  <2>1. a - 1 \in 0..(Span - 1) /\ (a - 1) + 1 = a BY <1>0
  <2> QED BY <1>4, <2>1
<1> QED BY <1>5 DEF f, g

\* A window that lasts l more units was opened Span - l units ago by a request
\* that passed; what passed since fits the largest limit, and what passed before
\* it in the last Span units lacks the request that opened the window before.
RateKeyHeld(w, p) ==
    /\ w.left > 0 =>
         /\ Lately(p)[Span - w.left + 1] <= w.count
         /\ Lately(p)[Span - w.left + 1] <= Highest
         /\ Lately(p)[Span] < Lately(p)[Span - w.left + 1] + Highest
         /\ p[Span - w.left] >= 1
    /\ w.left = 0 => Lately(p)[Span] < Highest /\ p[0] = 0

RateWindow == [left : 0..Span, count : Nat]
RateCall == [way : Seq(RouteStages), limit : Limits \cup {0}]
RateInv ==
    /\ window \in [Keys -> RateWindow]
    /\ onWay \in [Incoming -> RateCall]
    /\ passed \in [Keys -> Pasts]
    /\ planLimit \in PlanLimits
    /\ \A k \in Keys : RateKeyHeld(window[k], passed[k])

LEMMA RateInvTells == ASSUME RateInv PROVE RateHeld
<1> SUFFICES ASSUME NEW k \in Keys PROVE PassedLately(k) < 2 * Highest BY DEF RateHeld
<1>1. PICK w : w = window[k] OBVIOUS
<1>2. PICK p : p = passed[k] OBVIOUS
<1>3. w \in RateWindow /\ p \in Pasts /\ RateKeyHeld(w, p) BY <1>1, <1>2 DEF RateInv
<1>4. Span \in Nat \ {0} /\ w.left \in 0..Span BY <1>3, RateAssumption DEF RateWindow
<1>5. Span \in 0..Span /\ (w.left > 0 => Span - w.left + 1 \in 0..Span) BY <1>4
<1>6. PICK s : s = Lately(p)[Span] OBVIOUS
<1>7. PICK t : t = Lately(p)[Span - w.left + 1] OBVIOUS
<1>8. s \in Nat /\ (w.left > 0 => t \in Nat) BY <1>3, <1>5, <1>6, <1>7, LatelyIs
<1>9. s < 2 * Highest
  <2>1. CASE w.left > 0
    <3>1. t \in Nat /\ t <= Highest /\ s < t + Highest BY <1>3, <1>6, <1>7, <1>8, <2>1 DEF RateKeyHeld
    <3> QED BY <1>8, <3>1, HighestIs
  <2>2. CASE w.left = 0
    <3>1. s < Highest BY <1>3, <1>6, <2>2 DEF RateKeyHeld
    <3> QED BY <1>8, <3>1, HighestIs
  <2> QED BY <1>4, <2>1, <2>2
<1> QED BY <1>2, <1>6, <1>9, LatelyIsPassed

\* One request more, in a window that lasts or one that it opens.
LEMMA RateCounts ==
    ASSUME NEW w \in RateWindow, NEW p \in Pasts, RateKeyHeld(w, p),
           NEW limit \in Limits, NEW v \in RateWindow, NEW q \in Pasts,
           w.left = 0 => v.left = Span /\ v.count = 1,
           w.left > 0 => v.left = w.left /\ v.count = w.count + 1,
           v.count = 1 \/ v.count <= limit =>
              q[0] = p[0] + 1 /\ \A a \in 1..(Span - 1) : q[a] = p[a],
           ~(v.count = 1 \/ v.count <= limit) => q = p
    PROVE  RateKeyHeld(v, q)
<1>1. Span \in Nat \ {0} /\ w.left \in 0..Span /\ w.count \in Nat /\ limit \in Nat /\ limit <= Highest
      /\ Highest \in Nat \ {0}
  BY RateAssumption, HighestIs DEF RateWindow, Limits
<1> DEFINE n == Span - v.left + 1
<1>2. PICK s : s = Lately(p)[Span] OBVIOUS
<1>3. PICK t : t = Lately(p)[n] OBVIOUS
<1>4. v.left \in 1..Span BY <1>1
<1>5. n \in 1..Span /\ n \in 0..Span /\ Span \in 1..Span /\ Span \in 0..Span BY <1>1, <1>4
<1>6. s \in Nat /\ t \in Nat BY <1>2, <1>3, <1>5, LatelyIs
<1>7. CASE w.left = 0
  <2>1. v.left = Span /\ v.count = 1 /\ n = 1 BY <1>1, <1>7
  <2>2. \A a \in 1..Span : Lately(q)[a] = Lately(p)[a] + 1 BY <1>7, LatelyGrows
  <2>3. s < Highest /\ p[0] = 0 /\ q[0] = 1 BY <1>2, <1>7, <2>1 DEF RateKeyHeld
  <2>4. t = 0
    <3>1. 0 \in 0..(Span - 1) BY <1>1
    <3>2. Lately(p)[0 + 1] = Lately(p)[0] + p[0] /\ Lately(p)[0] = 0 BY <3>1, LatelyIs
    <3> QED BY <1>3, <2>1, <2>3, <3>2
  <2>5. Lately(q)[n] = 1 /\ Lately(q)[Span] = s + 1
    <3>1. Lately(q)[n] = Lately(p)[n] + 1 /\ Lately(q)[Span] = Lately(p)[Span] + 1
      BY <1>5, <2>2
    <3>2. Lately(p)[n] = 0 BY <1>3, <2>4
    <3> QED BY <1>2, <3>1, <3>2
  <2>6. Span - v.left = 0 BY <1>1, <2>1
  <2>7. s + 1 < 1 + Highest BY <1>1, <1>6, <2>3
  <2> QED BY <1>1, <1>4, <2>1, <2>3, <2>5, <2>6, <2>7 DEF RateKeyHeld
<1>8. CASE w.left > 0
  <2>1. v.left = w.left /\ v.count = w.count + 1 BY <1>8
  <2>2. t <= w.count /\ t <= Highest /\ s < t + Highest /\ p[Span - v.left] >= 1
    BY <1>2, <1>3, <1>8, <2>1 DEF RateKeyHeld
  <2>3. t >= 1
    <3>1. Span - v.left \in 0..(Span - 1) /\ Span - v.left \in 0..Span BY <1>1, <1>4
    <3>2. Lately(p)[n] = Lately(p)[Span - v.left] + p[Span - v.left] BY <3>1, LatelyIs
    <3>3. Lately(p)[Span - v.left] \in Nat /\ p[Span - v.left] \in Nat BY <3>1, LatelyIs DEF Pasts
    <3> QED BY <1>3, <2>2, <3>2, <3>3
  <2>4. CASE v.count = 1 \/ v.count <= limit
    <3>1. q[0] = p[0] + 1 /\ \A a \in 1..(Span - 1) : q[a] = p[a] BY <2>4
    <3>2. Lately(q)[n] = t + 1 /\ Lately(q)[Span] = s + 1
      BY <1>2, <1>3, <1>5, <3>1, LatelyGrows
    <3>3. v.count <= limit BY <1>1, <2>1, <2>2, <2>3, <2>4, <1>6
    <3>4. t + 1 <= v.count /\ t + 1 <= Highest /\ s + 1 < (t + 1) + Highest
      BY <1>1, <1>6, <2>1, <2>2, <3>3
    <3>5. q[Span - v.left] >= 1
      <4>1. CASE Span - v.left = 0
        <5>1. 0 \in 0..(Span - 1) BY <1>1
        <5>2. p[0] \in Nat BY <5>1 DEF Pasts
        <5> QED BY <3>1, <4>1, <5>2
      <4>2. CASE Span - v.left # 0
        <5>1. Span - v.left \in 1..(Span - 1) BY <1>1, <1>4, <4>2
        <5> QED BY <2>2, <3>1, <5>1
      <4> QED BY <4>1, <4>2
    <3> QED BY <1>4, <3>2, <3>4, <3>5 DEF RateKeyHeld
  <2>5. CASE ~(v.count = 1 \/ v.count <= limit)
    <3>1. q = p BY <2>5
    <3>2. t <= v.count BY <1>1, <1>6, <2>1, <2>2
    <3> QED BY <1>2, <1>3, <1>4, <2>2, <3>1, <3>2 DEF RateKeyHeld
  <2> QED BY <2>4, <2>5
<1> QED BY <1>1, <1>7, <1>8

\* A unit of time, in which a window may end.
LEMMA RatePasses ==
    ASSUME NEW w \in RateWindow, NEW p \in Pasts, RateKeyHeld(w, p),
           NEW v \in RateWindow, NEW q \in Pasts,
           v.left = (IF w.left = 0 THEN 0 ELSE w.left - 1), v.count = w.count,
           q[0] = 0, \A a \in 1..(Span - 1) : q[a] = p[a - 1]
    PROVE  RateKeyHeld(v, q)
<1>1. Span \in Nat \ {0} /\ w.left \in 0..Span /\ w.count \in Nat /\ Highest \in Nat \ {0}
  BY RateAssumption, HighestIs DEF RateWindow
<1>2. \A a \in 0..(Span - 1) : Lately(q)[a + 1] = Lately(p)[a] BY LatelyShifts
<1>3. \A a \in 0..(Span - 1) : Lately(p)[a + 1] = Lately(p)[a] + p[a] BY LatelyIs
<1>4. \A a \in 0..Span : Lately(p)[a] \in Nat BY LatelyIs
<1>5. PICK s : s = Lately(p)[Span] OBVIOUS
<1>6. PICK r : r = Lately(p)[Span - 1] OBVIOUS
<1>7. PICK x : x = p[Span - 1] OBVIOUS
<1>8. s = r + x /\ Lately(q)[Span] = r /\ s \in Nat /\ r \in Nat /\ x \in Nat
  <2>1. Span - 1 \in 0..(Span - 1) /\ Span - 1 \in 0..Span /\ (Span - 1) + 1 = Span /\ Span \in 0..Span
    BY <1>1
  <2>2. Lately(q)[(Span - 1) + 1] = Lately(p)[Span - 1] BY <1>2, <2>1
  <2>3. Lately(p)[(Span - 1) + 1] = Lately(p)[Span - 1] + p[Span - 1] BY <1>3, <2>1
  <2>4. p[Span - 1] \in Nat BY <2>1 DEF Pasts
  <2> QED BY <1>4, <1>5, <1>6, <1>7, <2>1, <2>2, <2>3, <2>4
<1>9. CASE w.left = 0
  <2>1. s < Highest BY <1>5, <1>9 DEF RateKeyHeld
  <2>2. v.left = 0 /\ r < Highest BY <1>1, <1>8, <1>9, <2>1
  <2> QED BY <1>8, <2>2 DEF RateKeyHeld
<1>10. CASE w.left = 1
  <2>1. Span - w.left + 1 = Span /\ Span - w.left = Span - 1 BY <1>1, <1>10
  <2>2. s <= Highest /\ x >= 1 BY <1>5, <1>7, <1>10, <2>1 DEF RateKeyHeld
  <2>3. v.left = 0 /\ r < Highest BY <1>1, <1>8, <1>10, <2>2
  <2> QED BY <1>8, <2>3 DEF RateKeyHeld
<1>11. CASE w.left > 1
  <2>1. v.left = w.left - 1 /\ v.left > 0 BY <1>1, <1>11
  <2> DEFINE m == Span - w.left + 1
  <2>2. m \in 1..(Span - 1) /\ m \in 0..(Span - 1) /\ m \in 0..Span /\ Span - v.left + 1 = m + 1
        /\ Span - v.left = m /\ m - 1 = Span - w.left
    BY <1>1, <1>11, <2>1
  <2>3. PICK t : t = Lately(p)[m] OBVIOUS
  <2>4. t \in Nat BY <1>4, <2>2, <2>3
  <2>5. Lately(q)[m + 1] = t BY <1>2, <2>2, <2>3
  <2>6. t <= w.count /\ t <= Highest /\ s < t + Highest /\ p[Span - w.left] >= 1
    BY <1>1, <1>5, <1>11, <2>3 DEF RateKeyHeld
  <2>7. q[m] >= 1 BY <2>2, <2>6
  <2>8. r < t + Highest BY <1>1, <1>8, <2>4, <2>6
  <2> HIDE DEF m
  <2> QED BY <1>8, <2>1, <2>2, <2>5, <2>6, <2>7, <2>8 DEF RateKeyHeld
<1> QED BY <1>1, <1>9, <1>10, <1>11

LEMMA CheckHolds ==
    ASSUME RateInv, NEW c \in Incoming, NEW limit \in Limits, onWay[c].way # <<>>, Check(c, limit)
    PROVE  RateInv'
<1>1. PICK k : k = Head(onWay[c].way).key OBVIOUS
<1>2. onWay[c] \in RateCall /\ k \in Keys /\ Tail(onWay[c].way) \in Seq(RouteStages)
  <2>1. onWay[c] \in RateCall /\ onWay[c].way \in Seq(RouteStages) BY DEF RateInv, RateCall
  <2>2. Head(onWay[c].way) \in RouteStages /\ Tail(onWay[c].way) \in Seq(RouteStages)
    BY <2>1, HeadTailProperties
  <2> QED BY <1>1, <2>1, <2>2 DEF RouteStages
<1>3. PICK w : w = window[k] OBVIOUS
<1>4. PICK p : p = passed[k] OBVIOUS
<1>5. w \in RateWindow /\ p \in Pasts /\ RateKeyHeld(w, p) BY <1>2, <1>3, <1>4 DEF RateInv
<1>6. PICK v : v = Counted(k, limit) OBVIOUS
<1>7. Span \in Nat \ {0} BY RateAssumption
<1>8. /\ v \in RateWindow
      /\ w.left = 0 => v.left = Span /\ v.count = 1
      /\ w.left > 0 => v.left = w.left /\ v.count = w.count + 1
  <2>1. CASE w.left = 0
    <3>1. v = [left |-> Span, count |-> 1] BY <1>3, <1>6, <2>1 DEF Counted
    <3> QED BY <1>7, <2>1, <3>1 DEF RateWindow
  <2>2. CASE w.left # 0
    <3>1. v = [w EXCEPT !.count = @ + 1] BY <1>3, <1>6, <2>2 DEF Counted
    <3> QED BY <1>5, <2>2, <3>1 DEF RateWindow
  <2> QED BY <2>1, <2>2
<1>9. PICK q : q = passed'[k] OBVIOUS
<1>10. /\ window' = [window EXCEPT ![k] = v]
       /\ planLimit' = planLimit
       /\ IF v.count = 1 \/ v.count <= limit
          THEN /\ passed' = [passed EXCEPT ![k][0] = @ + 1]
               /\ onWay' = [onWay EXCEPT ![c] = [way |-> Tail(onWay[c].way), limit |-> 0]]
          ELSE /\ onWay' = [onWay EXCEPT ![c] = NoCall]
               /\ UNCHANGED passed
  BY <1>1, <1>6 DEF Check
<1>11. /\ q \in Pasts
       /\ \A j \in Keys : j # k => passed'[j] = passed[j]
       /\ passed' \in [Keys -> Pasts]
       /\ v.count = 1 \/ v.count <= limit =>
             q[0] = p[0] + 1 /\ \A a \in 1..(Span - 1) : q[a] = p[a]
       /\ ~(v.count = 1 \/ v.count <= limit) => q = p
  <2>1. passed \in [Keys -> Pasts] BY DEF RateInv
  <2>2. CASE v.count = 1 \/ v.count <= limit
    <3>1. passed' = [passed EXCEPT ![k] = [p EXCEPT ![0] = @ + 1]] BY <1>4, <1>10, <2>2
    <3>2. q = [p EXCEPT ![0] = @ + 1] BY <1>2, <1>9, <2>1, <3>1
    <3>3. 0 \in 0..(Span - 1) BY <1>7
    <3>4. p[0] + 1 \in Nat BY <1>5, <3>3 DEF Pasts
    <3>5. q \in Pasts /\ q[0] = p[0] + 1 /\ \A a \in 1..(Span - 1) : q[a] = p[a]
      BY <1>5, <1>7, <3>2, <3>3, <3>4 DEF Pasts
    <3> HIDE DEF Pasts
    <3> QED BY <1>2, <2>1, <2>2, <3>1, <3>2, <3>5
  <2>3. CASE ~(v.count = 1 \/ v.count <= limit) BY <1>4, <1>5, <1>9, <1>10, <2>1, <2>3
  <2> QED BY <2>2, <2>3
<1>12. RateKeyHeld(v, q) BY <1>5, <1>8, <1>11, RateCounts
<1>13. window' \in [Keys -> RateWindow] /\ window'[k] = v
       /\ \A j \in Keys : j # k => window'[j] = window[j]
  BY <1>2, <1>8, <1>10 DEF RateInv
<1>14. \A j \in Keys : RateKeyHeld(window'[j], passed'[j])
  <2> SUFFICES ASSUME NEW j \in Keys PROVE RateKeyHeld(window'[j], passed'[j]) OBVIOUS
  <2>1. CASE j = k BY <1>9, <1>12, <1>13, <2>1
  <2>2. CASE j # k
    <3>1. window'[j] = window[j] /\ passed'[j] = passed[j] BY <1>11, <1>13, <2>2
    <3> QED BY <3>1 DEF RateInv
  <2> QED BY <2>1, <2>2
<1>15. onWay' \in [Incoming -> RateCall]
  <2>1. [way |-> Tail(onWay[c].way), limit |-> 0] \in RateCall BY <1>2 DEF RateCall
  <2>2. NoCall \in RateCall BY EmptySeq DEF NoCall, RateCall
  <2> QED BY <1>10, <2>1, <2>2 DEF RateInv
<1> QED BY <1>10, <1>11, <1>13, <1>14, <1>15 DEF RateInv

LEMMA RateStarts == ASSUME RateInit PROVE RateInv
<1>1. Span \in Nat \ {0} BY RateAssumption
<1>2. PICK p : p = [a \in 0..(Span - 1) |-> 0] OBVIOUS
<1>3. p \in Pasts /\ p[0] = 0 BY <1>1, <1>2 DEF Pasts
<1>4. Lately(p)[Span] = 0
  <2> DEFINE f == Lately(p)
             U == {a \in 0..Span : f[a] = 0}
  <2>1. f[0] = 0 /\ \A a \in 0..(Span - 1) : f[a + 1] = f[a] + p[a] BY <1>3, LatelyIs
  <2> HIDE DEF f
  <2>2. 0 \in U BY <1>1, <2>1
  <2>3. ASSUME NEW a \in U, a < Span PROVE a + 1 \in U
    <3>1. a \in 0..(Span - 1) BY <1>1, <2>3
    <3>2. p[a] = 0 BY <1>2, <3>1
    <3> QED BY <1>1, <2>1, <2>3, <3>1, <3>2
  <2>4. U \in SUBSET (0..Span) OBVIOUS
  <2> HIDE DEF U
  <2>5. Span \in U BY <1>1, <2>2, <2>3, <2>4, UpTo
  <2> QED BY <2>5 DEF U, f
<1>5. RateKeyHeld(NoWindow, p) BY <1>3, <1>4, HighestIs DEF RateKeyHeld, NoWindow
<1>6. NoWindow \in RateWindow BY <1>1 DEF NoWindow, RateWindow
<1>7. NoCall \in RateCall BY EmptySeq DEF NoCall, RateCall
<1>8. planLimit \in PlanLimits BY RateAssumption DEF RateInit
<1> QED BY <1>2, <1>3, <1>5, <1>6, <1>7, <1>8 DEF RateInit, RateInv

LEMMA InstantHolds == ASSUME RateInv, Instant PROVE RateInv'
<1>1. Span \in Nat \ {0} BY RateAssumption
<1>2. ASSUME NEW k \in Keys
      PROVE  window'[k] \in RateWindow /\ passed'[k] \in Pasts /\ RateKeyHeld(window'[k], passed'[k])
  <2>1. PICK w : w = window[k] OBVIOUS
  <2>2. PICK p : p = passed[k] OBVIOUS
  <2>3. w \in RateWindow /\ p \in Pasts /\ RateKeyHeld(w, p) BY <2>1, <2>2 DEF RateInv
  <2>4. PICK v : v = window'[k] OBVIOUS
  <2>5. PICK q : q = passed'[k] OBVIOUS
  <2>6. v = [w EXCEPT !.left = IF @ = 0 THEN 0 ELSE @ - 1] BY <2>1, <2>4 DEF Instant
  <2>7. v \in RateWindow /\ v.left = (IF w.left = 0 THEN 0 ELSE w.left - 1) /\ v.count = w.count
    BY <1>1, <2>3, <2>6 DEF RateWindow
  <2>8. q = [a \in 0..(Span - 1) |-> IF a = 0 THEN 0 ELSE p[a - 1]] BY <2>2, <2>5 DEF Instant
  <2>9. q \in Pasts
    <3> SUFFICES ASSUME NEW a \in 0..(Span - 1) PROVE (IF a = 0 THEN 0 ELSE p[a - 1]) \in Nat
      BY <2>8 DEF Pasts
    <3> QED BY <1>1, <2>3 DEF Pasts
  <2>10. q[0] = 0 /\ \A a \in 1..(Span - 1) : q[a] = p[a - 1] BY <1>1, <2>8
  <2>11. RateKeyHeld(v, q) BY <2>3, <2>7, <2>9, <2>10, RatePasses
  <2> QED BY <2>4, <2>5, <2>7, <2>9, <2>11
<1>3. window' = [k \in Keys |-> window'[k]] /\ passed' = [k \in Keys |-> passed'[k]]
  BY DEF Instant
<1>4. UNCHANGED <<planLimit, onWay>> BY DEF Instant
<1>5. window' \in [Keys -> RateWindow] /\ passed' \in [Keys -> Pasts] BY <1>2, <1>3
<1> QED BY <1>2, <1>4, <1>5 DEF RateInv

LEMMA CleanupHolds == ASSUME RateInv, Cleanup PROVE RateInv'
<1>1. UNCHANGED <<planLimit, onWay, passed>> BY DEF Cleanup
<1>2. ASSUME NEW k \in Keys
      PROVE  window'[k] \in RateWindow /\ RateKeyHeld(window'[k], passed[k])
  <2>1. window[k] \in RateWindow /\ RateKeyHeld(window[k], passed[k]) BY DEF RateInv
  <2>2. CASE window[k].left = 0
    <3>1. window'[k] = NoWindow BY <2>2 DEF Cleanup
    <3>2. NoWindow \in RateWindow BY RateAssumption DEF NoWindow, RateWindow
    <3> QED BY <2>1, <2>2, <3>1, <3>2 DEF RateKeyHeld, NoWindow
  <2>3. CASE window[k].left # 0
    <3>1. window'[k] = window[k] BY <2>3 DEF Cleanup
    <3> QED BY <2>1, <3>1
  <2> QED BY <2>2, <2>3
<1>3. window' = [k \in Keys |-> window'[k]] BY DEF Cleanup
<1>4. window' \in [Keys -> RateWindow] BY <1>2, <1>3
<1> QED BY <1>1, <1>2, <1>4 DEF RateInv

LEMMA CallsHold ==
    ASSUME RateInv, UNCHANGED <<window, passed>>, planLimit' \in PlanLimits,
           onWay' \in [Incoming -> RateCall]
    PROVE  RateInv'
BY DEF RateInv

LEMMA RateSteps == ASSUME RateInv, [RateNext]_rateVars PROVE RateInv'
<1>1. ASSUME NEW c \in Incoming, Enters(c) PROVE RateInv'
  <2>1. PICK r \in Chains : onWay' = [onWay EXCEPT ![c].way = r] BY <1>1 DEF Enters
  <2>2. r \in Seq(RouteStages) BY ChainsAssumption
  <2>3. onWay' \in [Incoming -> RateCall] BY <2>1, <2>2 DEF RateInv, RateCall
  <2> QED BY <1>1, <2>3, CallsHold DEF Enters, RateInv
<1>2. ASSUME NEW c \in Incoming, NEW by, FixedCheck(c, by) PROVE RateInv'
  <2>1. FixedLimit \in Limits BY DEF Limits
  <2> QED BY <1>2, <2>1, CheckHolds DEF FixedCheck, NextIs
<1>3. ASSUME NEW c \in Incoming, NEW by, ReadsLimit(c, by) PROVE RateInv'
  <2>1. PICK n \in {planLimit, FixedLimit} : onWay' = [onWay EXCEPT ![c].limit = n]
    BY <1>3 DEF ReadsLimit
  <2>2. n \in Limits BY DEF RateInv, Limits
  <2>3. onWay' \in [Incoming -> RateCall] BY <2>1, <2>2 DEF RateInv, RateCall
  <2> QED BY <1>3, <2>3, CallsHold DEF ReadsLimit, RateInv
<1>4. ASSUME NEW c \in Incoming, NEW by, PlanCheck(c, by) PROVE RateInv'
  <2>1. onWay[c].limit \in Limits BY <1>4 DEF PlanCheck, RateInv, RateCall
  <2> QED BY <1>4, <2>1, CheckHolds DEF PlanCheck, NextIs
<1>5. ASSUME LimitChanges PROVE RateInv'
  <2>1. planLimit' \in PlanLimits /\ UNCHANGED <<window, onWay, passed>> BY <1>5 DEF LimitChanges
  <2>2. onWay' \in [Incoming -> RateCall] BY <2>1 DEF RateInv
  <2> QED BY <2>1, <2>2, CallsHold
<1>6. ASSUME UNCHANGED rateVars PROVE RateInv'
  BY <1>6 DEF rateVars, RateInv
<1>7. ASSUME NEW c \in Incoming,
             \/ GlobalRateLimit(c) \/ LoginRateLimit(c)
             \/ CriticalEndpointRateLimit(c) \/ WsUpgrade(c)
      PROVE  RateInv'
  BY <1>2, <1>7 DEF GlobalRateLimit, LoginRateLimit, CriticalEndpointRateLimit, WsUpgrade
<1>8. ASSUME NEW c \in Incoming,
             \/ GetPlanLimitsForApiKey(c) \/ ApiKeyRateLimit(c)
             \/ GetPlanLimitsForInstance(c) \/ PerInstanceRateLimit(c)
      PROVE  RateInv'
  BY <1>3, <1>4, <1>8 DEF GetPlanLimitsForApiKey, ApiKeyRateLimit, GetPlanLimitsForInstance,
     PerInstanceRateLimit
<1>9. ASSUME Instant \/ Cleanup PROVE RateInv'
  BY <1>9, InstantHolds, CleanupHolds
<1>10. CASE RateNext BY <1>1, <1>5, <1>7, <1>8, <1>9, <1>10 DEF RateNext
<1>11. CASE UNCHANGED rateVars BY <1>6, <1>11
<1> QED BY <1>10, <1>11

\* A burst may fall astride two windows: still, however plans change and
\* requests overtake each other, fewer than twice the largest limit pass for a
\* key in any stretch of time as long as a window.
THEOREM RateHolds == RateSpec => []RateHeld
<1>1. RateInit => RateInv BY RateStarts
<1>2. RateInv /\ [RateNext]_rateVars => RateInv' BY RateSteps
<1>3. RateInv => RateHeld BY RateInvTells
<1> QED BY <1>1, <1>2, <1>3, PTL DEF RateSpec

-----------------------------------------------------------------------------
(* Reputation: a score below 40 comes from a failing instance or from the   *)
(* node.  The formulas first: what is taken off never makes up 60 without.   *)

LEMMA Quotient ==
    ASSUME NEW n \in Int, NEW d \in Nat \ {0}
    PROVE  n \div d \in Int /\ (n >= 40 * d => n \div d >= 40)
<1>1. n \div d \in Int BY Z3
<1>2. n >= 40 * d => n \div d >= 40 BY Z3
<1> QED BY <1>1, <1>2

LEMMA MinIs == ASSUME NEW a \in Int, NEW b \in Int PROVE Min({a, b}) = IF a <= b THEN a ELSE b
<1>1. PICK m \in {a, b} : \A y \in {a, b} : m <= y
  <2>1. CASE a <= b BY <2>1
  <2>2. CASE ~(a <= b) BY <2>2
  <2> QED BY <2>1, <2>2
<1>2. Min({a, b}) \in {a, b} /\ \A y \in {a, b} : Min({a, b}) <= y BY <1>1 DEF Min
<1> QED BY <1>2

LEMMA MaxIs == ASSUME NEW a \in Int, NEW b \in Int PROVE Max({a, b}) = IF a >= b THEN a ELSE b
<1>1. PICK m \in {a, b} : \A y \in {a, b} : m >= y
  <2>1. CASE a >= b BY <2>1
  <2>2. CASE ~(a >= b) BY <2>2
  <2> QED BY <2>1, <2>2
<1>2. Max({a, b}) \in {a, b} /\ \A y \in {a, b} : Max({a, b}) >= y BY <1>1 DEF Max
<1> QED BY <1>2

LEMMA MinOfThree == ASSUME NEW a \in Int, NEW b \in Int, NEW c \in Int PROVE Min({a, b, c}) \in {a, b, c}
<1>1. PICK m \in {a, b, c} : \A y \in {a, b, c} : m <= y
  <2>1. CASE a <= b /\ a <= c BY <2>1
  <2>2. CASE b <= a /\ b <= c BY <2>2
  <2>3. CASE c <= a /\ c <= b BY <2>3
  <2> QED BY <2>1, <2>2, <2>3
<1> QED BY <1>1 DEF Min

LEMMA ClampedIs ==
    ASSUME NEW x \in Int PROVE Clamped(x) \in 0..100 /\ (x >= 40 => Clamped(x) >= 40)
<1>1. PICK m \in Int : m = Min({100, x}) /\ m = IF 100 <= x THEN 100 ELSE x
  <2>1. Min({100, x}) = IF 100 <= x THEN 100 ELSE x BY MinIs
  <2> QED BY <2>1
<1>2. Max({0, m}) = IF 0 >= m THEN 0 ELSE m BY MaxIs
<1>3. Clamped(x) = IF 0 >= m THEN 0 ELSE m BY <1>1, <1>2 DEF Clamped
<1> QED BY <1>1, <1>3

LEMMA LessIs ==
    ASSUME NEW base \in Int, NEW weight \in Nat, NEW failed \in Nat, NEW total \in Nat,
           total # 0 => 2 * (base * total - weight * failed) + total >= 40 * (2 * total),
           base >= 40
    PROVE  Less(base, weight, failed, total) \in Int /\ Less(base, weight, failed, total) >= 40
<1>1. CASE total = 0 BY <1>1 DEF Less
<1>2. CASE total # 0
  <2>1. PICK u \in Int, v \in Int : u = base * total /\ v = weight * failed OBVIOUS
  <2>2. PICK n \in Int : n = 2 * (base * total - weight * failed) + total BY <2>1
  <2>3. PICK d \in Nat \ {0} : d = 2 * total BY <1>2
  <2>4. n >= 40 * d BY <1>2, <2>2, <2>3
  <2>5. Less(base, weight, failed, total) = n \div d BY <1>2, <2>2, <2>3 DEF Less
  <2> QED BY <2>4, <2>5, Quotient
<1> QED BY <1>1, <1>2

LEMMA LessIsNumber ==
    ASSUME NEW base \in Int, NEW weight \in Nat, NEW failed \in Nat, NEW total \in Nat
    PROVE  Less(base, weight, failed, total) \in Int
<1>1. CASE total = 0 BY <1>1 DEF Less
<1>2. CASE total # 0
  <2>1. PICK u \in Int, v \in Int : u = base * total /\ v = weight * failed OBVIOUS
  <2>2. PICK n \in Int : n = 2 * (base * total - weight * failed) + total BY <2>1
  <2>3. PICK d \in Nat \ {0} : d = 2 * total BY <1>2
  <2>4. Less(base, weight, failed, total) = n \div d BY <1>2, <2>2, <2>3 DEF Less
  <2> QED BY <2>4, Quotient
<1> QED BY <1>1, <1>2

LEMMA PhoneScoreIs ==
    ASSUME NEW volume \in [total : Nat, failed : Nat], NEW f \in Figures
    PROVE  /\ PhoneScore(volume, f) \in 0..100
           /\ ~MostlyFailing(volume, f) => PhoneScore(volume, f) >= 40
<1>1. PICK churn \in Nat : churn <= 24
                           /\ churn = IF f.drops > 2 THEN Min({6 * f.drops, 24}) ELSE 0
  <2>1. f.drops \in Nat BY DEF Figures
  <2>2. PICK n \in Int : n = 6 * f.drops BY <2>1
  <2>3. Min({n, 24}) = IF n <= 24 THEN n ELSE 24 BY MinIs
  <2>4. CASE f.drops > 2
    <3>1. Min({6 * f.drops, 24}) \in Nat /\ Min({6 * f.drops, 24}) <= 24 BY <2>1, <2>2, <2>3
    <3> QED BY <2>4, <3>1
  <2>5. CASE ~(f.drops > 2) BY <2>5
  <2> QED BY <2>4, <2>5
<1>2. PICK rush \in Nat : rush <= 20 /\ rush = IF f.young /\ volume.total > 20 THEN 20 ELSE 0
  <2>1. CASE f.young /\ volume.total > 20 BY <2>1
  <2>2. CASE ~(f.young /\ volume.total > 20) BY <2>2
  <2> QED BY <2>1, <2>2
<1>3. PICK b \in Nat : 100 - churn - rush = 56 + b
  <2>1. 44 - churn - rush \in Nat BY <1>1, <1>2
  <2> QED BY <2>1
<1>4. PICK pf \in Nat : pf = PhoneFailed(volume, f)
  <2>1. volume.failed \in Nat /\ f.counted \in Nat BY DEF Figures
  <2> QED BY <2>1 DEF PhoneFailed
<1>5. PICK t \in Nat : t = volume.total OBVIOUS
<1>6. PhoneScore(volume, f) = Clamped(Less(56 + b, 45, pf, t))
  BY <1>1, <1>2, <1>3, <1>4, <1>5 DEF PhoneScore
<1>7. Less(56 + b, 45, pf, t) \in Int BY LessIsNumber
<1>8. ASSUME ~MostlyFailing(volume, f) PROVE Less(56 + b, 45, pf, t) >= 40
  <2>1. t = 0 \/ 3 * pf <= t BY <1>4, <1>5, <1>8 DEF MostlyFailing
  <2>2. PICK u \in Nat : u = b * t OBVIOUS
  <2>3. (56 + b) * t = 56 * t + b * t BY Z3
  <2>4. PICK v \in Nat : v = (56 + b) * t /\ v = 56 * t + u BY <2>2, <2>3
  <2>5. t # 0 => 2 * (v - 45 * pf) + t >= 40 * (2 * t) BY <2>1, <2>4
  <2>6. t # 0 => 2 * ((56 + b) * t - 45 * pf) + t >= 40 * (2 * t) BY <2>4, <2>5
  <2>7. 56 + b \in Int /\ 56 + b >= 40 OBVIOUS
  <2> QED BY <2>6, <2>7, LessIs
<1> QED BY <1>6, <1>7, <1>8, ClampedIs

LEMMA TenantScoreIs ==
    ASSUME NEW volume \in [total : Nat, failed : Nat], volume.failed <= volume.total,
           NEW alerts \in Nat
    PROVE  TenantScore(volume, alerts) \in 0..100 /\ TenantScore(volume, alerts) >= 40
<1>1. PICK less \in Nat : less <= 25 /\ less = Min({5 * alerts, 25})
  <2>1. PICK n \in Int : n = 5 * alerts /\ n >= 0 OBVIOUS
  <2>2. Min({n, 25}) = IF n <= 25 THEN n ELSE 25 BY MinIs
  <2>3. Min({5 * alerts, 25}) \in Nat /\ Min({5 * alerts, 25}) <= 25 BY <2>1, <2>2
  <2> QED BY <2>3
<1>2. PICK b \in Nat : 100 - less = 75 + b
  <2>1. 25 - less \in Nat BY <1>1
  <2> QED BY <2>1
<1>3. PICK t \in Nat, k \in Nat : t = volume.total /\ k = volume.failed /\ k <= t OBVIOUS
<1>4. TenantScore(volume, alerts) = Clamped(Less(75 + b, 35, k, t))
  BY <1>1, <1>2, <1>3 DEF TenantScore
<1>5. PICK u \in Nat : u = b * t OBVIOUS
<1>6. (75 + b) * t = 75 * t + b * t BY Z3
<1>7. PICK v \in Nat : v = (75 + b) * t /\ v = 75 * t + u BY <1>5, <1>6
<1>8. 2 * (v - 35 * k) + t >= 40 * (2 * t) BY <1>3, <1>7
<1>9. 2 * ((75 + b) * t - 35 * k) + t >= 40 * (2 * t) BY <1>7, <1>8
<1>10. 75 + b \in Int /\ 75 + b >= 40 OBVIOUS
<1>11. Less(75 + b, 35, k, t) \in Int /\ Less(75 + b, 35, k, t) >= 40
  BY <1>9, <1>10, LessIs
<1> QED BY <1>4, <1>11, ClampedIs

LEMMA NodeScoreIs == ASSUME nodeFaults \subseteq NodeFaults PROVE NodeScore \in Int
<1>1. IsFiniteSet(nodeFaults)
  <2>1. IsFiniteSet(NodeFaults)
    <3>1. IsFiniteSet({"inactive"}) /\ IsFiniteSet({"cpu"}) /\ IsFiniteSet({"memory"})
          /\ IsFiniteSet({"errors"})
      BY FS_Singleton
    <3>2. IsFiniteSet({"inactive"} \cup {"cpu"}) /\ IsFiniteSet({"memory"} \cup {"errors"})
      BY <3>1, FS_Union
    <3>3. IsFiniteSet(({"inactive"} \cup {"cpu"}) \cup ({"memory"} \cup {"errors"}))
      BY <3>2, FS_Union
    <3>4. NodeFaults = ({"inactive"} \cup {"cpu"}) \cup ({"memory"} \cup {"errors"})
      BY DEF NodeFaults
    <3> QED BY <3>3, <3>4
  <2> QED BY <2>1, FS_Subset
<1>2. PICK f \in [nodeFaults -> Nat] : f = [w \in nodeFaults |-> Weight[w]]
  <2>1. \A w \in nodeFaults : Weight[w] \in Nat BY DEF Weight, NodeFaults
  <2> QED BY <2>1
<1>3. MapThenSumSet(LAMBDA w : Weight[w], nodeFaults) \in Nat
  <2> DEFINE Next(iter) == [s \in SUBSET nodeFaults |->
                 IF s = {} THEN 0
                 ELSE LET x == CHOOSE x \in s : TRUE IN Weight[x] + iter[s \ {x}]]
  <2>1. ASSUME NEW g PROVE IsFold(g, f, nodeFaults) <=> g = Next(g)
    <3>1. ASSUME NEW s \in SUBSET nodeFaults
          PROVE  FoldAt(g, f, s) = IF s = {} THEN 0
                                   ELSE LET x == CHOOSE x \in s : TRUE IN Weight[x] + g[s \ {x}]
      <4>1. s # {} => f[Pick(s)] = Weight[Pick(s)] BY <1>2, PickIn
      <4> QED BY <4>1 DEF FoldAt, Pick
    <3> QED BY <3>1 DEF IsFold
  <2> HIDE DEF Next
  <2>2. \E g : g = Next(g)
    <3>1. PICK g : IsFold(g, f, nodeFaults) BY <1>1, FoldExists
    <3>2. g = Next(g) BY <2>1, <3>1
    <3> QED BY <3>2
  <2>3. PICK h : h = CHOOSE iter : iter = Next(iter) OBVIOUS
  <2>4. h = Next(h) BY <2>2, <2>3
  <2>5. MapThenSumSet(LAMBDA w : Weight[w], nodeFaults) = h[nodeFaults]
    BY <2>3 DEF Next, MapThenSumSet, MapThenFoldSet
  <2>6. IsFold(h, f, nodeFaults) BY <2>1, <2>4
  <2>7. h[nodeFaults] \in Nat BY <1>1, <2>6, FoldNat
  <2> QED BY <2>5, <2>7
<1> QED BY <1>3 DEF NodeScore

AskingRow == [pc : Steps, line : Lines, phone : Subjects, p : Scores, t : Scores,
              n : Int \cup {NoScore}, volume : [total : Nat, failed : Nat],
              save : 1..2, found : BOOLEAN]

\* What a call has in hand: a low score of the phone comes from a failing
\* instance, and what it decides on is complete.
Explained(p, s, blamed) == p = NoScore \/ p >= 40 \/ s \in blamed
CallHolds(a, blamed) ==
    /\ Explained(a.p, a.phone, blamed)
    /\ a.t = NoScore \/ a.t >= 40
    /\ a.pc \in {"logs", "row", "alerts", "look", "write", "decide"} => a.n # NoScore
    /\ a.pc \in {"alerts", "look", "write", "decide"} => a.p # NoScore
    /\ a.pc \in {"look", "write", "decide"} => a.t # NoScore
FiguresHold ==
    /\ figures \in [Lines -> Figures]
    /\ \A i \in Lines : figures[i].failed <= figures[i].total
    /\ openAlerts \in Nat /\ nodeFaults \subseteq NodeFaults
ScoresHold(sc, blamed) ==
    /\ sc \in [ScoreKeys -> Scores]
    /\ \A s \in Subjects : Explained(sc[s], s, blamed)
    /\ sc["tenant"] = NoScore \/ sc["tenant"] >= 40
AskingHolds(as, blamed) ==
    /\ as \in [Askers -> AskingRow]
    /\ \A c \in Askers : CallHolds(as[c], blamed)
ReputationInv ==
    /\ FiguresHold /\ ScoresHold(score, failing) /\ AskingHolds(asking, failing)
    /\ unfair = {}

LEMMA CallRow ==
    ASSUME NEW a \in AskingRow, NEW s \in Steps
    PROVE  /\ \A p \in Scores : /\ [a EXCEPT !.pc = s, !.p = p] \in AskingRow
                                /\ [a EXCEPT !.pc = s, !.t = p] \in AskingRow
           /\ \A n \in Int \cup {NoScore} : [a EXCEPT !.pc = s, !.n = n] \in AskingRow
           /\ \A v \in [total : Nat, failed : Nat] :
                /\ [a EXCEPT !.pc = s, !.volume = v] \in AskingRow
                /\ \A p \in Scores : [a EXCEPT !.pc = s, !.p = p, !.volume = v] \in AskingRow
           /\ \A b \in BOOLEAN : [a EXCEPT !.pc = s, !.found = b] \in AskingRow
           /\ [a EXCEPT !.pc = s, !.save = 2, !.found = FALSE] \in AskingRow
<1>1. ASSUME NEW P, NEW L, NEW S, NEW Q, NEW M, NEW V, NEW W, NEW B, NEW x \in P,
             NEW r \in [pc : P, line : L, phone : S, p : Q, t : Q, n : M, volume : V, save : W, found : B]
      PROVE  LET R == [pc : P, line : L, phone : S, p : Q, t : Q, n : M, volume : V, save : W, found : B]
             IN  /\ \A q \in Q : /\ [r EXCEPT !.pc = x, !.p = q] \in R
                                /\ [r EXCEPT !.pc = x, !.t = q] \in R
                 /\ \A m \in M : [r EXCEPT !.pc = x, !.n = m] \in R
                 /\ \A y \in V : /\ [r EXCEPT !.pc = x, !.volume = y] \in R
                                /\ \A q \in Q : [r EXCEPT !.pc = x, !.p = q, !.volume = y] \in R
                 /\ \A d \in B : /\ [r EXCEPT !.pc = x, !.found = d] \in R
                                /\ \A z \in W : [r EXCEPT !.pc = x, !.save = z, !.found = d] \in R
  OBVIOUS
<1>2. 2 \in 1..2 /\ FALSE \in BOOLEAN OBVIOUS
<1> QED BY <1>1, <1>2 DEF AskingRow

\* The fields of a call that goes on.
LEMMA CallFields ==
    ASSUME NEW a \in AskingRow
    PROVE  /\ DOMAIN a = {"pc", "line", "phone", "p", "t", "n", "volume", "save", "found"}
           /\ a.pc \in Steps /\ a.line \in Lines /\ a.phone \in Subjects /\ a.p \in Scores
           /\ a.t \in Scores /\ a.n \in Int \cup {NoScore}
           /\ a.volume \in [total : Nat, failed : Nat] /\ a.save \in 1..2 /\ a.found \in BOOLEAN
BY DEF AskingRow

\* A call goes on, whatever becomes of the scores that explain more.
LEMMA CallGoes ==
    ASSUME ReputationInv, NEW c \in Askers, NEW r \in AskingRow,
           asking' = [asking EXCEPT ![c] = r], failing \subseteq failing', CallHolds(r, failing'),
           UNCHANGED <<figures, openAlerts, nodeFaults>>,
           ScoresHold(score', failing'), unfair' = unfair
    PROVE  ReputationInv'
<1>1. asking \in [Askers -> AskingRow] /\ \A b \in Askers : CallHolds(asking[b], failing)
  BY DEF ReputationInv, AskingHolds
<1>2. asking' \in [Askers -> AskingRow] /\ asking'[c] = r
      /\ \A b \in Askers : b # c => asking'[b] = asking[b]
  BY <1>1
<1>3. ASSUME NEW b \in Askers PROVE CallHolds(asking'[b], failing')
  <2>1. CASE b = c BY <1>2, <2>1
  <2>2. CASE b # c
    <3>1. asking'[b] = asking[b] /\ CallHolds(asking[b], failing) BY <1>1, <1>2, <2>2
    <3>2. PICK a : a = asking[b] OBVIOUS
    <3>3. CallHolds(a, failing') BY <3>1, <3>2 DEF CallHolds, Explained
    <3> QED BY <3>1, <3>2, <3>3
  <2> QED BY <2>1, <2>2
<1>4. AskingHolds(asking', failing') BY <1>2, <1>3 DEF AskingHolds
<1> QED BY <1>4 DEF ReputationInv, FiguresHold

LEMMA LearnsMore ==
    ASSUME ReputationInv, NEW c \in Askers, NEW at, NEW r \in AskingRow, Learns(c, at, r),
           failing \subseteq failing', CallHolds(r, failing')
    PROVE  ReputationInv'
<1>1. /\ asking' = [asking EXCEPT ![c] = r] /\ score' = score
      /\ UNCHANGED <<figures, openAlerts, nodeFaults>> /\ unfair' = unfair
  BY DEF Learns, Figured, Undecided
<1>2. ScoresHold(score', failing')
  <2>1. ScoresHold(score, failing) BY DEF ReputationInv
  <2>2. \A s \in Subjects : Explained(score[s], s, failing') BY <2>1 DEF ScoresHold, Explained
  <2> QED BY <1>1, <2>1, <2>2 DEF ScoresHold
<1> QED BY <1>1, <1>2, CallGoes

LEMMA NotAskingIs == NotAsking \in AskingRow /\ \A blamed : CallHolds(NotAsking, blamed)
<1>1. (CHOOSE i \in Lines : TRUE) \in Lines /\ (CHOOSE s \in Subjects : TRUE) \in Subjects
  BY ReputationAssumption
<1>2. NotAsking \in AskingRow
  BY <1>1 DEF NotAsking, AskingRow, Steps, Scores, NoVolume
<1>3. NotAsking.pc = "idle" /\ NotAsking.p = NoScore /\ NotAsking.t = NoScore BY DEF NotAsking
<1> QED BY <1>2, <1>3 DEF CallHolds, Explained

LEMMA AsksKeep ==
    ASSUME ReputationInv, NEW c \in Askers, NEW i \in Lines, NEW s \in Subjects,
           AsksReputation(c, i, s)
    PROVE  ReputationInv'
<1>1. PICK r : r = [NotAsking EXCEPT !.pc = "phone", !.line = i, !.phone = s] OBVIOUS
<1>2. r \in AskingRow /\ r.pc = "phone" /\ r.p = NotAsking.p /\ r.t = NotAsking.t
  <2>1. NotAsking \in AskingRow BY NotAskingIs
  <2>2. "phone" \in Steps BY DEF Steps
  <2>3. ASSUME NEW P, NEW L, NEW S, NEW Q, NEW M, NEW V, NEW W, NEW B,
               NEW x \in P, NEW l \in L, NEW k \in S,
               NEW q \in [pc : P, line : L, phone : S, p : Q, t : Q, n : M, volume : V, save : W, found : B]
        PROVE  /\ [q EXCEPT !.pc = x, !.line = l, !.phone = k]
                    \in [pc : P, line : L, phone : S, p : Q, t : Q, n : M, volume : V, save : W, found : B]
               /\ [q EXCEPT !.pc = x, !.line = l, !.phone = k].pc = x
               /\ [q EXCEPT !.pc = x, !.line = l, !.phone = k].p = q.p
               /\ [q EXCEPT !.pc = x, !.line = l, !.phone = k].t = q.t
    OBVIOUS
  <2> QED BY <1>1, <2>1, <2>2, <2>3 DEF AskingRow
<1>3. \A blamed : CallHolds(r, blamed)
  BY <1>2 DEF CallHolds, Explained, NotAsking
<1>4. /\ asking' = [asking EXCEPT ![c] = r] /\ score' = score /\ failing' = failing
      /\ UNCHANGED <<figures, openAlerts, nodeFaults>> /\ unfair' = unfair
  BY <1>1 DEF AsksReputation, Figured, Undecided
<1>5. ScoresHold(score', failing') BY <1>4 DEF ReputationInv
<1> QED BY <1>2, <1>3, <1>4, <1>5, CallGoes

LEMMA AnyAsksKeep ==
    ASSUME ReputationInv, NEW c \in Askers, NEW i \in Lines, NEW s \in Subjects,
           WorkerAsks(c, i, s) \/ OrchestratorAsks(c, i, s) \/ AssignAsks(c, i, s)
    PROVE  ReputationInv'
BY AsksKeep DEF WorkerAsks, OrchestratorAsks, AssignAsks

LEMMA Onwards ==
    ASSUME NEW a, NEW blamed, Explained(a.p, a.phone, blamed), a.t = NoScore \/ a.t >= 40,
           a.n # NoScore, a.pc = Onward(a)
    PROVE  CallHolds(a, blamed) /\ Onward(a) \in Steps
BY DEF CallHolds, Onward, Steps

LEMMA AskerHolds ==
    ASSUME ReputationInv, NEW c \in Askers
    PROVE  asking[c] \in AskingRow /\ CallHolds(asking[c], failing)
BY DEF ReputationInv, AskingHolds

LEMMA PhoneKeeps == ASSUME ReputationInv, NEW c \in Askers, StoredPhone(c) PROVE ReputationInv'
<1>1. PICK a \in AskingRow : a = asking[c] /\ CallHolds(a, failing) BY AskerHolds
<1>2. a.phone \in Subjects BY CallFields
<1>3. PICK p \in Scores : p = score[a.phone] /\ Explained(p, a.phone, failing)
  BY <1>2 DEF ReputationInv, ScoresHold, ScoreKeys
<1>4. PICK r : r = [a EXCEPT !.pc = "tenant", !.p = p] OBVIOUS
<1>5. "tenant" \in Steps BY DEF Steps
<1>6. r \in AskingRow BY <1>4, <1>5, CallRow
<1>7. r.pc = "tenant" /\ r.p = p /\ r.phone = a.phone /\ r.t = a.t BY <1>4, CallFields
<1>8. CallHolds(r, failing) BY <1>1, <1>3, <1>7 DEF CallHolds
<1>9. Learns(c, "phone", r) /\ failing' = failing BY <1>1, <1>3, <1>4 DEF StoredPhone
<1> QED BY <1>6, <1>8, <1>9, LearnsMore

LEMMA TenantKeeps == ASSUME ReputationInv, NEW c \in Askers, StoredTenant(c) PROVE ReputationInv'
<1>1. PICK a \in AskingRow : a = asking[c] /\ CallHolds(a, failing) BY AskerHolds
<1>2. PICK t \in Scores : t = score["tenant"] /\ (t = NoScore \/ t >= 40)
  BY DEF ReputationInv, ScoresHold, ScoreKeys
<1>3. PICK r : r = [a EXCEPT !.pc = "node", !.t = t] OBVIOUS
<1>4. "node" \in Steps BY DEF Steps
<1>5. r \in AskingRow BY <1>3, <1>4, CallRow
<1>6. r.pc = "node" /\ r.p = a.p /\ r.phone = a.phone /\ r.t = t BY <1>3, CallFields
<1>7. CallHolds(r, failing) BY <1>1, <1>2, <1>6 DEF CallHolds
<1>8. Learns(c, "tenant", r) /\ failing' = failing BY <1>1, <1>2, <1>3 DEF StoredTenant
<1> QED BY <1>5, <1>7, <1>8, LearnsMore

LEMMA NodeKeeps == ASSUME ReputationInv, NEW c \in Askers, ReadsNode(c) PROVE ReputationInv'
<1>1. PICK a \in AskingRow : a = asking[c] /\ CallHolds(a, failing) BY AskerHolds
<1>2. PICK n \in Int : n = NodeScore BY NodeScoreIs DEF ReputationInv, FiguresHold
<1>3. n # NoScore BY <1>2, ReputationAssumption
<1>4. PICK s : s = Onward(a) OBVIOUS
<1>5. s \in Steps BY <1>4 DEF Onward, Steps
<1>6. PICK r : r = [a EXCEPT !.pc = s, !.n = n] OBVIOUS
<1>7. r \in AskingRow BY <1>5, <1>6, CallRow
<1>8. r.pc = s /\ r.p = a.p /\ r.phone = a.phone /\ r.t = a.t /\ r.n = n BY <1>6, CallFields
<1>9. Onward(r) = s BY <1>4, <1>8 DEF Onward
<1>10. CallHolds(r, failing)
  <2>1. Explained(r.p, r.phone, failing) /\ (r.t = NoScore \/ r.t >= 40)
    BY <1>1, <1>8 DEF CallHolds
  <2>2. r.n # NoScore /\ r.pc = Onward(r) BY <1>3, <1>8, <1>9
  <2> QED BY <2>1, <2>2, Onwards
<1>11. Learns(c, "node", r) /\ failing' = failing BY <1>1, <1>2, <1>4, <1>6 DEF ReadsNode
<1> QED BY <1>7, <1>10, <1>11, LearnsMore

LEMMA LogsKeep == ASSUME ReputationInv, NEW c \in Askers, ReadsLogs(c) PROVE ReputationInv'
<1>1. PICK a \in AskingRow : a = asking[c] /\ CallHolds(a, failing) BY AskerHolds
<1>2. PICK f \in Figures : f = figures[a.line]
  <2>1. a.line \in Lines BY CallFields
  <2> QED BY <2>1 DEF ReputationInv, FiguresHold
<1>3. PICK v \in [total : Nat, failed : Nat] : v = [total |-> f.total, failed |-> f.failed]
  <2>1. f.total \in Nat /\ f.failed \in Nat BY DEF Figures
  <2> QED BY <2>1
<1>4. PICK r : r = [a EXCEPT !.pc = "row", !.volume = v] OBVIOUS
<1>5. "row" \in Steps BY DEF Steps
<1>6. r \in AskingRow BY <1>4, <1>5, CallRow
<1>7. r.pc = "row" /\ r.p = a.p /\ r.phone = a.phone /\ r.t = a.t /\ r.n = a.n
  BY <1>4, CallFields
<1>8. asking[c].pc = "logs" /\ Learns(c, "logs", r) /\ failing' = failing
  BY <1>1, <1>2, <1>3, <1>4 DEF ReadsLogs, Learns
<1>9. CallHolds(r, failing) BY <1>1, <1>7, <1>8 DEF CallHolds
<1> QED BY <1>6, <1>8, <1>9, LearnsMore

\* A score is low only if the instance fails, which is remembered.
LEMMA RowKeeps == ASSUME ReputationInv, NEW c \in Askers, ReadsRow(c) PROVE ReputationInv'
<1>1. PICK a \in AskingRow : a = asking[c] /\ CallHolds(a, failing) BY AskerHolds
<1>2. PICK f \in Figures : f = figures[a.line]
  <2>1. a.line \in Lines BY CallFields
  <2> QED BY <2>1 DEF ReputationInv, FiguresHold
<1>3. PICK p \in 0..100 : p = PhoneScore(a.volume, f)
                          /\ (~MostlyFailing(a.volume, f) => p >= 40)
  <2>1. a.volume \in [total : Nat, failed : Nat] BY CallFields
  <2> QED BY <2>1, PhoneScoreIs
<1>4. p \in Scores /\ p # NoScore BY ReputationAssumption DEF Scores
<1>5. PICK s : s = Onward([a EXCEPT !.p = p]) OBVIOUS
<1>6. s \in Steps /\ s = IF a.t = NoScore THEN "alerts" ELSE "look"
  <2>1. [a EXCEPT !.p = p].p = p /\ [a EXCEPT !.p = p].t = a.t BY CallFields
  <2> QED BY <1>4, <1>5, <2>1 DEF Onward, Steps
<1>7. PICK r : r = [a EXCEPT !.pc = s, !.p = p, !.volume = NoVolume] OBVIOUS
<1>8. NoVolume \in [total : Nat, failed : Nat] BY DEF NoVolume
<1>9. r \in AskingRow BY <1>4, <1>6, <1>7, <1>8, CallRow
<1>10. r.pc = s /\ r.p = p /\ r.phone = a.phone /\ r.t = a.t /\ r.n = a.n BY <1>7, CallFields
<1>11. asking[c].pc = "row" /\ Learns(c, "row", r)
       /\ failing' = IF MostlyFailing(a.volume, f) THEN failing \cup {a.phone} ELSE failing
  BY <1>1, <1>2, <1>3, <1>5, <1>7 DEF ReadsRow, Learns
<1>12. failing \subseteq failing' /\ Explained(p, a.phone, failing')
  BY <1>3, <1>11 DEF Explained
<1>13. a.n # NoScore /\ (a.t = NoScore \/ a.t >= 40) BY <1>1, <1>11 DEF CallHolds
<1>14. CallHolds(r, failing') BY <1>4, <1>6, <1>10, <1>12, <1>13 DEF CallHolds
<1> QED BY <1>9, <1>11, <1>12, <1>14, LearnsMore

LEMMA AccountKeeps == ASSUME ReputationInv, NEW c \in Askers, ReadsAccount(c) PROVE ReputationInv'
<1>1. PICK a \in AskingRow : a = asking[c] /\ CallHolds(a, failing) BY AskerHolds
<1>2. \A i \in Lines : figures[i].total \in Nat /\ figures[i].failed \in Nat
                       /\ figures[i].failed <= figures[i].total
  BY DEF ReputationInv, FiguresHold, Figures
<1>3. PICK g \in [Lines -> Nat] : g = [i \in Lines |-> figures[i].total]
  <2>1. [i \in Lines |-> figures[i].total] \in [Lines -> Nat] BY <1>2
  <2> QED BY <2>1
<1>4. PICK h \in [Lines -> Nat] : h = [i \in Lines |-> figures[i].failed]
  <2>1. [i \in Lines |-> figures[i].failed] \in [Lines -> Nat] BY <1>2
  <2> QED BY <2>1
<1>5. \A i \in Lines : h[i] <= g[i]
  <2>1. TAKE i \in Lines
  <2>2. g[i] = figures[i].total BY <1>3
  <2>3. h[i] = figures[i].failed BY <1>4
  <2> QED BY <1>2, <2>2, <2>3
<1>6. PICK m, k : m = FoldFunction(+, 0, g) /\ k = FoldFunction(+, 0, h) OBVIOUS
<1>7. m \in Nat /\ k \in Nat /\ k <= m
  <2>1. IsFiniteSet(Lines) BY ReputationAssumption
  <2>2. SumIs(g, Lines, m) BY <1>6, <2>1, FoldSumIs
  <2>3. SumIs(h, Lines, k) BY <1>6, <2>1, FoldSumIs
  <2>4. h \in [Lines -> Nat] /\ g \in [Lines -> Nat] /\ \A i \in Lines : h[i] <= g[i] BY <1>5
  <2> QED BY <2>1, <2>2, <2>3, <2>4, SumMonotone
<1>8. PICK v \in [total : Nat, failed : Nat] : v = [total |-> m, failed |-> k] BY <1>7
<1>9. v.failed <= v.total BY <1>7, <1>8
<1>10. PICK t \in 0..100 : t = TenantScore(v, openAlerts) /\ t >= 40
  <2>1. openAlerts \in Nat BY DEF ReputationInv, FiguresHold
  <2> QED BY <1>9, <2>1, TenantScoreIs
<1>11. t \in Scores /\ t # NoScore BY ReputationAssumption DEF Scores
<1>12. PICK r : r = [a EXCEPT !.pc = "look", !.t = t] OBVIOUS
<1>13. "look" \in Steps BY DEF Steps
<1>14. r \in AskingRow BY <1>11, <1>12, <1>13, CallRow
<1>15. r.pc = "look" /\ r.p = a.p /\ r.phone = a.phone /\ r.t = t /\ r.n = a.n BY <1>12, CallFields
<1>16. asking[c].pc = "alerts" /\ Learns(c, "alerts", r) /\ failing' = failing
  BY <1>1, <1>3, <1>4, <1>6, <1>8, <1>10, <1>12 DEF ReadsAccount, Learns
<1>17. CallHolds(r, failing) BY <1>1, <1>10, <1>11, <1>15, <1>16 DEF CallHolds
<1> QED BY <1>14, <1>16, <1>17, LearnsMore

LEMMA LookKeeps == ASSUME ReputationInv, NEW c \in Askers, LooksForScore(c) PROVE ReputationInv'
<1>1. PICK a \in AskingRow : a = asking[c] /\ CallHolds(a, failing) BY AskerHolds
<1>2. PICK b \in BOOLEAN : b = (score[SaveKey(a)] # NoScore) OBVIOUS
<1>3. PICK r : r = [a EXCEPT !.pc = "write", !.found = b] OBVIOUS
<1>4. "write" \in Steps BY DEF Steps
<1>5. r \in AskingRow BY <1>3, <1>4, CallRow
<1>6. r.pc = "write" /\ r.p = a.p /\ r.phone = a.phone /\ r.t = a.t /\ r.n = a.n BY <1>3, CallFields
<1>7. asking[c].pc = "look" /\ Learns(c, "look", r) /\ failing' = failing
  BY <1>1, <1>2, <1>3 DEF LooksForScore, Learns
<1>8. CallHolds(r, failing) BY <1>1, <1>6, <1>7 DEF CallHolds
<1> QED BY <1>5, <1>7, <1>8, LearnsMore

LEMMA WriteKeeps == ASSUME ReputationInv, NEW c \in Askers, WritesScore(c) PROVE ReputationInv'
<1>1. PICK a \in AskingRow : a = asking[c] /\ CallHolds(a, failing) BY AskerHolds
<1>2. a.pc = "write" BY <1>1 DEF WritesScore
<1>3. PICK s : s = IF a.save = 1 THEN "look" ELSE "decide" OBVIOUS
<1>4. s \in Steps BY <1>3 DEF Steps
<1>5. PICK r : r = [a EXCEPT !.pc = s, !.save = 2, !.found = FALSE] OBVIOUS
<1>6. r \in AskingRow
  <2>1. 2 \in 1..2 /\ FALSE \in BOOLEAN OBVIOUS
  <2> QED BY <1>4, <1>5, <2>1, CallRow
<1>7. r.pc = s /\ r.p = a.p /\ r.phone = a.phone /\ r.t = a.t /\ r.n = a.n BY <1>5, CallFields
<1>8. CallHolds(r, failing) BY <1>1, <1>2, <1>7 DEF CallHolds
<1>9. /\ asking' = [asking EXCEPT ![c] = r] /\ failing' = failing
      /\ UNCHANGED <<figures, openAlerts, nodeFaults>> /\ unfair' = unfair
  BY <1>1, <1>3, <1>5 DEF WritesScore, Figured, Undecided
<1>10. PICK k : k = SaveKey(a) OBVIOUS
<1>11. a.phone \in Subjects /\ a.p \in Scores /\ a.t \in Scores BY CallFields
<1>12. PICK q \in Scores : q = IF a.save = 1 THEN a.p ELSE a.t BY <1>11
<1>13. k \in ScoreKeys /\ (a.save = 1 => k = a.phone) /\ (a.save # 1 => k = "tenant")
  BY <1>10, <1>11 DEF SaveKey, ScoreKeys
<1>14. score' = score \/ score' = [score EXCEPT ![k] = q]
  BY <1>1, <1>10, <1>12 DEF WritesScore
<1>15. ScoresHold(score, failing) BY DEF ReputationInv
<1>16. ScoresHold(score', failing)
  <2>1. CASE score' = score BY <1>15, <2>1
  <2>2. CASE score' = [score EXCEPT ![k] = q]
    <3>1. PICK z : z = score' OBVIOUS
    <3>2. z \in [ScoreKeys -> Scores] /\ z[k] = q /\ \A l \in ScoreKeys : l # k => z[l] = score[l]
      BY <1>13, <1>15, <2>2, <3>1 DEF ScoresHold
    <3>3. "tenant" \notin Subjects /\ "tenant" \in ScoreKeys /\ Subjects \subseteq ScoreKeys
      BY ReputationAssumption DEF ScoreKeys
    <3>4. Explained(a.p, a.phone, failing) /\ (a.t = NoScore \/ a.t >= 40) BY <1>1 DEF CallHolds
    <3>5. ASSUME NEW l \in Subjects PROVE Explained(z[l], l, failing)
      <4>1. CASE l = k BY <1>12, <1>13, <3>2, <3>3, <3>4, <4>1
      <4>2. CASE l # k BY <1>15, <3>2, <3>3, <4>2 DEF ScoresHold
      <4> QED BY <4>1, <4>2
    <3>6. z["tenant"] = NoScore \/ z["tenant"] >= 40
      <4>1. CASE k = "tenant" BY <1>11, <1>12, <1>13, <3>2, <3>3, <3>4, <4>1
      <4>2. CASE k # "tenant" BY <1>15, <3>2, <3>3, <4>2 DEF ScoresHold
      <4> QED BY <4>1, <4>2
    <3> QED BY <3>1, <3>2, <3>5, <3>6 DEF ScoresHold
  <2> QED BY <1>14, <2>1, <2>2
<1>17. ScoresHold(score', failing') /\ failing \subseteq failing' /\ CallHolds(r, failing')
  BY <1>8, <1>9, <1>16
<1> QED BY <1>6, <1>9, <1>17, CallGoes

\* What is decided on is below 40 for one of the two reasons.
LEMMA DecideKeeps == ASSUME ReputationInv, NEW c \in Askers, Decides(c) PROVE ReputationInv'
<1>1. PICK a \in AskingRow : a = asking[c] /\ CallHolds(a, failing) BY AskerHolds
<1>2. a.pc = "decide" BY <1>1 DEF Decides
<1>3. /\ asking' = [asking EXCEPT ![c] = NotAsking] /\ score' = score /\ failing' = failing
      /\ UNCHANGED <<figures, openAlerts, nodeFaults>>
  BY DEF Decides, Figured
<1>4. a.p \in Int /\ a.t \in Int /\ a.n \in Int /\ (a.p >= 40 \/ a.phone \in failing) /\ a.t >= 40
  <2>1. a.p # NoScore /\ a.t # NoScore /\ a.n # NoScore BY <1>1, <1>2 DEF CallHolds
  <2>2. a.p \in Scores /\ a.t \in Scores /\ a.n \in Int \cup {NoScore} BY CallFields
  <2> QED BY <1>1, <2>1, <2>2 DEF CallHolds, Explained, Scores
<1>5. Effective(a) < 40 => a.phone \in failing \/ a.n < 40
  <2>1. Effective(a) \in {a.p, a.t, a.n} BY <1>4, MinOfThree DEF Effective
  <2> QED BY <1>4, <2>1
<1>6. unfair' = unfair
  BY <1>1, <1>5 DEF Decides, Undecided
<1>7. ScoresHold(score', failing') /\ failing \subseteq failing' /\ CallHolds(NotAsking, failing')
      /\ NotAsking \in AskingRow
  BY <1>3, NotAskingIs DEF ReputationInv
<1> QED BY <1>3, <1>6, <1>7, CallGoes

LEMMA FactsKeep ==
    ASSUME ReputationInv, NEW i \in Lines, LogsChange(i) \/ MonitorCounts(i) \/ GrowsUp(i)
    PROVE  ReputationInv'
<1>1. UNCHANGED <<score, asking, failing, unfair, openAlerts, nodeFaults>>
  BY DEF LogsChange, MonitorCounts, GrowsUp, Fact, Undecided
<1>2. PICK f \in Figures : f = figures[i] /\ f.failed <= f.total
  BY DEF ReputationInv, FiguresHold
<1>3. f.failed \in Nat /\ f.total \in Nat BY DEF Figures
<1>4. \E g \in Figures : figures' = [figures EXCEPT ![i] = g] /\ g.failed <= g.total
  <2>1. CASE LogsChange(i)
    <3>1. PICK v \in Volumes :
            figures' = [figures EXCEPT ![i].total = v.total, ![i].failed = v.failed]
      BY <2>1 DEF LogsChange
    <3>2. v \in [total : Nat, failed : Nat] /\ v.failed <= v.total BY ReputationAssumption
    <3>3. PICK m \in Nat, k \in Nat : m = v.total /\ k = v.failed /\ k <= m BY <3>2
    <3>4. PICK g : g = [f EXCEPT !.total = m, !.failed = k] OBVIOUS
    <3>5. g \in Figures /\ g.failed = k /\ g.total = m BY <3>4 DEF Figures
    <3>6. figures' = [figures EXCEPT ![i] = g]
      BY <1>2, <3>1, <3>3, <3>4 DEF ReputationInv, FiguresHold
    <3> QED BY <3>3, <3>5, <3>6
  <2>2. CASE MonitorCounts(i)
    <3>1. PICK d \in Drops :
            figures' = [figures EXCEPT ![i].drops = d, ![i].counted = figures[i].failed]
      BY <2>2 DEF MonitorCounts
    <3>2. PICK k \in Nat : k = f.failed BY <1>3
    <3>3. d \in Nat BY ReputationAssumption
    <3>4. PICK g : g = [f EXCEPT !.drops = d, !.counted = k] OBVIOUS
    <3>5. g \in Figures /\ g.failed = f.failed /\ g.total = f.total BY <3>3, <3>4 DEF Figures
    <3>6. figures' = [figures EXCEPT ![i] = g]
      BY <1>2, <3>1, <3>2, <3>4 DEF ReputationInv, FiguresHold
    <3> QED BY <1>2, <3>5, <3>6
  <2>3. CASE GrowsUp(i)
    <3>1. figures' = [figures EXCEPT ![i].young = FALSE] BY <2>3 DEF GrowsUp
    <3>2. PICK g : g = [f EXCEPT !.young = FALSE] OBVIOUS
    <3>3. g \in Figures /\ g.failed = f.failed /\ g.total = f.total BY <3>2 DEF Figures
    <3>4. figures' = [figures EXCEPT ![i] = g]
      BY <1>2, <3>1, <3>2 DEF ReputationInv, FiguresHold
    <3> QED BY <1>2, <3>3, <3>4
  <2> QED BY <2>1, <2>2, <2>3
<1>5. FiguresHold'
  <2>1. PICK g \in Figures : figures' = [figures EXCEPT ![i] = g] /\ g.failed <= g.total BY <1>4
  <2> QED BY <1>1, <2>1 DEF ReputationInv, FiguresHold
<1> QED BY <1>1, <1>5 DEF ReputationInv

LEMMA OthersKeep ==
    ASSUME ReputationInv, AlertsChange \/ NodeReports \/ \E i \in Lines : Unbarred(i)
    PROVE  ReputationInv'
<1>1. UNCHANGED <<score, asking, failing, unfair, figures>>
  BY DEF AlertsChange, NodeReports, Unbarred, Fact, Undecided, Figured
<1>2. openAlerts' \in Nat /\ nodeFaults' \subseteq NodeFaults
  <2>1. openAlerts \in Nat /\ nodeFaults \subseteq NodeFaults BY DEF ReputationInv, FiguresHold
  <2>2. AlertCounts \subseteq Nat /\ NodeStates \subseteq SUBSET NodeFaults
    BY ReputationAssumption DEF NodeFaults
  <2>3. CASE AlertsChange BY <2>1, <2>2, <2>3 DEF AlertsChange
  <2>4. CASE NodeReports BY <2>1, <2>2, <2>4 DEF NodeReports
  <2>5. CASE \E i \in Lines : Unbarred(i) BY <2>1, <2>5 DEF Unbarred, Figured
  <2> QED BY <2>3, <2>4, <2>5
<1> QED BY <1>1, <1>2 DEF ReputationInv, FiguresHold

LEMMA NobodyJudged == ReputationInit => ReputationInv
<1> SUFFICES ASSUME ReputationInit PROVE ReputationInv OBVIOUS
<1>1. FiguresHold
  <2>1. Today \in Figures /\ Today.failed <= Today.total
    BY ReputationAssumption DEF Figures
  <2> QED BY <2>1 DEF ReputationInit, FiguresHold, NodeFaults
<1>2. ScoresHold(score, failing)
  <2>1. score \in [ScoreKeys -> Scores] /\ \A k \in ScoreKeys : score[k] = NoScore
    BY DEF ReputationInit, Scores
  <2> QED BY <2>1 DEF ScoresHold, Explained, ScoreKeys
<1>3. AskingHolds(asking, failing)
  <2>1. asking = [c \in Askers |-> NotAsking] BY DEF ReputationInit
  <2> QED BY <2>1, NotAskingIs DEF AskingHolds
<1>4. unfair = {} BY DEF ReputationInit
<1> QED BY <1>1, <1>2, <1>3, <1>4 DEF ReputationInv

\* An instance is blocked only when its node scores below 40 at that moment, or
\* when the score of the phone was once made from an instance more than a third
\* of whose messages failed, whatever the figures of instances, accounts and
\* nodes are and however calls overlap.
THEOREM BlocksAreDeserved == ReputationSpec => []BlockDeserved
<1>1. ReputationInit => ReputationInv BY NobodyJudged
<1>2. ReputationInv /\ [ReputationNext]_reputationVars => ReputationInv'
  <2> SUFFICES ASSUME ReputationInv, [ReputationNext]_reputationVars PROVE ReputationInv' OBVIOUS
  <2>1. ASSUME NEW c \in Askers, StoredPhone(c) PROVE ReputationInv' BY <2>1, PhoneKeeps
  <2>2. ASSUME NEW c \in Askers, StoredTenant(c) PROVE ReputationInv' BY <2>2, TenantKeeps
  <2>3. ASSUME NEW c \in Askers, ReadsNode(c) PROVE ReputationInv' BY <2>3, NodeKeeps
  <2>4. ASSUME NEW c \in Askers, ReadsLogs(c) PROVE ReputationInv' BY <2>4, LogsKeep
  <2>5. ASSUME NEW c \in Askers, ReadsRow(c) PROVE ReputationInv' BY <2>5, RowKeeps
  <2>6. ASSUME NEW c \in Askers, ReadsAccount(c) PROVE ReputationInv' BY <2>6, AccountKeeps
  <2>7. ASSUME NEW c \in Askers, LooksForScore(c) PROVE ReputationInv' BY <2>7, LookKeeps
  <2>8. ASSUME NEW c \in Askers, WritesScore(c) PROVE ReputationInv' BY <2>8, WriteKeeps
  <2>9. ASSUME NEW c \in Askers, Decides(c) PROVE ReputationInv' BY <2>9, DecideKeeps
  <2>10. ASSUME NEW c \in Askers, NEW i \in Lines, NEW s \in Subjects,
                WorkerAsks(c, i, s) \/ OrchestratorAsks(c, i, s) \/ AssignAsks(c, i, s)
         PROVE  ReputationInv'
    BY <2>10, AnyAsksKeep
  <2>11. ASSUME NEW i \in Lines, LogsChange(i) \/ MonitorCounts(i) \/ GrowsUp(i)
         PROVE  ReputationInv'
    BY <2>11, FactsKeep
  <2>12. CASE AlertsChange \/ NodeReports \/ \E i \in Lines : Unbarred(i) BY <2>12, OthersKeep
  <2>13. CASE UNCHANGED reputationVars
    BY <2>13 DEF reputationVars, ReputationInv, FiguresHold
  <2> QED BY <2>1, <2>2, <2>3, <2>4, <2>5, <2>6, <2>7, <2>8, <2>9, <2>10, <2>11, <2>12, <2>13
          DEF ReputationNext
<1>3. ReputationInv => BlockDeserved BY DEF ReputationInv, BlockDeserved
<1> QED BY <1>1, <1>2, <1>3, PTL DEF ReputationSpec
==============================================================================
