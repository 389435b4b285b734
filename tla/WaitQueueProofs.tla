-------------------------- MODULE WaitQueueProofs --------------------------
(***************************************************************************)
(* For every set of tasks and every set of queues: the chain of sleep_on   *)
(* frames loses no sleeper, and implements the set of waiters of WaitSet.  *)
(***************************************************************************)
EXTENDS WaitQueue, TLAPS

\* Each sleeper is named by at most one pointer, counting the queue heads and
\* the tmp of every frame that has not returned: the chains of two queues are
\* disjoint and no chain is entered twice.
OnePointer ==
    /\ \A u, v \in Task :
        /\ pc[u] = "in"
        /\ pc[v] = "in"
        /\ tmp[u] # NULL
        /\ tmp[u] = tmp[v]
        => u = v
    /\ \A u \in Task, q \in Queue :
        pc[u] = "in" /\ tmp[u] # NULL => head[q] # tmp[u]

\* The links of a chain agree on whether a wake_up has been called.
ChainCalled ==
    /\ \A q \in Queue : head[q] # NULL => ~called[head[q]]
    /\ \A u \in Task :
        pc[u] = "in" /\ tmp[u] # NULL => called[tmp[u]] = called[u]

\* A task outside sleep_on is running.
OutRuns == \A t \in Task : pc[t] = "out" => state[t] = Running

\* The inductive invariant.
IInv ==
    /\ TypeOK
    /\ NoLostSleeper
    /\ NoStalePointer
    /\ NoSpuriousReturn
    /\ OnePointer
    /\ ChainCalled
    /\ OutRuns

\* At boot the queues are empty and nobody sleeps.
LEMMA InitIInv == Init => IInv
BY NullAssumption
   DEF Init, IInv, TypeOK, NoLostSleeper, NoStalePointer, NoSpuriousReturn,
       OnePointer, ChainCalled, OutRuns, Running, Asleep

\* A task that enters sleep_on becomes the head and takes over the old head.
LEMMA SleepOnIInv ==
    ASSUME IInv, NEW t \in Task, NEW q \in Queue, SleepOn(t, q)
    PROVE  IInv'
<1> USE NullAssumption DEF Running, Asleep
<1>1. TypeOK'
  BY DEF IInv, TypeOK, SleepOn
<1>2. \A u \in Task : pc[u] = "in" => tmp[u] # t
  BY DEF IInv, TypeOK, NoStalePointer, SleepOn
<1>3. \A r \in Queue : head[r] # t
  BY DEF IInv, TypeOK, NoStalePointer, SleepOn
<1>4. NoLostSleeper'
  <2> SUFFICES ASSUME NEW u \in Task, pc'[u] = "in", state'[u] = Asleep
               PROVE  \/ head'[on'[u]] = u /\ ~called'[u]
                      \/ \E w \in Task :
                           /\ pc'[w] = "in" /\ tmp'[w] = u
                           /\ on'[w] = on'[u] /\ called'[w] = called'[u]
    BY DEF NoLostSleeper
  <2>1. CASE u = t
    BY <2>1 DEF IInv, TypeOK, SleepOn
  <2>2. CASE u # t /\ head[on[u]] = u /\ ~called[u]
    BY <2>2 DEF IInv, TypeOK, SleepOn
  <2>3. CASE u # t /\ ~(head[on[u]] = u /\ ~called[u])
    <3>1. pc[u] = "in" /\ state[u] = Asleep
      BY <2>3 DEF IInv, TypeOK, SleepOn
    <3>2. PICK w \in Task :
             /\ pc[w] = "in" /\ tmp[w] = u
             /\ on[w] = on[u] /\ called[w] = called[u]
      BY <2>3, <3>1 DEF IInv, NoLostSleeper
    <3>3. w # t
      BY <3>2 DEF SleepOn
    <3> QED
      BY <2>3, <3>2, <3>3 DEF IInv, TypeOK, SleepOn
  <2> QED
    BY <2>1, <2>2, <2>3
<1>5. NoStalePointer'
  BY <1>2, <1>3 DEF IInv, TypeOK, NoStalePointer, SleepOn
<1>6. NoSpuriousReturn'
  BY DEF IInv, TypeOK, NoSpuriousReturn, SleepOn
<1>7. OnePointer'
  BY <1>2, <1>3 DEF IInv, TypeOK, OnePointer, NoStalePointer, SleepOn
<1>8. ChainCalled'
  <2>1. \A r \in Queue : head'[r] # NULL => ~called'[head'[r]]
    BY <1>3 DEF IInv, TypeOK, ChainCalled, SleepOn
  <2>2. ASSUME NEW u \in Task, pc'[u] = "in", tmp'[u] # NULL
        PROVE  called'[tmp'[u]] = called'[u]
    <3>1. CASE u = t
      <4>1. tmp'[u] = head[q] /\ head[q] # t /\ head[q] \in Task
        BY <1>3, <2>2, <3>1 DEF IInv, TypeOK, SleepOn
      <4>2. ~called[head[q]]
        BY <2>2, <3>1, <4>1 DEF IInv, ChainCalled
      <4>3. called'[head[q]] = FALSE /\ called'[t] = FALSE
        BY <4>1, <4>2 DEF IInv, TypeOK, SleepOn
      <4> QED
        BY <3>1, <4>1, <4>3
    <3>2. CASE u # t
      <4>1. pc[u] = "in" /\ tmp'[u] = tmp[u] /\ tmp[u] # t
        BY <1>2, <2>2, <3>2 DEF IInv, TypeOK, SleepOn
      <4>2. called[tmp[u]] = called[u]
        BY <2>2, <4>1 DEF IInv, ChainCalled
      <4>3. called'[tmp[u]] = called[tmp[u]] /\ called'[u] = called[u]
        BY <2>2, <3>2, <4>1 DEF IInv, TypeOK, SleepOn
      <4> QED
        BY <4>1, <4>2, <4>3
    <3> QED
      BY <3>1, <3>2
  <2> QED
    BY <2>1, <2>2 DEF ChainCalled
<1>9. OutRuns'
  BY DEF IInv, TypeOK, OutRuns, SleepOn
<1> QED
  BY <1>1, <1>4, <1>5, <1>6, <1>7, <1>8, <1>9 DEF IInv

\* A task that leaves sleep_on wakes the task it took over.
LEMMA ResumeIInv ==
    ASSUME IInv, NEW t \in Task, Resume(t)
    PROVE  IInv'
<1> USE NullAssumption DEF Running, Asleep
<1>1. TypeOK'
  BY DEF IInv, TypeOK, Resume
<1>2. \A u \in Task : pc[u] = "in" => tmp[u] # t
  BY DEF IInv, TypeOK, NoStalePointer, Resume
<1>3. \A r \in Queue : head[r] # t
  BY DEF IInv, TypeOK, NoStalePointer, Resume
<1>4. \A u \in Task : u # t /\ pc[u] = "in" /\ tmp[t] # NULL => tmp[u] # tmp[t]
  BY DEF IInv, TypeOK, OnePointer, Resume
<1>5. \A r \in Queue : tmp[t] # NULL => head[r] # tmp[t]
  BY DEF IInv, TypeOK, OnePointer, Resume
<1>6. NoLostSleeper'
  <2> SUFFICES ASSUME NEW u \in Task, pc'[u] = "in", state'[u] = Asleep
               PROVE  \/ head'[on'[u]] = u /\ ~called'[u]
                      \/ \E w \in Task :
                           /\ pc'[w] = "in" /\ tmp'[w] = u
                           /\ on'[w] = on'[u] /\ called'[w] = called'[u]
    BY DEF NoLostSleeper
  <2>1. u # t /\ u # tmp[t] /\ pc[u] = "in" /\ state[u] = Asleep
    BY DEF IInv, TypeOK, Resume
  <2>2. CASE head[on[u]] = u /\ ~called[u]
    BY <2>2 DEF Resume
  <2>3. CASE ~(head[on[u]] = u /\ ~called[u])
    <3>1. PICK w \in Task :
             /\ pc[w] = "in" /\ tmp[w] = u
             /\ on[w] = on[u] /\ called[w] = called[u]
      BY <2>1, <2>3 DEF IInv, NoLostSleeper
    <3>2. w # t
      BY <2>1, <3>1
    <3> QED
      BY <3>1, <3>2 DEF IInv, TypeOK, Resume
  <2> QED
    BY <2>2, <2>3
<1>7. NoStalePointer'
  BY <1>2, <1>3, <1>4, <1>5 DEF IInv, TypeOK, NoStalePointer, Resume
<1>8. NoSpuriousReturn'
  BY DEF IInv, TypeOK, NoSpuriousReturn, ChainCalled, Resume
<1>9. OnePointer'
  BY DEF IInv, TypeOK, OnePointer, Resume
<1>10. ChainCalled'
  BY DEF IInv, TypeOK, ChainCalled, Resume
<1>11. OutRuns'
  BY DEF IInv, TypeOK, OutRuns, Resume
<1> QED
  BY <1>1, <1>6, <1>7, <1>8, <1>9, <1>10, <1>11 DEF IInv

\* wake_up empties the head and marks the whole chain as called.
LEMMA WakeUpIInv ==
    ASSUME IInv, NEW q \in Queue, WakeUp(q)
    PROVE  IInv'
<1> USE NullAssumption DEF Running, Asleep
<1> DEFINE h == head[q]
<1>1. TypeOK'
  BY DEF IInv, TypeOK, WakeUp
<1>2. h \in Task /\ pc[h] = "in" /\ on[h] = q /\ state[h] = Asleep
  BY DEF IInv, TypeOK, NoStalePointer, WakeUp
<1>3. \A u \in Task : pc[u] = "in" => tmp[u] # h
  BY <1>2 DEF IInv, TypeOK, OnePointer
<1>4. \A r \in Queue : r # q /\ head[r] # NULL => head[r] # h /\ on[head[r]] # q
  BY <1>2 DEF IInv, TypeOK, NoStalePointer
<1>5. NoLostSleeper'
  <2> SUFFICES ASSUME NEW u \in Task, pc'[u] = "in", state'[u] = Asleep
               PROVE  \/ head'[on'[u]] = u /\ ~called'[u]
                      \/ \E w \in Task :
                           /\ pc'[w] = "in" /\ tmp'[w] = u
                           /\ on'[w] = on'[u] /\ called'[w] = called'[u]
    BY DEF NoLostSleeper
  <2>1. u # h /\ pc[u] = "in" /\ state[u] = Asleep
    BY <1>2 DEF IInv, TypeOK, WakeUp
  <2>2. CASE head[on[u]] = u /\ ~called[u]
    <3>1. on[u] # q
      BY <2>1, <2>2
    <3> QED
      BY <2>2, <3>1 DEF IInv, TypeOK, WakeUp
  <2>3. CASE ~(head[on[u]] = u /\ ~called[u])
    <3>1. PICK w \in Task :
             /\ pc[w] = "in" /\ tmp[w] = u
             /\ on[w] = on[u] /\ called[w] = called[u]
      BY <2>1, <2>3 DEF IInv, NoLostSleeper
    <3> QED
      BY <2>1, <3>1 DEF IInv, TypeOK, WakeUp
  <2> QED
    BY <2>2, <2>3
<1>6. NoStalePointer'
  BY <1>2, <1>3, <1>4 DEF IInv, TypeOK, NoStalePointer, WakeUp
<1>7. NoSpuriousReturn'
  BY <1>2 DEF IInv, TypeOK, NoSpuriousReturn, WakeUp
<1>8. OnePointer'
  BY DEF IInv, TypeOK, OnePointer, WakeUp
<1>9. ChainCalled'
  <2>1. \A r \in Queue : head'[r] # NULL => ~called'[head'[r]]
    BY <1>4 DEF IInv, TypeOK, ChainCalled, WakeUp
  <2>2. ASSUME NEW u \in Task, pc'[u] = "in", tmp'[u] # NULL
        PROVE  called'[tmp'[u]] = called'[u]
    BY <2>2 DEF IInv, TypeOK, ChainCalled, NoStalePointer, WakeUp
  <2> QED
    BY <2>1, <2>2 DEF ChainCalled
<1>10. OutRuns'
  BY DEF IInv, TypeOK, OutRuns, WakeUp
<1> QED
  BY <1>1, <1>5, <1>6, <1>7, <1>8, <1>9, <1>10 DEF IInv

\* A step of nothing keeps it.
LEMMA StutterIInv == IInv /\ UNCHANGED vars => IInv'
BY DEF IInv, vars, TypeOK, NoLostSleeper, NoStalePointer, NoSpuriousReturn,
       OnePointer, ChainCalled, OutRuns

\* Every step of sleep_on and wake_up keeps the invariant.
LEMMA NextIInv == IInv /\ [Next]_vars => IInv'
BY SleepOnIInv, ResumeIInv, WakeUpIInv, StutterIInv DEF Next

\* The inductive invariant holds in every reachable state.
THEOREM Invariance == Spec => []IInv
<1>1. Init => IInv
  BY InitIInv
<1>2. IInv /\ [Next]_vars => IInv'
  BY NextIInv
<1> QED
  BY <1>1, <1>2, PTL DEF Spec

\* The state, the queue heads and the frames stay of their types.
THEOREM TypeCorrect == Spec => []TypeOK
<1>1. IInv => TypeOK
  BY DEF IInv
<1> QED
  BY <1>1, Invariance, PTL

\* No sleeper of sleep_on is ever lost, however many tasks sleep on however
\* many queues and in whatever order they are woken and scheduled.
THEOREM SleepersKept == Spec => []NoLostSleeper
<1>1. IInv => NoLostSleeper
  BY DEF IInv
<1> QED
  BY <1>1, Invariance, PTL

\* A wake-up never reaches a task that has left the queue.
THEOREM PointersFresh == Spec => []NoStalePointer
<1>1. IInv => NoStalePointer
  BY DEF IInv
<1> QED
  BY <1>1, Invariance, PTL

-----------------------------------------------------------------------------
\* The states and steps of sleep_on and wake_up map to those of WaitSet.

\* Empty queues are the empty sets of WaitSet.
LEMMA InitRefines == Init => Abstract!Init
BY DEF Init, Abstract!Init

\* sleep_on adds its task to the waiting set of the queue.
LEMMA SleepOnRefines ==
    ASSUME IInv, NEW t \in Task, NEW q \in Queue, SleepOn(t, q)
    PROVE  Abstract!Sleep(t, q)
<1>1. {u \in Task : pc[u] = "in" /\ called[u]}' = {u \in Task : pc[u] = "in" /\ called[u]}
  BY DEF IInv, TypeOK, SleepOn
<1>2. ASSUME NEW r \in Queue
      PROVE  {u \in Task : pc'[u] = "in" /\ on'[u] = r /\ ~called'[u]}
             = IF r = q
                 THEN {u \in Task : pc[u] = "in" /\ on[u] = r /\ ~called[u]} \union {t}
                 ELSE {u \in Task : pc[u] = "in" /\ on[u] = r /\ ~called[u]}
  BY DEF IInv, TypeOK, SleepOn
<1>3. pc[t] # "in"
  BY DEF SleepOn
<1> DEFINE W == [r \in Queue |-> {u \in Task : pc[u] = "in" /\ on[u] = r /\ ~called[u]}]
<1>4. t \notin {u \in Task : pc[u] = "in" /\ called[u]}
  BY <1>3
<1>5. \A r \in Queue : t \notin W[r]
  BY <1>3
<1>6. W' = [W EXCEPT ![q] = @ \union {t}]
  BY <1>2
<1> QED
  BY <1>1, <1>4, <1>5, <1>6 DEF Abstract!Sleep

\* The return of sleep_on is the Return of WaitSet; passing the wake-up on
\* changes nothing there, since the next task has been released already.
LEMMA ResumeRefines ==
    ASSUME IInv, NEW t \in Task, Resume(t)
    PROVE  Abstract!Return(t)
<1>1. pc[t] = "in" /\ called[t]
  BY DEF IInv, TypeOK, NoSpuriousReturn, Resume
<1>2. {u \in Task : pc[u] = "in" /\ called[u]}'
      = {u \in Task : pc[u] = "in" /\ called[u]} \ {t}
  BY DEF IInv, TypeOK, Resume
<1>3. ASSUME NEW r \in Queue
      PROVE  {u \in Task : pc'[u] = "in" /\ on'[u] = r /\ ~called'[u]}
             = {u \in Task : pc[u] = "in" /\ on[u] = r /\ ~called[u]}
  BY <1>1 DEF IInv, TypeOK, Resume
<1> QED
  BY <1>1, <1>2, <1>3 DEF Abstract!Return

\* wake_up, which touches the head only, releases the whole waiting set.
LEMMA WakeUpRefines ==
    ASSUME IInv, NEW q \in Queue, WakeUp(q)
    PROVE  Abstract!WakeUp(q)
<1>1. {u \in Task : pc[u] = "in" /\ called[u]}'
      = {u \in Task : pc[u] = "in" /\ called[u]}
          \union {u \in Task : pc[u] = "in" /\ on[u] = q /\ ~called[u]}
  BY DEF IInv, TypeOK, WakeUp
<1>2. ASSUME NEW r \in Queue
      PROVE  {u \in Task : pc'[u] = "in" /\ on'[u] = r /\ ~called'[u]}
             = IF r = q THEN {}
               ELSE {u \in Task : pc[u] = "in" /\ on[u] = r /\ ~called[u]}
  BY DEF IInv, TypeOK, WakeUp
<1> QED
  BY <1>1, <1>2 DEF Abstract!WakeUp

\* A step of nothing is one of WaitSet.
LEMMA StutterRefines == UNCHANGED vars => UNCHANGED Abstract!vars
BY DEF vars, Abstract!vars

\* The chain of sleep_on frames implements the set of waiters: no task leaves
\* sleep_on before a wake_up of its queue, and a wake_up releases all of them.
THEOREM ChainImplementsSet == Spec => ImplementsWaitSetSafety
<1>1. Init => Abstract!Init
  BY InitRefines
<1>2. IInv /\ [Next]_vars => [Abstract!Next]_(Abstract!vars)
  BY SleepOnRefines, ResumeRefines, WakeUpRefines, StutterRefines
     DEF Next, Abstract!Next
<1> QED
  BY <1>1, <1>2, Invariance, PTL DEF Spec, ImplementsWaitSetSafety, Abstract!Spec
=============================================================================
