---------------------------- MODULE SchedProofs ----------------------------
(***************************************************************************)
(* For any number of tasks and buffers, any time slices and any depth of   *)
(* nested interrupts: with timer and disk interrupts, preemption, alarms   *)
(* and signals mixed in any order, an interrupt flag that no task switch   *)
(* saves and calls of schedule() that go on with a stale choice, every     *)
(* sleeper of wait_on_buffer stays linked as long as no interrupt comes    *)
(* between the assignments of sleep_on or of the handler's wake_up.        *)
(***************************************************************************)
EXTENDS Sched, FiniteSetsExt, FiniteSetTheorems, TLAPS

-----------------------------------------------------------------------------
\* Every set of numbers that is not empty has a least one, and Min is it.
LEMMA MinIsLeast ==
    ASSUME NEW S \in SUBSET Nat, S # {}
    PROVE  Min(S) \in S /\ \A y \in S : Min(S) <= y
<1> DEFINE R == {ss \in Nat \X Nat : ss[1] < ss[2]}
<1>1. OpToRel(<, Nat) = R
  BY Zenon DEF OpToRel
<1>2. IsWellFoundedOn(R, Nat)
  BY <1>1, NatLessThanWellFounded, Zenon
<1> HIDE DEF R
<1>3. PICK x \in S : \A y \in S : ~(<<y, x>> \in R)
  BY <1>2, WFMin, Zenon
<1>4. ASSUME NEW y \in S, y < x PROVE FALSE
  <2>1. <<y, x>> \in Nat \X Nat /\ <<y, x>>[1] < <<y, x>>[2]
    BY <1>4
  <2> QED
    BY <1>3, <2>1 DEF R
<1>5. \A y \in S : x <= y
  BY <1>4
<1> QED
  BY <1>5 DEF Min

\* Likewise every bounded set of numbers has a greatest one, and Max is it.
LEMMA MaxIsGreatest ==
    ASSUME NEW lim \in Nat, NEW S \in SUBSET (0 .. lim), S # {}
    PROVE  Max(S) \in S /\ \A y \in S : y <= Max(S)
<1> DEFINE D == {lim - p : p \in S}
<1> DEFINE m == Min(D)
<1>a. ASSUME NEW p \in S PROVE lim - p \in Nat /\ lim - p \in D
  OBVIOUS
<1>1. D \in SUBSET Nat /\ D # {}
  BY <1>a
<1>2. m \in D /\ \A y \in D : m <= y
  <2> HIDE DEF D
  <2> QED
    BY <1>1, MinIsLeast
<1>3. PICK x \in S : m = lim - x
  BY <1>2
<1>4. \A y \in S : m <= lim - y
  BY <1>2, <1>a
<1> HIDE DEF m
<1>5. \A y \in S : x >= y
  BY <1>3, <1>4
<1>6. Max(S) \in S /\ \A y \in S : Max(S) >= y
  BY <1>5 DEF Max
<1> QED
  BY <1>6

-----------------------------------------------------------------------------
State == {Running, Interruptible, Uninterruptible}
Slice == 0 .. 2 * MaxPriority
Alarm == {Off} \union 0 .. MaxAlarm

-----------------------------------------------------------------------------
\* schedule().

\* Among tasks that can run there is always one with the most ticks left and,
\* of those, the highest slot: the scan of schedule() finds it.
LEMMA PickIsBest ==
    ASSUME NEW ready \in SUBSET UserTask, ready # {}, NEW ct \in [Task -> Slice]
    PROVE  /\ Pick(ready, ct) \in ready
           /\ \A u \in ready : ct[u] <= ct[Pick(ready, ct)]
<1> USE SchedAssumption
<1> DEFINE C == {ct[t] : t \in ready}
<1> DEFINE m == Max(C)
<1>a. ready \subseteq Task /\ 2 * MaxPriority \in Nat
  BY DEF Task, UserTask
<1>b. ASSUME NEW t \in ready PROVE ct[t] \in Slice /\ ct[t] \in C
  BY <1>a
<1>1. C \in SUBSET (0 .. 2 * MaxPriority) /\ C # {}
  BY <1>b DEF Slice
<1>2. m \in C /\ \A y \in C : y <= m
  <2> HIDE DEF C
  <2> QED
    BY <1>a, <1>1, MaxIsGreatest
<1> DEFINE B == {t \in ready : ct[t] = m}
<1> DEFINE k == Max(B)
<1>3. B \in SUBSET (0 .. N) /\ B # {}
  BY <1>2, <1>a DEF Task
<1>4. k \in B /\ \A y \in B : y <= k
  <2> HIDE DEF B
  <2> QED
    BY <1>3, MaxIsGreatest
<1>5. k \in ready /\ ct[k] = m
  BY <1>4
<1>6. \A u \in ready : ct[u] <= m /\ (ct[u] = m => u <= k)
  BY <1>2, <1>4, <1>b
<1> HIDE DEF m, k, B, C
<1>7. \A u \in ready : ct[u] \in Int /\ u \in Int
  BY <1>b DEF Slice, UserTask
<1>8. \A u \in ready : ct[k] > ct[u] \/ (ct[k] = ct[u] /\ k >= u)
  BY <1>5, <1>6, <1>7
<1>9. /\ Pick(ready, ct) \in ready
      /\ \A u \in ready : \/ ct[Pick(ready, ct)] > ct[u]
                          \/ ct[Pick(ready, ct)] = ct[u] /\ Pick(ready, ct) >= u
  BY <1>5, <1>8 DEF Pick
<1> QED
  BY <1>7, <1>9

\* A recharge halves what is left before it adds the priority, so that no
\* slice grows past twice the highest priority, however long a task sleeps.
LEMMA RechargeBounded ==
    ASSUME NEW ready, NEW ct \in [Task -> Slice], priority \in [Task -> 1 .. MaxPriority]
    PROVE  RechargeAll(ready, ct) \in [Task -> Slice]
<1> USE SchedAssumption
<1>1. ASSUME NEW t \in Task PROVE (ct[t] \div 2) + priority[t] \in Slice
  <2>1. ct[t] \in 0 .. 2 * MaxPriority /\ priority[t] \in 1 .. MaxPriority
    BY DEF Slice
  <2> QED
    BY <2>1 DEF Slice
<1>2. Recharge(ct) \in [Task -> Slice]
  BY <1>1 DEF Recharge
<1> QED
  BY <1>2 DEF RechargeAll

\* The scan of schedule(): the tables keep their types, it neither puts a
\* task into an uninterruptible sleep nor takes one out of it, and it leaves
\* a task in the local variable next of the frame that called it.
LEMMA ScheduleKeeps ==
    ASSUME NEW i, NEW st \in [Task -> State], NEW ct \in [Task -> Slice], NEW al \in [Task -> Alarm],
           priority \in [Task -> 1 .. MaxPriority], signal \in [Task -> BOOLEAN],
           Schedule(i, st, ct, al)
    PROVE  /\ state' \in [Task -> State]
           /\ counter' \in [Task -> Slice]
           /\ signal' \in [Task -> BOOLEAN]
           /\ alarm' \in [Task -> Alarm]
           /\ \A t \in Task : state'[t] = Uninterruptible <=> st[t] = Uninterruptible
           /\ \E p \in Task : next' = [next EXCEPT ![current][i] = p]
<1> DEFINE woken == Woken(st, al)
<1> DEFINE ready == {t \in UserTask : woken[t] = Running}
<1> DEFINE slices == RechargeAll(ready, ct)
<1> DEFINE p == Pick(ready, slices)
<1>1. /\ signal' = Due(al)
      /\ alarm' = [t \in Task |-> IF al[t] = 0 THEN Off ELSE al[t]]
      /\ state' = woken
      /\ counter' = slices
      /\ next' = [next EXCEPT ![current][i] = p]
  BY DEF Schedule
<1>2. signal' \in [Task -> BOOLEAN]
  BY <1>1 DEF Due
<1>3. alarm' \in [Task -> Alarm]
  BY <1>1 DEF Alarm
<1>4. /\ woken \in [Task -> State]
      /\ \A t \in Task : woken[t] = Uninterruptible <=> st[t] = Uninterruptible
  BY DEF Woken, State, Running, Interruptible, Uninterruptible
<1>5. slices \in [Task -> Slice]
  BY RechargeBounded
<1> HIDE DEF slices, woken
<1>6. p \in Task
  <2>1. CASE ready = {}
    <3>1. p = 0
      BY <2>1 DEF Pick
    <3> QED
      BY <3>1, SchedAssumption DEF Task
  <2>2. CASE ready # {}
    <3>1. p \in ready
      BY <1>5, <2>2, PickIsBest
    <3> QED
      BY <3>1, SchedAssumption DEF Task, UserTask
  <2> QED
    BY <2>1, <2>2
<1> HIDE DEF p
<1> QED
  BY <1>1, <1>2, <1>3, <1>4, <1>5, <1>6

-----------------------------------------------------------------------------
\* The inductive invariant.

\* The code of wait_on_buffer.
Waiting == {"test", "tosleep", "link", "mark", "tosched", "sleep"}

\* Only sleep_on makes a task uninterruptible; a task that a stale choice of
\* schedule() has switched to may leave it in that state, and does not get
\* past ret_from_sys_call.  wait_on_buffer has a buffer.
SleepersInside ==
    /\ \A t \in Task : state[t] = Uninterruptible => t # 0 /\ ctx[t] \in Waiting \union {"ret"}
    /\ \A t \in Task : ctx[t] \in Waiting => t # 0 /\ buf[t] \in Buffer

\* Between the assignments of sleep_on the task has the processor, tmp is the
\* head of the queue, and then the task itself is.
LinkAlone ==
    \A t \in Task : ctx[t] \in {"link", "mark"} =>
        /\ current = t /\ OnBase
        /\ ctx[t] = "link" => tmp[t] = bWait[buf[t]]
        /\ ctx[t] = "mark" => bWait[buf[t]] = t

\* Between those of the handler's wake_up the handler has the processor, and the
\* head of the queue it is about to clear does not sleep.
ClearAlone ==
    \A t \in Task, i \in 1 .. MaxNest : isr[t][i].pc = "clear" =>
        /\ current = t /\ depth[t] = i /\ next[t][i] = NULL
        /\ \/ bWait[isr[t][i].b] = NULL
           \/ state[bWait[isr[t][i].b]] # Uninterruptible

\* A sleeper is the head of the queue of its buffer or the tmp of a frame.
Linked(t) ==
    \/ bWait[buf[t]] = t
    \/ \E u \in UserTask : /\ ctx[u] \in {"mark", "tosched", "sleep"}
                          /\ buf[u] = buf[t] /\ tmp[u] = t

AllLinked == \A t \in UserTask : state[t] = Uninterruptible => Linked(t)

Chain == LinkAlone /\ ClearAlone /\ AllLinked

IInv == TypeOK /\ SleepersInside /\ (~cut => Chain)

\* User tasks are tasks, task 0 is the other one, and no task is NULL.
LEMMA TaskFacts ==
    /\ UserTask \subseteq Task
    /\ 0 \in Task /\ 0 \notin UserTask
    /\ \A t \in Task : t # 0 => t \in UserTask
    /\ \A t \in Task : t # NULL
    /\ NULL \notin Buffer
BY SchedAssumption DEF Task, UserTask

\* The three states of a task are three.
LEMMA StatesDiffer ==
    /\ Running \in State /\ Interruptible \in State /\ Uninterruptible \in State
    /\ Running # Interruptible /\ Running # Uninterruptible /\ Interruptible # Uninterruptible
BY DEF State, Running, Interruptible, Uninterruptible

\* TypeOK in three parts: the stacks, the queues and the rest.
StackOK ==
    /\ current \in Task
    /\ ctx \in [Task -> Ctx]
    /\ depth \in [Task -> 0 .. MaxNest]
    /\ isr \in [Task -> [1 .. MaxNest -> Frame]]
    /\ next \in [Task -> [0 .. MaxNest -> Task \union {NULL}]]
QueueOK ==
    /\ buf \in [Task -> Buffer \union {NULL}]
    /\ tmp \in [Task -> Task \union {NULL}]
    /\ bLock \in [Buffer -> BOOLEAN]
    /\ bWait \in [Buffer -> Task \union {NULL}]
TableOK ==
    /\ ifl \in BOOLEAN
    /\ state \in [Task -> State]
    /\ counter \in [Task -> Slice]
    /\ priority \in [Task -> 1 .. MaxPriority]
    /\ signal \in [Task -> BOOLEAN]
    /\ alarm \in [Task -> Alarm]
    /\ cut \in BOOLEAN

\* The parts make the whole, before and after a step.
LEMMA Typed ==
    /\ TypeOK <=> StackOK /\ QueueOK /\ TableOK
    /\ TypeOK' <=> StackOK' /\ QueueOK' /\ TableOK'
BY Zenon DEF TypeOK, StackOK, QueueOK, TableOK, State, Slice, Alarm

\* At boot nobody waits.
LEMMA InitIInv == Init => IInv
<1> SUFFICES ASSUME Init PROVE IInv
  OBVIOUS
<1>1. /\ Priority \in Slice /\ Priority \in 1 .. MaxPriority /\ 0 \in 0 .. MaxNest
  BY SchedAssumption DEF Slice
<1>2. TableOK
  BY <1>1, TaskFacts, StatesDiffer DEF Init, TableOK, Alarm
<1>3. QueueOK
  BY DEF Init, QueueOK
<1>4. StackOK
  <2>1. "user" \in Ctx /\ "ret" \in Ctx /\ NoFrame \in Frame
    BY DEF Ctx, Frame
  <2>2. ctx \in [Task -> Ctx]
    BY <2>1 DEF Init
  <2>3. depth \in [Task -> 0 .. MaxNest]
    BY <1>1 DEF Init
  <2>4. isr \in [Task -> [1 .. MaxNest -> Frame]]
    BY <2>1, Zenon DEF Init
  <2>5. next \in [Task -> [0 .. MaxNest -> Task \union {NULL}]]
    BY DEF Init
  <2> QED
    BY <2>2, <2>3, <2>4, <2>5, TaskFacts DEF Init, StackOK
<1>5. SleepersInside
  BY StatesDiffer DEF Init, SleepersInside, Waiting
<1>6. LinkAlone
  BY DEF Init, LinkAlone
<1>7. ClearAlone
  BY DEF Init, ClearAlone, NoFrame
<1>8. AllLinked
  BY TaskFacts, StatesDiffer DEF Init, AllLinked
<1> QED
  BY <1>2, <1>3, <1>4, <1>5, <1>6, <1>7, <1>8, Typed DEF IInv, Chain

-----------------------------------------------------------------------------
\* What a step can do to the chain.

\* The points of sleep_on at which tmp counts as a link.
Holding == {"mark", "tosched", "sleep"}

\* No task falls asleep.
NoneFallsAsleep ==
    \A t \in Task : state'[t] = Uninterruptible => state[t] = Uninterruptible

\* A step that leaves the heads alone and the frames that hold a link.
LEMMA LinkedKept ==
    ASSUME AllLinked, bWait' = bWait, NoneFallsAsleep,
           \A u \in Task : ctx[u] \in Holding =>
                ctx'[u] \in Holding /\ tmp'[u] = tmp[u] /\ buf'[u] = buf[u],
           \A t \in Task : state'[t] = Uninterruptible => buf'[t] = buf[t]
    PROVE  AllLinked'
<1> SUFFICES ASSUME NEW t \in UserTask, state'[t] = Uninterruptible PROVE Linked(t)'
  BY DEF AllLinked
<1>1. Linked(t) /\ buf'[t] = buf[t]
  BY TaskFacts DEF AllLinked, NoneFallsAsleep
<1>2. CASE bWait[buf[t]] = t
  BY <1>1, <1>2 DEF Linked
<1>3. CASE \E u \in UserTask : ctx[u] \in Holding /\ buf[u] = buf[t] /\ tmp[u] = t
  BY <1>1, <1>3, TaskFacts DEF Linked, Holding
<1> QED
  BY <1>1, <1>2, <1>3 DEF Linked, Holding

\* A task in its own code has the processor: no handler is about to clear a
\* queue, and nobody else is between the assignments of sleep_on.
LEMMA BaseAlone ==
    ASSUME IInv, ~cut, OnBase
    PROVE  /\ \A t \in Task, i \in 1 .. MaxNest : isr[t][i].pc # "clear"
           /\ \A t \in Task : ctx[t] \in {"link", "mark"} => t = current
<1>1. LinkAlone /\ ClearAlone
  BY DEF IInv, Chain
<1>2. ASSUME NEW t \in Task, NEW i \in 1 .. MaxNest, isr[t][i].pc = "clear" PROVE FALSE
  <2>1. depth[current] = i
    BY <1>1, <1>2 DEF ClearAlone
  <2>2. depth[current] = 0
    BY DEF OnBase
  <2> QED
    BY <2>1, <2>2, SchedAssumption
<1> QED
  BY <1>1, <1>2 DEF LinkAlone

\* A handler, or a task that is about to switch, is not between the assignments
\* of sleep_on, and nobody else is.
LEMMA NobodyLinks ==
    ASSUME IInv, ~cut, ~OnBase
    PROVE  \A t \in Task : ctx[t] \notin {"link", "mark"}
BY Zenon DEF IInv, Chain, LinkAlone

\* Outside the two windows there is neither.
LEMMA NotBetween ==
    ASSUME IInv, ~cut, ~Between
    PROVE  /\ \A t \in Task : ctx[t] \notin {"link", "mark"}
           /\ \A t \in Task, i \in 1 .. MaxNest : isr[t][i].pc # "clear"
<1>1. LinkAlone /\ ClearAlone
  BY DEF IInv, Chain
<1>2. ASSUME NEW t \in Task, ctx[t] \in {"link", "mark"} PROVE FALSE
  BY <1>1, <1>2, Zenon DEF LinkAlone, Between
<1>3. ASSUME NEW t \in Task, NEW i \in 1 .. MaxNest, isr[t][i].pc = "clear" PROVE FALSE
  <2>1. current = t /\ depth[current] = i /\ next[current][depth[current]] = NULL
    BY <1>1, <1>3, Zenon DEF ClearAlone
  <2>2. depth[current] > 0
    BY <2>1, SchedAssumption
  <2>3. In("clear")
    BY <2>1, <2>2, <1>3, Zenon DEF In
  <2> QED
    BY <2>3, Zenon DEF Between
<1> QED
  BY <1>2, <1>3, Zenon

\* Where nobody is in a window after the step, the links are all there is.
LEMMA ChainOfLinks ==
    ASSUME AllLinked',
           \A t \in Task : ctx'[t] \notin {"link", "mark"},
           \A t \in Task, i \in 1 .. MaxNest : isr'[t][i].pc # "clear"
    PROVE  Chain'
BY Zenon DEF Chain, LinkAlone, ClearAlone

\* A frame is put on the stack of the current task.
LEMMA PushKeeps ==
    ASSUME IInv, NEW f \in Frame, f.pc # "clear", Pushed(f),
           UNCHANGED <<current, ctx, buf, tmp, bWait>>, NoneFallsAsleep
    PROVE  /\ depth' \in [Task -> 0 .. MaxNest]
           /\ isr' \in [Task -> [1 .. MaxNest -> Frame]]
           /\ cut' \in BOOLEAN
           /\ depth[current] + 1 \in 0 .. MaxNest
           /\ SleepersInside' /\ (~cut' => Chain')
<1>1. StackOK /\ cut \in BOOLEAN
  BY Typed DEF IInv, TableOK
<1>2. current \in Task /\ depth[current] \in 0 .. MaxNest /\ depth[current] < MaxNest
  BY <1>1 DEF StackOK, Pushed
<1> DEFINE d == depth[current] + 1
<1>3. d \in 1 .. MaxNest /\ d \in 0 .. MaxNest
  BY <1>2, SchedAssumption
<1>4. depth' = [depth EXCEPT ![current] = d] /\ isr' = [isr EXCEPT ![current][d] = f]
  BY DEF Pushed
<1>5. cut' = (cut \/ Between)
  BY DEF Pushed
<1> HIDE DEF d
<1>6. depth' \in [Task -> 0 .. MaxNest]
  BY <1>1, <1>2, <1>3, <1>4 DEF StackOK
<1>7. isr' \in [Task -> [1 .. MaxNest -> Frame]]
  BY <1>1, <1>2, <1>3, <1>4 DEF StackOK
<1>8. cut' \in BOOLEAN
  BY <1>1, <1>5
<1>9. SleepersInside'
  BY Zenon DEF IInv, SleepersInside, NoneFallsAsleep
<1>10. ASSUME ~cut' PROVE Chain'
  <2>1. ~cut /\ ~Between
    BY <1>5, <1>10, <1>1
  <2>2. \A t \in Task : ctx'[t] \notin {"link", "mark"}
    BY <2>1, NotBetween
  <2>3. ASSUME NEW t \in Task, NEW i \in 1 .. MaxNest PROVE isr'[t][i].pc # "clear"
    <3>1. isr'[t][i] = f \/ isr'[t][i] = isr[t][i]
      BY <1>1, <1>2, <1>3, <1>4 DEF StackOK
    <3> QED
      BY <3>1, <2>1, NotBetween, Zenon
  <2>4. AllLinked'
    BY <2>1, LinkedKept DEF IInv, Chain
  <2> QED
    BY <2>2, <2>3, <2>4, ChainOfLinks
<1> QED
  BY <1>3, <1>6, <1>7, <1>8, <1>9, <1>10 DEF d

-----------------------------------------------------------------------------
\* Interrupts.

\* What IInv says of the types, part by part.
LEMMA Parts == ASSUME IInv PROVE StackOK /\ QueueOK /\ TableOK
BY Typed DEF IInv

\* The frames of the two handlers.
LEMMA Frames ==
    /\ NoFrame \in Frame /\ NoFrame.pc # "clear"
    /\ TimerFrame \in Frame /\ TimerFrame.pc # "clear"
    /\ \A b \in Buffer : /\ HdFrame("wake", b) \in Frame /\ HdFrame("wake", b).pc # "clear"
                         /\ HdFrame("clear", b) \in Frame
<1>1. NoFrame \in Frame /\ TimerFrame \in Frame
  BY DEF Frame
<1>2. NoFrame.pc # "clear" /\ TimerFrame.pc # "clear"
  BY DEF NoFrame, TimerFrame
<1>3. ASSUME NEW b \in Buffer
      PROVE  HdFrame("wake", b).pc # "clear"
  BY DEF HdFrame
<1>4. ASSUME NEW b \in Buffer, NEW pc \in {"wake", "clear"}
      PROVE  HdFrame(pc, b) \in Frame
  BY DEF Frame
<1> QED
  BY <1>1, <1>2, <1>3, <1>4

\* A frame of the disk handler knows its buffer.
LEMMA HdFrames ==
    ASSUME NEW f \in Frame, f.pc \in {"wake", "clear"}
    PROVE  \E b \in Buffer : f = HdFrame(f.pc, b) /\ f.b = b
<1>1. f # NoFrame /\ f # TimerFrame
  BY DEF NoFrame, TimerFrame
<1>2. PICK pc \in {"wake", "clear"}, b \in Buffer : f = HdFrame(pc, b)
  BY <1>1 DEF Frame
<1>3. f.pc = pc /\ f.b = b
  BY <1>2 DEF HdFrame
<1> QED
  BY <1>2, <1>3

\* The choice of schedule() has its place in a frame.
LEMMA NextTyped ==
    ASSUME StackOK, NEW i \in 0 .. MaxNest, NEW p \in Task \union {NULL},
           next' = [next EXCEPT ![current][i] = p]
    PROVE  next' \in [Task -> [0 .. MaxNest -> Task \union {NULL}]]
BY DEF StackOK

\* The timer interrupt, with and without a call of schedule().
LEMMA TickIInv == IInv /\ Tick => IInv'
<1> SUFFICES ASSUME IInv, Tick PROVE IInv'
  OBVIOUS
<1> DEFINE left == SliceAfterTick(counter[current])
<1> DEFINE ct == [counter EXCEPT ![current] = left]
<1> DEFINE al == [u \in Task |-> IF alarm[u] > 0 THEN alarm[u] - 1 ELSE alarm[u]]
<1>a. StackOK /\ QueueOK /\ TableOK
  BY Parts
<1>b. left \in Slice
  <2>1. counter[current] \in Slice
    BY <1>a DEF StackOK, TableOK
  <2> QED
    BY <2>1, SchedAssumption DEF Slice, SliceAfterTick
<1>c. ct \in [Task -> Slice]
  BY <1>a, <1>b DEF StackOK, TableOK
<1>d. al \in [Task -> Alarm]
  <2>1. ASSUME NEW u \in Task
        PROVE  (IF alarm[u] > 0 THEN alarm[u] - 1 ELSE alarm[u]) \in Alarm
    <3>1. alarm[u] \in Alarm
      BY <1>a DEF TableOK
    <3> QED
      BY <3>1, SchedAssumption DEF Alarm, Off
  <2> QED
    BY <2>1
<1>e. /\ Pushed(TimerFrame) /\ ifl' = FALSE
      /\ UNCHANGED <<current, ctx, priority, buf, tmp, bLock, bWait>>
      /\ \/ counter' = ct /\ alarm' = al /\ UNCHANGED <<state, signal, next>>
         \/ Schedule(depth[current] + 1, state, ct, al)
  BY DEF Tick, waitVars
<1> HIDE DEF ct, al, left
<1>1. /\ state' \in [Task -> State]
      /\ counter' \in [Task -> Slice]
      /\ signal' \in [Task -> BOOLEAN]
      /\ alarm' \in [Task -> Alarm]
      /\ NoneFallsAsleep
      /\ \/ next' = next
         \/ \E p \in Task : next' = [next EXCEPT ![current][depth[current] + 1] = p]
  <2>1. CASE counter' = ct /\ alarm' = al /\ UNCHANGED <<state, signal, next>>
    BY <1>a, <1>c, <1>d, <2>1 DEF TableOK, NoneFallsAsleep
  <2>2. CASE Schedule(depth[current] + 1, state, ct, al)
    BY <1>a, <1>c, <1>d, <2>2, ScheduleKeeps DEF TableOK, NoneFallsAsleep
  <2> QED
    BY <1>e, <2>1, <2>2
<1>2. /\ depth' \in [Task -> 0 .. MaxNest] /\ isr' \in [Task -> [1 .. MaxNest -> Frame]]
      /\ cut' \in BOOLEAN /\ depth[current] + 1 \in 0 .. MaxNest
      /\ SleepersInside' /\ (~cut' => Chain')
  BY <1>e, <1>1, Frames, PushKeeps
<1>3. next' \in [Task -> [0 .. MaxNest -> Task \union {NULL}]]
  <2>1. CASE next' = next
    BY <2>1, <1>a DEF StackOK
  <2>2. CASE \E p \in Task : next' = [next EXCEPT ![current][depth[current] + 1] = p]
    BY <2>2, <1>a, <1>2, NextTyped
  <2> QED
    BY <1>1, <2>1, <2>2
<1>4. StackOK' /\ QueueOK' /\ TableOK'
  BY <1>a, <1>e, <1>1, <1>2, <1>3 DEF StackOK, QueueOK, TableOK
<1> QED
  BY <1>2, <1>4, Typed DEF IInv

\* The disk interrupt, up to its wake_up.
LEMMA HdInterruptIInv == ASSUME NEW b \in Buffer PROVE IInv /\ HdInterrupt(b) => IInv'
<1> SUFFICES ASSUME IInv, HdInterrupt(b) PROVE IInv'
  OBVIOUS
<1>a. StackOK /\ QueueOK /\ TableOK
  BY Parts
<1>b. /\ Pushed(HdFrame("wake", b)) /\ bLock' = [bLock EXCEPT ![b] = FALSE]
      /\ UNCHANGED <<current, ifl, ctx, next, state, counter, priority, signal, alarm, buf, tmp, bWait>>
  BY DEF HdInterrupt, taskVars
<1>1. NoneFallsAsleep
  BY <1>b DEF NoneFallsAsleep
<1>2. /\ depth' \in [Task -> 0 .. MaxNest] /\ isr' \in [Task -> [1 .. MaxNest -> Frame]]
      /\ cut' \in BOOLEAN /\ SleepersInside' /\ (~cut' => Chain')
  BY <1>b, <1>1, Frames, PushKeeps
<1>3. StackOK' /\ QueueOK' /\ TableOK'
  BY <1>a, <1>b, <1>2 DEF StackOK, QueueOK, TableOK
<1> QED
  BY <1>2, <1>3, Typed DEF IInv

\* A frame of a handler that is left.
LEMMA PopTyped ==
    ASSUME StackOK, depth[current] > 0, Popped
    PROVE  /\ depth' \in [Task -> 0 .. MaxNest]
           /\ isr' \in [Task -> [1 .. MaxNest -> Frame]]
           /\ \A t \in Task, i \in 1 .. MaxNest : isr'[t][i] = isr[t][i] \/ isr'[t][i] = NoFrame
<1> DEFINE d == depth[current]
<1>1. current \in Task /\ d \in 1 .. MaxNest /\ d - 1 \in 0 .. MaxNest
  BY SchedAssumption DEF StackOK
<1>2. depth' = [depth EXCEPT ![current] = d - 1] /\ isr' = [isr EXCEPT ![current][d] = NoFrame]
  BY DEF Popped
<1> HIDE DEF d
<1>3. depth' \in [Task -> 0 .. MaxNest]
  BY <1>1, <1>2 DEF StackOK
<1>4. isr' \in [Task -> [1 .. MaxNest -> Frame]]
  BY <1>1, <1>2, Frames DEF StackOK
<1>5. \A t \in Task, i \in 1 .. MaxNest : isr'[t][i] = isr[t][i] \/ isr'[t][i] = NoFrame
  BY <1>1, <1>2 DEF StackOK
<1> QED
  BY <1>3, <1>4, <1>5

\* A handler at another point than "clear" finds no frame there.
LEMMA NoClear ==
    ASSUME IInv, ~cut, NEW pc, pc # "clear", In(pc)
    PROVE  \A t \in Task, i \in 1 .. MaxNest : isr[t][i].pc # "clear"
<1> SUFFICES ASSUME NEW t \in Task, NEW i \in 1 .. MaxNest, isr[t][i].pc = "clear" PROVE FALSE
  OBVIOUS
<1>1. current = t /\ depth[t] = i
  BY Zenon DEF IInv, Chain, ClearAlone
<1> QED
  BY <1>1, Zenon DEF In

\* ret_from_sys_call at the end of a timer interrupt.
LEMMA RetFromTimerIInv == IInv /\ RetFromTimer => IInv'
<1> SUFFICES ASSUME IInv, RetFromTimer PROVE IInv'
  OBVIOUS
<1>a. StackOK /\ QueueOK /\ TableOK
  BY Parts
<1>b. /\ In("timer") /\ depth[current] > 0
      /\ UNCHANGED <<current, ctx, priority, buf, tmp, bLock, bWait, cut>>
      /\ \/ /\ Schedule(depth[current], state, counter, alarm)
            /\ UNCHANGED <<ifl, depth, isr>>
         \/ Popped /\ ifl' = TRUE /\ UNCHANGED <<state, counter, signal, alarm, next>>
  BY DEF RetFromTimer, In, NoSchedule, waitVars
<1>1. /\ NoneFallsAsleep /\ TableOK'
      /\ \A t \in Task, i \in 1 .. MaxNest : isr'[t][i] = isr[t][i] \/ isr'[t][i] = NoFrame
      /\ StackOK'
  <2>1. CASE Schedule(depth[current], state, counter, alarm) /\ UNCHANGED <<ifl, depth, isr>>
    <3>0. /\ state \in [Task -> State] /\ counter \in [Task -> Slice] /\ alarm \in [Task -> Alarm]
          /\ priority \in [Task -> 1 .. MaxPriority] /\ signal \in [Task -> BOOLEAN]
          /\ depth[current] \in 0 .. MaxNest
      BY <1>a DEF TableOK, StackOK
    <3>1. /\ state' \in [Task -> State] /\ counter' \in [Task -> Slice]
          /\ signal' \in [Task -> BOOLEAN] /\ alarm' \in [Task -> Alarm]
          /\ \A t \in Task : state'[t] = Uninterruptible <=> state[t] = Uninterruptible
      BY <3>0, <2>1, ScheduleKeeps
    <3>2. PICK p \in Task : next' = [next EXCEPT ![current][depth[current]] = p]
      BY <3>0, <2>1, ScheduleKeeps
    <3>3. next' \in [Task -> [0 .. MaxNest -> Task \union {NULL}]]
      BY <3>0, <3>2, <1>a, NextTyped
    <3> QED
      BY <1>a, <1>b, <2>1, <3>1, <3>3 DEF StackOK, TableOK, NoneFallsAsleep
  <2>2. CASE Popped /\ ifl' = TRUE /\ UNCHANGED <<state, counter, signal, alarm, next>>
    <3>1. /\ depth' \in [Task -> 0 .. MaxNest]
          /\ isr' \in [Task -> [1 .. MaxNest -> Frame]]
          /\ \A t \in Task, i \in 1 .. MaxNest : isr'[t][i] = isr[t][i] \/ isr'[t][i] = NoFrame
      BY <1>a, <1>b, <2>2, PopTyped
    <3> QED
      BY <1>a, <1>b, <2>2, <3>1 DEF StackOK, TableOK, NoneFallsAsleep
  <2> QED
    BY <1>b, <2>1, <2>2
<1>2. QueueOK'
  BY <1>a, <1>b DEF QueueOK
<1>3. SleepersInside'
  BY <1>b, <1>1, Zenon DEF IInv, SleepersInside, NoneFallsAsleep
<1>4. ASSUME ~cut' PROVE Chain'
  <2>1. ~cut
    BY <1>b, <1>4
  <2>2. ~OnBase
    BY <1>b DEF OnBase
  <2>3. \A t \in Task : ctx'[t] \notin {"link", "mark"}
    BY <1>b, <2>1, <2>2, NobodyLinks
  <2>4. \A t \in Task, i \in 1 .. MaxNest : isr'[t][i].pc # "clear"
    <3>1. \A t \in Task, i \in 1 .. MaxNest : isr[t][i].pc # "clear"
      BY <1>b, <2>1, NoClear
    <3> QED
      BY <1>1, <3>1, Frames, Zenon
  <2>5. AllLinked'
    BY <1>b, <1>1, <2>1, LinkedKept DEF IInv, Chain
  <2> QED
    BY <2>3, <2>4, <2>5, ChainOfLinks
<1> QED
  BY <1>1, <1>2, <1>3, <1>4, Typed DEF IInv

\* The wake-up in the handler: the head of the queue gets to run.
LEMMA HdWakesIInv == IInv /\ HdWakes => IInv'
<1> SUFFICES ASSUME IInv, HdWakes PROVE IInv'
  OBVIOUS
<1> DEFINE d == depth[current]
<1> DEFINE f == isr[current][d]
<1>a. StackOK /\ QueueOK /\ TableOK
  BY Parts
<1>b. /\ In("wake") /\ d > 0 /\ f.pc = "wake" /\ next[current][d] = NULL
      /\ ifl' = ifl \/ ifl' = TRUE
      /\ UNCHANGED <<current, ctx, next, counter, priority, signal, alarm, buf, tmp, bLock, bWait, cut>>
      /\ \/ bWait[f.b] = NULL /\ Popped /\ UNCHANGED state
         \/ /\ bWait[f.b] # NULL
            /\ state' = [state EXCEPT ![bWait[f.b]] = Running]
            /\ isr' = [isr EXCEPT ![current][d].pc = "clear"]
            /\ UNCHANGED depth
  BY DEF HdWakes, In, waitVars
<1>c. current \in Task /\ d \in 1 .. MaxNest /\ f \in Frame
  <2>1. current \in Task /\ d \in 0 .. MaxNest
    BY <1>a DEF StackOK
  <2>2. d \in 1 .. MaxNest
    BY <2>1, <1>b, SchedAssumption
  <2> QED
    BY <2>1, <2>2, <1>a DEF StackOK
<1>d. PICK b \in Buffer : f = HdFrame("wake", b) /\ f.b = b
  BY <1>b, <1>c, HdFrames
<1>e. state \in [Task -> State] /\ bWait[b] \in Task \union {NULL}
  BY <1>a DEF TableOK, QueueOK
<1>1. QueueOK'
  BY <1>a, <1>b DEF QueueOK
<1>2. CASE bWait[f.b] = NULL /\ Popped /\ UNCHANGED state
  <2>1. NoneFallsAsleep
    BY <1>2 DEF NoneFallsAsleep
  <2>2. /\ depth' \in [Task -> 0 .. MaxNest]
        /\ isr' \in [Task -> [1 .. MaxNest -> Frame]]
        /\ \A t \in Task, i \in 1 .. MaxNest : isr'[t][i] = isr[t][i] \/ isr'[t][i] = NoFrame
    BY <1>a, <1>b, <1>2, PopTyped
  <2>3. StackOK' /\ TableOK'
    BY <1>a, <1>b, <1>2, <2>2 DEF StackOK, TableOK
  <2>4. SleepersInside'
    BY <1>b, <2>1, Zenon DEF IInv, SleepersInside, NoneFallsAsleep
  <2>5. ASSUME ~cut' PROVE Chain'
    <3>1. ~cut /\ ~OnBase
      BY <1>b, <2>5 DEF OnBase
    <3>2. \A t \in Task : ctx'[t] \notin {"link", "mark"}
      BY <1>b, <3>1, NobodyLinks
    <3>3. \A t \in Task, i \in 1 .. MaxNest : isr'[t][i].pc # "clear"
      BY <1>b, <3>1, NoClear, <2>2, Frames, Zenon
    <3>4. AllLinked'
      BY <1>b, <2>1, <3>1, LinkedKept DEF IInv, Chain
    <3> QED
      BY <3>2, <3>3, <3>4, ChainOfLinks
  <2> QED
    BY <1>1, <2>3, <2>4, <2>5, Typed DEF IInv
<1>3. CASE /\ bWait[f.b] # NULL
           /\ state' = [state EXCEPT ![bWait[f.b]] = Running]
           /\ isr' = [isr EXCEPT ![current][d].pc = "clear"]
           /\ UNCHANGED depth
  <2> DEFINE h == bWait[b]
  <2>1. h \in Task /\ state' = [state EXCEPT ![h] = Running]
    BY <1>3, <1>d, <1>e
  <2>2. NoneFallsAsleep /\ state' \in [Task -> State] /\ state'[h] # Uninterruptible
    BY <2>1, <1>e, StatesDiffer DEF NoneFallsAsleep
  <2>3. isr' = [isr EXCEPT ![current][d] = HdFrame("clear", b)]
    <3>1. [f EXCEPT !.pc = "clear"] = HdFrame("clear", b)
      BY <1>d DEF HdFrame
    <3> QED
      BY <3>1, <1>3
  <2>4. /\ isr' \in [Task -> [1 .. MaxNest -> Frame]]
        /\ \A t \in Task, i \in 1 .. MaxNest :
              \/ t = current /\ i = d /\ isr'[t][i] = HdFrame("clear", b)
              \/ isr'[t][i] = isr[t][i]
    <3> HIDE DEF d
    <3>1. HdFrame("clear", b) \in Frame
      BY Frames
    <3>2. PICK g \in Frame : g = HdFrame("clear", b)
      BY <3>1
    <3>3. isr' = [isr EXCEPT ![current][d] = g]
      BY <2>3, <3>2
    <3>4. isr' \in [Task -> [1 .. MaxNest -> Frame]]
      BY <1>a, <1>c, <3>3 DEF StackOK
    <3>5. \A t \in Task, i \in 1 .. MaxNest :
              \/ t = current /\ i = d /\ isr'[t][i] = g
              \/ isr'[t][i] = isr[t][i]
      BY <1>a, <1>c, <3>3 DEF StackOK
    <3> QED
      BY <3>2, <3>4, <3>5
  <2>5. StackOK' /\ TableOK'
    BY <1>a, <1>b, <1>3, <2>2, <2>4 DEF StackOK, TableOK
  <2>6. SleepersInside'
    BY <1>b, <2>2, Zenon DEF IInv, SleepersInside, NoneFallsAsleep
  <2>7. ASSUME ~cut' PROVE Chain'
    <3>1. ~cut /\ ~OnBase
      BY <1>b, <2>7 DEF OnBase
    <3>2. \A t \in Task : ctx'[t] \notin {"link", "mark"}
      BY <1>b, <3>1, NobodyLinks
    <3>3. AllLinked'
      BY <1>b, <2>2, <3>1, LinkedKept DEF IInv, Chain
    <3>4. LinkAlone'
      BY <3>2, Zenon DEF LinkAlone
    <3>5. ASSUME NEW t \in Task, NEW i \in 1 .. MaxNest, isr'[t][i].pc = "clear"
          PROVE  /\ current' = t /\ depth'[t] = i /\ next'[t][i] = NULL
                 /\ \/ bWait'[isr'[t][i].b] = NULL
                    \/ state'[bWait'[isr'[t][i].b]] # Uninterruptible
      <4>1. isr[t][i].pc # "clear"
        BY <1>b, <3>1, NoClear
      <4>2. t = current /\ i = d /\ isr'[t][i] = HdFrame("clear", b)
        BY <4>1, <3>5, <2>4, Zenon
      <4>3. isr'[t][i].b = b
        BY <4>2 DEF HdFrame
      <4> QED
        BY <4>2, <4>3, <1>b, <1>3, <2>2
    <3>6. ClearAlone'
      BY <3>5 DEF ClearAlone
    <3> QED
      BY <3>3, <3>4, <3>6 DEF Chain
  <2> QED
    BY <1>1, <2>5, <2>6, <2>7, Typed DEF IInv
<1> QED
  BY <1>b, <1>2, <1>3

\* The handler clears the queue and returns: the head it forgets does not sleep.
LEMMA HdReturnsIInv == IInv /\ HdReturns => IInv'
<1> SUFFICES ASSUME IInv, HdReturns PROVE IInv'
  OBVIOUS
<1> DEFINE d == depth[current]
<1> DEFINE f == isr[current][d]
<1>a. StackOK /\ QueueOK /\ TableOK
  BY Parts
<1>b. /\ In("clear") /\ d > 0 /\ f.pc = "clear" /\ Popped
      /\ bWait' = [bWait EXCEPT ![f.b] = NULL] /\ ifl' = TRUE
      /\ UNCHANGED <<current, ctx, next, state, counter, priority, signal, alarm, buf, tmp, bLock, cut>>
  BY DEF HdReturns, In, taskVars
<1>c. current \in Task /\ d \in 1 .. MaxNest /\ f \in Frame
  <2>1. current \in Task /\ d \in 0 .. MaxNest
    BY <1>a DEF StackOK
  <2>2. d \in 1 .. MaxNest
    BY <2>1, <1>b, SchedAssumption
  <2> QED
    BY <2>1, <2>2, <1>a DEF StackOK
<1>d. PICK b \in Buffer : f.b = b
  BY <1>b, <1>c, HdFrames
<1>1. QueueOK'
  BY <1>a, <1>b, <1>d DEF QueueOK
<1>2. NoneFallsAsleep
  BY <1>b DEF NoneFallsAsleep
<1>3. /\ depth' \in [Task -> 0 .. MaxNest]
      /\ isr' \in [Task -> [1 .. MaxNest -> Frame]]
      /\ \A t \in Task, i \in 1 .. MaxNest : isr'[t][i] = isr[t][i] \/ isr'[t][i] = NoFrame
  BY <1>a, <1>b, PopTyped
<1>4. StackOK' /\ TableOK'
  BY <1>a, <1>b, <1>3 DEF StackOK, TableOK
<1>5. SleepersInside'
  BY <1>b, <1>2, Zenon DEF IInv, SleepersInside, NoneFallsAsleep
<1>6. ASSUME ~cut' PROVE Chain'
  <2>1. ~cut /\ ~OnBase /\ ClearAlone /\ AllLinked
    BY <1>b, <1>6 DEF OnBase, IInv, Chain
  <2>2. \A t \in Task : ctx'[t] \notin {"link", "mark"}
    BY <1>b, <2>1, NobodyLinks
  <2>3. ASSUME NEW t \in Task, NEW i \in 1 .. MaxNest, isr'[t][i].pc = "clear" PROVE FALSE
    <3>1. isr'[t][i] = isr[t][i]
      BY <1>3, <2>3, Frames, Zenon
    <3>2. current = t /\ depth[t] = i
      BY <3>1, <2>3, <2>1, Zenon DEF ClearAlone
    <3>3. isr'[current][d] = NoFrame
      BY <1>a, <1>b, <1>c DEF Popped, StackOK
    <3> QED
      BY <3>2, <3>3, <2>3, Frames, Zenon
  <2>4. bWait[b] = NULL \/ state[bWait[b]] # Uninterruptible
    BY <2>1, <1>b, <1>c, <1>d, Zenon DEF ClearAlone
  <2>5. ASSUME NEW t \in UserTask, state'[t] = Uninterruptible PROVE Linked(t)'
    <3>1. Linked(t) /\ state[t] = Uninterruptible
      BY <2>1, <2>5, <1>b DEF AllLinked
    <3>2. CASE bWait[buf[t]] = t
      <4>1. buf[t] # b
        BY <3>1, <3>2, <2>4, TaskFacts
      <4>2. bWait'[buf[t]] = t
        BY <4>1, <3>2, <1>b, <1>d, <1>a DEF QueueOK
      <4> QED
        BY <4>2, <1>b DEF Linked
    <3>3. CASE \E u \in UserTask : ctx[u] \in Holding /\ buf[u] = buf[t] /\ tmp[u] = t
      BY <3>3, <1>b DEF Linked, Holding
    <3> QED
      BY <3>1, <3>2, <3>3 DEF Linked, Holding
  <2> QED
    BY <2>2, <2>3, <2>5, ChainOfLinks DEF AllLinked
<1> QED
  BY <1>1, <1>4, <1>5, <1>6, Typed DEF IInv

\* __switch_to: the task leaves the processor in the middle of schedule().
LEMMA SwitchToIInv == IInv /\ SwitchTo => IInv'
<1> SUFFICES ASSUME IInv, SwitchTo PROVE IInv'
  OBVIOUS
<1> DEFINE i == depth[current]
<1>a. StackOK /\ QueueOK /\ TableOK
  BY Parts
<1>b. /\ next[current][i] # NULL /\ current' = next[current][i]
      /\ next' = [next EXCEPT ![current][i] = NULL]
      /\ UNCHANGED <<ifl, ctx, depth, isr, state, counter, priority, signal, alarm, buf, tmp, bLock, bWait, cut>>
  BY DEF SwitchTo, taskVars, waitVars
<1>c. i \in 0 .. MaxNest /\ current' \in Task
  <2>1. current \in Task /\ i \in 0 .. MaxNest
    BY <1>a DEF StackOK
  <2> HIDE DEF i
  <2>2. next[current][i] \in Task \union {NULL}
    BY <1>a, <2>1 DEF StackOK
  <2> QED
    BY <1>b, <2>1, <2>2
<1>d. next' \in [Task -> [0 .. MaxNest -> Task \union {NULL}]]
  BY <1>a, <1>b, <1>c, NextTyped
<1>1. StackOK' /\ QueueOK' /\ TableOK'
  BY <1>a, <1>b, <1>c, <1>d DEF StackOK, QueueOK, TableOK
<1>2. SleepersInside'
  BY <1>b, Zenon DEF IInv, SleepersInside
<1>3. ASSUME ~cut' PROVE Chain'
  <2>1. ~cut /\ ~OnBase /\ ClearAlone /\ AllLinked
    BY <1>b, <1>3 DEF OnBase, IInv, Chain
  <2>2. \A t \in Task : ctx'[t] \notin {"link", "mark"}
    BY <1>b, <2>1, NobodyLinks
  <2>3. ASSUME NEW t \in Task, NEW j \in 1 .. MaxNest, isr'[t][j].pc = "clear" PROVE FALSE
    BY <1>b, <2>1, <2>3, Zenon DEF ClearAlone
  <2>4. AllLinked'
    BY <1>b, <2>1, LinkedKept DEF NoneFallsAsleep
  <2> QED
    BY <2>2, <2>3, <2>4, ChainOfLinks
<1> QED
  BY <1>1, <1>2, <1>3, Typed DEF IInv

-----------------------------------------------------------------------------
\* The code of the current task.

\* A task that goes on in its own code, outside the assignments of sleep_on.
LEMMA MoveKeeps ==
    ASSUME IInv, OnBase, NEW c \in Ctx, Goto(c), c \notin {"link", "mark"},
           UNCHANGED <<isr, buf, tmp, bWait, cut>>, NoneFallsAsleep,
           ctx[current] \in Holding => c \in Holding,
           c \in Waiting => ctx[current] \in Waiting,
           state'[current] = Uninterruptible => c \in Waiting \union {"ret"}
    PROVE  ctx' \in [Task -> Ctx] /\ SleepersInside' /\ (~cut' => Chain')
<1>1. current \in Task /\ ctx \in [Task -> Ctx]
  BY Parts DEF StackOK
<1>2. ctx' = [ctx EXCEPT ![current] = c]
  BY DEF Goto
<1>3. ctx' \in [Task -> Ctx]
  BY <1>1, <1>2
<1>4. ctx'[current] = c /\ \A t \in Task : t # current => ctx'[t] = ctx[t]
  BY <1>1, <1>2
<1>5. SleepersInside'
  <2>1. ASSUME NEW t \in Task, state'[t] = Uninterruptible
        PROVE  t # 0 /\ ctx'[t] \in Waiting \union {"ret"}
    BY <2>1, <1>4 DEF IInv, SleepersInside, NoneFallsAsleep
  <2>2. ASSUME NEW t \in Task, ctx'[t] \in Waiting PROVE t # 0 /\ buf'[t] \in Buffer
    BY <2>2, <1>4, Zenon DEF IInv, SleepersInside
  <2> QED
    BY <2>1, <2>2, Zenon DEF SleepersInside
<1>6. ASSUME ~cut' PROVE Chain'
  <2>1. ~cut /\ AllLinked
    BY <1>6 DEF IInv, Chain
  <2>2. \A t \in Task : ctx'[t] \notin {"link", "mark"}
    BY <2>1, <1>4, BaseAlone
  <2>3. \A t \in Task, i \in 1 .. MaxNest : isr'[t][i].pc # "clear"
    BY <2>1, BaseAlone
  <2>4. AllLinked'
    BY <2>1, <1>4, LinkedKept
  <2> QED
    BY <2>2, <2>3, <2>4, ChainOfLinks
<1> QED
  BY <1>3, <1>5, <1>6

\* schedule() called in the task's own code.
LEMMA BaseSchedule ==
    ASSUME IInv, Schedule(0, state, counter, alarm)
    PROVE  /\ state' \in [Task -> State] /\ counter' \in [Task -> Slice]
           /\ signal' \in [Task -> BOOLEAN] /\ alarm' \in [Task -> Alarm]
           /\ \A t \in Task : state'[t] = Uninterruptible <=> state[t] = Uninterruptible
           /\ next' \in [Task -> [0 .. MaxNest -> Task \union {NULL}]]
<1>a. StackOK /\ TableOK
  BY Parts
<1>1. /\ state' \in [Task -> State] /\ counter' \in [Task -> Slice]
      /\ signal' \in [Task -> BOOLEAN] /\ alarm' \in [Task -> Alarm]
      /\ \A t \in Task : state'[t] = Uninterruptible <=> state[t] = Uninterruptible
      /\ \E p \in Task : next' = [next EXCEPT ![current][0] = p]
  BY <1>a, ScheduleKeeps DEF TableOK
<1>2. 0 \in 0 .. MaxNest
  BY SchedAssumption
<1> QED
  BY <1>a, <1>1, <1>2, NextTyped

\* ret_from_sys_call at the end of a call or of a fork.
LEMMA RetFromSysCallIInv == IInv /\ RetFromSysCall => IInv'
<1> SUFFICES ASSUME IInv, RetFromSysCall PROVE IInv'
  OBVIOUS
<1>a. StackOK /\ QueueOK /\ TableOK
  BY Parts
<1>b. /\ OnBase /\ ctx[current] = "ret"
      /\ UNCHANGED <<current, depth, isr, priority, buf, tmp, bLock, bWait, cut>>
  BY DEF RetFromSysCall, waitVars
<1>1. CASE Schedule(0, state, counter, alarm) /\ UNCHANGED <<ifl, ctx>>
  <2>1. Goto("ret")
    BY <1>a, <1>b, <1>1 DEF Goto, StackOK
  <2>2. /\ state' \in [Task -> State] /\ counter' \in [Task -> Slice]
        /\ signal' \in [Task -> BOOLEAN] /\ alarm' \in [Task -> Alarm]
        /\ \A t \in Task : state'[t] = Uninterruptible <=> state[t] = Uninterruptible
        /\ next' \in [Task -> [0 .. MaxNest -> Task \union {NULL}]]
    BY <1>1, BaseSchedule
  <2>3. NoneFallsAsleep
    BY <2>2 DEF NoneFallsAsleep
  <2>4. "ret" \in Ctx /\ "ret" \notin {"link", "mark"} /\ "ret" \notin Holding /\ "ret" \notin Waiting
    BY DEF Ctx, Holding, Waiting
  <2>5. SleepersInside' /\ (~cut' => Chain')
    BY <1>b, <2>1, <2>3, <2>4, MoveKeeps
  <2>6. StackOK' /\ QueueOK' /\ TableOK'
    BY <1>a, <1>b, <1>1, <2>2 DEF StackOK, QueueOK, TableOK
  <2> QED
    BY <2>5, <2>6, Typed DEF IInv
<1>2. CASE /\ ~MustReschedule(current) /\ Goto("user") /\ ifl' = TRUE
           /\ UNCHANGED <<state, counter, signal, alarm, next>>
  <2>1. NoneFallsAsleep /\ state'[current] # Uninterruptible
    BY <1>2, StatesDiffer DEF NoneFallsAsleep, MustReschedule
  <2>2. "user" \in Ctx /\ "user" \notin {"link", "mark"} /\ "ret" \notin Holding /\ "user" \notin Waiting
    BY DEF Ctx, Holding, Waiting
  <2>3. ctx' \in [Task -> Ctx] /\ SleepersInside' /\ (~cut' => Chain')
    BY <1>b, <1>2, <2>1, <2>2, MoveKeeps
  <2>4. StackOK' /\ QueueOK' /\ TableOK'
    BY <1>a, <1>b, <1>2, <2>3 DEF StackOK, QueueOK, TableOK
  <2> QED
    BY <2>3, <2>4, Typed DEF IInv
<1> QED
  BY <1>1, <1>2 DEF RetFromSysCall, NoSchedule, Goto

\* The call of schedule() in sys_pause and in sleep_on.
LEMMA CallScheduleIInv ==
    ASSUME NEW before \in Ctx, NEW inside \in Ctx, inside \notin {"link", "mark"},
           before \in Holding => inside \in Holding, inside \in Waiting => before \in Waiting,
           before \notin Waiting \union {"ret"} \/ inside \in Waiting \union {"ret"}
    PROVE  IInv /\ CallSchedule(before, inside) => IInv'
<1> SUFFICES ASSUME IInv, CallSchedule(before, inside) PROVE IInv'
  OBVIOUS
<1>a. StackOK /\ QueueOK /\ TableOK
  BY Parts
<1>b. /\ OnBase /\ ctx[current] = before /\ Goto(inside) /\ Schedule(0, state, counter, alarm)
      /\ UNCHANGED <<current, ifl, depth, isr, priority, buf, tmp, bLock, bWait, cut>>
  BY DEF CallSchedule, At, waitVars
<1>1. /\ state' \in [Task -> State] /\ counter' \in [Task -> Slice]
      /\ signal' \in [Task -> BOOLEAN] /\ alarm' \in [Task -> Alarm]
      /\ \A t \in Task : state'[t] = Uninterruptible <=> state[t] = Uninterruptible
      /\ next' \in [Task -> [0 .. MaxNest -> Task \union {NULL}]]
  BY <1>b, BaseSchedule
<1>2. NoneFallsAsleep
  BY <1>1 DEF NoneFallsAsleep
<1>3. state'[current] = Uninterruptible => inside \in Waiting \union {"ret"}
  BY <1>a, <1>b, <1>1 DEF IInv, SleepersInside, StackOK
<1>4. ctx' \in [Task -> Ctx] /\ SleepersInside' /\ (~cut' => Chain')
  BY <1>b, <1>2, <1>3, MoveKeeps
<1>5. StackOK' /\ QueueOK' /\ TableOK'
  BY <1>a, <1>b, <1>1, <1>4 DEF StackOK, QueueOK, TableOK
<1> QED
  BY <1>4, <1>5, Typed DEF IInv

\* What At says of the current task.
LEMMA AtFacts ==
    ASSUME IInv, NEW c, At(c)
    PROVE  /\ OnBase /\ current \in Task /\ current \in UserTask /\ ctx[current] = c
           /\ c \notin Waiting \union {"ret"} => state[current] # Uninterruptible
BY Parts, TaskFacts DEF At, IInv, SleepersInside, StackOK

\* The calls that leave the queues alone: kill, alarm, nice, pause, and the way
\* into a call and out of one.
LEMMA CallsIInv ==
    /\ IInv /\ SystemCall => IInv'
    /\ IInv /\ PauseReturns => IInv'
    /\ IInv /\ SysPause => IInv'
    /\ \A ticks \in 0 .. MaxAlarm : IInv /\ SysAlarm(ticks) => IInv'
    /\ \A increment \in {-1, 1} : IInv /\ SysNice(increment) => IInv'
    /\ \A u \in UserTask : IInv /\ SysKill(u) => IInv'
    /\ IInv /\ TestLock => IInv'
<1>a. ASSUME IInv, NEW b \in {"user", "sys", "pause", "test"}, At(b),
             NEW c \in {"sys", "ret", "topause", "tosleep"}, Goto(c),
             c = "tosleep" => b = "test", b = "test" => c \in {"tosleep", "ret"},
             UNCHANGED <<current, depth, isr, next, buf, tmp, bLock, bWait, cut>>,
             NoneFallsAsleep, TableOK'
      PROVE  IInv'
  <2>1. OnBase /\ current \in Task /\ ctx[current] = b
    BY <1>a, AtFacts
  <2>2. c \in Ctx /\ c \notin {"link", "mark"} /\ b \notin Holding /\ (c \in Waiting => b \in Waiting)
    BY <1>a DEF Ctx, Holding, Waiting
  <2>3. state'[current] = Uninterruptible => c \in Waiting \union {"ret"}
    <3>1. CASE b = "test"
      BY <1>a, <3>1 DEF Waiting
    <3>2. CASE b # "test"
      <4>1. b \notin Waiting \union {"ret"}
        BY <1>a, <3>2 DEF Waiting
      <4>2. state[current] # Uninterruptible
        BY <1>a, <4>1, AtFacts
      <4> QED
        BY <2>1, <4>2, <1>a DEF NoneFallsAsleep
    <3> QED
      BY <3>1, <3>2
  <2>4. ctx' \in [Task -> Ctx] /\ SleepersInside' /\ (~cut' => Chain')
    BY <1>a, <2>1, <2>2, <2>3, MoveKeeps
  <2>5. StackOK' /\ QueueOK'
    BY <1>a, <2>4, Parts DEF StackOK, QueueOK
  <2> QED
    BY <1>a, <2>4, <2>5, Typed DEF IInv
<1>1. ASSUME IInv, SystemCall PROVE IInv'
  <2>1. TableOK /\ At("user") /\ Goto("sys")
        /\ UNCHANGED <<current, ifl, depth, isr, next, state, counter, priority, signal, alarm,
                       buf, tmp, bLock, bWait, cut>>
    BY <1>1, Parts DEF SystemCall, stackVars, taskVars, waitVars
  <2>2. TableOK' /\ NoneFallsAsleep
    BY <2>1 DEF TableOK, NoneFallsAsleep
  <2> QED
    BY <1>1, <2>1, <2>2, <1>a
<1>2. ASSUME IInv, PauseReturns PROVE IInv'
  <2>1. TableOK /\ At("pause") /\ Goto("ret")
        /\ UNCHANGED <<current, ifl, depth, isr, next, state, counter, priority, signal, alarm,
                       buf, tmp, bLock, bWait, cut>>
    BY <1>2, Parts DEF PauseReturns, stackVars, taskVars, waitVars
  <2>2. TableOK' /\ NoneFallsAsleep
    BY <2>1 DEF TableOK, NoneFallsAsleep
  <2> QED
    BY <1>2, <2>1, <2>2, <1>a
<1>3. ASSUME IInv, SysPause PROVE IInv'
  <2>1. TableOK /\ At("sys") /\ Goto("topause")
        /\ state' = [state EXCEPT ![current] = Interruptible]
        /\ UNCHANGED <<current, ifl, depth, isr, next, counter, priority, signal, alarm,
                       buf, tmp, bLock, bWait, cut>>
    BY <1>3, Parts DEF SysPause, stackVars, waitVars
  <2>2. current \in Task
    BY <1>3, Parts DEF StackOK
  <2>3. TableOK' /\ NoneFallsAsleep
    BY <2>1, <2>2, StatesDiffer DEF TableOK, NoneFallsAsleep
  <2> QED
    BY <1>3, <2>1, <2>3, <1>a
<1>4. ASSUME IInv, NEW ticks \in 0 .. MaxAlarm, SysAlarm(ticks) PROVE IInv'
  <2> DEFINE when == IF ticks = 0 THEN Off ELSE ticks
  <2>1. TableOK /\ At("sys") /\ Goto("ret")
        /\ alarm' = [alarm EXCEPT ![current] = when]
        /\ UNCHANGED <<current, ifl, depth, isr, next, state, counter, priority, signal,
                       buf, tmp, bLock, bWait, cut>>
    BY <1>4, Parts DEF SysAlarm, stackVars, waitVars
  <2>2. when \in Alarm
    BY DEF Alarm
  <2> HIDE DEF when
  <2>3. alarm' \in [Task -> Alarm]
    BY <2>1, <2>2 DEF TableOK
  <2>4. TableOK' /\ NoneFallsAsleep
    BY <2>1, <2>3 DEF TableOK, NoneFallsAsleep
  <2> QED
    BY <1>4, <2>1, <2>4, <1>a
<1>5. ASSUME IInv, NEW increment \in {-1, 1}, SysNice(increment) PROVE IInv'
  <2> DEFINE p == priority[current] - increment
  <2> DEFINE q == IF p > 0 THEN p ELSE priority[current]
  <2>1. TableOK /\ At("sys") /\ Goto("ret") /\ p <= MaxPriority
        /\ priority' = [priority EXCEPT ![current] = q]
        /\ UNCHANGED <<current, ifl, depth, isr, next, state, counter, alarm, signal,
                       buf, tmp, bLock, bWait, cut>>
    BY <1>5, Parts DEF SysNice, stackVars, waitVars
  <2>2. q \in 1 .. MaxPriority
    <3>1. priority[current] \in 1 .. MaxPriority
      BY <1>5, Parts DEF TableOK, StackOK
    <3> QED
      BY <2>1, <3>1, SchedAssumption
  <2> HIDE DEF q
  <2>3. priority' \in [Task -> 1 .. MaxPriority]
    BY <2>1, <2>2 DEF TableOK
  <2>4. TableOK' /\ NoneFallsAsleep
    BY <2>1, <2>3 DEF TableOK, NoneFallsAsleep
  <2> QED
    BY <1>5, <2>1, <2>4, <1>a
<1>6. ASSUME IInv, NEW u \in UserTask, SysKill(u) PROVE IInv'
  <2>1. TableOK /\ At("sys") /\ Goto("ret")
        /\ signal' = [signal EXCEPT ![u] = TRUE]
        /\ UNCHANGED <<current, ifl, depth, isr, next, state, counter, alarm, priority,
                       buf, tmp, bLock, bWait, cut>>
    BY <1>6, Parts DEF SysKill, stackVars, waitVars
  <2>2. TableOK' /\ NoneFallsAsleep
    BY <2>1 DEF TableOK, NoneFallsAsleep
  <2> QED
    BY <1>6, <2>1, <2>2, <1>a
<1>7. ASSUME IInv, TestLock PROVE IInv'
  <2>1. /\ TableOK /\ At("test") /\ ifl' \in BOOLEAN
        /\ Goto("tosleep") \/ Goto("ret")
        /\ UNCHANGED <<current, depth, isr, next, state, counter, alarm, priority, signal,
                       buf, tmp, bLock, bWait, cut>>
    BY <1>7, Parts DEF TestLock, TableOK, stackVars, taskVars, waitVars
  <2>2. TableOK' /\ NoneFallsAsleep
    BY <2>1 DEF TableOK, NoneFallsAsleep
  <2> QED
    BY <1>7, <2>1, <2>2, <1>a
<1> QED
  BY <1>1, <1>2, <1>3, <1>4, <1>5, <1>6, <1>7

\* wait_on_buffer begins: the task does not sleep, nor does it hold a link.
LEMMA WaitOnBufferIInv ==
    ASSUME NEW b \in Buffer, NEW lock \in BOOLEAN
    PROVE  IInv /\ WaitOnBuffer(b, lock) => IInv'
<1> SUFFICES ASSUME IInv, WaitOnBuffer(b, lock) PROVE IInv'
  OBVIOUS
<1>a. StackOK /\ QueueOK /\ TableOK
  BY Parts
<1>b. /\ At("sys") /\ Goto("test") /\ ifl' = FALSE
      /\ buf' = [buf EXCEPT ![current] = b]
      /\ bLock' = [bLock EXCEPT ![b] = @ \/ lock]
      /\ UNCHANGED <<current, depth, isr, next, state, counter, priority, signal, alarm, tmp, bWait, cut>>
  BY DEF WaitOnBuffer, stackVars, taskVars
<1>c. OnBase /\ current \in UserTask /\ current \in Task /\ current # 0
      /\ ctx[current] = "sys" /\ state[current] # Uninterruptible
  <2>1. "sys" \notin Waiting \union {"ret"}
    BY DEF Waiting
  <2> QED
    BY <1>b, <2>1, AtFacts, TaskFacts
<1>d. /\ ctx' \in [Task -> Ctx]
      /\ ctx'[current] = "test" /\ \A t \in Task : t # current => ctx'[t] = ctx[t]
  <2>1. "test" \in Ctx
    BY DEF Ctx
  <2> QED
    BY <1>a, <1>b, <1>c, <2>1 DEF Goto, StackOK
<1>e. /\ buf' \in [Task -> Buffer \union {NULL}]
      /\ buf'[current] = b /\ \A t \in Task : t # current => buf'[t] = buf[t]
  BY <1>a, <1>b, <1>c DEF QueueOK
<1>1. StackOK' /\ QueueOK' /\ TableOK'
  <2>1. bLock' \in [Buffer -> BOOLEAN]
    BY <1>a, <1>b DEF QueueOK
  <2> QED
    BY <1>a, <1>b, <1>d, <1>e, <2>1 DEF StackOK, QueueOK, TableOK
<1>2. SleepersInside'
  BY <1>b, <1>c, <1>d, <1>e DEF IInv, SleepersInside
<1>3. ASSUME ~cut' PROVE Chain'
  <2>1. ~cut /\ AllLinked
    BY <1>b, <1>3 DEF IInv, Chain
  <2>2. \A t \in Task : ctx'[t] \notin {"link", "mark"}
    BY <2>1, <1>c, <1>d, BaseAlone
  <2>3. \A t \in Task, i \in 1 .. MaxNest : isr'[t][i].pc # "clear"
    BY <2>1, <1>b, <1>c, BaseAlone
  <2>4. "sys" \notin Holding
    BY DEF Holding
  <2>5. NoneFallsAsleep /\ state'[current] # Uninterruptible
    BY <1>b, <1>c DEF NoneFallsAsleep
  <2>6. \A u \in Task : ctx[u] \in Holding =>
                ctx'[u] \in Holding /\ tmp'[u] = tmp[u] /\ buf'[u] = buf[u]
    BY <1>b, <1>c, <1>d, <1>e, <2>4
  <2>7. \A t \in Task : state'[t] = Uninterruptible => buf'[t] = buf[t]
    BY <1>e, <2>5
  <2>8. AllLinked'
    BY <2>1, <1>b, <2>5, <2>6, <2>7, LinkedKept
  <2> QED
    BY <2>2, <2>3, <2>8, ChainOfLinks
<1> QED
  BY <1>1, <1>2, <1>3, Typed DEF IInv

\* One step from point b to point c inside sleep_on: what all of them share.
LEMMA SleepOnStep ==
    ASSUME IInv, NEW b \in Waiting, At(b), NEW c \in Waiting, Goto(c),
           UNCHANGED <<isr, buf, cut>>,
           \A t \in Task : t # current /\ state'[t] = Uninterruptible => state[t] = Uninterruptible
    PROVE  /\ OnBase /\ current \in Task /\ current \in UserTask
           /\ buf[current] \in Buffer
           /\ ctx[current] = b
           /\ ctx' \in [Task -> Ctx]
           /\ ctx'[current] = c /\ \A t \in Task : t # current => ctx'[t] = ctx[t]
           /\ SleepersInside'
           /\ ~cut => /\ AllLinked
                      /\ \A t \in Task : t # current => ctx'[t] \notin {"link", "mark"}
                      /\ \A t \in Task, i \in 1 .. MaxNest : isr'[t][i].pc # "clear"
<1>1. OnBase /\ current \in Task /\ current \in UserTask /\ current # 0 /\ ctx[current] = b
  BY AtFacts, TaskFacts
<1>2. buf[current] \in Buffer
  BY <1>1 DEF IInv, SleepersInside
<1>3. ctx \in [Task -> Ctx] /\ c \in Ctx
  BY Parts DEF StackOK, Waiting, Ctx
<1>4. /\ ctx' \in [Task -> Ctx]
      /\ ctx'[current] = c /\ \A t \in Task : t # current => ctx'[t] = ctx[t]
  BY <1>1, <1>3 DEF Goto
<1>5. SleepersInside'
  <2>1. ASSUME NEW t \in Task, state'[t] = Uninterruptible
        PROVE  t # 0 /\ ctx'[t] \in Waiting \union {"ret"}
    BY <2>1, <1>1, <1>4 DEF IInv, SleepersInside
  <2>2. ASSUME NEW t \in Task, ctx'[t] \in Waiting PROVE t # 0 /\ buf'[t] \in Buffer
    BY <2>2, <1>1, <1>2, <1>4, Zenon DEF IInv, SleepersInside
  <2> QED
    BY <2>1, <2>2, Zenon DEF SleepersInside
<1>6. ASSUME ~cut
      PROVE  /\ AllLinked
             /\ \A t \in Task : t # current => ctx'[t] \notin {"link", "mark"}
             /\ \A t \in Task, i \in 1 .. MaxNest : isr'[t][i].pc # "clear"
  BY <1>6, <1>1, <1>4, BaseAlone DEF IInv, Chain
<1> QED
  BY <1>1, <1>2, <1>4, <1>5, <1>6

\* tmp = *p.
LEMMA SleepOnIInv == IInv /\ SleepOn => IInv'
<1> SUFFICES ASSUME IInv, SleepOn PROVE IInv'
  OBVIOUS
<1>a. StackOK /\ QueueOK /\ TableOK
  BY Parts
<1>b. /\ At("tosleep") /\ Goto("link")
      /\ tmp' = [tmp EXCEPT ![current] = bWait[buf[current]]]
      /\ UNCHANGED <<current, ifl, depth, isr, next, state, counter, priority, signal, alarm, buf, bLock, bWait, cut>>
  BY DEF SleepOn, stackVars, taskVars
<1>c. "tosleep" \in Waiting /\ "link" \in Waiting /\ "tosleep" \notin Holding /\ "link" # "mark"
  BY DEF Waiting, Holding
<1>d. /\ OnBase /\ current \in Task /\ buf[current] \in Buffer /\ ctx[current] = "tosleep"
      /\ ctx' \in [Task -> Ctx]
      /\ ctx'[current] = "link" /\ \A t \in Task : t # current => ctx'[t] = ctx[t]
      /\ SleepersInside'
      /\ ~cut => /\ AllLinked
                 /\ \A t \in Task : t # current => ctx'[t] \notin {"link", "mark"}
                 /\ \A t \in Task, i \in 1 .. MaxNest : isr'[t][i].pc # "clear"
  BY <1>b, <1>c, SleepOnStep
<1>e. /\ tmp' \in [Task -> Task \union {NULL}]
      /\ tmp'[current] = bWait[buf[current]] /\ \A t \in Task : t # current => tmp'[t] = tmp[t]
  BY <1>a, <1>b, <1>d DEF QueueOK
<1>1. StackOK' /\ QueueOK' /\ TableOK'
  BY <1>a, <1>b, <1>d, <1>e DEF StackOK, QueueOK, TableOK
<1>2. ASSUME ~cut' PROVE Chain'
  <2>1. ~cut
    BY <1>2, <1>b
  <2>2. AllLinked'
    <3>1. NoneFallsAsleep
      BY <1>b DEF NoneFallsAsleep
    <3>2. \A u \in Task : ctx[u] \in Holding =>
                ctx'[u] \in Holding /\ tmp'[u] = tmp[u] /\ buf'[u] = buf[u]
      BY <1>b, <1>c, <1>d, <1>e
    <3> QED
      BY <2>1, <1>b, <1>d, <3>1, <3>2, LinkedKept
  <2>3. LinkAlone'
    <3>1. OnBase'
      BY <1>b, <1>d DEF OnBase
    <3> QED
      BY <2>1, <3>1, <1>b, <1>c, <1>d, <1>e DEF LinkAlone
  <2>4. ClearAlone'
    BY <2>1, <1>d, Zenon DEF ClearAlone
  <2> QED
    BY <2>2, <2>3, <2>4 DEF Chain
<1> QED
  BY <1>1, <1>2, <1>d, Typed DEF IInv

\* *p = current: the old head is in tmp.
LEMMA LinkSleeperIInv == IInv /\ LinkSleeper => IInv'
<1> SUFFICES ASSUME IInv, LinkSleeper PROVE IInv'
  OBVIOUS
<1>a. StackOK /\ QueueOK /\ TableOK
  BY Parts
<1>b. /\ At("link") /\ Goto("mark")
      /\ bWait' = [bWait EXCEPT ![buf[current]] = current]
      /\ UNCHANGED <<current, ifl, depth, isr, next, state, counter, priority, signal, alarm, buf, tmp, bLock, cut>>
  BY DEF LinkSleeper, stackVars, taskVars
<1>c. "mark" \in Waiting /\ "link" \in Waiting /\ "link" \notin Holding /\ "mark" \in Holding /\ "link" # "mark"
  BY DEF Waiting, Holding
<1>d. /\ OnBase /\ current \in Task /\ current \in UserTask /\ buf[current] \in Buffer
      /\ ctx[current] = "link"
      /\ ctx' \in [Task -> Ctx]
      /\ ctx'[current] = "mark" /\ \A t \in Task : t # current => ctx'[t] = ctx[t]
      /\ SleepersInside'
      /\ ~cut => /\ AllLinked
                 /\ \A t \in Task : t # current => ctx'[t] \notin {"link", "mark"}
                 /\ \A t \in Task, i \in 1 .. MaxNest : isr'[t][i].pc # "clear"
  BY <1>b, <1>c, SleepOnStep
<1>e. /\ bWait' \in [Buffer -> Task \union {NULL}]
      /\ bWait'[buf[current]] = current
      /\ \A b : b # buf[current] => bWait'[b] = bWait[b]
  BY <1>a, <1>b, <1>d DEF QueueOK
<1>1. StackOK' /\ QueueOK' /\ TableOK'
  BY <1>a, <1>b, <1>d, <1>e DEF StackOK, QueueOK, TableOK
<1>2. ASSUME ~cut' PROVE Chain'
  <2>1. ~cut
    BY <1>2, <1>b
  <2>2. tmp[current] = bWait[buf[current]]
    BY <2>1, <1>d DEF IInv, Chain, LinkAlone
  <2>3. ASSUME NEW t \in UserTask, state'[t] = Uninterruptible PROVE Linked(t)'
    <3>1. Linked(t)
      BY <2>1, <2>3, <1>b, <1>d DEF AllLinked
    <3>2. CASE bWait[buf[t]] = t
      <4>1. CASE buf[t] = buf[current]
        BY <4>1, <3>2, <2>2, <1>b, <1>c, <1>d DEF Linked, Holding
      <4>2. CASE buf[t] # buf[current]
        BY <4>2, <3>2, <1>b, <1>e DEF Linked
      <4> QED
        BY <4>1, <4>2
    <3>3. CASE \E u \in UserTask : ctx[u] \in Holding /\ buf[u] = buf[t] /\ tmp[u] = t
      <4>1. PICK u \in UserTask : ctx[u] \in Holding /\ buf[u] = buf[t] /\ tmp[u] = t
        BY <3>3
      <4>2. ctx'[u] \in Holding
        BY <4>1, <1>c, <1>d, TaskFacts
      <4> QED
        BY <4>1, <4>2, <1>b DEF Linked, Holding
    <3> QED
      BY <3>1, <3>2, <3>3 DEF Linked, Holding
  <2>4. LinkAlone'
    <3>1. OnBase'
      BY <1>b, <1>d DEF OnBase
    <3> QED
      BY <2>1, <3>1, <1>b, <1>c, <1>d, <1>e DEF LinkAlone
  <2>5. ClearAlone'
    BY <2>1, <1>d, Zenon DEF ClearAlone
  <2> QED
    BY <2>3, <2>4, <2>5 DEF Chain, AllLinked
<1> QED
  BY <1>1, <1>2, <1>d, Typed DEF IInv

\* current->state = TASK_UNINTERRUPTIBLE: the task is the head of the queue.
LEMMA MarkSleeperIInv == IInv /\ MarkSleeper => IInv'
<1> SUFFICES ASSUME IInv, MarkSleeper PROVE IInv'
  OBVIOUS
<1>a. StackOK /\ QueueOK /\ TableOK
  BY Parts
<1>b. /\ At("mark") /\ Goto("tosched")
      /\ state' = [state EXCEPT ![current] = Uninterruptible]
      /\ UNCHANGED <<current, ifl, depth, isr, next, counter, priority, signal, alarm, buf, tmp, bLock, bWait, cut>>
  BY DEF MarkSleeper, stackVars, waitVars
<1>c. /\ "mark" \in Waiting /\ "tosched" \in Waiting /\ "mark" \in Holding /\ "tosched" \in Holding
      /\ "tosched" \notin {"link", "mark"}
  BY DEF Waiting, Holding
<1>d. current \in Task /\ \A t \in Task : t # current => state'[t] = state[t]
  BY <1>a, <1>b DEF StackOK, TableOK
<1>e. /\ OnBase /\ current \in UserTask /\ ctx[current] = "mark"
      /\ ctx' \in [Task -> Ctx]
      /\ ctx'[current] = "tosched" /\ \A t \in Task : t # current => ctx'[t] = ctx[t]
      /\ SleepersInside'
      /\ ~cut => /\ AllLinked
                 /\ \A t \in Task : t # current => ctx'[t] \notin {"link", "mark"}
                 /\ \A t \in Task, i \in 1 .. MaxNest : isr'[t][i].pc # "clear"
  BY <1>b, <1>c, <1>d, SleepOnStep
<1>1. StackOK' /\ QueueOK' /\ TableOK'
  BY <1>a, <1>b, <1>d, <1>e, StatesDiffer DEF StackOK, QueueOK, TableOK
<1>2. ASSUME ~cut' PROVE Chain'
  <2>1. ~cut
    BY <1>2, <1>b
  <2>2. bWait[buf[current]] = current
    BY <2>1, <1>d, <1>e DEF IInv, Chain, LinkAlone
  <2>3. ASSUME NEW t \in UserTask, state'[t] = Uninterruptible PROVE Linked(t)'
    <3>1. CASE t = current
      BY <3>1, <2>2, <1>b DEF Linked
    <3>2. CASE t # current
      <4>1. Linked(t)
        BY <2>1, <2>3, <3>2, <1>d, <1>e, TaskFacts DEF AllLinked
      <4>2. CASE bWait[buf[t]] = t
        BY <4>2, <1>b DEF Linked
      <4>3. CASE \E u \in UserTask : ctx[u] \in Holding /\ buf[u] = buf[t] /\ tmp[u] = t
        <5>1. PICK u \in UserTask : ctx[u] \in Holding /\ buf[u] = buf[t] /\ tmp[u] = t
          BY <4>3
        <5>2. ctx'[u] \in Holding
          BY <5>1, <1>c, <1>e, TaskFacts
        <5> QED
          BY <5>1, <5>2, <1>b DEF Linked, Holding
      <4> QED
        BY <4>1, <4>2, <4>3 DEF Linked, Holding
    <3> QED
      BY <3>1, <3>2
  <2>4. \A t \in Task : ctx'[t] \notin {"link", "mark"}
    BY <2>1, <1>c, <1>e
  <2>5. \A t \in Task, i \in 1 .. MaxNest : isr'[t][i].pc # "clear"
    BY <2>1, <1>e
  <2> QED
    BY <2>3, <2>4, <2>5, ChainOfLinks DEF AllLinked
<1> QED
  BY <1>1, <1>2, <1>e, Typed DEF IInv

\* The rest of sleep_on: the task whose link goes with this frame gets to run.
LEMMA SleepOnReturnsIInv == IInv /\ SleepOnReturns => IInv'
<1> SUFFICES ASSUME IInv, SleepOnReturns PROVE IInv'
  OBVIOUS
<1>a. StackOK /\ QueueOK /\ TableOK
  BY Parts
<1>b. /\ At("sleep") /\ Goto("test")
      /\ state' = [t \in Task |-> IF t = tmp[current] THEN Running ELSE state[t]]
      /\ tmp' = [tmp EXCEPT ![current] = NULL]
      /\ UNCHANGED <<current, ifl, depth, isr, next, counter, priority, signal, alarm, buf, bLock, bWait, cut>>
  BY DEF SleepOnReturns, stackVars
<1>c. /\ "sleep" \in Waiting /\ "test" \in Waiting /\ "sleep" \in Holding
      /\ "test" \notin {"link", "mark"}
  BY DEF Waiting, Holding
<1>d. /\ state' \in [Task -> State] /\ NoneFallsAsleep
      /\ \A t \in Task : state'[t] = Uninterruptible => t # tmp[current]
  BY <1>a, <1>b, StatesDiffer DEF TableOK, NoneFallsAsleep
<1>e. /\ current \in Task /\ ctx[current] = "sleep"
      /\ ctx' \in [Task -> Ctx]
      /\ ctx'[current] = "test" /\ \A t \in Task : t # current => ctx'[t] = ctx[t]
      /\ SleepersInside'
      /\ ~cut => /\ AllLinked
                 /\ \A t \in Task : t # current => ctx'[t] \notin {"link", "mark"}
                 /\ \A t \in Task, i \in 1 .. MaxNest : isr'[t][i].pc # "clear"
  BY <1>b, <1>c, <1>d, SleepOnStep DEF NoneFallsAsleep
<1>f. /\ tmp' \in [Task -> Task \union {NULL}]
      /\ \A t \in Task : t # current => tmp'[t] = tmp[t]
  BY <1>a, <1>b, <1>e DEF QueueOK
<1>1. StackOK' /\ QueueOK' /\ TableOK'
  BY <1>a, <1>b, <1>d, <1>e, <1>f DEF StackOK, QueueOK, TableOK
<1>2. ASSUME ~cut' PROVE Chain'
  <2>1. ~cut
    BY <1>2, <1>b
  <2>2. ASSUME NEW t \in UserTask, state'[t] = Uninterruptible PROVE Linked(t)'
    <3>1. t \in Task /\ Linked(t) /\ t # tmp[current]
      BY <2>1, <2>2, <1>d, <1>e, TaskFacts DEF AllLinked, NoneFallsAsleep
    <3>2. CASE bWait[buf[t]] = t
      BY <3>2, <1>b DEF Linked
    <3>3. CASE \E u \in UserTask : ctx[u] \in Holding /\ buf[u] = buf[t] /\ tmp[u] = t
      <4>1. PICK u \in UserTask : ctx[u] \in Holding /\ buf[u] = buf[t] /\ tmp[u] = t
        BY <3>3
      <4>2. u # current /\ u \in Task
        BY <4>1, <3>1, TaskFacts
      <4>3. ctx'[u] \in Holding /\ tmp'[u] = t
        BY <4>1, <4>2, <1>e, <1>f
      <4> QED
        BY <4>1, <4>3, <1>b DEF Linked, Holding
    <3> QED
      BY <3>1, <3>2, <3>3 DEF Linked, Holding
  <2>3. \A t \in Task : ctx'[t] \notin {"link", "mark"}
    BY <2>1, <1>c, <1>e
  <2>4. \A t \in Task, i \in 1 .. MaxNest : isr'[t][i].pc # "clear"
    BY <2>1, <1>e
  <2> QED
    BY <2>2, <2>3, <2>4, ChainOfLinks DEF AllLinked
<1> QED
  BY <1>1, <1>2, <1>e, Typed DEF IInv

-----------------------------------------------------------------------------
\* A step of nothing keeps it.
LEMMA StutterIInv == IInv /\ UNCHANGED vars => IInv'
<1> SUFFICES ASSUME IInv, UNCHANGED vars PROVE IInv'
  OBVIOUS
<1>1. UNCHANGED <<current, ifl, ctx, depth, isr, next, state, counter, priority, signal, alarm,
                  buf, tmp, bLock, bWait, cut>>
  BY DEF vars, procVars, stackVars, taskVars, waitVars
<1>2. StackOK' /\ QueueOK' /\ TableOK'
  BY <1>1, Parts DEF StackOK, QueueOK, TableOK
<1>3. SleepersInside'
  BY <1>1, Zenon DEF IInv, SleepersInside
<1>4. LinkAlone => LinkAlone'
  BY <1>1, Zenon DEF LinkAlone, OnBase
<1>5. ClearAlone => ClearAlone'
  BY <1>1, Zenon DEF ClearAlone
<1>6. AllLinked => AllLinked'
  BY <1>1, Zenon DEF AllLinked, Linked
<1> QED
  BY <1>1, <1>2, <1>3, <1>4, <1>5, <1>6, Typed DEF IInv, Chain

\* Every step of the processor, of a call or of an interrupt keeps it.
LEMMA NextIInv == IInv /\ [Next]_vars => IInv'
<1> SUFFICES ASSUME IInv, [Next]_vars PROVE IInv'
  OBVIOUS
<1>1. CASE KernelStep
  <2>1. ASSUME CallSchedule("topause", "pause") PROVE IInv'
    <3>1. /\ "topause" \in Ctx /\ "pause" \in Ctx /\ "pause" \notin {"link", "mark"}
          /\ "topause" \notin Holding /\ "pause" \notin Waiting
          /\ "topause" \notin Waiting \union {"ret"}
      BY DEF Ctx, Holding, Waiting
    <3> QED
      BY <2>1, <3>1, CallScheduleIInv
  <2>2. ASSUME CallSchedule("tosched", "sleep") PROVE IInv'
    <3>1. /\ "tosched" \in Ctx /\ "sleep" \in Ctx /\ "sleep" \notin {"link", "mark"}
          /\ "sleep" \in Holding /\ "tosched" \in Waiting /\ "sleep" \in Waiting
      BY DEF Ctx, Holding, Waiting
    <3> QED
      BY <2>2, <3>1, CallScheduleIInv
  <2> QED
    BY <1>1, <2>1, <2>2, RetFromSysCallIInv, RetFromTimerIInv, CallsIInv, SleepOnIInv,
       LinkSleeperIInv, MarkSleeperIInv, SleepOnReturnsIInv, SwitchToIInv, HdWakesIInv,
       HdReturnsIInv, WaitOnBufferIInv DEF KernelStep
<1>2. CASE SystemCall
  BY <1>2, CallsIInv
<1>3. CASE Tick
  BY <1>3, TickIInv
<1>4. CASE \E b \in Buffer : HdInterrupt(b)
  BY <1>4, HdInterruptIInv
<1>5. CASE UNCHANGED vars
  BY <1>5, StutterIInv
<1> QED
  BY <1>1, <1>2, <1>3, <1>4, <1>5 DEF Next

\* The inductive invariant holds in every reachable state.
THEOREM Invariance == Spec => []IInv
<1>1. Init => IInv
  BY InitIInv
<1>2. IInv /\ [Next]_vars => IInv'
  BY NextIInv
<1> QED
  BY <1>1, <1>2, PTL DEF Spec

\* Until an interrupt comes between the assignments of sleep_on or of the
\* handler's wake_up, no sleeper of wait_on_buffer drops off the chain of its
\* buffer, whatever interrupts, preemptions, alarms and signals come elsewhere,
\* stale choices of schedule() included, and however the interrupt flag passes
\* from task to task.
THEOREM SleepersStayLinked == Spec => []SleeperLinked
<1>1. IInv => SleeperLinked
  BY DEF IInv, Chain, AllLinked, Linked, SleeperLinked
<1> QED
  BY <1>1, Invariance, PTL
=============================================================================
