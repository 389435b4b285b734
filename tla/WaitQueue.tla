----------------------------- MODULE WaitQueue -----------------------------
(***************************************************************************)
(* sleep_on() and wake_up() of kernel/sched.c.                             *)
(*                                                                         *)
(* A wait queue is one pointer, *p, to the task that went to sleep last.   *)
(* The other sleepers are on no list: each sleep_on frame keeps the old    *)
(* head in its local variable tmp, on the kernel stack of the sleeping     *)
(* task, and wakes that task when it is itself scheduled again.  The       *)
(* sleepers of a queue are thus chained through stacks, and a task whose   *)
(* link is overwritten would sleep for ever.                               *)
(*                                                                         *)
(* The body of sleep_on up to schedule() is one step: the kernel code of a *)
(* task is not preempted here, and the callers whose queue an interrupt    *)
(* handler wakes hold interrupts off (cli) around the test and the call.   *)
(* Module Sched looks at what the entry code makes of these two rules.     *)
(* Task 0 calls none of this: sleep_on panics in it (line 146).            *)
(***************************************************************************)
CONSTANTS Task,    \* the tasks that may sleep: task[1 .. NR_TASKS-1]
          Queue,   \* the wait queues: b_wait, i_wait, buffer_wait ...
          NULL     \* the null pointer

ASSUME NullAssumption == NULL \notin Task

VARIABLES
    state,    \* task_struct.state of each task
    head,     \* *p of each queue
    pc,       \* "in": suspended in the schedule() of sleep_on; "out": elsewhere
    tmp,      \* the local variable tmp of the sleep_on frame
    on,       \* the queue of the last sleep_on call
    called    \* history variable: a wake_up on that queue followed the call

vars == <<state, head, pc, tmp, on, called>>

Running == "TASK_RUNNING"
Asleep == "TASK_UNINTERRUPTIBLE"

TypeOK ==
    /\ state \in [Task -> {Running, Asleep}]
    /\ head \in [Queue -> Task \union {NULL}]
    /\ pc \in [Task -> {"in", "out"}]
    /\ tmp \in [Task -> Task \union {NULL}]
    /\ on \in [Task -> Queue]
    /\ called \in [Task -> BOOLEAN]

Init ==
    /\ state = [t \in Task |-> Running]
    /\ head = [q \in Queue |-> NULL]
    /\ pc = [t \in Task |-> "out"]
    /\ tmp = [t \in Task |-> NULL]
    /\ on \in [Task -> Queue]
    /\ called = [t \in Task |-> FALSE]

-----------------------------------------------------------------------------
\* Mutants.

\* A sleeper that does not save the old head.
SleepOnForgetsHead(t, q) ==
    /\ pc[t] = "out"
    /\ state' = [state EXCEPT ![t] = Asleep]
    /\ tmp' = [tmp EXCEPT ![t] = NULL]
    /\ head' = [head EXCEPT ![q] = t]
    /\ pc' = [pc EXCEPT ![t] = "in"]
    /\ on' = [on EXCEPT ![t] = q]
    /\ called' = [called EXCEPT ![t] = FALSE]

\* A wake_up that leaves the woken task at the head of the queue.
WakeUpKeepsHead(q) ==
    /\ head[q] # NULL
    /\ state' = [state EXCEPT ![head[q]] = Running]
    /\ called' = [t \in Task |-> called[t] \/ (pc[t] = "in" /\ on[t] = q)]
    /\ UNCHANGED <<head, pc, tmp, on>>

\* A sleeper that returns without waking the one it saved.
ResumeAlone(t) ==
    /\ pc[t] = "in"
    /\ state[t] = Running
    /\ pc' = [pc EXCEPT ![t] = "out"]
    /\ UNCHANGED <<state, head, tmp, on, called>>

-----------------------------------------------------------------------------
\* sleep_on(&q) up to the call of schedule(): lines 148-151.
SleepOn(t, q) ==
    /\ pc[t] = "out"
    /\ state' = [state EXCEPT ![t] = Asleep]
    /\ tmp' = [tmp EXCEPT ![t] = head[q]]
    /\ head' = [head EXCEPT ![q] = t]
    /\ pc' = [pc EXCEPT ![t] = "in"]
    /\ on' = [on EXCEPT ![t] = q]
    /\ called' = [called EXCEPT ![t] = FALSE]

\* schedule() has chosen t, which only a running task can be, and sleep_on
\* finishes: if (tmp) tmp->state = 0, lines 152-154.
Resume(t) ==
    /\ pc[t] = "in"
    /\ state[t] = Running
    /\ state' = [u \in Task |-> IF u = tmp[t] THEN Running ELSE state[u]]
    /\ pc' = [pc EXCEPT ![t] = "out"]
    /\ UNCHANGED <<head, tmp, on, called>>

\* wake_up(&q) by any task or interrupt handler: lines 177-183.
WakeUp(q) ==
    /\ head[q] # NULL
    /\ state' = [state EXCEPT ![head[q]] = Running]
    /\ head' = [head EXCEPT ![q] = NULL]
    /\ called' = [t \in Task |-> called[t] \/ (pc[t] = "in" /\ on[t] = q)]
    /\ UNCHANGED <<pc, tmp, on>>

Next ==
    \/ \E t \in Task, q \in Queue : SleepOn(t, q)
    \/ \E t \in Task : Resume(t)
    \/ \E q \in Queue : WakeUp(q)

Spec == Init /\ [][Next]_vars

\* schedule() runs every task that stays runnable (module Sched).
Fairness == \A t \in Task : WF_vars(Resume(t))

FairSpec == Spec /\ Fairness

-----------------------------------------------------------------------------
\* A task that sleeps in sleep_on is never lost: it is the head of its queue,
\* where the next wake_up finds it, or the tmp of another sleep_on frame of
\* the same queue, whose task will wake it; and if a wake_up has been called
\* since it went to sleep, that frame has been reached by the call too.
NoLostSleeper ==
    \A t \in Task :
        pc[t] = "in" /\ state[t] = Asleep =>
            \/ head[on[t]] = t /\ ~called[t]
            \/ \E u \in Task :
                /\ pc[u] = "in"
                /\ tmp[u] = t
                /\ on[u] = on[t]
                /\ called[u] = called[t]

\* `tmp->state = 0' and `(**p).state = 0' never hit a task that has gone on to
\* do something else: a queue head, and the tmp of a frame that has not yet
\* returned, name a task that is still asleep in that very queue.
NoStalePointer ==
    /\ \A q \in Queue :
        head[q] # NULL =>
            /\ pc[head[q]] = "in"
            /\ state[head[q]] = Asleep
            /\ on[head[q]] = q
    /\ \A u \in Task :
        pc[u] = "in" /\ tmp[u] # NULL =>
            /\ pc[tmp[u]] = "in"
            /\ state[tmp[u]] = Asleep
            /\ on[tmp[u]] = on[u]

\* sleep_on returns only after a wake_up of its queue.
NoSpuriousReturn == \A t \in Task : pc[t] = "in" /\ state[t] = Running => called[t]

\* The chain through the stacks implements a set of waiters that wake_up
\* empties: the abstract specification of module WaitSet.
Abstract ==
    INSTANCE WaitSet WITH
        waiting <- [q \in Queue |-> {t \in Task : pc[t] = "in" /\ on[t] = q /\ ~called[t]}],
        released <- {t \in Task : pc[t] = "in" /\ called[t]}

ImplementsWaitSet == Abstract!FairSpec
ImplementsWaitSetSafety == Abstract!Spec
=============================================================================
