------------------------------ MODULE WaitSet ------------------------------
(***************************************************************************)
(* What a wait queue of the kernel promises to its users, without the way  *)
(* kernel/sched.c builds it.  A queue is a set of waiting tasks.  A        *)
(* wake_up releases every task that waits at that moment; a released task  *)
(* returns from sleep_on once; no task returns before it is released.      *)
(***************************************************************************)
CONSTANTS Task, Queue

VARIABLES waiting,   \* waiting[q]: the tasks that no wake_up(q) has reached yet
          released   \* the tasks a wake_up released and that have not returned

vars == <<waiting, released>>

Init ==
    /\ waiting = [q \in Queue |-> {}]
    /\ released = {}

\* A task that waits nowhere calls sleep_on(&q).
Sleep(t, q) ==
    /\ t \notin released
    /\ \A r \in Queue : t \notin waiting[r]
    /\ waiting' = [waiting EXCEPT ![q] = @ \union {t}]
    /\ UNCHANGED released

\* wake_up(&q) releases every waiter of q.
WakeUp(q) ==
    /\ released' = released \union waiting[q]
    /\ waiting' = [waiting EXCEPT ![q] = {}]

\* sleep_on returns in a released task.
Return(t) ==
    /\ t \in released
    /\ released' = released \ {t}
    /\ UNCHANGED waiting

Next ==
    \/ \E t \in Task, q \in Queue : Sleep(t, q)
    \/ \E q \in Queue : WakeUp(q)
    \/ \E t \in Task : Return(t)

Spec == Init /\ [][Next]_vars

\* Every released task does return.
Fairness == \A t \in Task : WF_vars(Return(t))

FairSpec == Spec /\ Fairness
=============================================================================
