------------------------------- MODULE Sched -------------------------------
(***************************************************************************)
(* The processor: schedule(), do_timer() and the calls of kernel/sched.c   *)
(* that give the processor away, the return path of system_call.nasm,      *)
(* __switch_to of switch.nasm, and wait_on_buffer(), the caller of         *)
(* sleep_on whose queue an interrupt handler wakes.                        *)
(*                                                                         *)
(* One processor runs `current'.  Every other task is suspended inside     *)
(* switch_to, in the frame at the top of its kernel stack: its own code    *)
(* (ctx) or an interrupt that came on top of it (isr).  The interrupt flag *)
(* belongs to the processor: __switch_to saves the callee-saved registers  *)
(* and the stack pointer and not RFLAGS, so the next task goes on with the *)
(* flag the last one had.  schedule() is a scan, which leaves its choice   *)
(* in the local variable next, and the switch; with interrupts on, others  *)
(* may run between the two.                                                *)
(***************************************************************************)
EXTENDS Integers, FiniteSets

CONSTANTS N,          \* user tasks are 1 .. N; task 0 is the idle task, the shell
          Buffer,     \* buffer heads a task can wait on
          Priority,   \* priority and first counter of a task (15 in INIT_TASK)
          MaxPriority, \* bound: nice(-k) raises a priority without limit
          MaxAlarm,   \* bound: the longest alarm in ticks
          MaxNest,    \* bound: interrupt frames on one kernel stack
          NULL

ASSUME SchedAssumption ==
    /\ N \in Nat
    /\ Priority \in Nat \ {0}
    /\ MaxPriority \in Nat /\ MaxPriority >= Priority
    /\ MaxAlarm \in Nat
    /\ MaxNest \in Nat
    /\ NULL \notin 0 .. N
    /\ NULL \notin Buffer

Task == 0 .. N
UserTask == 1 .. N

VARIABLES
    current,   \* the running task
    ifl,       \* the interrupt flag of the processor
    state,     \* task_struct.state
    counter,   \* task_struct.counter: ticks left in the time slice
    priority,  \* task_struct.priority
    signal,    \* task_struct.signal # 0
    alarm,     \* ticks until task_struct.alarm < jiffies; Off if alarm = 0
    ctx,       \* where the task is in its own code
    depth,     \* how many interrupt frames are on the task's stack
    isr,       \* isr[t][i]: where interrupt frame i is in its handler
    next,      \* next[t][i]: whom the schedule() of frame i will switch to,
               \* NULL outside it; frame 0 is the task's own code
    buf,       \* the buffer a task waits on in wait_on_buffer
    tmp,       \* the local variable of sleep_on
    bLock,     \* b_lock of each buffer: a disk request is under way
    bWait,     \* b_wait of each buffer
    cut        \* history: an interrupt came inside sleep_on or wake_up

stackVars == <<depth, isr, next>>
procVars == <<current, ifl, ctx, stackVars>>
taskVars == <<state, counter, priority, signal, alarm>>
waitVars == <<buf, tmp, bLock, bWait>>
vars == <<procVars, taskVars, waitVars, cut>>

Running == "TASK_RUNNING"
Interruptible == "TASK_INTERRUPTIBLE"
Uninterruptible == "TASK_UNINTERRUPTIBLE"
Off == -1

\* The points of a task's own code.  At "topause" and "tosched" it is about to
\* call schedule(), at "pause" and "sleep" inside it or back from it.
Ctx == {"user", "sys", "ret", "topause", "pause",
        "test", "tosleep", "link", "mark", "tosched", "sleep"}

\* A frame of timer_interrupt returns through ret_from_sys_call; one of
\* hd_interrupt is in unlock_buffer(b), before the two assignments of wake_up.
NoFrame == [pc |-> "none", b |-> NULL]
TimerFrame == [pc |-> "timer", b |-> NULL]
HdFrame(pc, b) == [pc |-> pc, b |-> b]
Frame == {NoFrame, TimerFrame} \union {HdFrame(pc, b) : pc \in {"wake", "clear"}, b \in Buffer}

TypeOK ==
    /\ current \in Task
    /\ ifl \in BOOLEAN
    /\ state \in [Task -> {Running, Interruptible, Uninterruptible}]
    /\ counter \in [Task -> 0 .. 2 * MaxPriority]
    /\ priority \in [Task -> 1 .. MaxPriority]
    /\ signal \in [Task -> BOOLEAN]
    /\ alarm \in [Task -> {Off} \union 0 .. MaxAlarm]
    /\ ctx \in [Task -> Ctx]
    /\ depth \in [Task -> 0 .. MaxNest]
    /\ isr \in [Task -> [1 .. MaxNest -> Frame]]
    /\ next \in [Task -> [0 .. MaxNest -> Task \union {NULL}]]
    /\ buf \in [Task -> Buffer \union {NULL}]
    /\ tmp \in [Task -> Task \union {NULL}]
    /\ bLock \in [Buffer -> BOOLEAN]
    /\ bWait \in [Buffer -> Task \union {NULL}]
    /\ cut \in BOOLEAN

\* Task 0 runs the shell, the others wait for the processor in ret_from_fork.
Init ==
    /\ current = 0
    /\ ifl = TRUE
    /\ state = [t \in Task |-> Running]
    /\ counter = [t \in Task |-> Priority]
    /\ priority = [t \in Task |-> Priority]
    /\ signal = [t \in Task |-> FALSE]
    /\ alarm = [t \in Task |-> Off]
    /\ ctx = [t \in Task |-> IF t = 0 THEN "user" ELSE "ret"]
    /\ depth = [t \in Task |-> 0]
    /\ isr = [t \in Task |-> [i \in 1 .. MaxNest |-> NoFrame]]
    /\ next = [t \in Task |-> [i \in 0 .. MaxNest |-> NULL]]
    /\ buf = [t \in Task |-> NULL]
    /\ tmp = [t \in Task |-> NULL]
    /\ bLock = [b \in Buffer |-> FALSE]
    /\ bWait = [b \in Buffer |-> NULL]
    /\ cut = FALSE

-----------------------------------------------------------------------------
\* schedule(), lines 94-131, entered with the states st, the counters ct and
\* the alarms al.  It turns due alarms into signals, wakes the interruptible
\* tasks that have a signal, and picks the runnable user task with the most
\* ticks left, the highest slot among equals; when every runnable task has
\* used up its slice all user tasks are recharged, sleeping ones included.
Due(al) == [t \in Task |-> signal[t] \/ al[t] = 0]

\* Mutant: pending signals wake nobody.
WokenNever(st, al) == st

Woken(st, al) ==
    [t \in Task |->
        IF t # 0 /\ Due(al)[t] /\ st[t] = Interruptible THEN Running ELSE st[t]]

Recharge(ct) ==
    [t \in Task |-> IF t = 0 THEN ct[t] ELSE (ct[t] \div 2) + priority[t]]

RechargeAll(ready, ct) ==
    IF ready # {} /\ \A t \in ready : ct[t] = 0 THEN Recharge(ct) ELSE ct

\* Mutant: the slices are ignored and the highest slot always wins.
PickBySlot(ready, ct) ==
    IF ready = {} THEN 0 ELSE CHOOSE t \in ready : \A u \in ready : t >= u

Pick(ready, ct) ==
    IF ready = {} THEN 0
    ELSE CHOOSE t \in ready :
            \A u \in ready : ct[t] > ct[u] \/ (ct[t] = ct[u] /\ t >= u)

\* The scan of schedule(), called by frame i of the current task.
Schedule(i, st, ct, al) ==
    LET woken == Woken(st, al)
        ready == {t \in UserTask : woken[t] = Running}
        slices == RechargeAll(ready, ct)
    IN /\ signal' = Due(al)
       /\ alarm' = [t \in Task |-> IF al[t] = 0 THEN Off ELSE al[t]]
       /\ state' = woken
       /\ counter' = slices
       /\ next' = [next EXCEPT ![current][i] = Pick(ready, slices)]

NoSchedule == UNCHANGED <<state, counter, signal, alarm, next>>

\* switch_to(next) and __switch_to: current changes hands, the interrupt flag
\* stays as it is.  The task goes on from here when somebody switches to it.
\* The step is whole: an interrupt between current = __next and the change of
\* stacks, which needs interrupts on, is not modelled, nor one inside the scan.
SwitchTo ==
    LET i == depth[current]
    IN /\ next[current][i] # NULL
       /\ current' = next[current][i]
       /\ next' = [next EXCEPT ![current][i] = NULL]
       /\ UNCHANGED <<ifl, ctx, depth, isr, taskVars, waitVars, cut>>

-----------------------------------------------------------------------------
\* Interrupts.

\* timer_interrupt, an interrupt gate, and do_timer(cpl).  The shell of task 0
\* runs in kernel mode, and so does the code of a system call.
Cpl(t) == IF t # 0 /\ depth[t] = 0 /\ ctx[t] = "user" THEN 3 ELSE 0

\* The running code is in an interrupt frame, at point pc; or in its own.
In(pc) == /\ depth[current] > 0
          /\ isr[current][depth[current]].pc = pc
          /\ next[current][depth[current]] = NULL
OnBase == depth[current] = 0 /\ next[current][0] = NULL

\* Between two assignments that belong together: tmp = *p, *p = current and
\* the state in sleep_on, the state and *p = NULL in wake_up.
Between == \/ OnBase /\ ctx[current] \in {"link", "mark"}
           \/ In("clear")

\* if ((--current->counter) > 0) return; current->counter = 0.
SliceAfterTick(c) == IF c > 1 THEN c - 1 ELSE 0

\* An interrupt puts a frame on the stack of the current task.
Pushed(f) ==
    /\ ifl
    /\ depth[current] < MaxNest
    /\ depth' = [depth EXCEPT ![current] = @ + 1]
    /\ isr' = [isr EXCEPT ![current][depth[current] + 1] = f]
    /\ cut' = (cut \/ Between)

Popped ==
    /\ depth' = [depth EXCEPT ![current] = @ - 1]
    /\ isr' = [isr EXCEPT ![current][depth[current]] = NoFrame]

Tick ==
    LET t == current
        left == SliceAfterTick(counter[t])
        ct == [counter EXCEPT ![t] = left]
        al == [u \in Task |-> IF alarm[u] > 0 THEN alarm[u] - 1 ELSE alarm[u]]
    IN /\ Pushed(TimerFrame)
       /\ ifl' = FALSE
       /\ \/ /\ left > 0 \/ Cpl(t) = 0
             /\ counter' = ct
             /\ alarm' = al
             /\ UNCHANGED <<state, signal, next>>
          \/ /\ left = 0
             /\ Cpl(t) = 3
             /\ Schedule(depth[t] + 1, state, ct, al)
       /\ UNCHANGED <<current, ctx, priority, waitVars>>

\* hd_interrupt, a trap gate: read_intr or write_intr ends a request with
\* unlock_buffer, b_lock = 0 and a wake_up of b_wait.
HdInterrupt(b) ==
    /\ Pushed(HdFrame("wake", b))
    /\ bLock[b]
    /\ bLock' = [bLock EXCEPT ![b] = FALSE]
    /\ UNCHANGED <<current, ifl, ctx, next, taskVars, buf, tmp, bWait>>

\* if (*p) (**p).state = 0; with an empty queue the handler returns, and iretq
\* restores the flag of the interrupted code, which had interrupts on.
HdWakes ==
    LET f == isr[current][depth[current]]
    IN /\ In("wake")
       /\ \/ /\ bWait[f.b] = NULL
             /\ Popped
             /\ ifl' = TRUE
             /\ UNCHANGED state
          \/ /\ bWait[f.b] # NULL
             /\ state' = [state EXCEPT ![bWait[f.b]] = Running]
             /\ isr' = [isr EXCEPT ![current][depth[current]].pc = "clear"]
             /\ UNCHANGED <<ifl, depth>>
       /\ UNCHANGED <<current, ctx, next, counter, priority, signal, alarm, waitVars, cut>>

\* *p = NULL, and the iretq of hd_interrupt.
HdReturns ==
    LET f == isr[current][depth[current]]
    IN /\ In("clear")
       /\ bWait' = [bWait EXCEPT ![f.b] = NULL]
       /\ Popped
       /\ ifl' = TRUE
       /\ UNCHANGED <<current, ctx, next, taskVars, buf, tmp, bLock, cut>>

-----------------------------------------------------------------------------
\* Return paths.  ret_from_sys_call reschedules a task that is not runnable or
\* has no slice left, before it looks at the mode it returns to.
MustReschedule(t) == state[t] # Running \/ counter[t] = 0

\* Mutant: iretq of the system call path that leaves the flag as it is.
RetFromSysCallKeepsFlag ==
    /\ OnBase
    /\ ctx[current] = "ret"
    /\ \/ /\ MustReschedule(current)
          /\ Schedule(0, state, counter, alarm)
          /\ UNCHANGED <<ifl, ctx>>
       \/ /\ ~MustReschedule(current)
          /\ ctx' = [ctx EXCEPT ![current] = "user"]
          /\ NoSchedule
          /\ UNCHANGED ifl
    /\ UNCHANGED <<current, depth, isr, priority, waitVars, cut>>

\* ret_from_sys_call at the end of a system call or of a fork; iretq restores
\* the user's RFLAGS, with interrupts on.
RetFromSysCall ==
    /\ OnBase
    /\ ctx[current] = "ret"
    /\ \/ /\ MustReschedule(current)
          /\ Schedule(0, state, counter, alarm)
          /\ UNCHANGED <<ifl, ctx>>
       \/ /\ ~MustReschedule(current)
          /\ ctx' = [ctx EXCEPT ![current] = "user"]
          /\ ifl' = TRUE
          /\ NoSchedule
    /\ UNCHANGED <<current, depth, isr, priority, waitVars, cut>>

\* ret_from_sys_call at the end of a timer interrupt: the interrupted code had
\* interrupts on, and gets them back with iretq.
RetFromTimer ==
    /\ In("timer")
    /\ \/ /\ MustReschedule(current)
          /\ Schedule(depth[current], state, counter, alarm)
          /\ UNCHANGED <<ifl, depth, isr>>
       \/ /\ ~MustReschedule(current)
          /\ Popped
          /\ ifl' = TRUE
          /\ NoSchedule
    /\ UNCHANGED <<current, ctx, priority, waitVars, cut>>

-----------------------------------------------------------------------------
\* System calls of the current user task.

At(c) == OnBase /\ current # 0 /\ ctx[current] = c
Goto(c) == ctx' = [ctx EXCEPT ![current] = c]

\* int 0x80, a trap gate.
SystemCall ==
    /\ At("user")
    /\ Goto("sys")
    /\ UNCHANGED <<current, ifl, stackVars, taskVars, waitVars, cut>>

\* sys_pause: the state, then schedule().
SysPause ==
    /\ At("sys")
    /\ Goto("topause")
    /\ state' = [state EXCEPT ![current] = Interruptible]
    /\ UNCHANGED <<current, ifl, stackVars, counter, priority, signal, alarm, waitVars, cut>>

\* The call of schedule() in sys_pause and in sleep_on.
CallSchedule(before, inside) ==
    /\ At(before)
    /\ Goto(inside)
    /\ Schedule(0, state, counter, alarm)
    /\ UNCHANGED <<current, ifl, depth, isr, priority, waitVars, cut>>

PauseReturns ==
    /\ At("pause")
    /\ Goto("ret")
    /\ UNCHANGED <<current, ifl, stackVars, taskVars, waitVars, cut>>

\* sys_alarm: ticks = 0 clears the alarm.
SysAlarm(ticks) ==
    /\ At("sys")
    /\ Goto("ret")
    /\ alarm' = [alarm EXCEPT ![current] = IF ticks = 0 THEN Off ELSE ticks]
    /\ UNCHANGED <<current, ifl, stackVars, state, counter, priority, signal, waitVars, cut>>

\* sys_nice: an increment that leaves no priority is refused.
SysNice(increment) ==
    /\ At("sys")
    /\ Goto("ret")
    /\ priority[current] - increment <= MaxPriority
    /\ priority' = [priority EXCEPT ![current] = IF @ - increment > 0 THEN @ - increment ELSE @]
    /\ UNCHANGED <<current, ifl, stackVars, state, counter, signal, alarm, waitVars, cut>>

\* sys_kill(u): send_sig sets a bit that nothing clears (delivery is a TODO of
\* ret_from_sys_call); it does not touch the state of u.
SysKill(u) ==
    /\ At("sys")
    /\ Goto("ret")
    /\ signal' = [signal EXCEPT ![u] = TRUE]
    /\ UNCHANGED <<current, ifl, stackVars, state, counter, priority, alarm, waitVars, cut>>

\* wait_on_buffer(b), on its own or after rw_abs_hd has locked the buffer and
\* queued the request: cli(), then the loop.
WaitOnBuffer(b, lock) ==
    /\ At("sys")
    /\ lock => ~bLock[b]
    /\ Goto("test")
    /\ ifl' = FALSE
    /\ buf' = [buf EXCEPT ![current] = b]
    /\ bLock' = [bLock EXCEPT ![b] = @ \/ lock]
    /\ UNCHANGED <<current, stackVars, taskVars, tmp, bWait, cut>>

\* while (bh->b_lock): the test and, once it fails, sti().
TestLock ==
    /\ At("test")
    /\ IF bLock[buf[current]]
         THEN Goto("tosleep") /\ UNCHANGED ifl
         ELSE Goto("ret") /\ ifl' = TRUE
    /\ UNCHANGED <<current, stackVars, taskVars, waitVars, cut>>

\* sleep_on(&bh->b_wait): tmp = *p, *p = current and the state, with whatever
\* interrupt flag the task has by now, then schedule().
SleepOn ==
    /\ At("tosleep")
    /\ Goto("link")
    /\ tmp' = [tmp EXCEPT ![current] = bWait[buf[current]]]
    /\ UNCHANGED <<current, ifl, stackVars, taskVars, buf, bLock, bWait, cut>>

LinkSleeper ==
    /\ At("link")
    /\ Goto("mark")
    /\ bWait' = [bWait EXCEPT ![buf[current]] = current]
    /\ UNCHANGED <<current, ifl, stackVars, taskVars, buf, tmp, bLock, cut>>

MarkSleeper ==
    /\ At("mark")
    /\ Goto("tosched")
    /\ state' = [state EXCEPT ![current] = Uninterruptible]
    /\ UNCHANGED <<current, ifl, stackVars, counter, priority, signal, alarm, waitVars, cut>>

\* Mutant: sleep_on returns without looking at tmp.
SleepOnReturnsAlone ==
    /\ At("sleep")
    /\ Goto("test")
    /\ tmp' = [tmp EXCEPT ![current] = NULL]
    /\ UNCHANGED <<current, ifl, stackVars, taskVars, buf, bLock, bWait, cut>>

\* The rest of sleep_on: wake the task this one took over; test again.
SleepOnReturns ==
    /\ At("sleep")
    /\ Goto("test")
    /\ state' = [t \in Task |-> IF t = tmp[current] THEN Running ELSE state[t]]
    /\ tmp' = [tmp EXCEPT ![current] = NULL]
    /\ UNCHANGED <<current, ifl, stackVars, counter, priority, signal, alarm, buf, bLock, bWait, cut>>

\* The kernel code of the current task, and its calls.
KernelStep ==
    \/ RetFromSysCall
    \/ RetFromTimer
    \/ PauseReturns
    \/ TestLock
    \/ SleepOn \/ LinkSleeper \/ MarkSleeper
    \/ SleepOnReturns
    \/ SysPause
    \/ CallSchedule("topause", "pause")
    \/ CallSchedule("tosched", "sleep")
    \/ SwitchTo
    \/ HdWakes \/ HdReturns
    \/ \E ticks \in 0 .. MaxAlarm : SysAlarm(ticks)
    \/ \E increment \in {-1, 1} : SysNice(increment)
    \/ \E u \in UserTask : SysKill(u)
    \/ \E b \in Buffer, lock \in BOOLEAN : WaitOnBuffer(b, lock)

Next ==
    \/ KernelStep
    \/ SystemCall
    \/ Tick
    \/ \E b \in Buffer : HdInterrupt(b)

Spec == Init /\ [][Next]_vars

\* Kernel code goes on; an interrupt stays pending in the controller until the
\* processor takes it, so it is taken if interrupts are on again and again.
Fairness ==
    /\ WF_vars(KernelStep)
    /\ SF_vars(Tick)
    /\ \A b \in Buffer : SF_vars(HdInterrupt(b))

FairSpec == Spec /\ Fairness

-----------------------------------------------------------------------------
\* With interrupts, preemption and signals in the picture, and calls of
\* schedule() that are interrupted and go on with a stale next, the chain of
\* b_wait holds every sleeper: one that sleep_on has put to sleep is the head of
\* b_wait or the tmp of a frame that has not returned - until an interrupt comes
\* between the assignments of sleep_on, which run with interrupts on if the task
\* was switched to with the flag on, or between those of the handler's wake_up.
SleeperLinked ==
    /\ TypeOK
    /\ ~cut => \A t \in UserTask :
        state[t] = Uninterruptible =>
            \/ bWait[buf[t]] = t
            \/ \E u \in UserTask : /\ ctx[u] \in {"mark", "tosched", "sleep"}
                                  /\ buf[u] = buf[t] /\ tmp[u] = t

\* schedule() starves nobody: a task that is runnable gets the processor.  This
\* and the next two hold until an interrupt cuts sleep_on or wake_up: after it
\* two sleepers may each have the other in tmp, and wake each other in turn for
\* ever, with interrupts off.
RunnableRuns == \A t \in UserTask : state[t] = Running ~> (current = t \/ cut)

\* A paused task that has a signal gets the processor: kill() only sets the
\* bit, and the next schedule() turns it into a wake-up.
SignalEndsPause ==
    \A t \in UserTask : (signal[t] /\ state[t] = Interruptible) ~> (current = t \/ cut)

\* The processor takes interrupts again and again, for as long as there is
\* again and again a task to run besides task 0: the loop of ret_from_sys_call
\* on counter = 0, which runs with interrupts off, ends.  It does not when only
\* task 0 is left, because schedule() recharges the tasks above slot 0 only.
InterruptsServed ==
    []<>(\E t \in UserTask : state[t] = Running) => []<>(ifl \/ cut)
=============================================================================
