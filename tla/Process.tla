------------------------------ MODULE Process ------------------------------
(***************************************************************************)
(* The life of a process: find_empty_process() and copy_process() of       *)
(* kernel/fork.c, do_exit(), release(), do_kill() and sys_waitpid() of     *)
(* kernel/exit.c.                                                          *)
(*                                                                         *)
(* A process is its task_struct, a page that the table task[] points to.   *)
(* `busy' is the task that is inside one of these calls and has not given  *)
(* the processor away.  It gives it away where the code sleeps, and        *)
(* wherever a tick finds its counter at 0 or its state changed: the        *)
(* return path of the timer interrupt calls schedule() for kernel code     *)
(* too (system_call.nasm, lines 171-177 and 229).  `cut' remembers the     *)
(* calls in which that happened; what the calls promise one another only   *)
(* while they are not cut is stated under that condition.                  *)
(*                                                                         *)
(* All tasks run as root, and no task calls setpgid or setsid, so that     *)
(* kill never filters and every process group is 0.  Memory may run out    *)
(* at any allocation: the pool is shared with the rest of the kernel.      *)
(***************************************************************************)
EXTENDS Integers, FiniteSets, FiniteSetsExt

CONSTANTS NrTasks,   \* NR_TASKS: the slots of task[]
          Pages,     \* the pages a task_struct can be put in are 1 .. Pages
          MaxPid,    \* bound: the pid after which last_pid starts again at 1
          MaxCuts,   \* bound: how many of the kinds of call ticks cut
          Asked,     \* bound: the pids waitpid is asked for, besides -1
          Sent       \* bound: the signals kill is asked to send

ASSUME ProcessAssumption ==
    /\ NrTasks \in Nat \ {0}
    /\ Pages \in Nat
    /\ MaxPid \in Nat /\ MaxPid > Pages
    /\ MaxCuts \in Nat
    /\ Asked \subseteq 1 .. MaxPid
    /\ Sent \subseteq {"SIGCHLD", "another signal"}

Slot == 0 .. NrTasks - 1
Page == 1 .. Pages
Proc == {0} \union Page     \* 0 is the static init_task
Pid == 0 .. MaxPid
Nothing == -1               \* the null pointer; no task
Any == -1                   \* the pid argument that matches every child
Target == {Any} \union 1 .. MaxPid

CHLD == "SIGCHLD"
Other == "another signal"
Signal == {CHLD, Other}

Running == "TASK_RUNNING"
Interruptible == "TASK_INTERRUPTIBLE"
Uninterruptible == "TASK_UNINTERRUPTIBLE"
Zombie == "TASK_ZOMBIE"
State == {Running, Interruptible, Uninterruptible, Zombie}

VARIABLES
    task,      \* the table task[]
    last_pid,
    used,      \* the task_struct pages that are allocated
    ts,        \* the fields of each task_struct
    pc,        \* where the task is in its own code
    nr,        \* copy_process: the slot of the child
    page,      \* copy_process, release: the task_struct `p' they work on
    want,      \* sys_waitpid: the pid argument
    busy,      \* the task inside one of these calls, or Nothing
    cut        \* history variable: the calls a tick has cut in two

locals == <<pc, nr, page, want>>
vars == <<task, last_pid, used, ts, locals, busy, cut>>

Fields == [pid : Pid, father : Pid \union {-1}, signal : SUBSET Signal,
           state : State, exit_code : {0, 1}]

InFork == {"fork", "copy"}
InExit == {"exit", "zombie", "tell", "code"}
InWait == {"scan", "topause", "pause"}

TypeOK ==
    /\ task \in [Slot -> Proc \union {Nothing}]
    /\ last_pid \in Pid
    /\ used \subseteq Page
    /\ ts \in [Proc -> Fields]
    /\ pc \in [Proc -> {"user", "dead", "free"} \union InFork \union InExit \union InWait]
    /\ nr \in [Proc -> Slot]
    /\ page \in [Proc -> Page \union {Nothing}]
    /\ want \in [Proc -> Pid \union {Any}]
    /\ busy \in Proc \union {Nothing}
    /\ cut \subseteq {"fork", "exit", "release"}

\* INIT_TASK; the fields of a page that is not allocated are never read.
Blank == [pid |-> 0, father |-> -1, signal |-> {}, state |-> Running, exit_code |-> 0]

Init ==
    /\ task = [s \in Slot |-> IF s = 0 THEN 0 ELSE Nothing]
    /\ last_pid = 0
    /\ used = {}
    /\ ts = [p \in Proc |-> Blank]
    /\ pc = [p \in Proc |-> "user"]
    /\ nr = [p \in Proc |-> 0]
    /\ page = [p \in Proc |-> Nothing]
    /\ want = [p \in Proc |-> Any]
    /\ busy = Nothing
    /\ cut = {}

Listed(t) == \E s \in Slot : task[s] = t
SlotOf(t) == CHOOSE s \in Slot : task[s] = t

\* schedule() runs the tasks that task[] names and that are running.
CanRun(t) == Listed(t) /\ ts[t].state = Running /\ busy \in {Nothing, t}

\* The call returns, or sleeps.
Go(t, there) == pc' = [pc EXCEPT ![t] = there]
Yields == busy' = Nothing
KeepsCpu(t) == busy' = t

-----------------------------------------------------------------------------
\* fork.

\* Mutant: a pid that is still in use is given out again.
PidFreeAlways(n) == TRUE

PidFree(n) == \A s \in Slot : task[s] # Nothing => ts[task[s]].pid # n

\* How many numbers `repeat' tries before n.
Distance(n) == (n - last_pid - 1) % MaxPid

NextPid ==
    CHOOSE n \in 1 .. MaxPid :
        /\ PidFree(n)
        /\ \A m \in 1 .. MaxPid : PidFree(m) => Distance(n) <= Distance(m)

FindEmptyProcess(t) ==
    LET empty == {s \in Slot \ {0} : task[s] = Nothing}
    IN /\ CanRun(t) /\ pc[t] = "user"
       /\ last_pid' = NextPid
       /\ \/ /\ empty = {}                               \* -EAGAIN
             /\ Yields
             /\ UNCHANGED <<pc, nr>>
          \/ /\ empty # {}
             /\ nr' = [nr EXCEPT ![t] = Min(empty)]
             /\ Go(t, "fork")
             /\ KeepsCpu(t)
       /\ UNCHANGED <<task, used, ts, page, want, cut>>

\* get_free_page() takes the last free page.
NewChild(t) ==
    /\ CanRun(t) /\ pc[t] = "fork"
    /\ \/ /\ Go(t, "user")                               \* -EAGAIN
          /\ Yields
          /\ UNCHANGED <<used, ts, page>>
       \/ /\ used # Page
          /\ LET p == Max(Page \ used)
             IN /\ used' = used \union {p}
                /\ ts' = [ts EXCEPT ![p] = [ts[t] EXCEPT
                            !.state = Uninterruptible,
                            !.pid = last_pid,
                            !.father = ts[t].pid,
                            !.signal = {}]]
                /\ page' = [page EXCEPT ![t] = p]
          /\ Go(t, "copy")
          /\ KeepsCpu(t)
    /\ UNCHANGED <<task, last_pid, nr, want, cut>>

\* copy_mem() and the rest of copy_process.
CopyProcess(t) ==
    LET p == page[t]
    IN /\ CanRun(t) /\ pc[t] = "copy"
       /\ \/ /\ used' = used \ {p}                       \* copy_mem failed
             /\ ts' = [ts EXCEPT ![p] = Blank]
             /\ pc' = [pc EXCEPT ![t] = "user", ![p] = "user"]
             /\ UNCHANGED task
          \/ /\ ts' = [ts EXCEPT ![p].state = Running]
             /\ task' = [task EXCEPT ![nr[t]] = p]
             /\ pc' = [pc EXCEPT ![t] = "user", ![p] = "user"]
             /\ UNCHANGED used
       /\ nr' = [nr EXCEPT ![t] = 0]
       /\ page' = [page EXCEPT ![t] = Nothing]
       /\ Yields
       /\ UNCHANGED <<last_pid, want, cut>>

-----------------------------------------------------------------------------
\* Signals.

\* do_kill(): the tasks of the table above slot 0 that the number names.
Named(n) ==
    {p \in Page : \E s \in Slot \ {0} : task[s] = p /\ (n = Any \/ ts[p].pid = n)}

Signalled(f, n, sig) ==
    [p \in Proc |-> IF p \in Named(n) THEN [f[p] EXCEPT !.signal = @ \union {sig}] ELSE f[p]]

SysKill(t, n, sig) ==
    /\ CanRun(t) /\ pc[t] = "user"
    /\ Named(n) # {}
    /\ ts' = Signalled(ts, n, sig)
    /\ Yields
    /\ UNCHANGED <<task, last_pid, used, locals, cut>>

-----------------------------------------------------------------------------
\* exit.

\* release(p) empties the slot first.
Released(p) == [s \in Slot |-> IF s = SlotOf(p) THEN Nothing ELSE task[s]]

Release(t, p) ==
    /\ task' = Released(p)
    /\ page' = [page EXCEPT ![t] = p]
    /\ Go(t, "free")
    /\ KeepsCpu(t)
    /\ UNCHANGED <<used, ts>>

\* Mutant: release forgets to free the page of the task.
FreePageLeaks(t) ==
    LET p == page[t]
    IN /\ pc[t] = "free" /\ (busy = t \/ CanRun(t))
       /\ ts' = [ts EXCEPT ![p] = Blank]
       /\ pc' = [pc EXCEPT ![t] = "user", ![p] = "user"]
       /\ page' = [page EXCEPT ![t] = Nothing]
       /\ want' = [want EXCEPT ![t] = Any]
       /\ Yields
       /\ UNCHANGED <<task, last_pid, used, nr, cut>>

\* free_page(p) and schedule().  A task that releases itself is in no slot by
\* now: it gets here only if no tick has taken the processor from it.
FreePage(t) ==
    LET p == page[t]
    IN /\ pc[t] = "free" /\ (busy = t \/ CanRun(t))
       /\ used' = used \ {p}
       /\ ts' = [ts EXCEPT ![p] = Blank]
       /\ pc' = [pc EXCEPT ![t] = "user", ![p] = "user"]
       /\ page' = [page EXCEPT ![t] = Nothing]
       /\ want' = [want EXCEPT ![t] = Any]
       /\ Yields
       /\ UNCHANGED <<task, last_pid, nr, cut>>

\* do_exit() up to the choice between zombie and release: the children are
\* given to task 0; closing files and dropping inodes may sleep.  Task 0 does
\* not exit: free_page_tables(0) panics.
DoExit(t) ==
    /\ CanRun(t) /\ t # 0 /\ pc[t] = "user"
    /\ ts' = [p \in Proc |->
                IF Listed(p) /\ ts[p].father = ts[t].pid
                THEN [ts[p] EXCEPT !.father = 0] ELSE ts[p]]
    /\ Go(t, "exit")
    /\ Yields \/ KeepsCpu(t)
    /\ UNCHANGED <<task, last_pid, used, nr, page, want, cut>>

\* if (current->father): a child of task 0 is nobody's to wait for and
\* releases itself.
ExitChooses(t) ==
    /\ CanRun(t) /\ pc[t] = "exit"
    /\ \/ /\ ts[t].father # 0
          /\ Go(t, "zombie")
          /\ KeepsCpu(t)
          /\ UNCHANGED <<task, used, ts, page>>
       \/ /\ ts[t].father = 0
          /\ Release(t, t)
    /\ UNCHANGED <<last_pid, nr, want, cut>>

\* current->state = TASK_ZOMBIE.  From here on a tick is the end of the task.
ExitZombie(t) ==
    /\ CanRun(t) /\ pc[t] = "zombie"
    /\ ts' = [ts EXCEPT ![t].state = Zombie]
    /\ Go(t, "tell")
    /\ KeepsCpu(t)
    /\ UNCHANGED <<task, last_pid, used, nr, page, want, cut>>

\* Mutant: the signal goes to the task itself.
ExitTellsItself(t) ==
    /\ busy = t /\ pc[t] = "tell"
    /\ ts' = Signalled(ts, ts[t].pid, CHLD)
    /\ Go(t, "code")
    /\ UNCHANGED <<task, last_pid, used, nr, page, want, busy, cut>>

\* do_kill(current->father, SIGCHLD, 1).  Number 0, the father of a task that
\* lost its own meanwhile, names the group of the task, which is empty.
ExitTells(t) ==
    /\ busy = t /\ pc[t] = "tell"
    /\ ts' = IF ts[t].father = 0 THEN ts ELSE Signalled(ts, ts[t].father, CHLD)
    /\ Go(t, "code")
    /\ UNCHANGED <<task, last_pid, used, nr, page, want, busy, cut>>

\* current->exit_code = code, and the last schedule().  The code is 1.
ExitCode(t) ==
    /\ busy = t /\ pc[t] = "code"
    /\ ts' = [ts EXCEPT ![t].exit_code = 1]
    /\ Go(t, "dead")
    /\ Yields
    /\ UNCHANGED <<task, last_pid, used, nr, page, want, cut>>

-----------------------------------------------------------------------------
\* waitpid.

SysWaitpid(t, n) ==
    /\ CanRun(t) /\ t # 0 /\ pc[t] = "user"
    /\ want' = [want EXCEPT ![t] = n]
    /\ Go(t, "scan")
    /\ KeepsCpu(t)
    /\ UNCHANGED <<task, last_pid, used, ts, nr, page, cut>>

\* The slots the loop stops at.
Children(t) ==
    {s \in Slot \ {0} :
        /\ task[s] \notin {Nothing, t}
        /\ want[t] \in {Any, ts[task[s]].pid}
        /\ ts[task[s]].father = ts[t].pid}

\* Mutant: a child is taken for dead before it is.
DeadChildrenAll(t) == Children(t)

DeadChildren(t) == {s \in Children(t) : ts[task[s]].state = Zombie}

\* The loop of sys_waitpid: the highest dead child is released; without one
\* the task pauses, or returns (WNOHANG, or -ECHILD).
WaitScan(t) ==
    LET dead == DeadChildren(t)
    IN /\ CanRun(t) /\ pc[t] = "scan"
       /\ \/ /\ dead # {}
             /\ Release(t, task[Max(dead)])
             /\ UNCHANGED want
          \/ /\ dead = {} /\ Children(t) # {}
             /\ Go(t, "topause")
             /\ KeepsCpu(t)
             /\ UNCHANGED <<task, used, ts, page, want>>
          \/ /\ dead = {}                                \* 0 or -ECHILD
             /\ Go(t, "user")
             /\ want' = [want EXCEPT ![t] = Any]
             /\ Yields
             /\ UNCHANGED <<task, used, ts, page>>
       /\ UNCHANGED <<last_pid, nr, cut>>

\* sys_pause().
WaitPauses(t) ==
    /\ CanRun(t) /\ pc[t] = "topause"
    /\ ts' = [ts EXCEPT ![t].state = Interruptible]
    /\ Go(t, "pause")
    /\ Yields
    /\ UNCHANGED <<task, last_pid, used, nr, page, want, cut>>

\* schedule() wakes a paused task that has a signal, and sys_waitpid drops
\* SIGCHLD; if that was all, it repeats, otherwise it returns -EINTR.
WaitWakes(t) ==
    LET left == ts[t].signal \ {CHLD}
    IN /\ Listed(t) /\ pc[t] = "pause" /\ busy = Nothing
       /\ ts[t].signal # {}
       /\ ts' = [ts EXCEPT ![t].state = Running, ![t].signal = left]
       /\ \/ /\ left = {}
             /\ Go(t, "scan")
             /\ KeepsCpu(t)
             /\ UNCHANGED want
          \/ /\ left # {}
             /\ Go(t, "user")
             /\ want' = [want EXCEPT ![t] = Any]
             /\ Yields
       /\ UNCHANGED <<task, last_pid, used, nr, page, cut>>

-----------------------------------------------------------------------------
\* A tick ends the slice of the task that is inside a call.
TickCuts ==
    /\ busy # Nothing
    /\ Cardinality(cut) < MaxCuts
    /\ cut' = cut \union {k \in {"fork", "exit", "release"} :
                              \/ k = "fork" /\ pc[busy] \in InFork
                              \/ k = "exit" /\ pc[busy] \in InExit
                              \/ k = "release" /\ pc[busy] = "free" /\ ~Listed(busy)}
    /\ Yields
    /\ UNCHANGED <<task, last_pid, used, ts, locals>>

Continues(t) ==
    \/ NewChild(t) \/ CopyProcess(t)
    \/ FreePage(t) \/ ExitChooses(t) \/ ExitZombie(t) \/ ExitTells(t) \/ ExitCode(t)
    \/ WaitScan(t) \/ WaitPauses(t) \/ WaitWakes(t)

Next ==
    \/ \E t \in Proc : FindEmptyProcess(t) \/ DoExit(t) \/ Continues(t)
    \/ \E t \in Proc, n \in {Any} \union Asked : SysWaitpid(t, n)
    \/ \E t \in Proc, n \in Target, sig \in Sent : SysKill(t, n, sig)
    \/ TickCuts

Spec == Init /\ [][Next]_vars

\* A call under way goes on, and schedule() gives a task that it wakes the
\* processor in the end (RunnableRuns of module Sched).
Fairness ==
    /\ WF_vars(\E t \in Proc : busy = t /\ Continues(t))
    /\ \A t \in Page : SF_vars(WaitWakes(t))

FairSpec == Spec /\ Fairness

-----------------------------------------------------------------------------
\* Whoever a process names as its father can still collect it: it is task 0 or
\* a process of the table that is no zombie.
FathersLive ==
    \A p \in Page :
        Listed(p) /\ ts[p].father > 0 =>
            \E q \in Page :
                /\ Listed(q) /\ q # p
                /\ ts[q].pid = ts[p].father
                /\ ts[q].state # Zombie

\* No two processes have the same pid, zombies included, also after last_pid
\* has wrapped, and the pid a child has for its father is that of a process
\* that can collect it - unless a tick cut a fork between the choice of last_pid
\* and its use, which two forks then share, or lost the father's slot.
PidsUnique ==
    "fork" \notin cut =>
        /\ \A s, r \in Slot :
            task[s] # Nothing /\ task[r] # Nothing /\ s # r =>
                ts[task[s]].pid # ts[task[r]].pid
        /\ FathersLive

\* Every allocated task_struct is a process of the table, in one slot, or the
\* page of one fork or one release() under way that will be finished, and the
\* table holds no freed one - unless a cut fork lost its slot to another, or a
\* tick found an exiting task in release() when it was in no slot any more: its
\* page stays allocated for ever.
TableExact ==
    /\ TypeOK
    /\ cut \intersect {"fork", "release"} = {} =>
        LET listed == {p \in Page : Listed(p)}
            goesOn == {t \in Proc : Listed(t) \/ busy = t}
            coming == {page[t] : t \in {u \in goesOn : pc[u] = "copy"}}
            going  == {page[t] : t \in {u \in goesOn : pc[u] = "free"}}
        IN /\ used = listed \union coming \union going
           /\ listed \intersect (coming \union going) = {}
           /\ coming \intersect going = {}
           /\ \A s, r \in Slot : task[s] = task[r] /\ task[s] # Nothing => s = r

\* waitpid hands out the code the child exited with: it never collects a
\* process that still runs, nor one that has not stored its code - unless a
\* tick cut the exit after TASK_ZOMBIE was set.
StatusTrue ==
    [][\A t, z \in Proc :
        pc[t] = "scan" /\ pc'[t] = "free" /\ Listed(z) /\ ~Listed(z)' =>
            ts[z].state = Zombie /\ (ts[z].exit_code = 1 \/ "exit" \in cut)]_vars

\* A task that pauses in waitpid with a dead child to collect wakes up, however
\* the exit and the pause interleave - unless the exit was cut before it told
\* the father.
DeathHeard ==
    \A t \in Proc :
        (pc[t] = "pause" /\ DeadChildren(t) # {}) ~> (pc[t] # "pause" \/ "exit" \in cut)
=============================================================================
