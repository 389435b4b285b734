------------------------------ MODULE HardDisk ------------------------------
(***************************************************************************)
(* kernel/hd.c: the request queue of the disk driver and its interrupt     *)
(* handlers.                                                               *)
(*                                                                         *)
(* Tasks enter through rw_abs_hd(); one task at a time is awake inside it  *)
(* (a tick that preempts kernel code is left to module Sched), but         *)
(* rw_abs_hd and add_request run with interrupts on, and the flag          *)
(* `sorting' is all that keeps the handlers off the list meanwhile.  The   *)
(* controller is external: it answers every command with an interrupt per  *)
(* sector, and may report an error.                                        *)
(*                                                                         *)
(* A block is two sectors.  The data is modelled by where it goes: moved   *)
(* holds a pair <<h, k>> when half h of the buffer and sector k of the     *)
(* block have been transferred to each other.                              *)
(***************************************************************************)
EXTENDS Integers, FiniteSets

CONSTANTS Task,
          Block,       \* block numbers; each has its own buffer head
          NrRequest,   \* NR_REQUEST, 32 in the code
          MaxErrors,   \* MAX_ERRORS, 5 in the code
          MaxFaults,   \* bound: errors the drive reports in all
          MaxCalls,    \* bound: calls of rw_abs_hd in all
          Command,     \* the commands in use: "read", "write" or both
          NULL

ASSUME HardDiskAssumption ==
    /\ Task \subseteq Nat
    /\ Block \subseteq Nat
    /\ NrRequest \in Nat \ {0}
    /\ MaxErrors \in Nat
    /\ MaxFaults \in Nat
    /\ MaxCalls \in Nat
    /\ Command \subseteq {"read", "write"}
    /\ NULL \notin Task /\ NULL \notin 1 .. NrRequest /\ NULL \notin Block
    /\ NULL \notin {"read_intr", "write_intr", "do_request"}

Slot == 1 .. NrRequest

VARIABLES
    busy,       \* request[s].hd >= 0
    cmd,        \* request[s].cmd: "read" or "write"
    bh,         \* request[s].bh, by its block number
    nsector,    \* request[s].nsector
    errors,     \* request[s].errors
    next,       \* request[s].next
    thisReq,    \* this_request
    sorting,    \* sorting
    doHd,       \* do_hd: the handler of the next interrupt
    ctl,        \* the controller: "idle", "transfer" or "specify"
    cursor,     \* the sector of the block the controller is at
    sent,       \* the half of the buffer that the last port_write sent
    faults,     \* errors reported so far
    lock,       \* b_lock of each buffer
    uptodate,   \* b_uptodate of each buffer
    moved,      \* history: what the transfer under way has moved where
    torn,       \* history: it was resumed in mid-block after an error
    raced,      \* history: an interrupt has hit a window of rw_abs_hd
    cpu,        \* the task inside rw_abs_hd and not asleep, or NULL
    pc,         \* where a task is in rw_abs_hd
    rq,         \* its req
    tmp,        \* its tmp in add_request
    want,       \* the block and command it asks for
    calls,      \* calls so far
    waiting     \* the sleepers of wait_for_request that no wake_up has released

reqVars == <<busy, cmd, bh, nsector, errors, next>>
drvVars == <<thisReq, sorting, doHd>>
ctlVars == <<ctl, cursor, sent, faults>>
bufVars == <<lock, uptodate>>
histVars == <<moved, torn, raced>>
taskVars == <<cpu, pc, rq, tmp, want, calls, waiting>>
vars == <<reqVars, drvVars, ctlVars, bufVars, histVars, taskVars>>

Half == 0 .. 1
InAdd == {"add", "second", "insert", "added", "start"}
Pc == {"idle", "find", "full", "asleep", "sort", "wait"} \union InAdd

TypeOK ==
    /\ busy \in [Slot -> BOOLEAN]
    /\ cmd \in [Slot -> {"read", "write"}]
    /\ bh \in [Slot -> Block \union {NULL}]
    /\ nsector \in [Slot -> 0 .. 2]
    /\ errors \in [Slot -> 0 .. MaxErrors + 1]
    /\ next \in [Slot -> Slot \union {NULL}]
    /\ thisReq \in Slot \union {NULL}
    /\ sorting \in BOOLEAN
    /\ doHd \in {NULL, "read_intr", "write_intr", "do_request"}
    /\ ctl \in {"idle", "transfer", "specify"}
    /\ cursor \in 0 .. 2
    /\ sent \in Half
    /\ faults \in 0 .. MaxFaults
    /\ lock \in [Block -> BOOLEAN]
    /\ uptodate \in [Block -> BOOLEAN]
    /\ moved \in SUBSET (Half \X (0 .. 1))
    /\ torn \in BOOLEAN
    /\ raced \in BOOLEAN
    /\ cpu \in Task \union {NULL}
    /\ pc \in [Task -> Pc]
    /\ rq \in [Task -> Slot \union {NULL}]
    /\ tmp \in [Task -> Slot \union {NULL}]
    /\ want \in [Task -> (Block \union {NULL}) \X {"read", "write"}]
    /\ calls \in 0 .. MaxCalls
    /\ waiting \in SUBSET Task

Init ==
    /\ busy = [s \in Slot |-> FALSE]
    /\ cmd = [s \in Slot |-> "read"]
    /\ bh = [s \in Slot |-> NULL]
    /\ nsector = [s \in Slot |-> 0]
    /\ errors = [s \in Slot |-> 0]
    /\ next = [s \in Slot |-> NULL]
    /\ thisReq = NULL
    /\ sorting = FALSE
    /\ doHd = NULL
    /\ ctl = "idle"
    /\ cursor = 0
    /\ sent = 0
    /\ faults = 0
    /\ lock = [b \in Block |-> FALSE]
    /\ uptodate = [b \in Block |-> FALSE]
    /\ moved = {}
    /\ torn = FALSE
    /\ raced = FALSE
    /\ cpu = NULL
    /\ pc = [t \in Task |-> "idle"]
    /\ rq = [t \in Task |-> NULL]
    /\ tmp = [t \in Task |-> NULL]
    /\ want = [t \in Task |-> <<NULL, "read">>]
    /\ calls = 0
    /\ waiting = {}

-----------------------------------------------------------------------------
\* Mutant: the halves of a block are swapped in memory.
HalfOfSwapped(n) == (n + 1) % 2

\* b_data + 512*(nsector&1): the half of the buffer that goes with the sector under way.
HalfOf(n) == n % 2

\* The controller starts over at the first sector with no data sent to it.
NoData == cursor' = 0 /\ sent' = 0

\* reset_hd: WIN_SPECIFY, whose interrupt calls do_request.
ResetHd ==
    /\ doHd' = "do_request"
    /\ ctl' = "specify"
    /\ NoData

\* do_request with this_request = r.  hd_out names the first sector of the
\* block whatever nsector is; for a write the half that nsector selects is
\* sent at once if the drive raises DRQ, and the drive is reset if not.  hd_out
\* panics on an impossible drive or head and on a controller that is not ready:
\* the machine stops there, so every behaviour that follows has got past it.
DoRequest(r) ==
    \/ /\ sorting
       /\ ctl' = "idle"
       /\ NoData
       /\ UNCHANGED <<doHd, faults>>
    \/ /\ ~sorting
       /\ r = NULL
       /\ doHd' = NULL
       /\ ctl' = "idle"
       /\ NoData
       /\ UNCHANGED faults
    \/ /\ ~sorting
       /\ r # NULL
       /\ doHd' = IF cmd[r] = "read" THEN "read_intr" ELSE "write_intr"
       /\ ctl' = "transfer"
       /\ cursor' = 0
       /\ sent' = IF cmd[r] = "write" THEN HalfOf(nsector[r]) ELSE 0
       /\ UNCHANGED faults
    \/ /\ ~sorting
       /\ r # NULL
       /\ cmd[r] = "write"
       /\ faults < MaxFaults
       /\ faults' = faults + 1
       /\ ResetHd

\* Mutant: a request that fails keeps its slot.
EndRequestKeepsSlot(r, ok) ==
    /\ lock' = [lock EXCEPT ![bh[r]] = FALSE]
    /\ uptodate' = [uptodate EXCEPT ![bh[r]] = ok]
    /\ busy' = [busy EXCEPT ![r] = ~ok]
    /\ thisReq' = next[r]
    /\ waiting' = {}

\* Mutant: this_request stays at the request that is over.
EndRequestStays(r, ok) ==
    /\ lock' = [lock EXCEPT ![bh[r]] = FALSE]
    /\ uptodate' = [uptodate EXCEPT ![bh[r]] = ok]
    /\ busy' = [busy EXCEPT ![r] = FALSE]
    /\ waiting' = {}
    /\ UNCHANGED thisReq

\* A request is over: unlock_buffer, wake_up(&wait_for_request), hd = -1, and
\* the next one is this_request.
EndRequest(r, ok) ==
    /\ lock' = [lock EXCEPT ![bh[r]] = FALSE]
    /\ uptodate' = [uptodate EXCEPT ![bh[r]] = ok]
    /\ busy' = [busy EXCEPT ![r] = FALSE]
    /\ thisReq' = next[r]
    /\ waiting' = {}

\* bad_rw_intr: give up after MAX_ERRORS errors in a row, and reset the drive.
BadRwIntr(r) ==
    /\ faults < MaxFaults
    /\ faults' = faults + 1
    /\ \/ /\ errors[r] >= MaxErrors
          /\ EndRequest(r, FALSE)
          /\ UNCHANGED torn
       \/ /\ errors[r] < MaxErrors
          /\ torn' = (torn \/ nsector[r] = 1)
          /\ UNCHANGED <<lock, uptodate, busy, thisReq, waiting>>
    /\ errors' = [errors EXCEPT ![r] = @ + 1]
    /\ ResetHd
    /\ UNCHANGED <<cmd, bh, nsector, next, sorting, moved, cpu, pc, rq, tmp, want, calls>>

\* Half h of the buffer goes with the sector the controller is at; the first
\* sector of a request starts a new transfer.
Move(r, h) ==
    /\ moved' = {<<h, cursor>>} \union (IF nsector[r] = 2 THEN {} ELSE moved)
    /\ torn' = (torn /\ nsector[r] # 2)

\* read_intr on a good sector.
ReadIntr(r) ==
    /\ Move(r, HalfOf(nsector[r]))
    /\ errors' = [errors EXCEPT ![r] = 0]
    /\ nsector' = [nsector EXCEPT ![r] = @ - 1]
    /\ \/ /\ nsector[r] > 1
          /\ cursor' = cursor + 1
          /\ UNCHANGED <<ctl, sent, faults, doHd, lock, uptodate, busy, thisReq, waiting>>
       \/ /\ nsector[r] = 1
          /\ EndRequest(r, TRUE)
          /\ DoRequest(next[r])
    /\ UNCHANGED <<cmd, bh, next, sorting, cpu, pc, rq, tmp, want, calls>>

\* write_intr on a good sector: what was sent is on the disk; the second half
\* is sent next.
WriteIntr(r) ==
    /\ Move(r, sent)
    /\ nsector' = [nsector EXCEPT ![r] = @ - 1]
    /\ \/ /\ nsector[r] > 1
          /\ cursor' = cursor + 1
          /\ sent' = 1
          /\ UNCHANGED <<ctl, faults, doHd, lock, uptodate, busy, thisReq, waiting>>
       \/ /\ nsector[r] = 1
          /\ EndRequest(r, TRUE)
          /\ DoRequest(next[r])
    /\ UNCHANGED <<cmd, bh, errors, next, sorting, cpu, pc, rq, tmp, want, calls>>

\* The windows of rw_abs_hd: between a search that found no free request and
\* sleep_on, and inside add_request.
Window == {"full"} \union InAdd

\* hd_interrupt: call do_hd.
HdInterrupt ==
    /\ ctl # "idle"
    /\ raced' = (raced \/ \E t \in Task : pc[t] \in Window)
    /\ \/ doHd = "read_intr" /\ ReadIntr(thisReq)
       \/ doHd = "write_intr" /\ WriteIntr(thisReq)
       \/ doHd \in {"read_intr", "write_intr"} /\ BadRwIntr(thisReq)
       \/ /\ doHd = "do_request"
          /\ DoRequest(thisReq)
          /\ UNCHANGED <<reqVars, thisReq, sorting, bufVars, moved, torn, taskVars>>

-----------------------------------------------------------------------------
\* rw_abs_hd, step by step where an interrupt may come in between.

Goto(t, c) == pc' = [pc EXCEPT ![t] = c]

\* lock_buffer: the callers have waited for the buffer to be unlocked.  bread
\* reads a buffer that is not up to date, sync and getblk write one that is.
\* rw_hd returns at once, and changes nothing, if the block is not in the
\* partition (line 117): that call is not a step.
\* Tasks differ in nothing but their number, so the first idle one makes the call.
Start(t, b, c) ==
    /\ cpu = NULL
    /\ pc[t] = "idle"
    /\ \A u \in Task : pc[u] = "idle" => t <= u
    /\ ~lock[b]
    /\ calls < MaxCalls
    /\ calls' = calls + 1
    /\ lock' = [lock EXCEPT ![b] = TRUE]
    /\ uptodate' = [uptodate EXCEPT ![b] = c = "write"]
    /\ want' = [want EXCEPT ![t] = <<b, c>>]
    /\ cpu' = t
    /\ Goto(t, "find")
    /\ UNCHANGED <<reqVars, drvVars, ctlVars, histVars, rq, tmp, waiting>>

\* The first free request is filled in; without one the task goes to sleep.
FindSlot(t) ==
    /\ cpu = t
    /\ pc[t] = "find"
    /\ \/ \E s \in Slot :
            /\ ~busy[s]
            /\ \A r \in Slot : r < s => busy[r]
            /\ busy' = [busy EXCEPT ![s] = TRUE]
            /\ cmd' = [cmd EXCEPT ![s] = want[t][2]]
            /\ bh' = [bh EXCEPT ![s] = want[t][1]]
            /\ nsector' = [nsector EXCEPT ![s] = 2]
            /\ errors' = [errors EXCEPT ![s] = 0]
            /\ next' = [next EXCEPT ![s] = NULL]
            /\ rq' = [rq EXCEPT ![t] = s]
            /\ Goto(t, "sort")
       \/ /\ \A s \in Slot : busy[s]
          /\ Goto(t, "full")
          /\ UNCHANGED <<reqVars, rq>>
    /\ UNCHANGED <<drvVars, ctlVars, bufVars, histVars, cpu, tmp, want, calls, waiting>>

\* sleep_on(&wait_for_request), with interrupts on since the search.
SleepForSlot(t) ==
    /\ cpu = t
    /\ pc[t] = "full"
    /\ waiting' = waiting \union {t}
    /\ cpu' = NULL
    /\ Goto(t, "asleep")
    /\ UNCHANGED <<reqVars, drvVars, ctlVars, bufVars, histVars, rq, tmp, want, calls>>

SlotWakeUp(t) ==
    /\ cpu = NULL
    /\ pc[t] = "asleep"
    /\ t \notin waiting
    /\ cpu' = t
    /\ Goto(t, "find")
    /\ UNCHANGED <<reqVars, drvVars, ctlVars, bufVars, histVars, rq, tmp, want, calls, waiting>>

\* sorting = 1; tmp = this_request.
AddRequest(t) ==
    /\ cpu = t
    /\ pc[t] = "sort"
    /\ sorting' = TRUE
    /\ tmp' = [tmp EXCEPT ![t] = thisReq]
    /\ Goto(t, "add")
    /\ UNCHANGED <<reqVars, thisReq, doHd, ctlVars, bufVars, histVars, cpu, rq, want, calls, waiting>>

\* The queue was empty: this_request = req.  Otherwise look at tmp->next.
AddFirst(t) ==
    /\ cpu = t
    /\ pc[t] = "add"
    /\ \/ /\ tmp[t] = NULL
          /\ thisReq' = rq[t]
          /\ Goto(t, "added")
          /\ UNCHANGED tmp
       \/ /\ tmp[t] # NULL /\ next[tmp[t]] = NULL
          /\ Goto(t, "second")
          /\ UNCHANGED <<thisReq, tmp>>
       \/ /\ tmp[t] # NULL /\ next[tmp[t]] # NULL
          /\ tmp' = [tmp EXCEPT ![t] = next[tmp[t]]]
          /\ Goto(t, "insert")
          /\ UNCHANGED thisReq
    /\ UNCHANGED <<reqVars, sorting, doHd, ctlVars, bufVars, histVars, cpu, rq, want, calls, waiting>>

\* tmp->next = req behind the only request.
AddSecond(t) ==
    /\ cpu = t
    /\ pc[t] = "second"
    /\ next' = [next EXCEPT ![tmp[t]] = rq[t]]
    /\ Goto(t, "added")
    /\ UNCHANGED <<busy, cmd, bh, nsector, errors, drvVars, ctlVars, bufVars, histVars,
                   cpu, rq, tmp, want, calls, waiting>>

\* The elevator: IN_ORDER compares block positions.
InOrder(s1, s2) == bh[s1] < bh[s2]

\* The n-th request from s on, NULL beyond the end.
Nth(s) ==
    LET f[n \in 0 .. NrRequest] ==
            IF n = 0 THEN s
            ELSE IF f[n - 1] = NULL THEN NULL ELSE next[f[n - 1]]
    IN f

\* Mutant: always right behind the second request.
StopsAtOnce(s, r) == TRUE

\* The request after which the loop of lines 357-361 stops.
StopsAt(s, r) ==
    next[s] # NULL => /\ InOrder(s, next[s]) => InOrder(s, r)
                      /\ InOrder(r, next[s])

\* Mutant: a new request is put in front of the rest of the list.
InsertAfterLoses(t, s) ==
    next' = [next EXCEPT ![s] = rq[t]]

\* req->next = tmp->next; tmp->next = req.
InsertAfter(t, s) ==
    next' = [next EXCEPT ![rq[t]] = next[s], ![s] = rq[t]]

AddSorted(t) ==
    /\ cpu = t
    /\ pc[t] = "insert"
    /\ \E n \in 0 .. NrRequest :
        LET s == Nth(tmp[t])[n]
        IN /\ s # NULL
           /\ StopsAt(s, rq[t])
           /\ \A m \in 0 .. n - 1 : ~StopsAt(Nth(tmp[t])[m], rq[t])
           /\ InsertAfter(t, s)
    /\ Goto(t, "added")
    /\ UNCHANGED <<busy, cmd, bh, nsector, errors, drvVars, ctlVars, bufVars, histVars,
                   cpu, rq, tmp, want, calls, waiting>>

\* sorting = 0.
EndSorting(t) ==
    /\ cpu = t
    /\ pc[t] = "added"
    /\ sorting' = FALSE
    /\ Goto(t, "start")
    /\ UNCHANGED <<reqVars, thisReq, doHd, ctlVars, bufVars, histVars, cpu, rq, tmp, want, calls, waiting>>

\* if (!do_hd) do_request(); then wait_on_buffer gives the processor away.
Restart(t) ==
    /\ cpu = t
    /\ pc[t] = "start"
    /\ \/ doHd = NULL /\ DoRequest(thisReq)
       \/ doHd # NULL /\ UNCHANGED <<doHd, ctlVars>>
    /\ cpu' = NULL
    /\ rq' = [rq EXCEPT ![t] = NULL]
    /\ tmp' = [tmp EXCEPT ![t] = NULL]
    /\ Goto(t, "wait")
    /\ UNCHANGED <<reqVars, thisReq, sorting, bufVars, histVars, want, calls, waiting>>

\* wait_on_buffer returns.
Finish(t) ==
    /\ cpu = NULL
    /\ pc[t] = "wait"
    /\ ~lock[want[t][1]]
    /\ want' = [want EXCEPT ![t] = <<NULL, "read">>]
    /\ Goto(t, "idle")
    /\ UNCHANGED <<reqVars, drvVars, ctlVars, bufVars, histVars, cpu, rq, tmp, calls, waiting>>

TaskStep(t) ==
    \/ FindSlot(t)
    \/ SleepForSlot(t)
    \/ SlotWakeUp(t)
    \/ AddRequest(t)
    \/ AddFirst(t)
    \/ AddSecond(t)
    \/ AddSorted(t)
    \/ EndSorting(t)
    \/ Restart(t)
    \/ Finish(t)

Next ==
    \/ \E t \in Task, b \in Block, c \in Command : Start(t, b, c)
    \/ \E t \in Task : TaskStep(t)
    \/ HdInterrupt

Spec == Init /\ [][Next]_vars

\* Tasks inside the driver are scheduled, and the controller answers.
Fairness ==
    /\ \A t \in Task : WF_vars(TaskStep(t))
    /\ WF_vars(HdInterrupt)

FairSpec == Spec /\ Fairness

-----------------------------------------------------------------------------
\* The requests on the list.
Queue == {Nth(thisReq)[n] : n \in 0 .. NrRequest} \ {NULL}

\* No request is lost or entered twice while interrupts stay clear of the
\* windows: the list that add_request and the handlers share ends, holds
\* requests in use only, and holds every request in use but the one that a task
\* is still adding.
NoLostRequest ==
    ~raced =>
        /\ Nth(thisReq)[NrRequest] = NULL
        /\ \A s \in Queue : busy[s]
        /\ \A s \in Slot : busy[s] =>
            \/ s \in Queue
            \/ \E t \in Task : rq[t] = s /\ pc[t] \in {"sort"} \union InAdd

\* An interrupt always finds its handler, and a transfer handler its request,
\* whatever it interrupts: unexpected_hd_interrupt never panics, and
\* this_request is in use and its buffer locked when a handler uses it.
HandlerReady ==
    /\ TypeOK
    /\ ctl # "idle" =>
        /\ doHd # NULL
        /\ doHd \in {"read_intr", "write_intr"} =>
            /\ thisReq # NULL
            /\ busy[thisReq]
            /\ lock[bh[thisReq]]

\* A buffer that is unlocked as up to date has each half exchanged with its own
\* sector, unless an error hit the second sector and the transfer was resumed
\* in mid-block.
DataPlaced ==
    [][\A b \in Block :
        lock[b] /\ ~lock'[b] /\ uptodate'[b] =>
            torn' \/ moved' = {<<h, h>> : h \in Half}]_vars

\* The elevator: behind the request under way and the one after it the list
\* is at most two ascending sweeps over the disk, so no request added behind
\* another is overtaken by more than one sweep.
TwoSweeps ==
    LET tail == {n \in 2 .. NrRequest : thisReq # NULL /\ Nth(thisReq)[n] # NULL}
        descents == {n \in tail : ~InOrder(Nth(thisReq)[n - 1], Nth(thisReq)[n])}
    IN ~raced => Cardinality(descents) <= 1

\* Every request is answered: a request handed to the driver is freed again by
\* the handlers, with the data or with b_uptodate cleared, while interrupts
\* stay clear of the windows.
RequestAnswered == []~raced => \A s \in Slot : busy[s] ~> ~busy[s]
=============================================================================
