--------------------------- MODULE HardDiskProofs ---------------------------
(***************************************************************************)
(* For any number of requests, tasks and blocks: an interrupt of the disk  *)
(* always finds its handler and its request, data goes to its own half of  *)
(* the buffer, and while interrupts stay clear of the windows of rw_abs_hd *)
(* no request is lost and the list is at most two sweeps over the disk.    *)
(***************************************************************************)
EXTENDS HardDisk, FiniteSetsExt, FiniteSetTheorems, TLAPS

-----------------------------------------------------------------------------
\* Every set of numbers that is not empty has a least one, and Min is it.
LEMMA MinIsLeast ==
    ASSUME NEW S \in SUBSET Nat, S # {}
    PROVE  Min(S) \in S /\ \A y \in S : Min(S) <= y
<1> DEFINE R == {ss \in Nat \X Nat : ss[1] < ss[2]}
<1>1. OpToRel(<, Nat) = R
  BY Zenon DEF OpToRel
<1>2. IsWellFoundedOn(R, Nat)
  BY <1>1, NatLessThanWellFounded, Zenon
<1> HIDE DEF R
<1>3. PICK x \in S : \A y \in S : ~(<<y, x>> \in R)
  BY <1>2, WFMin, Zenon
<1>4. ASSUME NEW y \in S, y < x PROVE FALSE
  <2>1. <<y, x>> \in Nat \X Nat /\ <<y, x>>[1] < <<y, x>>[2]
    BY <1>4
  <2> QED
    BY <1>3, <2>1 DEF R
<1>5. \A y \in S : x <= y
  BY <1>4
<1> QED
  BY <1>5 DEF Min

-----------------------------------------------------------------------------
\* What holds however interrupts and add_request mix.

\* The tasks that have a request which is not on the list yet, and those that
\* have no request yet.
Adding == {"sort", "add", "second", "insert"}
Before == {"find", "full", "asleep"}

\* A request in use has a locked buffer of its own, as has a task on its way
\* to get one.
ReqLocked == \A s \in Slot : busy[s] => bh[s] \in Block /\ lock[bh[s]]
ReqAlone == \A s, r \in Slot : busy[s] /\ busy[r] /\ bh[s] = bh[r] => s = r
WantLocked ==
    \A t \in Task : pc[t] \in Before =>
        want[t][1] \in Block /\ lock[want[t][1]] /\ \A s \in Slot : busy[s] => bh[s] # want[t][1]
WantAlone ==
    \A t, u \in Task : pc[t] \in Before /\ pc[u] \in Before /\ want[t][1] = want[u][1] => t = u

\* A request in use has something left to do, and only the first one can be
\* half done.
ReqOpen ==
    \A s \in Slot : busy[s] =>
        nsector[s] \in {1, 2} /\ errors[s] <= MaxErrors /\ (s # thisReq => nsector[s] = 2)

\* The list: no request in use leads to a free one, none is reached twice, and
\* none leads to the first.
ListBusy == /\ thisReq # NULL => busy[thisReq]
            /\ \A s \in Slot : busy[s] /\ next[s] # NULL => busy[next[s]]
ListOnce == /\ \A s, r \in Slot : busy[s] /\ busy[r] /\ next[s] = next[r] /\ next[s] # NULL => s = r
            /\ \A s \in Slot : busy[s] /\ thisReq # NULL => next[s] # thisReq

\* The request that is being added is not on the list, and tmp is where the
\* list begins, or began before the handler ended a request.
AloneAt(t) ==
    pc[t] \in Adding =>
        /\ rq[t] \in Slot /\ busy[rq[t]] /\ next[rq[t]] = NULL /\ thisReq # rq[t]
        /\ \A s \in Slot : busy[s] => next[s] # rq[t]
        /\ pc[t] # "sort" => tmp[t] # rq[t]
TmpAt(t) ==
    /\ pc[t] = "add" =>
        \/ tmp[t] = thisReq
        \/ /\ tmp[t] \in Slot /\ ~busy[tmp[t]] /\ next[tmp[t]] = thisReq
           /\ ctl # "transfer"
    /\ pc[t] = "second" => tmp[t] \in Slot
    /\ pc[t] = "insert" =>
        /\ tmp[t] \in Slot
        /\ \/ thisReq # NULL /\ next[thisReq] = tmp[t]
           \/ thisReq = tmp[t] /\ ctl # "transfer"
CpuAt(t) == /\ pc[t] \in {"find", "full", "sort"} \union InAdd => cpu = t
            /\ pc[t] \in {"add", "second", "insert", "added"} => sorting

AddingAlone == \A t \in Task : AloneAt(t)
AddingAt == \A t \in Task : TmpAt(t)
OnCpu == \A t \in Task : CpuAt(t)

\* The controller and the handler agree, and a transfer is at the sector that
\* nsector stands for, unless it was resumed in mid-block.
Driven ==
    /\ ctl = "specify" => doHd = "do_request"
    /\ ctl = "transfer" => doHd \in {"read_intr", "write_intr"} /\ thisReq # NULL /\ cursor \in {0, 1}
AtSector ==
    /\ ctl = "transfer" /\ nsector[thisReq] = 2 =>
        cursor = 0 /\ (doHd = "write_intr" => sent = 0)
    /\ thisReq # NULL => (nsector[thisReq] = 1 /\ ~torn =>
        /\ ctl = "transfer" /\ cursor = 1 /\ moved = {<<0, 0>>}
        /\ doHd = "write_intr" => sent = 1)

BufInv == ReqLocked /\ ReqAlone /\ WantLocked /\ WantAlone
ListInv == ListBusy /\ ListOnce /\ AddingAlone /\ AddingAt /\ OnCpu
CtlInv == ReqOpen /\ Driven /\ AtSector
IInv == TypeOK /\ BufInv /\ ListInv /\ CtlInv

-----------------------------------------------------------------------------
\* What holds while interrupts stay clear of the windows: the requests on the
\* list are numbered from the first one on.
OnList(s) == busy[s] /\ ~\E t \in Task : pc[t] \in Adding /\ rq[t] = s
Ranks(rk) ==
    /\ \A s \in Slot : OnList(s) => (rk[s] = 0 <=> s = thisReq)
    /\ \A s \in Slot : OnList(s) /\ next[s] # NULL => OnList(next[s]) /\ rk[next[s]] = rk[s] + 1
    /\ \A s \in Slot : OnList(s) /\ s # thisReq => \E r \in Slot : OnList(r) /\ next[r] = s
    /\ thisReq # NULL => OnList(thisReq)
Falls(s) == OnList(s) /\ s # thisReq /\ next[s] # NULL /\ ~InOrder(s, next[s])
OneFall == \A s, r \in Slot : Falls(s) /\ Falls(r) => s = r
AddingTmp ==
    \A t \in Task :
        /\ pc[t] = "add" => tmp[t] = thisReq
        /\ pc[t] = "second" => tmp[t] = thisReq /\ next[thisReq] = NULL
        /\ pc[t] = "insert" => thisReq # NULL /\ next[thisReq] = tmp[t]
QInv == ~raced => AddingTmp /\ OneFall /\ \E rk \in [Slot -> Nat] : Ranks(rk)

-----------------------------------------------------------------------------
LEMMA Consts ==
    /\ NULL \notin Slot /\ NULL \notin Block /\ NULL \notin Task
    /\ NrRequest \in Nat /\ NrRequest >= 1 /\ Slot \subseteq Nat /\ Block \subseteq Nat
    /\ Task \subseteq Nat
    /\ MaxErrors \in Nat /\ MaxFaults \in Nat /\ MaxCalls \in Nat
<1>1. /\ Task \subseteq Nat /\ Block \subseteq Nat /\ NrRequest \in Nat \ {0}
      /\ MaxErrors \in Nat /\ MaxFaults \in Nat /\ MaxCalls \in Nat
      /\ NULL \notin Task /\ NULL \notin 1 .. NrRequest /\ NULL \notin Block
  BY HardDiskAssumption, Zenon
<1> QED
  BY <1>1 DEF Slot

LEMMA Commands == Command \subseteq {"read", "write"}
BY HardDiskAssumption, Zenon

LEMMA Handlers ==
    /\ NULL # "read_intr" /\ NULL # "write_intr" /\ NULL # "do_request"
BY HardDiskAssumption, Zenon

LEMMA Sector2 == HalfOf(2) = 0 /\ HalfOf(1) = 1
BY DEF HalfOf

\* The types, by kind.
Flags == /\ busy \in [Slot -> BOOLEAN] /\ lock \in [Block -> BOOLEAN]
         /\ uptodate \in [Block -> BOOLEAN] /\ sorting \in BOOLEAN
         /\ torn \in BOOLEAN /\ raced \in BOOLEAN
Lists == /\ next \in [Slot -> Slot \union {NULL}] /\ thisReq \in Slot \union {NULL}
         /\ bh \in [Slot -> Block \union {NULL}]
         /\ rq \in [Task -> Slot \union {NULL}] /\ tmp \in [Task -> Slot \union {NULL}]
         /\ cpu \in Task \union {NULL} /\ waiting \in SUBSET Task
Nums == /\ nsector \in [Slot -> 0 .. 2] /\ errors \in [Slot -> 0 .. MaxErrors + 1]
        /\ cursor \in 0 .. 2 /\ sent \in Half /\ faults \in 0 .. MaxFaults
        /\ moved \in SUBSET (Half \X (0 .. 1)) /\ calls \in 0 .. MaxCalls
Names == /\ cmd \in [Slot -> {"read", "write"}]
         /\ doHd \in {NULL, "read_intr", "write_intr", "do_request"}
         /\ ctl \in {"idle", "transfer", "specify"}
         /\ pc \in [Task -> Pc]
         /\ want \in [Task -> (Block \union {NULL}) \X {"read", "write"}]

LEMMA Types == TypeOK <=> Flags /\ Lists /\ Nums /\ Names
BY Zenon DEF TypeOK, Flags, Lists, Nums, Names

LEMMA TypesNext == Flags' /\ Lists' /\ Nums' /\ Names' => TypeOK'
BY Zenon DEF TypeOK, Flags, Lists, Nums, Names

LEMMA Unfolded ==
    ASSUME IInv
    PROVE  TypeOK /\ Flags /\ Lists /\ Nums /\ Names /\ BufInv /\ ListInv /\ CtlInv
BY Types DEF IInv

\* Where a task may go.
LEMMA PcAre ==
    /\ \A c \in {"idle", "find", "full", "asleep", "sort", "wait", "add", "second", "insert",
                 "added", "start"} : c \in Pc
    /\ \A c \in {"find", "full", "asleep"} : c \in Before /\ c \notin Adding
    /\ \A c \in {"sort", "add", "second", "insert"} : c \in Adding /\ c \notin Before
    /\ \A c \in {"idle", "wait", "added", "start"} : c \notin Adding /\ c \notin Before
BY DEF Pc, InAdd, Before, Adding

Others(t) == \A u \in Task : u # t => pc'[u] = pc[u]

LEMMA Gone ==
    ASSUME Names, NEW t \in Task, NEW c \in Pc, Goto(t, c)
    PROVE  pc' \in [Task -> Pc] /\ Others(t) /\ pc'[t] = c
BY DEF Names, Goto, Others

\* A task inside rw_abs_hd that is awake is the only one.
Awake == {"find", "full", "sort"} \union InAdd
LEMMA OneAwake ==
    ASSUME OnCpu, NEW t \in Task, cpu = t \/ cpu = NULL
    PROVE  \A u \in Task : u # t => pc[u] \notin Awake
BY Consts DEF OnCpu, CpuAt, Awake

-----------------------------------------------------------------------------
\* The frames of the parts: a step of task t, the only one that is awake.
LEMMA TaskList ==
    ASSUME OnCpu, NEW t \in Task, cpu = t \/ cpu = NULL, Others(t),
           AloneAt(t)', TmpAt(t)', CpuAt(t)'
    PROVE  AddingAlone' /\ AddingAt' /\ OnCpu'
<1>1. ASSUME NEW u \in Task, u # t PROVE pc'[u] \notin Awake
  BY <1>1, OneAwake DEF Others
<1>2. ASSUME NEW u \in Task, u # t PROVE AloneAt(u)' /\ TmpAt(u)' /\ CpuAt(u)'
  <2>1. pc'[u] \notin Awake
    BY <1>1, <1>2
  <2>2. pc'[u] \notin Adding
    BY <2>1 DEF Awake, Adding, InAdd
  <2>3. pc'[u] \notin {"add", "second", "insert", "added"}
    BY <2>1 DEF Awake, InAdd
  <2> QED
    BY <2>1, <2>2, <2>3 DEF AloneAt, TmpAt, CpuAt, Awake
<1> QED
  BY <1>2 DEF AddingAlone, AddingAt, OnCpu

LEMMA SameList ==
    ASSUME ListBusy, ListOnce, busy' = busy, next' = next, thisReq' = thisReq
    PROVE  ListBusy' /\ ListOnce'
BY DEF ListBusy, ListOnce

LEMMA SameCtl ==
    ASSUME CtlInv, busy' = busy, nsector' = nsector, errors' = errors, thisReq' = thisReq,
           ctl' = ctl, doHd' = doHd, cursor' = cursor, sent' = sent, moved' = moved, torn' = torn
    PROVE  CtlInv'
BY DEF CtlInv, ReqOpen, Driven, AtSector

LEMMA SameBuf ==
    ASSUME BufInv, busy' = busy, bh' = bh, lock' = lock,
           \A u \in Task : pc'[u] \in Before => pc[u] \in Before /\ want'[u] = want[u]
    PROVE  BufInv'
<1>1. ReqLocked' /\ ReqAlone'
  BY DEF BufInv, ReqLocked, ReqAlone
<1>2. WantLocked' /\ WantAlone'
  BY DEF BufInv, WantLocked, WantAlone
<1> QED
  BY <1>1, <1>2 DEF BufInv

-----------------------------------------------------------------------------
\* rw_abs_hd, up to the request.
LEMMA StartStep ==
    ASSUME IInv, NEW t \in Task, NEW b \in Block, NEW c \in Command, Start(t, b, c)
    PROVE  IInv'
<1>1. /\ cpu = NULL /\ pc[t] = "idle" /\ ~lock[b] /\ calls < MaxCalls /\ calls' = calls + 1
      /\ lock' = [lock EXCEPT ![b] = TRUE] /\ uptodate' = [uptodate EXCEPT ![b] = c = "write"]
      /\ want' = [want EXCEPT ![t] = <<b, c>>] /\ cpu' = t /\ Goto(t, "find")
      /\ UNCHANGED <<busy, cmd, bh, nsector, errors, next>> /\ UNCHANGED <<thisReq, sorting, doHd>>
      /\ UNCHANGED <<ctl, cursor, sent, faults>> /\ UNCHANGED <<moved, torn, raced>>
      /\ UNCHANGED <<rq, tmp, waiting>>
  BY DEF Start, reqVars, drvVars, ctlVars, histVars
<1>2. pc' \in [Task -> Pc] /\ Others(t) /\ pc'[t] = "find"
  BY <1>1, Unfolded, PcAre, Gone
<1>3. Flags' /\ Lists'
  BY <1>1, Unfolded DEF Flags, Lists
<1>4. Nums'
  BY <1>1, Unfolded, Consts DEF Nums
<1>5. Names'
  BY <1>1, <1>2, Unfolded, Commands DEF Names
<1>6. TypeOK'
  BY <1>3, <1>4, <1>5, TypesNext
<1>7. CtlInv'
  BY <1>1, Unfolded, SameCtl
<1>8. ListInv'
  <2>1. ListBusy' /\ ListOnce'
    BY <1>1, Unfolded, SameList DEF ListInv
  <2>2. AloneAt(t)' /\ TmpAt(t)' /\ CpuAt(t)'
    BY <1>1, <1>2, PcAre DEF AloneAt, TmpAt, CpuAt
  <2> QED
    BY <2>1, <2>2, <1>1, <1>2, Unfolded, TaskList DEF ListInv
<1>9. BufInv'
  <2>0. /\ \A x \in Block : x # b => lock'[x] = lock[x]
        /\ lock'[b]
    BY <1>1, Unfolded DEF Flags
  <2>1. \A s \in Slot : busy[s] => bh[s] # b
    BY <1>1, Unfolded DEF BufInv, ReqLocked
  <2>2. ReqLocked' /\ ReqAlone'
    BY <1>1, <2>0, Unfolded DEF BufInv, ReqLocked, ReqAlone
  <2>3. /\ want'[t][1] = b /\ \A u \in Task : u # t => want'[u] = want[u]
    BY <1>1, Unfolded DEF Names
  <2>4. \A u \in Task : u # t /\ pc'[u] \in Before => pc[u] \in Before /\ want[u][1] # b
    BY <1>1, <1>2, Unfolded DEF BufInv, WantLocked, Others
  <2>5. WantLocked'
    BY <1>1, <2>0, <2>1, <2>3, <2>4, Unfolded DEF BufInv, WantLocked
  <2>6. WantAlone'
    BY <2>3, <2>4, Unfolded DEF BufInv, WantAlone
  <2> QED
    BY <2>2, <2>5, <2>6 DEF BufInv
<1> QED
  BY <1>6, <1>7, <1>8, <1>9 DEF IInv

\* A step of t that touches neither the list nor the controller.
LEMMA OwnStep ==
    ASSUME IInv, NEW t \in Task, cpu = t \/ cpu = NULL, Others(t),
           Lists', Names', pc' \in [Task -> Pc],
           UNCHANGED <<busy, cmd, bh, nsector, errors, next>>, thisReq' = thisReq,
           sorting' \in BOOLEAN, doHd' = doHd,
           UNCHANGED <<ctl, cursor, sent, faults>>, UNCHANGED <<lock, uptodate>>,
           UNCHANGED <<moved, torn, raced>>, calls' = calls,
           pc'[t] \in Before => pc[t] \in Before,
           \A u \in Task : pc'[u] \in Before => want'[u] = want[u],
           AloneAt(t)', TmpAt(t)', CpuAt(t)'
    PROVE  IInv'
<1>1. Flags' /\ Nums'
  BY Unfolded DEF Flags, Nums
<1>2. TypeOK'
  BY <1>1, TypesNext
<1>3. CtlInv'
  BY Unfolded, SameCtl
<1>4. ListInv'
  BY Unfolded, SameList, TaskList DEF ListInv
<1>5. BufInv'
  BY Unfolded, SameBuf DEF Others
<1> QED
  BY <1>2, <1>3, <1>4, <1>5 DEF IInv

LEMMA SleepForSlotStep ==
    ASSUME IInv, NEW t \in Task, SleepForSlot(t)
    PROVE  IInv'
<1>1. /\ cpu = t /\ pc[t] = "full" /\ waiting' = waiting \union {t} /\ cpu' = NULL
      /\ Goto(t, "asleep")
      /\ UNCHANGED <<busy, cmd, bh, nsector, errors, next>> /\ UNCHANGED <<thisReq, sorting, doHd>>
      /\ UNCHANGED <<ctl, cursor, sent, faults>> /\ UNCHANGED <<lock, uptodate>>
      /\ UNCHANGED <<moved, torn, raced>> /\ UNCHANGED <<rq, tmp, want, calls>>
  BY DEF SleepForSlot, reqVars, drvVars, ctlVars, bufVars, histVars
<1>2. pc' \in [Task -> Pc] /\ Others(t) /\ pc'[t] = "asleep"
  BY <1>1, Unfolded, PcAre, Gone
<1>3. Lists' /\ Names' /\ sorting' \in BOOLEAN
  BY <1>1, <1>2, Unfolded DEF Lists, Names, Flags
<1>4. AloneAt(t)' /\ TmpAt(t)' /\ CpuAt(t)'
  BY <1>2, PcAre DEF AloneAt, TmpAt, CpuAt, InAdd
<1> QED
  BY <1>1, <1>2, <1>3, <1>4, PcAre, OwnStep

LEMMA SlotWakeUpStep ==
    ASSUME IInv, NEW t \in Task, SlotWakeUp(t)
    PROVE  IInv'
<1>1. /\ cpu = NULL /\ pc[t] = "asleep" /\ cpu' = t /\ Goto(t, "find")
      /\ UNCHANGED <<busy, cmd, bh, nsector, errors, next>> /\ UNCHANGED <<thisReq, sorting, doHd>>
      /\ UNCHANGED <<ctl, cursor, sent, faults>> /\ UNCHANGED <<lock, uptodate>>
      /\ UNCHANGED <<moved, torn, raced>> /\ UNCHANGED <<rq, tmp, want, calls, waiting>>
  BY DEF SlotWakeUp, reqVars, drvVars, ctlVars, bufVars, histVars
<1>2. pc' \in [Task -> Pc] /\ Others(t) /\ pc'[t] = "find"
  BY <1>1, Unfolded, PcAre, Gone
<1>3. Lists' /\ Names' /\ sorting' \in BOOLEAN
  BY <1>1, <1>2, Unfolded DEF Lists, Names, Flags
<1>4. AloneAt(t)' /\ TmpAt(t)' /\ CpuAt(t)'
  BY <1>1, <1>2, PcAre DEF AloneAt, TmpAt, CpuAt
<1> QED
  BY <1>1, <1>2, <1>3, <1>4, PcAre, OwnStep

LEMMA AddRequestStep ==
    ASSUME IInv, NEW t \in Task, AddRequest(t)
    PROVE  IInv'
<1>1. /\ cpu = t /\ pc[t] = "sort" /\ sorting' = TRUE
      /\ tmp' = [tmp EXCEPT ![t] = thisReq] /\ Goto(t, "add")
      /\ UNCHANGED <<busy, cmd, bh, nsector, errors, next>> /\ thisReq' = thisReq /\ doHd' = doHd
      /\ UNCHANGED <<ctl, cursor, sent, faults>> /\ UNCHANGED <<lock, uptodate>>
      /\ UNCHANGED <<moved, torn, raced>> /\ UNCHANGED <<cpu, rq, want, calls, waiting>>
  BY DEF AddRequest, reqVars, ctlVars, bufVars, histVars
<1>2. pc' \in [Task -> Pc] /\ Others(t) /\ pc'[t] = "add"
  BY <1>1, Unfolded, PcAre, Gone
<1>3. Lists' /\ Names' /\ tmp'[t] = thisReq
  BY <1>1, <1>2, Unfolded DEF Lists, Names
<1>4. AloneAt(t)'
  <2>1. AloneAt(t)
    BY Unfolded DEF ListInv, AddingAlone
  <2> QED
    BY <2>1, <1>1, <1>3, PcAre DEF AloneAt
<1>5. TmpAt(t)' /\ CpuAt(t)'
  BY <1>1, <1>2, <1>3 DEF TmpAt, CpuAt
<1>6. sorting' \in BOOLEAN
  BY <1>1
<1> QED
  BY <1>1, <1>2, <1>3, <1>4, <1>5, <1>6, PcAre, OwnStep

LEMMA EndSortingStep ==
    ASSUME IInv, NEW t \in Task, EndSorting(t)
    PROVE  IInv'
<1>1. /\ cpu = t /\ pc[t] = "added" /\ sorting' = FALSE /\ Goto(t, "start")
      /\ UNCHANGED <<busy, cmd, bh, nsector, errors, next>> /\ thisReq' = thisReq /\ doHd' = doHd
      /\ UNCHANGED <<ctl, cursor, sent, faults>> /\ UNCHANGED <<lock, uptodate>>
      /\ UNCHANGED <<moved, torn, raced>> /\ UNCHANGED <<cpu, rq, tmp, want, calls, waiting>>
  BY DEF EndSorting, reqVars, ctlVars, bufVars, histVars
<1>2. pc' \in [Task -> Pc] /\ Others(t) /\ pc'[t] = "start"
  BY <1>1, Unfolded, PcAre, Gone
<1>3. Lists' /\ Names'
  BY <1>1, <1>2, Unfolded DEF Lists, Names
<1>4. AloneAt(t)' /\ TmpAt(t)' /\ CpuAt(t)'
  BY <1>1, <1>2, PcAre DEF AloneAt, TmpAt, CpuAt
<1>5. sorting' \in BOOLEAN
  BY <1>1
<1> QED
  BY <1>1, <1>2, <1>3, <1>4, <1>5, PcAre, OwnStep

LEMMA FinishStep ==
    ASSUME IInv, NEW t \in Task, Finish(t)
    PROVE  IInv'
<1>1. /\ cpu = NULL /\ pc[t] = "wait" /\ want' = [want EXCEPT ![t] = <<NULL, "read">>]
      /\ Goto(t, "idle")
      /\ UNCHANGED <<busy, cmd, bh, nsector, errors, next>> /\ UNCHANGED <<thisReq, sorting, doHd>>
      /\ UNCHANGED <<ctl, cursor, sent, faults>> /\ UNCHANGED <<lock, uptodate>>
      /\ UNCHANGED <<moved, torn, raced>> /\ UNCHANGED <<cpu, rq, tmp, calls, waiting>>
  BY DEF Finish, reqVars, drvVars, ctlVars, bufVars, histVars
<1>2. pc' \in [Task -> Pc] /\ Others(t) /\ pc'[t] = "idle"
  BY <1>1, Unfolded, PcAre, Gone
<1>3. Lists' /\ Names' /\ sorting' \in BOOLEAN
  BY <1>1, <1>2, Unfolded DEF Lists, Names, Flags
<1>4. AloneAt(t)' /\ TmpAt(t)' /\ CpuAt(t)'
  BY <1>2, PcAre DEF AloneAt, TmpAt, CpuAt, InAdd
<1>5. \A u \in Task : pc'[u] \in Before => want'[u] = want[u]
  BY <1>1, <1>2, PcAre, Unfolded DEF Names
<1> QED
  BY <1>1, <1>2, <1>3, <1>4, <1>5, PcAre, OwnStep

LEMMA FindSlotStep ==
    ASSUME IInv, NEW t \in Task, FindSlot(t)
    PROVE  IInv'
<1>1. /\ cpu = t /\ pc[t] = "find" /\ UNCHANGED <<thisReq, sorting, doHd>>
      /\ UNCHANGED <<ctl, cursor, sent, faults>> /\ UNCHANGED <<lock, uptodate>>
      /\ UNCHANGED <<moved, torn, raced>> /\ UNCHANGED <<cpu, tmp, want, calls, waiting>>
  BY DEF FindSlot, drvVars, ctlVars, bufVars, histVars
<1>2. CASE Goto(t, "full") /\ UNCHANGED <<busy, cmd, bh, nsector, errors, next>> /\ rq' = rq
  <2>2. pc' \in [Task -> Pc] /\ Others(t) /\ pc'[t] = "full"
    BY <1>2, Unfolded, PcAre, Gone
  <2>3. Lists' /\ Names' /\ sorting' \in BOOLEAN
    BY <1>1, <1>2, <2>2, Unfolded DEF Lists, Names, Flags
  <2>4. AloneAt(t)' /\ TmpAt(t)' /\ CpuAt(t)'
    BY <1>1, <2>2, PcAre DEF AloneAt, TmpAt, CpuAt
  <2> QED
    BY <1>1, <1>2, <2>2, <2>3, <2>4, PcAre, OwnStep
<1>3. ASSUME NEW s \in Slot, ~busy[s],
             busy' = [busy EXCEPT ![s] = TRUE], cmd' = [cmd EXCEPT ![s] = want[t][2]],
             bh' = [bh EXCEPT ![s] = want[t][1]], nsector' = [nsector EXCEPT ![s] = 2],
             errors' = [errors EXCEPT ![s] = 0], next' = [next EXCEPT ![s] = NULL],
             rq' = [rq EXCEPT ![t] = s], Goto(t, "sort")
      PROVE  IInv'
  <2>1. pc' \in [Task -> Pc] /\ Others(t) /\ pc'[t] = "sort"
    BY <1>3, Unfolded, PcAre, Gone
  <2>2. /\ pc[t] \in Before /\ want[t][1] \in Block /\ want[t][2] \in {"read", "write"}
        /\ lock[want[t][1]] /\ \A r \in Slot : busy[r] => bh[r] # want[t][1]
    BY <1>1, PcAre, Unfolded DEF BufInv, WantLocked, Names
  <2>3. /\ busy'[s] /\ bh'[s] = want[t][1] /\ nsector'[s] = 2 /\ errors'[s] = 0 /\ next'[s] = NULL
        /\ rq'[t] = s
    BY <1>3, Unfolded DEF Flags, Lists, Nums
  <2>4. \A r \in Slot : r # s => /\ busy'[r] = busy[r] /\ bh'[r] = bh[r] /\ next'[r] = next[r]
                                 /\ nsector'[r] = nsector[r] /\ errors'[r] = errors[r]
    BY <1>3, Unfolded DEF Flags, Lists, Nums
  <2>5. Flags' /\ Lists' /\ Nums' /\ Names'
    <3>1. Flags' /\ Lists'
      BY <1>1, <1>3, <2>2, Unfolded DEF Flags, Lists
    <3>2. Nums'
      BY <1>1, <1>3, Unfolded, Consts DEF Nums
    <3>3. Names'
      BY <1>1, <1>3, <2>1, <2>2, Unfolded DEF Names
    <3> QED
      BY <3>1, <3>2, <3>3
  <2>6. TypeOK'
    BY <2>5, TypesNext
  <2>7. thisReq # s /\ thisReq' = thisReq /\ \A r \in Slot : busy[r] => next[r] # s
    BY <1>1, <1>3, Consts, Unfolded DEF ListInv, ListBusy
  <2>8. CtlInv'
    <3>1. ReqOpen'
      <4>1. 0 <= MaxErrors
        BY Consts
      <4> QED
        BY <4>1, <2>3, <2>4, <2>7, Unfolded DEF CtlInv, ReqOpen
    <3>2. Driven'
      BY <1>1, Unfolded DEF CtlInv, Driven
    <3>3. AtSector'
      <4>1. CASE thisReq = NULL
        BY <4>1, <1>1, Unfolded DEF CtlInv, AtSector, Driven
      <4>2. CASE thisReq \in Slot
        <5>1. nsector'[thisReq'] = nsector[thisReq]
          BY <4>2, <2>4, <2>7
        <5> QED
          BY <5>1, <1>1, Unfolded DEF CtlInv, AtSector
      <4> QED
        BY <4>1, <4>2, Unfolded DEF Lists
    <3> QED
      BY <3>1, <3>2, <3>3 DEF CtlInv
  <2>9. ListInv'
    <3>1. ListBusy'
      <4>1. thisReq' # NULL => busy'[thisReq']
        BY <2>4, <2>7, Unfolded DEF ListInv, ListBusy, Lists
      <4>2. ASSUME NEW r \in Slot, busy'[r], next'[r] # NULL PROVE busy'[next'[r]]
        <5>1. r # s /\ busy[r] /\ next'[r] = next[r] /\ next[r] \in Slot
          BY <4>2, <2>3, <2>4, Unfolded DEF Lists
        <5>2. busy[next[r]] /\ next[r] # s
          BY <5>1, <4>2, <2>7, Unfolded DEF ListInv, ListBusy
        <5> QED
          BY <5>1, <5>2, <2>4
      <4> QED
        BY <4>1, <4>2 DEF ListBusy
    <3>2. ListOnce'
      BY <2>3, <2>4, <2>7, Consts, Unfolded DEF ListInv, ListOnce
    <3>3. AloneAt(t)'
      BY <2>3, <2>4, <2>7, <2>1, Consts DEF AloneAt
    <3>4. TmpAt(t)' /\ CpuAt(t)'
      BY <1>1, <2>1 DEF TmpAt, CpuAt, InAdd
    <3> QED
      BY <3>1, <3>2, <3>3, <3>4, <1>1, <2>1, Unfolded, TaskList DEF ListInv
  <2>10. BufInv'
    <3>1. ReqLocked' /\ ReqAlone'
      BY <1>1, <2>2, <2>3, <2>4, Unfolded DEF BufInv, ReqLocked, ReqAlone
    <3>2. \A u \in Task : pc'[u] \in Before => u # t /\ pc[u] \in Before /\ want'[u] = want[u]
      BY <1>1, <2>1, PcAre DEF Others
    <3>3. \A u \in Task : pc'[u] \in Before => want[u][1] # want[t][1]
      BY <3>2, <2>2, Unfolded DEF BufInv, WantAlone
    <3>4. WantLocked'
      BY <1>1, <2>3, <2>4, <3>2, <3>3, Unfolded DEF BufInv, WantLocked
    <3>5. WantAlone'
      BY <3>2, Unfolded DEF BufInv, WantAlone
    <3> QED
      BY <3>1, <3>4, <3>5 DEF BufInv
  <2> QED
    BY <2>6, <2>8, <2>9, <2>10 DEF IInv
<1> QED
  BY <1>2, <1>3 DEF FindSlot, reqVars

-----------------------------------------------------------------------------
\* The walk along the list.  Nth is defined by recursion: that such a function
\* exists, and what it is, needs the least number principle.
After(x) == IF x = NULL THEN NULL ELSE next[x]
Walks(g, s, n) == g[0] = s /\ \A k \in 1 .. n : g[k] = After(g[k - 1])

LEMMA AfterType ==
    ASSUME Lists, NEW x \in Slot \union {NULL}
    PROVE  After(x) \in Slot \union {NULL}
BY DEF Lists, After

LEMMA WalkExists ==
    ASSUME Lists, NEW s \in Slot \union {NULL}, NEW n \in Nat
    PROVE  \E g \in [0 .. n -> Slot \union {NULL}] : Walks(g, s, n)
<1> DEFINE P(m) == \E g \in [0 .. m -> Slot \union {NULL}] : Walks(g, s, m)
<1> DEFINE S == {m \in Nat : ~P(m)}
<1> SUFFICES ASSUME S # {} PROVE FALSE
  OBVIOUS
<1> DEFINE m == Min(S)
<1>1. m \in S /\ \A y \in S : m <= y
  <2>1. S \in SUBSET Nat
    OBVIOUS
  <2> HIDE DEF S
  <2> QED
    BY <2>1, MinIsLeast
<1> HIDE DEF m
<1>2. m \in Nat /\ ~P(m)
  BY <1>1
<1>3. CASE m = 0
  <2> DEFINE g == [k \in 0 .. 0 |-> s]
  <2>1. g \in [0 .. m -> Slot \union {NULL}] /\ Walks(g, s, m)
    BY <1>3 DEF Walks
  <2> QED
    BY <2>1, <1>2
<1>4. CASE m # 0
  <2>1. m - 1 \in Nat /\ m - 1 \notin S
    BY <1>1, <1>2, <1>4
  <2>2. PICK g \in [0 .. m - 1 -> Slot \union {NULL}] : Walks(g, s, m - 1)
    BY <2>1
  <2> DEFINE h == [k \in 0 .. m |-> IF k = m THEN After(g[m - 1]) ELSE g[k]]
  <2>3. g[m - 1] \in Slot \union {NULL}
    BY <1>2, <1>4
  <2>4. h \in [0 .. m -> Slot \union {NULL}]
    <3>1. After(g[m - 1]) \in Slot \union {NULL}
      BY <2>3, AfterType
    <3>2. ASSUME NEW k \in 0 .. m, k # m PROVE g[k] \in Slot \union {NULL}
      BY <3>2, <1>2
    <3> QED
      BY <3>1, <3>2
  <2>5. h[0] = s
    BY <1>2, <1>4, <2>2 DEF Walks
  <2>6. ASSUME NEW k \in 1 .. m PROVE h[k] = After(h[k - 1])
    <3>1. k - 1 \in 0 .. m /\ k - 1 # m /\ h[k - 1] = g[k - 1]
      BY <1>2
    <3>2. CASE k = m
      BY <3>1, <3>2
    <3>3. CASE k # m
      <4>1. k \in 1 .. m - 1 /\ h[k] = g[k]
        BY <3>3, <1>2
      <4> QED
        BY <4>1, <3>1, <2>2 DEF Walks
    <3> QED
      BY <3>2, <3>3
  <2> HIDE DEF h
  <2>7. Walks(h, s, m)
    BY <2>5, <2>6 DEF Walks
  <2> QED
    BY <2>4, <2>7, <1>2
<1> QED
  BY <1>3, <1>4

LEMMA NthWalks ==
    ASSUME Lists, NEW s \in Slot \union {NULL}
    PROVE  /\ Nth(s) \in [0 .. NrRequest -> Slot \union {NULL}]
           /\ Nth(s)[0] = s
           /\ \A n \in 1 .. NrRequest : Nth(s)[n] = After(Nth(s)[n - 1])
<1> DEFINE F(f) == [n \in 0 .. NrRequest |->
                      IF n = 0 THEN s
                      ELSE IF f[n - 1] = NULL THEN NULL ELSE next[f[n - 1]]]
<1>1. PICK g \in [0 .. NrRequest -> Slot \union {NULL}] : Walks(g, s, NrRequest)
  BY Consts, WalkExists
<1>2. g = F(g)
  <2>1. ASSUME NEW n \in 0 .. NrRequest PROVE g[n] = F(g)[n]
    <3>1. CASE n = 0
      BY <3>1, <1>1 DEF Walks
    <3>2. CASE n # 0
      <4>1. n \in 1 .. NrRequest
        BY <3>2, Consts
      <4> QED
        BY <4>1, <3>2, <1>1 DEF Walks, After
    <3> QED
      BY <3>1, <3>2
  <2> QED
    BY <2>1
<1>3. Nth(s) = CHOOSE f : f = F(f)
  BY DEF Nth
<1> HIDE DEF F
<1>4. Nth(s) = F(Nth(s))
  BY <1>2, <1>3
<1> DEFINE f == Nth(s)
<1> HIDE DEF f
<1>5. f = F(f)
  BY <1>4 DEF f
<1>6. /\ DOMAIN f = 0 .. NrRequest /\ f[0] = s
      /\ \A n \in 1 .. NrRequest : f[n] = After(f[n - 1])
  <2>1. /\ DOMAIN F(f) = 0 .. NrRequest /\ F(f)[0] = s
        /\ \A n \in 1 .. NrRequest : F(f)[n] = After(f[n - 1])
    BY Consts DEF F, After
  <2> QED
    BY <1>5, <2>1
<1>7. ASSUME NEW n \in 0 .. NrRequest PROVE f[n] = g[n]
  <2> DEFINE D == {k \in 0 .. NrRequest : f[k] # g[k]}
  <2> SUFFICES ASSUME D # {} PROVE FALSE
    OBVIOUS
  <2> DEFINE m == Min(D)
  <2>1. m \in D /\ \A y \in D : m <= y
    <3>1. D \in SUBSET Nat
      OBVIOUS
    <3> HIDE DEF D
    <3> QED
      BY <3>1, MinIsLeast
  <2> HIDE DEF m
  <2>2. m \in 0 .. NrRequest /\ f[m] # g[m]
    BY <2>1
  <2>3. m # 0
    BY <2>2, <1>1, <1>6 DEF Walks
  <2>4. m \in 1 .. NrRequest /\ m - 1 \in 0 .. NrRequest /\ m - 1 \notin D
    BY <2>1, <2>2, <2>3, Consts
  <2>5. f[m - 1] = g[m - 1]
    BY <2>4
  <2> QED
    BY <2>2, <2>4, <2>5, <1>1, <1>6 DEF Walks
<1>8. \A n \in 0 .. NrRequest : f[n] \in Slot \union {NULL}
  BY <1>7
<1>9. f = [n \in 0 .. NrRequest |-> f[n]]
  BY <1>5, <1>6 DEF F
<1>10. f \in [0 .. NrRequest -> Slot \union {NULL}]
  BY <1>8, <1>9
<1> QED
  BY <1>6, <1>10 DEF f

\* From a request in use the walk meets requests in use only, and never the
\* one that is being added.
LEMMA WalkBusy ==
    ASSUME Lists, ListBusy, NEW s \in Slot, busy[s],
           NEW r \in Slot, s # r, \A x \in Slot : busy[x] => next[x] # r,
           NEW n \in 0 .. NrRequest, Nth(s)[n] # NULL
    PROVE  Nth(s)[n] \in Slot /\ busy[Nth(s)[n]] /\ Nth(s)[n] # r
<1> DEFINE f == Nth(s)
<1>1. /\ f \in [0 .. NrRequest -> Slot \union {NULL}] /\ f[0] = s
      /\ \A k \in 1 .. NrRequest : f[k] = After(f[k - 1])
  BY NthWalks
<1> HIDE DEF f
<1> DEFINE D == {k \in 0 .. NrRequest : f[k] # NULL /\ ~(busy[f[k]] /\ f[k] # r)}
<1>2. D = {}
  <2> SUFFICES ASSUME D # {} PROVE FALSE
    OBVIOUS
  <2> DEFINE m == Min(D)
  <2>1. m \in D /\ \A y \in D : m <= y
    <3>1. D \in SUBSET Nat
      OBVIOUS
    <3> HIDE DEF D
    <3> QED
      BY <3>1, MinIsLeast
  <2> HIDE DEF m
  <2>2. m \in 0 .. NrRequest /\ f[m] # NULL /\ ~(busy[f[m]] /\ f[m] # r)
    BY <2>1
  <2>3. m # 0
    BY <2>2, <1>1
  <2>4. m \in 1 .. NrRequest /\ m - 1 \in 0 .. NrRequest /\ m - 1 \notin D
    BY <2>1, <2>2, <2>3, Consts
  <2>5. f[m - 1] \in Slot \union {NULL} /\ f[m] = After(f[m - 1])
    BY <2>4, <1>1
  <2>6. f[m - 1] \in Slot /\ f[m] = next[f[m - 1]]
    BY <2>5, <2>2 DEF After
  <2>7. busy[f[m - 1]]
    BY <2>4, <2>6, Consts
  <2> QED
    BY <2>2, <2>6, <2>7 DEF ListBusy
<1>3. f[n] \in Slot
  BY <1>1 DEF f
<1> QED
  BY <1>2, <1>3 DEF f

LEMMA AddFirstStep ==
    ASSUME IInv, NEW t \in Task, AddFirst(t)
    PROVE  IInv'
<1>1. /\ cpu = t /\ pc[t] = "add"
      /\ UNCHANGED <<busy, cmd, bh, nsector, errors, next>> /\ sorting' = sorting /\ doHd' = doHd
      /\ UNCHANGED <<ctl, cursor, sent, faults>> /\ UNCHANGED <<lock, uptodate>>
      /\ UNCHANGED <<moved, torn, raced>> /\ UNCHANGED <<cpu, rq, want, calls, waiting>>
  BY DEF AddFirst, reqVars, ctlVars, bufVars, histVars
<1>2. /\ rq[t] \in Slot /\ busy[rq[t]] /\ next[rq[t]] = NULL /\ thisReq # rq[t]
      /\ \A s \in Slot : busy[s] => next[s] # rq[t]
      /\ tmp[t] # rq[t]
  BY <1>1, PcAre, Unfolded DEF ListInv, AddingAlone, AloneAt
<1>3. \/ tmp[t] = thisReq
      \/ /\ tmp[t] \in Slot /\ ~busy[tmp[t]] /\ next[tmp[t]] = thisReq
         /\ ctl # "transfer"
  BY <1>1, Unfolded DEF ListInv, AddingAt, TmpAt
<1>4. sorting /\ sorting' \in BOOLEAN
  BY <1>1, Unfolded DEF ListInv, OnCpu, CpuAt, Flags
<1>5. CASE tmp[t] = NULL /\ thisReq' = rq[t] /\ Goto(t, "added") /\ tmp' = tmp
  <2>1. pc' \in [Task -> Pc] /\ Others(t) /\ pc'[t] = "added"
    BY <1>5, Unfolded, PcAre, Gone
  <2>2. thisReq = NULL
    BY <1>3, <1>5, Consts
  <2>3. Flags' /\ Nums'
    BY <1>1, Unfolded DEF Flags, Nums
  <2>4. Lists' /\ Names'
    BY <1>1, <1>2, <1>5, <2>1, Unfolded DEF Lists, Names
  <2>5. TypeOK'
    BY <2>3, <2>4, TypesNext
  <2>6. CtlInv'
    <3>1. ctl' # "transfer" /\ ctl' = ctl
      BY <1>1, <2>2, Unfolded DEF CtlInv, Driven
    <3>2. \A s \in Slot : busy[s] => nsector[s] = 2 /\ errors[s] <= MaxErrors
      BY <2>2, Consts, Unfolded DEF CtlInv, ReqOpen
    <3>3. ReqOpen'
      BY <3>2, <1>1 DEF ReqOpen
    <3>4. Driven'
      BY <3>1, <1>1, Unfolded DEF CtlInv, Driven
    <3>5. AtSector'
      BY <3>1, <3>2, <1>1, <1>2, <1>5 DEF AtSector
    <3> QED
      BY <3>3, <3>4, <3>5 DEF CtlInv
  <2>7. ListInv'
    <3>1. ListBusy' /\ ListOnce'
      BY <1>1, <1>2, <1>5, Unfolded DEF ListInv, ListBusy, ListOnce
    <3>2. AloneAt(t)' /\ TmpAt(t)' /\ CpuAt(t)'
      BY <1>1, <1>4, <2>1, PcAre DEF AloneAt, TmpAt, CpuAt
    <3> QED
      BY <3>1, <3>2, <1>1, <2>1, Unfolded, TaskList DEF ListInv
  <2>8. BufInv'
    BY <1>1, <2>1, PcAre, Unfolded, SameBuf DEF Others
  <2> QED
    BY <2>5, <2>6, <2>7, <2>8 DEF IInv
<1>6. CASE tmp[t] # NULL /\ Goto(t, "second") /\ thisReq' = thisReq /\ tmp' = tmp
  <2>1. pc' \in [Task -> Pc] /\ Others(t) /\ pc'[t] = "second"
    BY <1>6, Unfolded, PcAre, Gone
  <2>2. Lists' /\ Names' /\ tmp[t] \in Slot
    BY <1>1, <1>6, <2>1, Unfolded DEF Lists, Names
  <2>3. AloneAt(t)' /\ TmpAt(t)' /\ CpuAt(t)'
    BY <1>1, <1>2, <1>4, <1>6, <2>1, <2>2 DEF AloneAt, TmpAt, CpuAt
  <2> QED
    BY <1>1, <1>4, <1>6, <2>1, <2>2, <2>3, PcAre, OwnStep
<1>7. CASE /\ tmp[t] # NULL /\ next[tmp[t]] # NULL /\ tmp' = [tmp EXCEPT ![t] = next[tmp[t]]]
           /\ Goto(t, "insert") /\ thisReq' = thisReq
  <2>1. pc' \in [Task -> Pc] /\ Others(t) /\ pc'[t] = "insert"
    BY <1>7, Unfolded, PcAre, Gone
  <2>2. tmp[t] \in Slot /\ next[tmp[t]] \in Slot /\ tmp'[t] = next[tmp[t]]
    BY <1>7, Unfolded DEF Lists
  <2>3. Lists' /\ Names'
    BY <1>1, <1>7, <2>1, <2>2, Unfolded DEF Lists, Names
  <2>4. \/ thisReq # NULL /\ next[thisReq] = tmp'[t]
        \/ thisReq = tmp'[t] /\ ctl # "transfer"
    BY <1>3, <1>7, <2>2
  <2>5. tmp'[t] # rq[t]
    BY <1>2, <1>3, <1>7, <2>2, Unfolded DEF ListInv, ListBusy
  <2>6. TmpAt(t)'
    BY <1>1, <1>7, <2>1, <2>2, <2>4 DEF TmpAt
  <2>7. AloneAt(t)' /\ CpuAt(t)'
    BY <1>1, <1>2, <1>4, <1>7, <2>1, <2>5 DEF AloneAt, CpuAt
  <2> QED
    BY <1>1, <1>4, <1>7, <2>1, <2>3, <2>6, <2>7, PcAre, OwnStep
<1> QED
  BY <1>5, <1>6, <1>7 DEF AddFirst

\* The list gets its new request behind s.
LEMMA LinkedStep ==
    ASSUME IInv, NEW t \in Task, cpu = t, pc[t] \in Adding, sorting, NEW s \in Slot, s # rq[t],
           UNCHANGED <<busy, cmd, bh, nsector, errors>>, UNCHANGED <<thisReq, sorting, doHd>>,
           UNCHANGED <<ctl, cursor, sent, faults>>, UNCHANGED <<lock, uptodate>>,
           UNCHANGED <<moved, torn, raced>>, UNCHANGED <<cpu, rq, tmp, want, calls, waiting>>,
           Goto(t, "added"),
           next' \in [Slot -> Slot \union {NULL}], next'[s] = rq[t],
           \/ next'[rq[t]] = NULL
           \/ busy[s] /\ next'[rq[t]] = next[s],
           \A r \in Slot : r # s /\ r # rq[t] => next'[r] = next[r]
    PROVE  IInv'
<1>1. pc' \in [Task -> Pc] /\ Others(t) /\ pc'[t] = "added"
  BY Unfolded, PcAre, Gone
<1>2. /\ rq[t] \in Slot /\ busy[rq[t]] /\ next[rq[t]] = NULL /\ thisReq # rq[t]
      /\ \A r \in Slot : busy[r] => next[r] # rq[t]
  BY Unfolded DEF ListInv, AddingAlone, AloneAt
<1>3. Flags' /\ Nums'
  BY Unfolded DEF Flags, Nums
<1>4. Lists' /\ Names'
  BY <1>1, Unfolded DEF Lists, Names
<1>5. TypeOK'
  BY <1>3, <1>4, TypesNext
<1>6. CtlInv'
  BY Unfolded, SameCtl
<1>7. BufInv'
  BY <1>1, PcAre, Unfolded, SameBuf DEF Others
<1>8. ListBusy'
  <2>1. \A r \in Slot : busy[r] /\ next'[r] # NULL => busy[next'[r]]
    BY <1>2, Unfolded DEF ListInv, ListBusy
  <2> QED
    BY <2>1, Unfolded DEF ListInv, ListBusy
<1>9. ListOnce'
  <2>1. ASSUME NEW x \in Slot, NEW r \in Slot, busy[x], busy[r], next'[x] = next'[r],
               next'[x] # NULL
        PROVE  x = r
    BY <2>1, <1>2, Consts, Unfolded DEF ListInv, ListOnce
  <2>2. ASSUME NEW x \in Slot, busy[x], thisReq # NULL PROVE next'[x] # thisReq
    BY <2>2, <1>2, Unfolded DEF ListInv, ListOnce
  <2> QED
    BY <2>1, <2>2 DEF ListOnce
<1>10. AloneAt(t)' /\ TmpAt(t)' /\ CpuAt(t)'
  BY <1>1, PcAre DEF AloneAt, TmpAt, CpuAt
<1>11. ListInv'
  BY <1>1, <1>8, <1>9, <1>10, Unfolded, TaskList DEF ListInv
<1> QED
  BY <1>5, <1>6, <1>7, <1>11 DEF IInv

LEMMA AddSecondStep ==
    ASSUME IInv, NEW t \in Task, AddSecond(t)
    PROVE  IInv'
<1>1. /\ cpu = t /\ pc[t] = "second" /\ next' = [next EXCEPT ![tmp[t]] = rq[t]]
      /\ Goto(t, "added")
      /\ UNCHANGED <<busy, cmd, bh, nsector, errors>> /\ UNCHANGED <<thisReq, sorting, doHd>>
      /\ UNCHANGED <<ctl, cursor, sent, faults>> /\ UNCHANGED <<lock, uptodate>>
      /\ UNCHANGED <<moved, torn, raced>> /\ UNCHANGED <<cpu, rq, tmp, want, calls, waiting>>
  BY DEF AddSecond, drvVars, ctlVars, bufVars, histVars
<1>2. pc[t] \in Adding /\ sorting /\ tmp[t] \in Slot
  BY <1>1, PcAre, Unfolded DEF ListInv, OnCpu, CpuAt, AddingAt, TmpAt
<1>3. tmp[t] # rq[t] /\ rq[t] \in Slot /\ next[rq[t]] = NULL
  BY <1>1, PcAre, Unfolded DEF ListInv, AddingAlone, AloneAt
<1>4. /\ next' \in [Slot -> Slot \union {NULL}] /\ next'[tmp[t]] = rq[t]
      /\ next'[rq[t]] = NULL
      /\ \A r \in Slot : r # tmp[t] /\ r # rq[t] => next'[r] = next[r]
  BY <1>1, <1>2, <1>3, Unfolded DEF Lists
<1> QED
  BY <1>1, <1>2, <1>3, <1>4, LinkedStep

\* The request that the elevator stops at is in use and not the new one.
LEMMA StopsAtBusy ==
    ASSUME IInv, NEW t \in Task, pc[t] = "insert", NEW n \in 0 .. NrRequest,
           Nth(tmp[t])[n] # NULL
    PROVE  /\ tmp[t] \in Slot /\ busy[tmp[t]]
           /\ Nth(tmp[t])[n] \in Slot /\ busy[Nth(tmp[t])[n]] /\ Nth(tmp[t])[n] # rq[t]
<1>1. tmp[t] \in Slot /\ (\/ thisReq # NULL /\ next[thisReq] = tmp[t]
                          \/ thisReq = tmp[t])
  BY Unfolded DEF ListInv, AddingAt, TmpAt
<1>2. busy[tmp[t]]
  BY <1>1, Consts, Unfolded DEF ListInv, ListBusy, Lists
<1>3. /\ tmp[t] # rq[t] /\ rq[t] \in Slot
      /\ \A r \in Slot : busy[r] => next[r] # rq[t]
  BY PcAre, Unfolded DEF ListInv, AddingAlone, AloneAt
<1> QED
  BY <1>1, <1>2, <1>3, Unfolded, WalkBusy DEF ListInv

LEMMA AddSortedStep ==
    ASSUME IInv, NEW t \in Task, AddSorted(t)
    PROVE  IInv'
<1>1. /\ cpu = t /\ pc[t] = "insert" /\ Goto(t, "added")
      /\ UNCHANGED <<busy, cmd, bh, nsector, errors>> /\ UNCHANGED <<thisReq, sorting, doHd>>
      /\ UNCHANGED <<ctl, cursor, sent, faults>> /\ UNCHANGED <<lock, uptodate>>
      /\ UNCHANGED <<moved, torn, raced>> /\ UNCHANGED <<cpu, rq, tmp, want, calls, waiting>>
  BY DEF AddSorted, drvVars, ctlVars, bufVars, histVars
<1>2. PICK n \in 0 .. NrRequest : Nth(tmp[t])[n] # NULL /\ InsertAfter(t, Nth(tmp[t])[n])
  BY DEF AddSorted
<1> DEFINE s == Nth(tmp[t])[n]
<1>3. s \in Slot /\ busy[s] /\ s # rq[t] /\ InsertAfter(t, s)
  BY <1>1, <1>2, StopsAtBusy
<1> HIDE DEF s
<1>4. pc[t] \in Adding /\ sorting /\ rq[t] \in Slot
  BY <1>1, PcAre, Unfolded DEF ListInv, OnCpu, CpuAt, AddingAlone, AloneAt
<1>5. /\ next' \in [Slot -> Slot \union {NULL}] /\ next'[s] = rq[t]
      /\ next'[rq[t]] = next[s]
      /\ \A r \in Slot : r # s /\ r # rq[t] => next'[r] = next[r]
  BY <1>3, <1>4, Unfolded DEF InsertAfter, Lists
<1> QED
  BY <1>1, <1>3, <1>4, <1>5, LinkedStep

-----------------------------------------------------------------------------
\* do_request leaves the controller and the handler in agreement, and starts
\* nothing while add_request is at work.
LEMMA DoRequestCtl ==
    ASSUME Names, Nums, NEW r \in Slot \union {NULL}, DoRequest(r), thisReq' = r,
           r # NULL => /\ nsector[r] \in {1, 2} /\ nsector'[r] = nsector[r]
                       /\ nsector[r] = 1 => torn'
    PROVE  /\ Driven' /\ AtSector'
           /\ sorting => ctl' # "transfer"
           /\ doHd' \in {NULL, "read_intr", "write_intr", "do_request"}
           /\ ctl' \in {"idle", "transfer", "specify"}
           /\ cursor' \in 0 .. 2 /\ sent' \in Half /\ faults' \in 0 .. MaxFaults
<1>1. CASE ctl' = "idle" /\ NoData /\ UNCHANGED faults
           /\ doHd' \in {NULL, "read_intr", "write_intr", "do_request"}
  <2>1. cursor' \in 0 .. 2 /\ sent' \in Half /\ faults' \in 0 .. MaxFaults
    BY <1>1 DEF NoData, Nums, Half
  <2>2. Driven'
    BY <1>1 DEF Driven
  <2>3. AtSector'
    BY <1>1 DEF AtSector
  <2> QED
    BY <1>1, <2>1, <2>2, <2>3
<1>2. CASE /\ ~sorting /\ r # NULL
           /\ doHd' = (IF cmd[r] = "read" THEN "read_intr" ELSE "write_intr")
           /\ ctl' = "transfer" /\ cursor' = 0
           /\ sent' = (IF cmd[r] = "write" THEN HalfOf(nsector[r]) ELSE 0)
           /\ UNCHANGED faults
  <2>1. cursor' \in 0 .. 2 /\ sent' \in Half /\ faults' \in 0 .. MaxFaults
    BY <1>2, Sector2 DEF Nums, Half
  <2>2. Driven'
    BY <1>2 DEF Driven
  <2>3. nsector[r] = 2 => sent' = 0
    BY <1>2, Sector2
  <2>4. AtSector'
    BY <1>2, <2>3 DEF AtSector
  <2> QED
    BY <1>2, <2>1, <2>2, <2>4
<1>3. CASE ~sorting /\ r # NULL /\ faults < MaxFaults /\ faults' = faults + 1 /\ ResetHd
  <2>1. cursor' \in 0 .. 2 /\ sent' \in Half /\ faults' \in 0 .. MaxFaults
    BY <1>3, Consts DEF Nums, Half, ResetHd, NoData
  <2>2. ctl' = "specify" /\ doHd' = "do_request"
    BY <1>3 DEF ResetHd
  <2>3. Driven'
    BY <2>2 DEF Driven
  <2>4. AtSector'
    BY <1>3, <2>2 DEF AtSector
  <2> QED
    BY <2>1, <2>2, <2>3, <2>4
<1> QED
  BY <1>1, <1>2, <1>3 DEF DoRequest, Names

\* A request resumed in mid-block with the controller at rest is torn.
LEMMA TornAtRest ==
    ASSUME IInv, thisReq # NULL, ctl # "transfer"
    PROVE  /\ thisReq \in Slot /\ nsector[thisReq] \in {1, 2}
           /\ nsector[thisReq] = 1 => torn
<1>1. thisReq \in Slot /\ busy[thisReq]
  BY Unfolded DEF Lists, ListInv, ListBusy
<1> QED
  BY <1>1, Unfolded DEF CtlInv, ReqOpen, AtSector

LEMMA RestartStep ==
    ASSUME IInv, NEW t \in Task, Restart(t)
    PROVE  IInv'
<1>1. /\ cpu = t /\ pc[t] = "start" /\ cpu' = NULL
      /\ rq' = [rq EXCEPT ![t] = NULL] /\ tmp' = [tmp EXCEPT ![t] = NULL] /\ Goto(t, "wait")
      /\ UNCHANGED <<busy, cmd, bh, nsector, errors, next>> /\ UNCHANGED <<thisReq, sorting>>
      /\ UNCHANGED <<lock, uptodate>> /\ UNCHANGED <<moved, torn, raced>>
      /\ UNCHANGED <<want, calls, waiting>>
  BY DEF Restart, reqVars, bufVars, histVars
<1>2. pc' \in [Task -> Pc] /\ Others(t) /\ pc'[t] = "wait"
  BY <1>1, Unfolded, PcAre, Gone
<1>3. /\ CtlInv'
      /\ doHd' \in {NULL, "read_intr", "write_intr", "do_request"}
      /\ ctl' \in {"idle", "transfer", "specify"}
      /\ cursor' \in 0 .. 2 /\ sent' \in Half /\ faults' \in 0 .. MaxFaults
  <2>1. CASE doHd # NULL /\ doHd' = doHd /\ UNCHANGED <<ctl, cursor, sent, faults>>
    BY <1>1, <2>1, Unfolded, SameCtl DEF Names, Nums
  <2>2. CASE doHd = NULL /\ DoRequest(thisReq)
    <3>1. ctl # "transfer"
      BY <2>2, Handlers, Unfolded DEF CtlInv, Driven
    <3>2. thisReq # NULL => /\ nsector[thisReq] \in {1, 2}
                            /\ nsector'[thisReq] = nsector[thisReq]
                            /\ nsector[thisReq] = 1 => torn'
      BY <3>1, <1>1, TornAtRest
    <3>3. thisReq \in Slot \union {NULL} /\ thisReq' = thisReq
      BY <1>1, Unfolded DEF Lists
    <3>4. ReqOpen'
      BY <1>1, Unfolded DEF CtlInv, ReqOpen
    <3> QED
      BY <2>2, <3>2, <3>3, <3>4, Unfolded, DoRequestCtl DEF CtlInv
  <2> QED
    BY <2>1, <2>2 DEF Restart, ctlVars
<1>4. Flags' /\ Lists'
  BY <1>1, Unfolded DEF Flags, Lists
<1>5. Nums'
  BY <1>1, <1>3, Unfolded DEF Nums
<1>6. Names'
  BY <1>1, <1>2, <1>3, Unfolded DEF Names
<1>7. TypeOK'
  BY <1>4, <1>5, <1>6, TypesNext
<1>8. BufInv'
  BY <1>1, <1>2, PcAre, Unfolded, SameBuf DEF Others
<1>9. ListInv'
  <2>1. AloneAt(t)' /\ TmpAt(t)' /\ CpuAt(t)'
    BY <1>2, PcAre DEF AloneAt, TmpAt, CpuAt, InAdd
  <2> QED
    BY <2>1, <1>1, <1>2, Unfolded, SameList, TaskList DEF ListInv
<1> QED
  BY <1>3, <1>7, <1>8, <1>9 DEF IInv

-----------------------------------------------------------------------------
\* The handlers leave the tasks alone.
Still == /\ UNCHANGED <<cpu, pc, rq, tmp, want, calls>> /\ sorting' = sorting
         /\ UNCHANGED <<cmd, bh, next>> /\ raced' \in BOOLEAN /\ torn' \in BOOLEAN

LEMMA IntrList ==
    ASSUME ListInv, Still, busy' = busy, thisReq' = thisReq,
           ctl' = ctl \/ (sorting => ctl' # "transfer")
    PROVE  ListInv'
<1>1. ListBusy' /\ ListOnce'
  BY SameList DEF ListInv, Still
<1>2. AddingAlone' /\ OnCpu'
  BY DEF ListInv, AddingAlone, AloneAt, OnCpu, CpuAt, Still
<1>3. AddingAt'
  BY DEF ListInv, AddingAt, TmpAt, OnCpu, CpuAt, Still
<1> QED
  BY <1>1, <1>2, <1>3 DEF ListInv

\* this_request is over, and nothing is started while add_request is at work.
LEMMA EndList ==
    ASSUME IInv, Still, thisReq \in Slot, ctl = "transfer", sorting => ctl' # "transfer",
           busy' = [busy EXCEPT ![thisReq] = FALSE], thisReq' = next[thisReq]
    PROVE  ListInv'
<1>0. next' = next /\ sorting' = sorting /\ UNCHANGED <<cpu, pc, rq, tmp>>
  BY DEF Still
<1>1. ~busy'[thisReq] /\ \A s \in Slot : s # thisReq => busy'[s] = busy[s]
  BY Unfolded DEF Flags
<1>2. busy[thisReq] /\ \A s \in Slot : busy[s] => next[s] # thisReq
  BY Consts, Unfolded DEF ListInv, ListBusy, ListOnce
<1>3. ListBusy'
  <2>1. ASSUME thisReq' # NULL PROVE busy'[thisReq']
    <3>1. next[thisReq] \in Slot /\ busy[next[thisReq]] /\ next[thisReq] # thisReq
      BY <2>1, <1>2, Unfolded DEF Lists, ListInv, ListBusy
    <3> QED
      BY <3>1, <1>1
  <2>2. ASSUME NEW s \in Slot, busy'[s], next[s] # NULL PROVE busy'[next[s]]
    <3>1. busy[s] /\ next[s] \in Slot
      BY <2>2, <1>1, Unfolded DEF Lists
    <3>2. busy[next[s]] /\ next[s] # thisReq
      BY <2>2, <3>1, <1>2, Unfolded DEF ListInv, ListBusy
    <3> QED
      BY <3>1, <3>2, <1>1
  <2> QED
    BY <2>1, <2>2, <1>0 DEF ListBusy
<1>4. ListOnce'
  <2>1. \A s, r \in Slot : busy'[s] /\ busy'[r] /\ next[s] = next[r] /\ next[s] # NULL => s = r
    BY <1>1, Unfolded DEF ListInv, ListOnce
  <2>2. \A s \in Slot : busy'[s] /\ thisReq' # NULL => next[s] # thisReq'
    BY <1>1, <1>2, Unfolded DEF ListInv, ListOnce
  <2> QED
    BY <2>1, <2>2, <1>0 DEF ListOnce
<1>5. AddingAlone'
  <2>1. ASSUME NEW t \in Task PROVE AloneAt(t)'
    <3>1. AloneAt(t)
      BY Unfolded DEF ListInv, AddingAlone
    <3> QED
      BY <3>1, <1>0, <1>1, <1>2 DEF AloneAt
  <2> QED
    BY <2>1 DEF AddingAlone
<1>6. AddingAt'
  <2>1. ASSUME NEW t \in Task PROVE TmpAt(t)'
    <3>1. TmpAt(t) /\ CpuAt(t)
      BY Unfolded DEF ListInv, AddingAt, OnCpu
    <3> QED
      BY <3>1, <1>0, <1>1 DEF TmpAt, CpuAt
  <2> QED
    BY <2>1 DEF AddingAt
<1>7. OnCpu'
  BY <1>0, Unfolded DEF ListInv, OnCpu, CpuAt
<1> QED
  BY <1>3, <1>4, <1>5, <1>6, <1>7 DEF ListInv

LEMMA EndBuf ==
    ASSUME IInv, Still, thisReq \in Slot, NEW ok \in BOOLEAN, EndRequest(thisReq, ok)
    PROVE  BufInv' /\ Flags' /\ thisReq' = next[thisReq] /\ waiting' = {}
<1> DEFINE b == bh[thisReq]
<1>1. /\ lock' = [lock EXCEPT ![b] = FALSE] /\ uptodate' = [uptodate EXCEPT ![b] = ok]
      /\ busy' = [busy EXCEPT ![thisReq] = FALSE] /\ thisReq' = next[thisReq] /\ waiting' = {}
  BY DEF EndRequest
<1>2. busy[thisReq] /\ b \in Block
  BY Consts, Unfolded DEF ListInv, ListBusy, BufInv, ReqLocked
<1>3. /\ ~busy'[thisReq] /\ \A s \in Slot : s # thisReq => busy'[s] = busy[s]
      /\ \A x \in Block : x # b => lock'[x] = lock[x]
  BY <1>1, <1>2, Unfolded DEF Flags
<1>4. bh' = bh /\ pc' = pc /\ want' = want
  BY DEF Still
<1>5. \A s \in Slot : busy'[s] => busy[s] /\ bh[s] # b
  BY <1>2, <1>3, Unfolded DEF BufInv, ReqAlone
<1>6. \A t \in Task : pc[t] \in Before => want[t][1] # b
  BY <1>2, Unfolded DEF BufInv, WantLocked
<1> HIDE DEF b
<1>7. ReqLocked' /\ ReqAlone'
  BY <1>3, <1>4, <1>5, Unfolded DEF BufInv, ReqLocked, ReqAlone
<1>8. WantLocked' /\ WantAlone'
  BY <1>3, <1>4, <1>5, <1>6, Unfolded DEF BufInv, WantLocked, WantAlone
<1>9. raced' \in BOOLEAN /\ torn' \in BOOLEAN /\ sorting' = sorting
  BY DEF Still
<1> QED
  BY <1>1, <1>7, <1>8, <1>9, Unfolded DEF BufInv, Flags

\* What a transfer handler finds.
LEMMA Transfer ==
    ASSUME IInv, ctl # "idle", doHd \in {"read_intr", "write_intr"}
    PROVE  /\ ctl = "transfer" /\ thisReq \in Slot /\ busy[thisReq]
           /\ nsector[thisReq] \in {1, 2} /\ errors[thisReq] <= MaxErrors /\ cursor \in {0, 1}
<1>1. ctl = "transfer"
  BY Unfolded DEF Names, CtlInv, Driven
<1>2. thisReq # NULL /\ cursor \in {0, 1}
  BY <1>1, Unfolded DEF CtlInv, Driven
<1>3. thisReq \in Slot /\ busy[thisReq]
  BY <1>2, Unfolded DEF Lists, ListInv, ListBusy
<1> QED
  BY <1>1, <1>2, <1>3, Unfolded DEF CtlInv, ReqOpen

\* A good first sector.
LEMMA FirstSector ==
    ASSUME IInv, Still, ctl = "transfer", thisReq \in Slot, busy[thisReq], nsector[thisReq] = 2,
           nsector' = [nsector EXCEPT ![thisReq] = @ - 1],
           errors' \in [Slot -> 0 .. MaxErrors + 1],
           \A s \in Slot : errors'[s] = errors[s] \/ errors'[s] = 0,
           cursor' = cursor + 1, sent' \in Half, doHd = "write_intr" => sent' = 1,
           UNCHANGED <<ctl, faults, doHd>>, UNCHANGED <<lock, uptodate, busy, thisReq, waiting>>,
           moved' = {<<0, 0>>}
    PROVE  IInv'
<1>1. cursor = 0 /\ doHd \in {"read_intr", "write_intr"}
  BY Unfolded DEF CtlInv, Driven, AtSector
<1>2. /\ nsector'[thisReq] = 1 /\ \A s \in Slot : s # thisReq => nsector'[s] = nsector[s]
      /\ nsector' \in [Slot -> 0 .. 2]
  BY Unfolded DEF Nums
<1>3. moved' \in SUBSET (Half \X (0 .. 1)) /\ cursor' = 1 /\ calls' = calls
  BY <1>1 DEF Half, Still
<1>4. Flags' /\ Lists'
  BY Unfolded DEF Flags, Lists, Still
<1>5. Nums'
  BY <1>2, <1>3, Unfolded DEF Nums
<1>6. Names'
  BY Unfolded DEF Names, Still
<1>7. ListInv'
  BY Unfolded, IntrList
<1>8. BufInv'
  BY Unfolded, SameBuf DEF Still
<1>9. CtlInv'
  <2>1. ReqOpen'
    <3>1. 0 <= MaxErrors
      BY Consts
    <3> QED
      BY <3>1, <1>2, Unfolded DEF CtlInv, ReqOpen
  <2>2. Driven'
    BY <1>1, <1>3, Unfolded DEF CtlInv, Driven
  <2>3. AtSector'
    BY <1>1, <1>2, <1>3 DEF AtSector
  <2> QED
    BY <2>1, <2>2, <2>3 DEF CtlInv
<1> QED
  BY <1>4, <1>5, <1>6, <1>7, <1>8, <1>9, TypesNext DEF IInv

\* A good second sector: the request is over and the next one is started.
LEMMA SecondSector ==
    ASSUME IInv, Still, ctl = "transfer", thisReq \in Slot, busy[thisReq], nsector[thisReq] = 1,
           nsector' = [nsector EXCEPT ![thisReq] = @ - 1],
           errors' \in [Slot -> 0 .. MaxErrors + 1],
           \A s \in Slot : errors'[s] = errors[s] \/ errors'[s] = 0,
           moved' \in SUBSET (Half \X (0 .. 1)),
           EndRequest(thisReq, TRUE), DoRequest(next[thisReq])
    PROVE  IInv'
<1>1. BufInv' /\ Flags' /\ thisReq' = next[thisReq] /\ waiting' = {}
  BY EndBuf
<1>2. busy' = [busy EXCEPT ![thisReq] = FALSE]
  BY DEF EndRequest
<1>3. ~busy'[thisReq] /\ \A s \in Slot : s # thisReq => busy'[s] = busy[s]
  BY <1>2, Unfolded DEF Flags
<1>4. /\ \A s \in Slot : s # thisReq => nsector'[s] = nsector[s]
      /\ nsector' \in [Slot -> 0 .. 2]
  BY Unfolded DEF Nums
<1>5. next[thisReq] # NULL => /\ next[thisReq] \in Slot /\ next[thisReq] # thisReq
                              /\ busy[next[thisReq]] /\ nsector[next[thisReq]] = 2
  <2>1. next[thisReq] # thisReq /\ next[thisReq] \in Slot \union {NULL}
    BY Consts, Unfolded DEF ListInv, ListOnce, Lists
  <2>2. next[thisReq] # NULL => busy[next[thisReq]]
    BY Unfolded DEF ListInv, ListBusy
  <2> QED
    BY <2>1, <2>2, Unfolded DEF CtlInv, ReqOpen
<1>6. next[thisReq] # NULL => /\ nsector[next[thisReq]] \in {1, 2}
                              /\ nsector'[next[thisReq]] = nsector[next[thisReq]]
                              /\ nsector[next[thisReq]] = 1 => torn'
  BY <1>4, <1>5
<1>7. next[thisReq] \in Slot \union {NULL}
  BY Unfolded DEF Lists
<1>8. /\ Driven' /\ AtSector' /\ (sorting => ctl' # "transfer")
      /\ doHd' \in {NULL, "read_intr", "write_intr", "do_request"}
      /\ ctl' \in {"idle", "transfer", "specify"}
      /\ cursor' \in 0 .. 2 /\ sent' \in Half /\ faults' \in 0 .. MaxFaults
  BY <1>1, <1>6, <1>7, Unfolded, DoRequestCtl
<1>9. ListInv'
  BY <1>1, <1>2, <1>8, EndList
<1>10. Lists'
  BY <1>1, <1>7, Unfolded DEF Lists, Still
<1>11. Nums'
  BY <1>4, <1>8, Unfolded DEF Nums, Still
<1>12. Names'
  BY <1>8, Unfolded DEF Names, Still
<1>13. ReqOpen'
  <2>1. 0 <= MaxErrors
    BY Consts
  <2> QED
    BY <2>1, <1>3, <1>4, Unfolded DEF CtlInv, ReqOpen
<1> QED
  BY <1>1, <1>8, <1>9, <1>10, <1>11, <1>12, <1>13, TypesNext DEF IInv, CtlInv

\* What read_intr and write_intr move.
LEMMA Moved ==
    ASSUME NEW r \in Slot, NEW h \in Half, Move(r, h), nsector[r] \in {1, 2}, Nums, Flags,
           cursor \in {0, 1}
    PROVE  /\ torn' \in BOOLEAN /\ moved' \in SUBSET (Half \X (0 .. 1))
           /\ nsector[r] = 2 => moved' = {<<h, cursor>>}
           /\ nsector[r] = 1 => moved' = {<<h, cursor>>} \union moved /\ torn' = torn
<1>1. CASE nsector[r] = 2
  <2>1. moved' = {<<h, cursor>>} /\ torn' \in BOOLEAN
    BY <1>1 DEF Move
  <2> QED
    BY <1>1, <2>1 DEF Half
<1>2. CASE nsector[r] = 1
  <2>1. moved' = {<<h, cursor>>} \union moved /\ torn' = torn
    BY <1>2 DEF Move, Flags
  <2>2. {<<h, cursor>>} \union moved \in SUBSET (Half \X (0 .. 1))
    BY DEF Nums, Half
  <2> QED
    BY <1>2, <2>1, <2>2 DEF Flags
<1> QED
  BY <1>1, <1>2

LEMMA ReadIntrStep ==
    ASSUME IInv, ctl # "idle", doHd = "read_intr", raced' \in BOOLEAN, ReadIntr(thisReq)
    PROVE  IInv'
<1>1. /\ ctl = "transfer" /\ thisReq \in Slot /\ busy[thisReq]
      /\ nsector[thisReq] \in {1, 2} /\ cursor \in {0, 1}
  BY Transfer
<1>2. /\ Move(thisReq, HalfOf(nsector[thisReq]))
      /\ errors' = [errors EXCEPT ![thisReq] = 0]
      /\ nsector' = [nsector EXCEPT ![thisReq] = @ - 1]
      /\ UNCHANGED <<cmd, bh, next, sorting, cpu, pc, rq, tmp, want, calls>>
  BY DEF ReadIntr
<1>3. HalfOf(nsector[thisReq]) \in Half
  BY <1>1, Sector2 DEF Half
<1>4. /\ torn' \in BOOLEAN /\ moved' \in SUBSET (Half \X (0 .. 1))
      /\ nsector[thisReq] = 2 => moved' = {<<0, cursor>>}
  BY <1>1, <1>2, <1>3, Moved, Sector2, Unfolded
<1>5. Still
  BY <1>2, <1>4 DEF Still
<1>6. errors' \in [Slot -> 0 .. MaxErrors + 1]
  <2>1. 0 \in 0 .. MaxErrors + 1
    BY Consts
  <2>2. errors \in [Slot -> 0 .. MaxErrors + 1]
    BY Unfolded DEF Nums
  <2> QED
    BY <1>2, <2>1, <2>2
<1>7. \A s \in Slot : errors'[s] = errors[s] \/ errors'[s] = 0
  BY <1>2, Unfolded DEF Nums
<1>8. CASE /\ nsector[thisReq] > 1 /\ cursor' = cursor + 1
           /\ UNCHANGED <<ctl, sent, faults, doHd, lock, uptodate, busy, thisReq, waiting>>
  <2>1. nsector[thisReq] = 2 /\ cursor = 0
    BY <1>1, <1>8, Unfolded DEF CtlInv, AtSector
  <2>2. moved' = {<<0, 0>>} /\ sent' \in Half
    BY <2>1, <1>4, <1>8, Unfolded DEF Nums
  <2> QED
    BY <1>1, <1>2, <1>5, <1>6, <1>7, <1>8, <2>1, <2>2, FirstSector
<1>9. CASE nsector[thisReq] = 1 /\ EndRequest(thisReq, TRUE) /\ DoRequest(next[thisReq])
  BY <1>1, <1>2, <1>4, <1>5, <1>6, <1>7, <1>9, SecondSector
<1> QED
  BY <1>8, <1>9 DEF ReadIntr

LEMMA WriteIntrStep ==
    ASSUME IInv, ctl # "idle", doHd = "write_intr", raced' \in BOOLEAN, WriteIntr(thisReq)
    PROVE  IInv'
<1>1. /\ ctl = "transfer" /\ thisReq \in Slot /\ busy[thisReq]
      /\ nsector[thisReq] \in {1, 2} /\ cursor \in {0, 1}
  BY Transfer
<1>2. /\ Move(thisReq, sent)
      /\ nsector' = [nsector EXCEPT ![thisReq] = @ - 1]
      /\ UNCHANGED <<cmd, bh, errors, next, sorting, cpu, pc, rq, tmp, want, calls>>
  BY DEF WriteIntr
<1>3. sent \in Half /\ 1 \in Half
  BY Unfolded DEF Nums, Half
<1>4. /\ torn' \in BOOLEAN /\ moved' \in SUBSET (Half \X (0 .. 1))
      /\ nsector[thisReq] = 2 => moved' = {<<sent, cursor>>}
  BY <1>1, <1>2, <1>3, Moved, Unfolded
<1>5. Still
  BY <1>2, <1>4 DEF Still
<1>6. errors' = errors /\ errors' \in [Slot -> 0 .. MaxErrors + 1]
  BY <1>2, Unfolded DEF Nums
<1>7. CASE /\ nsector[thisReq] > 1 /\ cursor' = cursor + 1 /\ sent' = 1
           /\ UNCHANGED <<ctl, faults, doHd, lock, uptodate, busy, thisReq, waiting>>
  <2>1. nsector[thisReq] = 2 /\ cursor = 0 /\ sent = 0
    BY <1>1, <1>7, Unfolded DEF CtlInv, AtSector
  <2>2. moved' = {<<0, 0>>} /\ sent' \in Half
    BY <2>1, <1>3, <1>4, <1>7
  <2> QED
    BY <1>1, <1>2, <1>5, <1>6, <1>7, <2>1, <2>2, FirstSector
<1>8. CASE nsector[thisReq] = 1 /\ EndRequest(thisReq, TRUE) /\ DoRequest(next[thisReq])
  BY <1>1, <1>2, <1>4, <1>5, <1>6, <1>8, SecondSector
<1> QED
  BY <1>7, <1>8 DEF WriteIntr

LEMMA BadRwIntrStep ==
    ASSUME IInv, ctl # "idle", doHd \in {"read_intr", "write_intr"}, raced' \in BOOLEAN,
           BadRwIntr(thisReq)
    PROVE  IInv'
<1>1. /\ ctl = "transfer" /\ thisReq \in Slot /\ busy[thisReq]
      /\ nsector[thisReq] \in {1, 2} /\ errors[thisReq] <= MaxErrors
  BY Transfer
<1>2. /\ faults < MaxFaults /\ faults' = faults + 1
      /\ errors' = [errors EXCEPT ![thisReq] = @ + 1] /\ ResetHd
      /\ UNCHANGED <<cmd, bh, nsector, next, sorting, moved, cpu, pc, rq, tmp, want, calls>>
      /\ \/ errors[thisReq] >= MaxErrors /\ EndRequest(thisReq, FALSE) /\ UNCHANGED torn
         \/ /\ errors[thisReq] < MaxErrors /\ torn' = (torn \/ nsector[thisReq] = 1)
            /\ UNCHANGED <<lock, uptodate, busy, thisReq, waiting>>
  BY DEF BadRwIntr
<1>3. ctl' = "specify" /\ doHd' = "do_request" /\ cursor' = 0 /\ sent' = 0
  BY <1>2 DEF ResetHd, NoData
<1>4. torn' \in BOOLEAN
  BY <1>2, Unfolded DEF Flags
<1>5. Still
  BY <1>2, <1>4 DEF Still
<1>6. Driven' /\ (sorting => ctl' # "transfer")
  BY <1>3 DEF Driven
<1>7. Names'
  BY <1>2, <1>3, Unfolded DEF Names
<1>8. Nums'
  <2>1. errors' \in [Slot -> 0 .. MaxErrors + 1]
    BY <1>1, <1>2, Consts, Unfolded DEF Nums
  <2>2. faults' \in 0 .. MaxFaults
    BY <1>2, Consts, Unfolded DEF Nums
  <2> QED
    BY <2>1, <2>2, <1>2, <1>3, Unfolded DEF Nums, Half
<1>9. \A s \in Slot : s # thisReq => errors'[s] = errors[s]
  BY <1>2, Unfolded DEF Nums
<1>10. CASE EndRequest(thisReq, FALSE) /\ UNCHANGED torn
  <2>1. BufInv' /\ Flags' /\ thisReq' = next[thisReq] /\ waiting' = {}
    BY <1>1, <1>5, <1>10, EndBuf
  <2>2. busy' = [busy EXCEPT ![thisReq] = FALSE]
    BY <1>10 DEF EndRequest
  <2>3. ~busy'[thisReq] /\ \A s \in Slot : s # thisReq => busy'[s] = busy[s]
    BY <2>2, <1>1, Unfolded DEF Flags
  <2>4. ListInv'
    BY <1>1, <1>5, <1>6, <2>1, <2>2, EndList
  <2>5. Lists'
    BY <1>1, <1>2, <2>1, Unfolded DEF Lists
  <2>6. ReqOpen'
    BY <1>2, <1>9, <2>3, Unfolded DEF CtlInv, ReqOpen
  <2>7. AtSector'
    <3>1. next[thisReq] # thisReq /\ next[thisReq] \in Slot \union {NULL}
      BY <1>1, Consts, Unfolded DEF ListInv, ListOnce, Lists
    <3>2. next[thisReq] # NULL => busy[next[thisReq]]
      BY <1>1, Unfolded DEF ListInv, ListBusy
    <3>3. next[thisReq] # NULL => nsector[next[thisReq]] = 2
      BY <3>1, <3>2, Unfolded DEF CtlInv, ReqOpen
    <3> QED
      BY <3>3, <2>1, <1>2, <1>3 DEF AtSector
  <2> QED
    BY <1>6, <1>7, <1>8, <2>1, <2>4, <2>5, <2>6, <2>7, TypesNext DEF IInv, CtlInv
<1>11. CASE /\ errors[thisReq] < MaxErrors /\ torn' = (torn \/ nsector[thisReq] = 1)
            /\ UNCHANGED <<lock, uptodate, busy, thisReq, waiting>>
  <2>1. ListInv'
    BY <1>5, <1>6, <1>11, Unfolded, IntrList
  <2>2. BufInv'
    BY <1>2, <1>11, Unfolded, SameBuf
  <2>3. Flags' /\ Lists'
    BY <1>2, <1>4, <1>11, Unfolded DEF Flags, Lists
  <2>4. errors'[thisReq] <= MaxErrors
    BY <1>1, <1>2, <1>11, Consts, Unfolded DEF Nums
  <2>5. ReqOpen'
    BY <1>2, <1>9, <1>11, <2>4, Unfolded DEF CtlInv, ReqOpen
  <2>6. AtSector'
    BY <1>2, <1>3, <1>11 DEF AtSector
  <2> QED
    BY <1>6, <1>7, <1>8, <2>1, <2>2, <2>3, <2>5, <2>6, TypesNext DEF IInv, CtlInv
<1> QED
  BY <1>2, <1>10, <1>11

LEMMA SpecifyStep ==
    ASSUME IInv, ctl # "idle", doHd = "do_request", raced' \in BOOLEAN, DoRequest(thisReq),
           UNCHANGED <<reqVars, thisReq, sorting, bufVars, moved, torn, taskVars>>
    PROVE  IInv'
<1>1. /\ UNCHANGED <<busy, cmd, bh, nsector, errors, next>> /\ UNCHANGED <<thisReq, sorting>>
      /\ UNCHANGED <<lock, uptodate>> /\ UNCHANGED <<moved, torn>>
      /\ UNCHANGED <<cpu, pc, rq, tmp, want, calls, waiting>>
  BY DEF reqVars, bufVars, taskVars
<1>2. ctl # "transfer"
  BY Unfolded DEF CtlInv, Driven
<1>3. thisReq # NULL => /\ nsector[thisReq] \in {1, 2} /\ nsector'[thisReq] = nsector[thisReq]
                        /\ nsector[thisReq] = 1 => torn'
  BY <1>1, <1>2, TornAtRest
<1>4. thisReq \in Slot \union {NULL}
  BY Unfolded DEF Lists
<1>5. /\ Driven' /\ AtSector' /\ (sorting => ctl' # "transfer")
      /\ doHd' \in {NULL, "read_intr", "write_intr", "do_request"}
      /\ ctl' \in {"idle", "transfer", "specify"}
      /\ cursor' \in 0 .. 2 /\ sent' \in Half /\ faults' \in 0 .. MaxFaults
  BY <1>1, <1>3, <1>4, Unfolded, DoRequestCtl
<1>6. Flags' /\ Lists'
  BY <1>1, Unfolded DEF Flags, Lists
<1>7. Nums' /\ Names'
  BY <1>1, <1>5, Unfolded DEF Nums, Names
<1>8. Still
  BY <1>1, Unfolded DEF Still, Flags
<1>9. ListInv'
  BY <1>1, <1>5, <1>8, Unfolded, IntrList
<1>10. BufInv'
  BY <1>1, Unfolded, SameBuf
<1>11. ReqOpen'
  BY <1>1, Unfolded DEF CtlInv, ReqOpen
<1> QED
  BY <1>5, <1>6, <1>7, <1>9, <1>10, <1>11, TypesNext DEF IInv, CtlInv

-----------------------------------------------------------------------------
LEMMA Starts == Init => IInv
<1> SUFFICES ASSUME Init PROVE IInv
  OBVIOUS
<1>1. Flags /\ Lists
  BY DEF Init, Flags, Lists
<1>2. Nums
  BY Consts DEF Init, Nums, Half
<1>3. Names
  BY PcAre DEF Init, Names
<1>4. (\A s \in Slot : ~busy[s]) /\ (\A t \in Task : pc[t] = "idle") /\ thisReq = NULL
  BY DEF Init
<1>5. BufInv
  BY <1>4, PcAre DEF BufInv, ReqLocked, ReqAlone, WantLocked, WantAlone
<1>6. ListInv
  <2>1. ListBusy /\ ListOnce
    BY <1>4 DEF ListBusy, ListOnce
  <2>2. AddingAlone /\ AddingAt
    BY <1>4, PcAre DEF AddingAlone, AloneAt, AddingAt, TmpAt
  <2>3. OnCpu
    BY <1>4 DEF OnCpu, CpuAt, InAdd
  <2> QED
    BY <2>1, <2>2, <2>3 DEF ListInv
<1>7. CtlInv
  BY <1>4 DEF Init, CtlInv, ReqOpen, Driven, AtSector
<1> QED
  BY <1>1, <1>2, <1>3, <1>5, <1>6, <1>7, Types DEF IInv

LEMMA Idles == IInv /\ UNCHANGED vars => IInv'
<1> SUFFICES ASSUME IInv, UNCHANGED vars PROVE IInv'
  OBVIOUS
<1>1. /\ UNCHANGED <<busy, cmd, bh, nsector, errors, next>> /\ UNCHANGED <<thisReq, sorting, doHd>>
      /\ UNCHANGED <<ctl, cursor, sent, faults>> /\ UNCHANGED <<lock, uptodate>>
      /\ UNCHANGED <<moved, torn, raced>> /\ UNCHANGED <<cpu, pc, rq, tmp, want, calls, waiting>>
  BY DEF vars, reqVars, drvVars, ctlVars, bufVars, histVars, taskVars
<1>2. TypeOK'
  BY <1>1, Unfolded DEF TypeOK
<1>3. BufInv'
  BY <1>1, Unfolded, SameBuf
<1>4. CtlInv'
  BY <1>1, Unfolded, SameCtl
<1>5. ListInv'
  BY <1>1, Unfolded, IntrList DEF Still, Flags
<1> QED
  BY <1>2, <1>3, <1>4, <1>5 DEF IInv

LEMMA Steps == IInv /\ [Next]_vars => IInv'
<1> SUFFICES ASSUME IInv, [Next]_vars PROVE IInv'
  OBVIOUS
<1>1. ASSUME NEW t \in Task, NEW b \in Block, NEW c \in Command, Start(t, b, c) PROVE IInv'
  BY <1>1, StartStep
<1>2. ASSUME NEW t \in Task, TaskStep(t) PROVE IInv'
  BY <1>2, FindSlotStep, SleepForSlotStep, SlotWakeUpStep, AddRequestStep, AddFirstStep,
     AddSecondStep, AddSortedStep, EndSortingStep, RestartStep, FinishStep DEF TaskStep
<1>3. CASE HdInterrupt
  <2>1. ctl # "idle" /\ raced' \in BOOLEAN
    BY <1>3, Unfolded DEF HdInterrupt, Flags
  <2> QED
    BY <2>1, <1>3, ReadIntrStep, WriteIntrStep, BadRwIntrStep, SpecifyStep DEF HdInterrupt
<1>4. CASE UNCHANGED vars
  BY <1>4, Idles
<1> QED
  BY <1>1, <1>2, <1>3, <1>4 DEF Next

LEMMA Invariant == Spec => []IInv
BY Starts, Steps, PTL DEF Spec

\* hd_interrupt: whatever it interrupts in rw_abs_hd and add_request, it finds
\* a handler, and a transfer handler finds this_request in use and its buffer
\* locked: unexpected_hd_interrupt never panics.
THEOREM HandlerFound == Spec => []HandlerReady
<1>1. ASSUME IInv PROVE HandlerReady
  <2>1. ASSUME ctl # "idle" PROVE doHd # NULL
    BY <2>1, <1>1, Handlers, Unfolded DEF Names, CtlInv, Driven
  <2>2. ASSUME ctl # "idle", doHd \in {"read_intr", "write_intr"}
        PROVE  thisReq # NULL /\ busy[thisReq] /\ lock[bh[thisReq]]
    <3>1. thisReq \in Slot /\ busy[thisReq]
      BY <2>2, <1>1, Transfer
    <3> QED
      BY <3>1, <1>1, Consts, Unfolded DEF BufInv, ReqLocked
  <2> QED
    BY <2>1, <2>2, <1>1, Unfolded DEF HandlerReady
<1> QED
  BY <1>1, Invariant, PTL

-----------------------------------------------------------------------------
\* The last sector of a request that was not resumed in mid-block puts the
\* second half next to the first.
Placed == torn' \/ moved' = {<<h, h>> : h \in Half}

LEMMA BothHalves == {<<1, 1>>} \union {<<0, 0>>} = {<<h, h>> : h \in Half}
BY DEF Half

LEMMA LastSector ==
    ASSUME IInv, ctl = "transfer", thisReq \in Slot, nsector[thisReq] = 1,
           NEW h \in Half, Move(thisReq, h), doHd = "write_intr" => h = sent,
           doHd # "write_intr" => h = 1, cursor \in {0, 1}
    PROVE  Placed
<1>1. moved' = {<<h, cursor>>} \union moved /\ torn' = torn
  BY Unfolded, Moved
<1>2. CASE torn
  BY <1>1, <1>2 DEF Placed
<1>3. CASE ~torn
  <2>1. cursor = 1 /\ moved = {<<0, 0>>} /\ (doHd = "write_intr" => sent = 1)
    BY <1>3, Consts, Unfolded DEF CtlInv, AtSector
  <2>2. h = 1
    BY <2>1
  <2> QED
    BY <1>1, <2>1, <2>2, BothHalves DEF Placed
<1> QED
  BY <1>2, <1>3

LEMMA Unlocks ==
    ASSUME IInv, [Next]_vars, NEW b \in Block, lock[b], ~lock'[b], uptodate'[b]
    PROVE  Placed
<1>1. ASSUME NEW t \in Task, NEW x \in Block, NEW c \in Command, Start(t, x, c) PROVE FALSE
  <2>1. lock' = [lock EXCEPT ![x] = TRUE]
    BY <1>1 DEF Start
  <2> QED
    BY <2>1, Unfolded DEF Flags
<1>2. ASSUME NEW t \in Task, TaskStep(t) PROVE FALSE
  <2>1. lock' = lock
    BY <1>2 DEF TaskStep, FindSlot, SleepForSlot, SlotWakeUp, AddRequest, AddFirst, AddSecond,
       AddSorted, EndSorting, Restart, Finish, bufVars
  <2> QED
    BY <2>1
<1>3. CASE UNCHANGED vars
  BY <1>3 DEF vars, bufVars
<1>4. CASE HdInterrupt
  <2>1. ctl # "idle"
    BY <1>4 DEF HdInterrupt
  <2>2. CASE doHd = "read_intr" /\ ReadIntr(thisReq)
    <3>1. ctl = "transfer" /\ thisReq \in Slot /\ cursor \in {0, 1}
      BY <2>1, <2>2, Transfer
    <3>2. nsector[thisReq] = 1 /\ Move(thisReq, HalfOf(nsector[thisReq]))
      BY <2>2 DEF ReadIntr
    <3>3. Move(thisReq, 1) /\ 1 \in Half
      BY <3>2, Sector2 DEF Half
    <3> QED
      BY <2>2, <3>1, <3>2, <3>3, LastSector
  <2>3. CASE doHd = "write_intr" /\ WriteIntr(thisReq)
    <3>1. ctl = "transfer" /\ thisReq \in Slot /\ cursor \in {0, 1}
      BY <2>1, <2>3, Transfer
    <3>2. nsector[thisReq] = 1 /\ Move(thisReq, sent)
      BY <2>3 DEF WriteIntr
    <3>3. sent \in Half
      BY Unfolded DEF Nums
    <3> QED
      BY <2>3, <3>1, <3>2, <3>3, LastSector
  <2>4. CASE doHd \in {"read_intr", "write_intr"} /\ BadRwIntr(thisReq)
    <3>1. EndRequest(thisReq, FALSE)
      BY <2>4 DEF BadRwIntr
    <3>2. /\ lock' = [lock EXCEPT ![bh[thisReq]] = FALSE]
          /\ uptodate' = [uptodate EXCEPT ![bh[thisReq]] = FALSE]
      BY <3>1 DEF EndRequest
    <3>3. b = bh[thisReq]
      BY <3>2, Unfolded DEF Flags
    <3> QED
      BY <3>2, <3>3, Unfolded DEF Flags
  <2>5. CASE UNCHANGED bufVars
    BY <2>5 DEF bufVars
  <2> QED
    BY <1>4, <2>2, <2>3, <2>4, <2>5 DEF HdInterrupt
<1> QED
  BY <1>1, <1>2, <1>3, <1>4 DEF Next

\* read_intr and write_intr: a buffer that is unlocked as up to date has each
\* half exchanged with its own sector, unless an error in the second sector
\* made bad_rw_intr resume the request in mid-block.
THEOREM HalvesPlaced == Spec => DataPlaced
<1>1. ASSUME IInv, [Next]_vars
      PROVE  [\A b \in Block : lock[b] /\ ~lock'[b] /\ uptodate'[b] =>
                torn' \/ moved' = {<<h, h>> : h \in Half}]_vars
  BY <1>1, Unlocks DEF Placed
<1> QED
  BY <1>1, Invariant, PTL DEF Spec, DataPlaced

-----------------------------------------------------------------------------
\* The list as numbers: what follows from Ranks.

\* Two requests on the list have two numbers.
LEMMA RanksDiffer ==
    ASSUME NEW rk \in [Slot -> Nat], Ranks(rk), NEW s \in Slot, NEW r \in Slot,
           OnList(s), OnList(r), rk[s] = rk[r]
    PROVE  s = r
<1> DEFINE D == {n \in Nat : \E x, y \in Slot : /\ OnList(x) /\ OnList(y) /\ x # y
                                                /\ rk[x] = n /\ rk[y] = n}
<1> SUFFICES ASSUME s # r PROVE FALSE
  OBVIOUS
<1>1. rk[s] \in D
  OBVIOUS
<1> DEFINE m == Min(D)
<1>2. m \in D /\ \A k \in D : m <= k
  <2>1. D \in SUBSET Nat /\ D # {}
    BY <1>1
  <2> HIDE DEF D
  <2> QED
    BY <2>1, MinIsLeast
<1> HIDE DEF m
<1>3. PICK x \in Slot, y \in Slot : OnList(x) /\ OnList(y) /\ x # y /\ rk[x] = m /\ rk[y] = m
  BY <1>2
<1>4. m \in Nat /\ m # 0
  BY <1>3 DEF Ranks
<1>5. x # thisReq /\ y # thisReq
  BY <1>3, <1>4 DEF Ranks
<1>6. PICK p \in Slot : OnList(p) /\ next[p] = x
  BY <1>3, <1>5 DEF Ranks
<1>7. PICK q \in Slot : OnList(q) /\ next[q] = y
  BY <1>3, <1>5 DEF Ranks
<1>8. rk[p] + 1 = m /\ rk[q] + 1 = m
  BY <1>3, <1>6, <1>7, Consts DEF Ranks
<1>9. p # q
  BY <1>3, <1>6, <1>7
<1>10. rk[p] \in D
  BY <1>6, <1>7, <1>8, <1>9
<1> QED
  BY <1>2, <1>8, <1>10

\* What the walk does when the list ends.
LEMMA WalkEnds ==
    ASSUME Lists, NEW s \in Slot \union {NULL}, NEW i \in 0 .. NrRequest, Nth(s)[i] = NULL,
           NEW j \in i .. NrRequest
    PROVE  Nth(s)[j] = NULL
<1> DEFINE f == Nth(s)
<1>1. \A n \in 1 .. NrRequest : f[n] = After(f[n - 1])
  BY NthWalks
<1>2. f[i] = NULL
  OBVIOUS
<1> HIDE DEF f
<1> DEFINE D == {k \in i .. NrRequest : f[k] # NULL}
<1> SUFFICES ASSUME f[j] # NULL PROVE FALSE
  BY DEF f
<1> DEFINE m == Min(D)
<1>3. m \in D /\ \A k \in D : m <= k
  <2>1. D \in SUBSET Nat /\ j \in D
    BY Consts
  <2> HIDE DEF D
  <2> QED
    BY <2>1, MinIsLeast
<1> HIDE DEF m
<1>4. m \in i .. NrRequest /\ f[m] # NULL
  BY <1>3
<1>5. m # i
  BY <1>2, <1>4
<1>6. m - 1 \in i .. NrRequest /\ m \in 1 .. NrRequest /\ m - 1 \notin D
  BY <1>3, <1>4, <1>5, Consts
<1>7. f[m - 1] = NULL
  BY <1>6
<1> QED
  BY <1>1, <1>4, <1>6, <1>7 DEF After

\* From a request on the list the walk is on the list, one number at a time,
\* comes to its end and passes every request with a higher number.
LEMMA WalkRanks ==
    ASSUME Lists, NEW rk \in [Slot -> Nat], Ranks(rk), NEW s \in Slot, OnList(s),
           NEW n \in 0 .. NrRequest, Nth(s)[n] # NULL
    PROVE  Nth(s)[n] \in Slot /\ OnList(Nth(s)[n]) /\ rk[Nth(s)[n]] = rk[s] + n
<1> DEFINE f == Nth(s)
<1>1. /\ f \in [0 .. NrRequest -> Slot \union {NULL}] /\ f[0] = s
      /\ \A k \in 1 .. NrRequest : f[k] = After(f[k - 1])
  BY NthWalks
<1> HIDE DEF f
<1> DEFINE D == {k \in 0 .. NrRequest : f[k] # NULL /\ ~(OnList(f[k]) /\ rk[f[k]] = rk[s] + k)}
<1>2. D = {}
  <2> SUFFICES ASSUME D # {} PROVE FALSE
    OBVIOUS
  <2> DEFINE m == Min(D)
  <2>1. m \in D /\ \A y \in D : m <= y
    <3>1. D \in SUBSET Nat
      OBVIOUS
    <3> HIDE DEF D
    <3> QED
      BY <3>1, MinIsLeast
  <2> HIDE DEF m
  <2>2. m \in 0 .. NrRequest /\ f[m] # NULL /\ ~(OnList(f[m]) /\ rk[f[m]] = rk[s] + m)
    BY <2>1
  <2>3. m # 0
    BY <2>2, <1>1
  <2>4. m \in 1 .. NrRequest /\ m - 1 \in 0 .. NrRequest /\ m - 1 \notin D
    BY <2>1, <2>2, <2>3, Consts
  <2>5. f[m - 1] \in Slot \union {NULL} /\ f[m] = After(f[m - 1])
    BY <2>4, <1>1
  <2>6. f[m - 1] \in Slot /\ f[m] = next[f[m - 1]]
    BY <2>5, <2>2 DEF After
  <2>7. OnList(f[m - 1]) /\ rk[f[m - 1]] = rk[s] + (m - 1)
    BY <2>4, <2>6, Consts
  <2>8. OnList(f[m]) /\ rk[f[m]] = rk[f[m - 1]] + 1
    BY <2>2, <2>6, <2>7 DEF Ranks
  <2>9. rk[s] \in Nat
    OBVIOUS
  <2> QED
    BY <2>2, <2>7, <2>8, <2>9
<1>3. f[n] \in Slot
  BY <1>1 DEF f
<1> QED
  BY <1>2, <1>3 DEF f

LEMMA WalkStops ==
    ASSUME Lists, NEW rk \in [Slot -> Nat], Ranks(rk), NEW s \in Slot, OnList(s)
    PROVE  Nth(s)[NrRequest] = NULL
<1> SUFFICES ASSUME Nth(s)[NrRequest] # NULL PROVE FALSE
  OBVIOUS
<1>1. NrRequest \in 0 .. NrRequest
  BY Consts
<1>2. ASSUME NEW n \in 0 .. NrRequest PROVE Nth(s)[n] # NULL
  <2>1. NrRequest \in n .. NrRequest
    BY Consts
  <2> QED
    BY <2>1, WalkEnds
<1>3. \A n \in 0 .. NrRequest : Nth(s)[n] \in Slot /\ rk[Nth(s)[n]] = rk[s] + n
  BY <1>2, WalkRanks
<1> DEFINE f == [n \in 0 .. NrRequest |-> Nth(s)[n]]
<1>4. f \in [0 .. NrRequest -> Slot]
  BY <1>3
<1>5. IsFiniteSet(0 .. NrRequest) /\ Cardinality(0 .. NrRequest) = NrRequest + 1
  <2>1. 0 \in Int /\ NrRequest \in Int /\ ~(0 > NrRequest) /\ NrRequest - 0 + 1 = NrRequest + 1
    BY Consts
  <2> QED
    BY <2>1, FS_Interval
<1>6. IsFiniteSet(Slot) /\ Cardinality(Slot) = NrRequest
  <2>1. 1 \in Int /\ NrRequest \in Int /\ ~(1 > NrRequest) /\ NrRequest - 1 + 1 = NrRequest
    BY Consts
  <2> QED
    BY <2>1, FS_Interval DEF Slot
<1>7. Cardinality(Slot) < Cardinality(0 .. NrRequest)
  BY <1>5, <1>6, Consts
<1>8. PICK x \in 0 .. NrRequest, y \in 0 .. NrRequest : x # y /\ f[x] = f[y]
  <2> DEFINE A == 0 .. NrRequest
  <2>1. IsFiniteSet(A) /\ IsFiniteSet(Slot) /\ Cardinality(Slot) < Cardinality(A)
    BY <1>5, <1>6, <1>7
  <2>2. f \in [A -> Slot]
    BY <1>4
  <2> HIDE DEF f, A
  <2>3. \E x, y \in A : x # y /\ f[x] = f[y]
    BY <2>1, <2>2, FS_PigeonHole
  <2> QED
    BY <2>3 DEF A
<1>9. rk[s] + x = rk[s] + y /\ rk[s] \in Nat
  BY <1>3, <1>8
<1> QED
  BY <1>8, <1>9

LEMMA WalkReaches ==
    ASSUME Lists, NEW rk \in [Slot -> Nat], Ranks(rk), NEW s \in Slot, OnList(s),
           NEW x \in Slot, OnList(x), rk[x] >= rk[s]
    PROVE  \E n \in 0 .. NrRequest - 1 : Nth(s)[n] = x
<1> DEFINE f == Nth(s)
<1>1. /\ f \in [0 .. NrRequest -> Slot \union {NULL}] /\ f[0] = s
      /\ \A k \in 1 .. NrRequest : f[k] = After(f[k - 1])
  BY NthWalks
<1>2. f[NrRequest] = NULL
  BY WalkStops
<1> HIDE DEF f
<1> DEFINE Met(y) == \E n \in 0 .. NrRequest - 1 : f[n] = y
<1> DEFINE D == {k \in Nat : \E y \in Slot : OnList(y) /\ rk[y] = k /\ k >= rk[s] /\ ~Met(y)}
<1> SUFFICES ASSUME ~Met(x) PROVE FALSE
  BY DEF f
<1>3. rk[x] \in D
  OBVIOUS
<1> DEFINE m == Min(D)
<1>4. m \in D /\ \A k \in D : m <= k
  <2>1. D \in SUBSET Nat /\ D # {}
    BY <1>3
  <2> HIDE DEF D
  <2> QED
    BY <2>1, MinIsLeast
<1> HIDE DEF m
<1>5. PICK y \in Slot : OnList(y) /\ rk[y] = m /\ m >= rk[s] /\ ~Met(y)
  BY <1>4
<1>6. rk[s] \in Nat /\ m \in Nat
  BY <1>4
<1>7. Met(s)
  BY <1>1, Consts
<1>8. m # rk[s]
  BY <1>5, <1>7, RanksDiffer
<1>9. m # 0 /\ y # thisReq
  BY <1>5, <1>6, <1>8 DEF Ranks
<1>10. PICK p \in Slot : OnList(p) /\ next[p] = y
  BY <1>5, <1>9 DEF Ranks
<1>11. rk[p] + 1 = m /\ rk[p] \in Nat
  BY <1>5, <1>10, Consts DEF Ranks
<1>12. rk[p] >= rk[s] /\ ~(m <= rk[p])
  BY <1>5, <1>6, <1>8, <1>11
<1>13. Met(p)
  BY <1>4, <1>10, <1>11, <1>12
<1>14. PICK n \in 0 .. NrRequest - 1 : f[n] = p
  BY <1>13
<1>15. n + 1 \in 1 .. NrRequest /\ (n + 1) - 1 = n
  BY Consts
<1>16. f[n + 1] = y
  BY <1>1, <1>10, <1>14, <1>15, Consts DEF After
<1>17. n + 1 # NrRequest
  BY <1>2, <1>16, Consts
<1>18. n + 1 \in 0 .. NrRequest - 1
  BY <1>15, <1>17, Consts
<1> QED
  BY <1>5, <1>16, <1>18

\* Without a first request there is none.
LEMMA EmptyList ==
    ASSUME NEW rk \in [Slot -> Nat], Ranks(rk), thisReq = NULL
    PROVE  \A s \in Slot : ~OnList(s)
<1> SUFFICES ASSUME NEW s \in Slot, OnList(s) PROVE FALSE
  OBVIOUS
<1> DEFINE D == {n \in Nat : \E x \in Slot : OnList(x) /\ rk[x] = n}
<1> DEFINE m == Min(D)
<1>1. m \in D /\ \A k \in D : m <= k
  <2>1. D \in SUBSET Nat /\ rk[s] \in D
    OBVIOUS
  <2> HIDE DEF D
  <2> QED
    BY <2>1, MinIsLeast
<1> HIDE DEF m
<1>2. PICK x \in Slot : OnList(x) /\ rk[x] = m
  BY <1>1
<1>3. PICK p \in Slot : OnList(p) /\ next[p] = x
  BY <1>2, Consts DEF Ranks
<1>4. rk[p] + 1 = m /\ rk[p] \in Nat
  BY <1>2, <1>3, Consts DEF Ranks
<1>5. rk[p] \in D
  BY <1>3
<1> QED
  BY <1>1, <1>4, <1>5

-----------------------------------------------------------------------------
\* The properties of the list that the runs check, from IInv and QInv.
LEMMA ListProperties ==
    ASSUME IInv, QInv, ~raced
    PROVE  /\ Nth(thisReq)[NrRequest] = NULL
           /\ \A s \in Queue : busy[s]
           /\ \A s \in Slot : OnList(s) => s \in Queue
<1>1. Lists /\ thisReq \in Slot \union {NULL} /\ NrRequest \in 0 .. NrRequest
  BY Unfolded, Consts DEF Lists
<1>2. PICK rk \in [Slot -> Nat] : Ranks(rk)
  BY DEF QInv
<1>3. CASE thisReq = NULL
  <2>1. Nth(thisReq)[0] = NULL /\ 0 \in 0 .. NrRequest
    BY <1>1, <1>3, NthWalks, Consts
  <2>2. \A n \in 0 .. NrRequest : Nth(thisReq)[n] = NULL
    BY <2>1, <1>1, WalkEnds
  <2>3. Queue = {}
    BY <2>2 DEF Queue
  <2> QED
    BY <1>1, <1>2, <1>3, <2>2, <2>3, EmptyList
<1>4. CASE thisReq \in Slot
  <2>1. OnList(thisReq) /\ rk[thisReq] = 0
    BY <1>2, <1>4, Consts DEF Ranks
  <2>2. Nth(thisReq)[NrRequest] = NULL
    BY <1>1, <1>2, <1>4, <2>1, WalkStops
  <2>3. ASSUME NEW s \in Queue PROVE busy[s]
    <3>1. PICK n \in 0 .. NrRequest : Nth(thisReq)[n] = s /\ s # NULL
      BY <2>3 DEF Queue
    <3> QED
      BY <3>1, <1>1, <1>2, <1>4, <2>1, WalkRanks DEF OnList
  <2>4. ASSUME NEW s \in Slot, OnList(s) PROVE s \in Queue
    <3>1. rk[s] >= rk[thisReq]
      BY <2>1
    <3>2. PICK n \in 0 .. NrRequest - 1 : Nth(thisReq)[n] = s
      BY <2>4, <3>1, <1>1, <1>2, <1>4, <2>1, WalkReaches
    <3>3. n \in 0 .. NrRequest /\ s # NULL
      BY Consts
    <3> QED
      BY <3>2, <3>3 DEF Queue
  <2> QED
    BY <2>2, <2>3, <2>4
<1> QED
  BY <1>1, <1>3, <1>4

LEMMA AllOnList == IInv /\ QInv => NoLostRequest
<1> SUFFICES ASSUME IInv, QInv, ~raced
             PROVE  /\ Nth(thisReq)[NrRequest] = NULL
                    /\ \A s \in Queue : busy[s]
                    /\ \A s \in Slot : busy[s] =>
                        \/ s \in Queue
                        \/ \E t \in Task : rq[t] = s /\ pc[t] \in {"sort"} \union InAdd
  BY DEF NoLostRequest
<1>1. ASSUME NEW s \in Slot, busy[s]
      PROVE  \/ s \in Queue
             \/ \E t \in Task : rq[t] = s /\ pc[t] \in {"sort"} \union InAdd
  <2>1. Adding \subseteq {"sort"} \union InAdd
    BY DEF Adding, InAdd
  <2>2. CASE OnList(s)
    BY <2>2, ListProperties
  <2>3. CASE \E t \in Task : pc[t] \in Adding /\ rq[t] = s
    BY <2>1, <2>3
  <2> QED
    BY <2>2, <2>3, <1>1 DEF OnList
<1> QED
  BY <1>1, ListProperties

LEMMA OneDescent == IInv /\ QInv => TwoSweeps
<1> DEFINE f == Nth(thisReq)
<1> DEFINE Tail == {n \in 2 .. NrRequest : thisReq # NULL /\ f[n] # NULL}
<1> DEFINE Descents == {n \in Tail : ~InOrder(f[n - 1], f[n])}
<1> SUFFICES ASSUME IInv, QInv, ~raced PROVE Cardinality(Descents) <= 1
  BY DEF TwoSweeps
<1>1. Lists /\ thisReq \in Slot \union {NULL}
  BY Unfolded DEF Lists
<1>2. PICK rk \in [Slot -> Nat] : Ranks(rk)
  BY DEF QInv
<1>3. ASSUME NEW n \in Descents
      PROVE  /\ n \in Nat /\ f[n - 1] \in Slot /\ Falls(f[n - 1]) /\ rk[f[n - 1]] = n - 1
  <2>1. /\ n \in 2 .. NrRequest /\ n \in 0 .. NrRequest /\ n \in 1 .. NrRequest
        /\ n - 1 \in 0 .. NrRequest /\ n \in n - 1 .. NrRequest /\ n - 1 >= 1 /\ n \in Nat
    BY <1>3, Consts
  <2>2. thisReq \in Slot /\ f[n] # NULL /\ ~InOrder(f[n - 1], f[n])
    BY <1>1, <1>3
  <2>3. f[n] = After(f[n - 1]) /\ f[n - 1] # NULL
    BY <1>1, <2>1, <2>2, NthWalks DEF After
  <2>4. OnList(thisReq) /\ rk[thisReq] = 0
    BY <1>2, <2>2, Consts DEF Ranks
  <2>5. f[n - 1] \in Slot /\ OnList(f[n - 1]) /\ rk[f[n - 1]] = rk[thisReq] + (n - 1)
    BY <1>1, <1>2, <2>1, <2>2, <2>3, <2>4, WalkRanks
  <2>6. rk[f[n - 1]] = n - 1 /\ f[n - 1] # thisReq
    BY <2>1, <2>4, <2>5
  <2>7. next[f[n - 1]] = f[n]
    BY <2>3 DEF After
  <2> QED
    BY <2>1, <2>2, <2>5, <2>6, <2>7 DEF Falls
<1> HIDE DEF f, Descents, Tail
<1>4. ASSUME NEW n \in Descents, NEW m \in Descents PROVE n = m
  <2>1. f[n - 1] = f[m - 1]
    BY <1>3, <1>4 DEF QInv, OneFall
  <2>2. n - 1 = m - 1 /\ n \in Nat /\ m \in Nat
    BY <1>3, <1>4, <2>1
  <2> QED
    BY <2>2
<1>5. CASE Descents = {}
  BY <1>5, FS_EmptySet
<1>6. ASSUME NEW n \in Descents PROVE Cardinality(Descents) = 1
  <2>1. Descents = {n}
    BY <1>4, <1>6
  <2> QED
    BY <2>1, FS_Singleton
<1> QED
  BY <1>5, <1>6

-----------------------------------------------------------------------------
\* QInv is kept.
Sorted == OneFall /\ \E rk \in [Slot -> Nat] : Ranks(rk)
TmpOn(t) ==
    /\ pc[t] = "add" => tmp[t] = thisReq
    /\ pc[t] = "second" => tmp[t] = thisReq /\ next[thisReq] = NULL
    /\ pc[t] = "insert" => thisReq # NULL /\ next[thisReq] = tmp[t]

LEMMA QParts ==
    /\ QInv <=> (~raced => AddingTmp /\ Sorted)
    /\ QInv' <=> (~raced' => AddingTmp' /\ Sorted')
    /\ AddingTmp <=> \A t \in Task : TmpOn(t)
    /\ AddingTmp' <=> \A t \in Task : TmpOn(t)'
BY Zenon DEF QInv, Sorted, AddingTmp, TmpOn

\* The frames.
LEMMA SameOn ==
    ASSUME busy' = busy,
           \A u \in Task : pc'[u] \in Adding <=> pc[u] \in Adding,
           \A u \in Task : pc[u] \in Adding => rq'[u] = rq[u]
    PROVE  \A s \in Slot : OnList(s)' <=> OnList(s)
BY DEF OnList

LEMMA SameSorted ==
    ASSUME Lists, Sorted, \A s \in Slot : OnList(s)' <=> OnList(s), thisReq' = thisReq,
           \A s \in Slot : OnList(s) => next'[s] = next[s] /\ bh'[s] = bh[s]
    PROVE  Sorted'
<1>1. PICK rk \in [Slot -> Nat] : Ranks(rk)
  BY DEF Sorted
<1>2. \A s \in Slot : OnList(s) /\ next[s] # NULL => next[s] \in Slot /\ OnList(next[s])
  BY <1>1 DEF Ranks, Lists
<1>3. Ranks(rk)'
  <2>1. \A s \in Slot : OnList(s)' => (rk[s] = 0 <=> s = thisReq')
    BY <1>1 DEF Ranks
  <2>2. \A s \in Slot : OnList(s)' /\ next'[s] # NULL =>
            OnList(next[s])' /\ next'[s] = next[s] /\ rk[next[s]] = rk[s] + 1
    BY <1>1, <1>2 DEF Ranks
  <2>3. \A s \in Slot : OnList(s)' /\ s # thisReq' => \E r \in Slot : OnList(r)' /\ next'[r] = s
    BY <1>1 DEF Ranks
  <2>4. thisReq' # NULL => OnList(thisReq)'
    BY <1>1, Consts DEF Ranks, Lists
  <2> QED
    BY <2>1, <2>2, <2>3, <2>4 DEF Ranks, OnList
<1>4. \A s \in Slot : Falls(s)' => Falls(s)
  <2>1. ASSUME NEW s \in Slot, Falls(s)' PROVE Falls(s)
    <3>1. OnList(s)' /\ s # thisReq' /\ next'[s] # NULL /\ ~(bh'[s] < bh'[next'[s]])
      BY <2>1 DEF Falls, InOrder
    <3>2. OnList(s) /\ s # thisReq /\ next'[s] = next[s] /\ next[s] # NULL
      BY <3>1
    <3>3. bh'[s] = bh[s] /\ bh'[next[s]] = bh[next[s]]
      BY <3>2, <1>2
    <3> QED
      BY <3>1, <3>2, <3>3 DEF Falls, InOrder
  <2> QED
    BY <2>1
<1>5. OneFall'
  BY <1>4 DEF Sorted, OneFall
<1> QED
  BY <1>1, <1>3, <1>5 DEF Sorted

LEMMA TaskTmp ==
    ASSUME OnCpu, NEW t \in Task, cpu = t \/ cpu = NULL, Others(t), TmpOn(t)'
    PROVE  AddingTmp'
<1>1. ASSUME NEW u \in Task, u # t PROVE TmpOn(u)'
  <2>1. pc'[u] \notin Awake
    BY <1>1, OneAwake DEF Others
  <2>2. pc'[u] \notin {"add", "second", "insert"}
    BY <2>1 DEF Awake, InAdd
  <2> QED
    BY <2>2 DEF TmpOn
<1> QED
  BY <1>1, QParts

\* A step of t that leaves the list alone.
LEMMA OwnQ ==
    ASSUME IInv, QInv, NEW t \in Task, cpu = t \/ cpu = NULL, Others(t),
           busy' = busy, next' = next, bh' = bh, thisReq' = thisReq, raced' = raced,
           pc'[t] \in Adding <=> pc[t] \in Adding,
           \A u \in Task : u # t \/ pc[u] \in Adding => rq'[u] = rq[u],
           ~raced => TmpOn(t)'
    PROVE  QInv'
<1> SUFFICES ASSUME ~raced PROVE AddingTmp' /\ Sorted'
  BY QParts
<1>1. AddingTmp'
  BY Unfolded, TaskTmp DEF ListInv
<1>2. \A s \in Slot : OnList(s)' <=> OnList(s)
  BY SameOn DEF Others
<1>3. Sorted'
  BY <1>2, QParts, Unfolded, SameSorted
<1> QED
  BY <1>1, <1>3

LEMMA QStart ==
    ASSUME IInv, QInv, NEW t \in Task, NEW b \in Block, NEW c \in Command, Start(t, b, c)
    PROVE  QInv'
<1>1. /\ cpu = NULL /\ pc[t] = "idle" /\ Goto(t, "find")
      /\ UNCHANGED <<busy, cmd, bh, nsector, errors, next>> /\ UNCHANGED <<thisReq, sorting, doHd>>
      /\ UNCHANGED <<moved, torn, raced>> /\ UNCHANGED <<rq, tmp, waiting>>
  BY DEF Start, reqVars, drvVars, histVars
<1>2. Others(t) /\ pc'[t] = "find"
  BY <1>1, Unfolded, PcAre, Gone
<1>3. TmpOn(t)'
  BY <1>2 DEF TmpOn
<1> QED
  BY <1>1, <1>2, <1>3, PcAre, OwnQ

LEMMA QSleepForSlot ==
    ASSUME IInv, QInv, NEW t \in Task, SleepForSlot(t)
    PROVE  QInv'
<1>1. /\ cpu = t /\ pc[t] = "full" /\ Goto(t, "asleep")
      /\ UNCHANGED <<busy, cmd, bh, nsector, errors, next>> /\ UNCHANGED <<thisReq, sorting, doHd>>
      /\ UNCHANGED <<moved, torn, raced>> /\ UNCHANGED <<rq, tmp>>
  BY DEF SleepForSlot, reqVars, drvVars, histVars
<1>2. Others(t) /\ pc'[t] = "asleep"
  BY <1>1, Unfolded, PcAre, Gone
<1>3. TmpOn(t)'
  BY <1>2 DEF TmpOn
<1> QED
  BY <1>1, <1>2, <1>3, PcAre, OwnQ

LEMMA QSlotWakeUp ==
    ASSUME IInv, QInv, NEW t \in Task, SlotWakeUp(t)
    PROVE  QInv'
<1>1. /\ cpu = NULL /\ pc[t] = "asleep" /\ Goto(t, "find")
      /\ UNCHANGED <<busy, cmd, bh, nsector, errors, next>> /\ UNCHANGED <<thisReq, sorting, doHd>>
      /\ UNCHANGED <<moved, torn, raced>> /\ UNCHANGED <<rq, tmp>>
  BY DEF SlotWakeUp, reqVars, drvVars, histVars
<1>2. Others(t) /\ pc'[t] = "find"
  BY <1>1, Unfolded, PcAre, Gone
<1>3. TmpOn(t)'
  BY <1>2 DEF TmpOn
<1> QED
  BY <1>1, <1>2, <1>3, PcAre, OwnQ

LEMMA QAddRequest ==
    ASSUME IInv, QInv, NEW t \in Task, AddRequest(t)
    PROVE  QInv'
<1>1. /\ cpu = t /\ pc[t] = "sort" /\ tmp' = [tmp EXCEPT ![t] = thisReq] /\ Goto(t, "add")
      /\ UNCHANGED <<busy, cmd, bh, nsector, errors, next>> /\ thisReq' = thisReq
      /\ UNCHANGED <<moved, torn, raced>> /\ UNCHANGED <<cpu, rq, want, calls, waiting>>
  BY DEF AddRequest, reqVars, histVars
<1>2. Others(t) /\ pc'[t] = "add"
  BY <1>1, Unfolded, PcAre, Gone
<1>3. TmpOn(t)'
  BY <1>1, <1>2, Unfolded DEF TmpOn, Lists
<1> QED
  BY <1>1, <1>2, <1>3, PcAre, OwnQ

LEMMA QEndSorting ==
    ASSUME IInv, QInv, NEW t \in Task, EndSorting(t)
    PROVE  QInv'
<1>1. /\ cpu = t /\ pc[t] = "added" /\ Goto(t, "start")
      /\ UNCHANGED <<busy, cmd, bh, nsector, errors, next>> /\ thisReq' = thisReq
      /\ UNCHANGED <<moved, torn, raced>> /\ UNCHANGED <<cpu, rq, tmp, want, calls, waiting>>
  BY DEF EndSorting, reqVars, histVars
<1>2. Others(t) /\ pc'[t] = "start"
  BY <1>1, Unfolded, PcAre, Gone
<1>3. TmpOn(t)'
  BY <1>2 DEF TmpOn
<1> QED
  BY <1>1, <1>2, <1>3, PcAre, OwnQ

LEMMA QRestart ==
    ASSUME IInv, QInv, NEW t \in Task, Restart(t)
    PROVE  QInv'
<1>1. /\ cpu = t /\ pc[t] = "start" /\ Goto(t, "wait") /\ rq' = [rq EXCEPT ![t] = NULL]
      /\ UNCHANGED <<busy, cmd, bh, nsector, errors, next>> /\ UNCHANGED <<thisReq, sorting>>
      /\ UNCHANGED <<moved, torn, raced>>
  BY DEF Restart, reqVars, histVars
<1>2. Others(t) /\ pc'[t] = "wait"
  BY <1>1, Unfolded, PcAre, Gone
<1>3. TmpOn(t)'
  BY <1>2 DEF TmpOn
<1>4. \A u \in Task : u # t \/ pc[u] \in Adding => rq'[u] = rq[u]
  BY <1>1, PcAre, Unfolded DEF Lists
<1> QED
  BY <1>1, <1>2, <1>3, <1>4, PcAre, OwnQ

LEMMA QFinish ==
    ASSUME IInv, QInv, NEW t \in Task, Finish(t)
    PROVE  QInv'
<1>1. /\ cpu = NULL /\ pc[t] = "wait" /\ Goto(t, "idle")
      /\ UNCHANGED <<busy, cmd, bh, nsector, errors, next>> /\ UNCHANGED <<thisReq, sorting, doHd>>
      /\ UNCHANGED <<moved, torn, raced>> /\ UNCHANGED <<cpu, rq, tmp, calls, waiting>>
  BY DEF Finish, reqVars, drvVars, histVars
<1>2. Others(t) /\ pc'[t] = "idle"
  BY <1>1, Unfolded, PcAre, Gone
<1>3. TmpOn(t)'
  BY <1>2 DEF TmpOn
<1> QED
  BY <1>1, <1>2, <1>3, PcAre, OwnQ

\* A free request that is filled in is not on the list yet.
LEMMA QFindSlot ==
    ASSUME IInv, QInv, NEW t \in Task, FindSlot(t)
    PROVE  QInv'
<1>1. /\ cpu = t /\ pc[t] = "find" /\ UNCHANGED <<thisReq, sorting, doHd>>
      /\ UNCHANGED <<moved, torn, raced>> /\ UNCHANGED <<cpu, tmp, want, calls, waiting>>
  BY DEF FindSlot, drvVars, histVars
<1>2. CASE Goto(t, "full") /\ UNCHANGED <<busy, cmd, bh, nsector, errors, next>> /\ rq' = rq
  <2>1. Others(t) /\ pc'[t] = "full"
    BY <1>2, Unfolded, PcAre, Gone
  <2>2. TmpOn(t)'
    BY <2>1 DEF TmpOn
  <2> QED
    BY <1>1, <1>2, <2>1, <2>2, PcAre, OwnQ
<1>3. ASSUME NEW s \in Slot, ~busy[s], busy' = [busy EXCEPT ![s] = TRUE],
             bh' = [bh EXCEPT ![s] = want[t][1]], next' = [next EXCEPT ![s] = NULL],
             rq' = [rq EXCEPT ![t] = s], Goto(t, "sort")
      PROVE  QInv'
  <2> SUFFICES ASSUME ~raced PROVE AddingTmp' /\ Sorted'
    BY <1>1, QParts
  <2>1. Others(t) /\ pc'[t] = "sort"
    BY <1>3, Unfolded, PcAre, Gone
  <2>2. TmpOn(t)'
    BY <2>1 DEF TmpOn
  <2>3. AddingTmp'
    BY <1>1, <2>1, <2>2, Unfolded, TaskTmp DEF ListInv
  <2>4. \A r \in Slot : r # s => busy'[r] = busy[r] /\ bh'[r] = bh[r] /\ next'[r] = next[r]
    BY <1>3, Unfolded DEF Flags, Lists
  <2>5. rq'[t] = s /\ \A u \in Task : u # t => rq'[u] = rq[u]
    BY <1>3, Unfolded DEF Lists
  <2>6. ~OnList(s) /\ ~OnList(s)'
    BY <1>3, <2>1, <2>5, PcAre DEF OnList
  <2>7. \A r \in Slot : r # s => (OnList(r)' <=> OnList(r))
    <3>1. pc[t] \notin Adding
      BY <1>1, PcAre
    <3> QED
      BY <3>1, <2>1, <2>4, <2>5 DEF OnList, Others
  <2>8. Sorted'
    BY <1>1, <2>4, <2>6, <2>7, QParts, Unfolded, SameSorted
  <2> QED
    BY <2>3, <2>8
<1> QED
  BY <1>2, <1>3 DEF FindSlot, reqVars

\* What t has left to do is the only thing that is not on the list.
LEMMA OnlyMine ==
    ASSUME IInv, NEW t \in Task, cpu = t, pc[t] \in Adding, Others(t), pc'[t] \notin Adding,
           busy' = busy, rq' = rq
    PROVE  /\ rq[t] \in Slot /\ ~OnList(rq[t]) /\ busy[rq[t]] /\ thisReq # rq[t]
           /\ \A x \in Slot : busy[x] => next[x] # rq[t]
           /\ \A x \in Slot : OnList(x)' <=> OnList(x) \/ x = rq[t]
<1>1. /\ rq[t] \in Slot /\ busy[rq[t]] /\ thisReq # rq[t]
      /\ \A x \in Slot : busy[x] => next[x] # rq[t]
  BY Unfolded DEF ListInv, AddingAlone, AloneAt
<1>2. \A u \in Task : u # t => pc[u] \notin Adding /\ pc'[u] \notin Adding
  <2>1. Adding \subseteq Awake
    BY DEF Adding, Awake, InAdd
  <2> QED
    BY <2>1, Unfolded, OneAwake DEF ListInv, Others
<1> QED
  BY <1>1, <1>2 DEF OnList

LEMMA LinkedRanks ==
    ASSUME IInv, NEW t \in Task, cpu = t, pc[t] \in Adding, Others(t), pc'[t] \notin Adding,
           busy' = busy, rq' = rq, thisReq' = thisReq, NEW s \in Slot, OnList(s),
           next'[s] = rq[t], next'[rq[t]] = next[s],
           \A x \in Slot : x # s /\ x # rq[t] => next'[x] = next[x],
           NEW rk \in [Slot -> Nat], Ranks(rk)
    PROVE  \E k \in [Slot -> Nat] : Ranks(k)'
<1> DEFINE r == rq[t]
<1>1. /\ r \in Slot /\ ~OnList(r) /\ thisReq # r
      /\ \A x \in Slot : busy[x] => next[x] # r
      /\ \A x \in Slot : OnList(x)' <=> OnList(x) \/ x = r
  BY OnlyMine
<1>2. next'[s] = r /\ next'[r] = next[s] /\ \A x \in Slot : x # s /\ x # r => next'[x] = next[x]
  OBVIOUS
<1> HIDE DEF r
<1>3. r # s /\ r # NULL
  BY <1>1, Consts
<1>0. PICK k \in [Slot -> Nat] :
        k = [x \in Slot |-> IF x = r THEN rk[s] + 1
                            ELSE IF rk[x] > rk[s] THEN rk[x] + 1 ELSE rk[x]]
  <2> DEFINE g == [x \in Slot |-> IF x = r THEN rk[s] + 1
                                  ELSE IF rk[x] > rk[s] THEN rk[x] + 1 ELSE rk[x]]
  <2>1. g \in [Slot -> Nat]
    OBVIOUS
  <2> QED
    BY <2>1
<1>4. k[r] = rk[s] + 1 /\ k[s] = rk[s]
  BY <1>0, <1>1, <1>3
<1>5. \A x \in Slot : x # r => (rk[x] > rk[s] => k[x] = rk[x] + 1) /\ (~(rk[x] > rk[s]) => k[x] = rk[x])
  BY <1>0
<1>6. \A x \in Slot : OnList(x) => x # r /\ next[x] # r
  BY <1>1 DEF OnList
<1>7. \A x \in Slot : OnList(x) /\ next[x] # NULL =>
        next[x] \in Slot /\ OnList(next[x]) /\ rk[next[x]] = rk[x] + 1
  BY Unfolded DEF Ranks, Lists
<1>8. \A x \in Slot : OnList(x)' => (k[x] = 0 <=> x = thisReq')
  <2>1. ASSUME NEW x \in Slot, OnList(x) PROVE k[x] = 0 <=> x = thisReq
    <3>1. rk[x] = 0 <=> x = thisReq
      BY <2>1 DEF Ranks
    <3>2. rk[x] \in Nat /\ rk[s] \in Nat /\ x # r
      BY <2>1, <1>6
    <3> QED
      BY <3>1, <3>2, <1>5
  <2>2. k[r] # 0
    BY <1>4
  <2> QED
    BY <2>1, <2>2, <1>1
<1>9. ASSUME NEW x \in Slot, OnList(x)', next'[x] # NULL
      PROVE  next'[x] \in Slot /\ (OnList(next'[x]) \/ next'[x] = r) /\ k[next'[x]] = k[x] + 1
  <2>1. CASE x = s
    BY <2>1, <1>1, <1>2, <1>4
  <2>2. CASE x = r
    <3>1. next[s] \in Slot /\ OnList(next[s]) /\ rk[next[s]] = rk[s] + 1
      BY <2>2, <1>2, <1>7, <1>9
    <3>2. next[s] # r /\ rk[s] \in Nat
      BY <1>6
    <3>3. rk[next[s]] > rk[s]
      BY <3>1, <3>2
    <3>4. k[next[s]] = rk[next[s]] + 1
      BY <3>1, <3>2, <3>3, <1>5
    <3>5. k[next[s]] = k[r] + 1
      BY <3>1, <3>2, <3>4, <1>4
    <3> QED
      BY <2>2, <3>1, <3>5, <1>2
  <2>3. CASE x # s /\ x # r
    <3>1. OnList(x) /\ next'[x] = next[x]
      BY <2>3, <1>1, <1>2, <1>9
    <3>2. next[x] \in Slot /\ OnList(next[x]) /\ rk[next[x]] = rk[x] + 1 /\ next[x] # r
      BY <3>1, <1>6, <1>7, <1>9
    <3>3. rk[x] # rk[s]
      BY <2>3, <3>1, RanksDiffer
    <3>4. rk[x] \in Nat /\ rk[s] \in Nat
      OBVIOUS
    <3>5. k[next[x]] = k[x] + 1
      BY <2>3, <3>2, <3>3, <3>4, <1>5
    <3> QED
      BY <3>1, <3>2, <3>5
  <2> QED
    BY <2>1, <2>2, <2>3
<1>10. ASSUME NEW x \in Slot, OnList(x)', x # thisReq'
       PROVE  \E p \in Slot : (OnList(p) \/ p = r) /\ next'[p] = x
  <2>1. CASE x = r
    BY <2>1, <1>2
  <2>2. CASE OnList(x)
    <3>1. PICK p \in Slot : OnList(p) /\ next[p] = x
      BY <2>2, <1>10 DEF Ranks
    <3>2. CASE p = s
      BY <3>1, <3>2, <1>1, <1>2
    <3>3. CASE p # s
      BY <3>1, <3>3, <1>2, <1>6
    <3> QED
      BY <3>2, <3>3
  <2> QED
    BY <2>1, <2>2, <1>1, <1>10
<1>11. thisReq' # NULL => OnList(thisReq)'
  BY <1>1, Unfolded DEF Ranks, Lists
<1>12. Ranks(k)'
  <2>1. \A x \in Slot : OnList(x)' /\ next'[x] # NULL => OnList(next[x])' /\ k[next'[x]] = k[x] + 1
    <3>1. ASSUME NEW x \in Slot, OnList(x)', next'[x] # NULL PROVE OnList(next[x])'
      BY <3>1, <1>1, <1>9 DEF OnList
    <3> QED
      BY <3>1, <1>9
  <2>2. \A x \in Slot : OnList(x)' /\ x # thisReq' => \E p \in Slot : OnList(p)' /\ next'[p] = x
    BY <1>1, <1>10
  <2> QED
    BY <2>1, <2>2, <1>8, <1>11 DEF Ranks
<1> QED
  BY <1>12

LEMMA QAddFirst ==
    ASSUME IInv, QInv, NEW t \in Task, AddFirst(t)
    PROVE  QInv'
<1>1. /\ cpu = t /\ pc[t] = "add" /\ pc[t] \in Adding
      /\ UNCHANGED <<busy, cmd, bh, nsector, errors, next>>
      /\ UNCHANGED <<moved, torn, raced>> /\ UNCHANGED <<cpu, rq, want, calls, waiting>>
  BY PcAre DEF AddFirst, reqVars, histVars
<1>2. ~raced => tmp[t] = thisReq
  BY <1>1, QParts DEF TmpOn
<1>3. CASE tmp[t] = NULL /\ thisReq' = rq[t] /\ Goto(t, "added") /\ tmp' = tmp
  <2> SUFFICES ASSUME ~raced PROVE AddingTmp' /\ Sorted'
    BY <1>1, QParts
  <2>1. Others(t) /\ pc'[t] = "added" /\ pc'[t] \notin Adding
    BY <1>3, Unfolded, PcAre, Gone
  <2>2. AddingTmp'
    BY <1>1, <2>1, Unfolded, TaskTmp DEF ListInv, TmpOn
  <2>3. PICK rk \in [Slot -> Nat] : Ranks(rk)
    BY DEF QInv
  <2>4. \A x \in Slot : ~OnList(x)
    BY <1>2, <1>3, <2>3, EmptyList
  <2>5. /\ rq[t] \in Slot /\ \A x \in Slot : OnList(x)' <=> x = rq[t]
    BY <1>1, <2>1, <2>4, OnlyMine
  <2>6. next'[rq[t]] = NULL
    BY <1>1, Unfolded DEF ListInv, AddingAlone, AloneAt
  <2>7. PICK k \in [Slot -> Nat] : \A x \in Slot : k[x] = 0
    <3>1. [x \in Slot |-> 0] \in [Slot -> Nat]
      OBVIOUS
    <3> QED
      BY <3>1
  <2>8. Ranks(k)'
    BY <1>3, <2>5, <2>6, <2>7 DEF Ranks
  <2>9. OneFall'
    BY <2>5 DEF OneFall, Falls
  <2> QED
    BY <2>2, <2>8, <2>9 DEF Sorted
<1>4. CASE /\ tmp[t] # NULL /\ next[tmp[t]] = NULL /\ Goto(t, "second") /\ thisReq' = thisReq
           /\ tmp' = tmp
  <2>1. Others(t) /\ pc'[t] = "second"
    BY <1>4, Unfolded, PcAre, Gone
  <2>2. ~raced => TmpOn(t)'
    BY <1>1, <1>2, <1>4, <2>1 DEF TmpOn
  <2> QED
    BY <1>1, <1>4, <2>1, <2>2, PcAre, OwnQ
<1>5. CASE /\ tmp[t] # NULL /\ next[tmp[t]] # NULL /\ tmp' = [tmp EXCEPT ![t] = next[tmp[t]]]
           /\ Goto(t, "insert") /\ thisReq' = thisReq
  <2>1. Others(t) /\ pc'[t] = "insert"
    BY <1>5, Unfolded, PcAre, Gone
  <2>2. tmp'[t] = next[tmp[t]]
    BY <1>5, Unfolded DEF Lists
  <2>3. ~raced => TmpOn(t)'
    BY <1>1, <1>2, <1>5, <2>1, <2>2 DEF TmpOn
  <2> QED
    BY <1>1, <1>5, <2>1, <2>3, PcAre, OwnQ
<1> QED
  BY <1>3, <1>4, <1>5 DEF AddFirst

LEMMA QAddSecond ==
    ASSUME IInv, QInv, NEW t \in Task, AddSecond(t)
    PROVE  QInv'
<1>1. /\ cpu = t /\ pc[t] = "second" /\ pc[t] \in Adding
      /\ next' = [next EXCEPT ![tmp[t]] = rq[t]] /\ Goto(t, "added")
      /\ UNCHANGED <<busy, cmd, bh, nsector, errors>> /\ UNCHANGED <<thisReq, sorting, doHd>>
      /\ UNCHANGED <<moved, torn, raced>> /\ UNCHANGED <<cpu, rq, tmp, want, calls, waiting>>
  BY PcAre DEF AddSecond, drvVars, histVars
<1> SUFFICES ASSUME ~raced PROVE AddingTmp' /\ Sorted'
  BY <1>1, QParts
<1>2. Others(t) /\ pc'[t] = "added" /\ pc'[t] \notin Adding
  BY <1>1, Unfolded, PcAre, Gone
<1>3. AddingTmp'
  BY <1>1, <1>2, Unfolded, TaskTmp DEF ListInv, TmpOn
<1>4. tmp[t] = thisReq /\ next[thisReq] = NULL /\ thisReq \in Slot
  BY <1>1, QParts, Unfolded DEF TmpOn, ListInv, AddingAt, TmpAt
<1>5. PICK rk \in [Slot -> Nat] : Ranks(rk)
  BY DEF QInv
<1>6. OnList(thisReq)
  BY <1>4, <1>5, Consts DEF Ranks
<1>7. /\ rq[t] \in Slot /\ rq[t] # thisReq /\ ~OnList(rq[t]) /\ next[rq[t]] = NULL
      /\ \A x \in Slot : OnList(x)' <=> OnList(x) \/ x = rq[t]
  BY <1>1, <1>2, OnlyMine, Unfolded DEF ListInv, AddingAlone, AloneAt
<1>8. /\ next'[thisReq] = rq[t] /\ next'[rq[t]] = next[thisReq]
      /\ \A x \in Slot : x # thisReq => next'[x] = next[x]
  BY <1>1, <1>4, <1>7, Unfolded DEF Lists
<1>9. \E k \in [Slot -> Nat] : Ranks(k)'
  BY <1>1, <1>2, <1>4, <1>5, <1>6, <1>8, LinkedRanks
<1>10. \A x \in Slot : Falls(x)' => Falls(x)
  <2>1. ASSUME NEW x \in Slot, Falls(x)' PROVE Falls(x)
    <3>1. OnList(x)' /\ x # thisReq /\ next'[x] # NULL /\ ~(bh[x] < bh[next'[x]])
      BY <1>1, <2>1 DEF Falls, InOrder
    <3>2. x # rq[t] /\ next'[x] = next[x]
      BY <3>1, <1>4, <1>7, <1>8
    <3>3. OnList(x)
      BY <3>1, <3>2, <1>7
    <3> QED
      BY <3>1, <3>2, <3>3 DEF Falls, InOrder
  <2> QED
    BY <2>1
<1>11. OneFall'
  BY <1>10 DEF QInv, OneFall
<1> QED
  BY <1>3, <1>9, <1>11 DEF Sorted

\* The elevator at the end of the list: a request that is entered there below
\* the last one has passed no fall, since behind a fall the loop goes on only
\* past requests below the new one.
LEMMA NoFallBefore ==
    ASSUME IInv, QInv, ~raced, NEW t \in Task, pc[t] = "insert",
           NEW n \in 0 .. NrRequest, Nth(tmp[t])[n] # NULL, next[Nth(tmp[t])[n]] = NULL,
           \A m \in 0 .. n - 1 : ~StopsAt(Nth(tmp[t])[m], rq[t]),
           ~InOrder(Nth(tmp[t])[n], rq[t]),
           NEW x \in Slot, Falls(x)
    PROVE  FALSE
<1> DEFINE f == Nth(tmp[t])
<1> DEFINE r == rq[t]
<1>1. PICK rk \in [Slot -> Nat] : Ranks(rk)
  BY DEF QInv
<1>2. tmp[t] \in Slot /\ thisReq \in Slot /\ next[thisReq] = tmp[t]
  BY QParts, Unfolded DEF TmpOn, ListInv, AddingAt, TmpAt, Lists
<1>3. OnList(thisReq) /\ rk[thisReq] = 0 /\ OnList(tmp[t]) /\ rk[tmp[t]] = 1
  BY <1>1, <1>2, Consts DEF Ranks
<1>4. Lists /\ r \in Slot /\ busy[r]
  BY PcAre, Unfolded DEF ListInv, AddingAlone, AloneAt
<1>5. OnList(x) /\ x # thisReq /\ next[x] # NULL /\ ~InOrder(x, next[x])
  BY DEF Falls
<1>6. rk[x] >= rk[tmp[t]]
  <2>1. rk[x] \in Nat /\ rk[x] # 0
    BY <1>1, <1>5 DEF Ranks
  <2> QED
    BY <2>1, <1>3
<1>7. PICK k \in 0 .. NrRequest - 1 : f[k] = x
  BY <1>1, <1>2, <1>3, <1>4, <1>5, <1>6, WalkReaches
<1>8. /\ f \in [0 .. NrRequest -> Slot \union {NULL}]
      /\ \A m \in 1 .. NrRequest : f[m] = After(f[m - 1])
  BY <1>2, <1>4, NthWalks
<1>9. k \in 0 .. NrRequest /\ k < n
  <2>1. k # n /\ k \in 0 .. NrRequest
    BY <1>5, <1>7, Consts
  <2>2. ASSUME k > n PROVE FALSE
    <3>1. n + 1 \in 1 .. NrRequest /\ (n + 1) - 1 = n /\ k \in n + 1 .. NrRequest
          /\ n + 1 \in 0 .. NrRequest
      BY <2>1, <2>2, Consts
    <3>2. f[n + 1] = NULL
      BY <3>1, <1>8 DEF After
    <3>3. f[k] = NULL
      BY <3>1, <3>2, <1>2, <1>4, WalkEnds
    <3> QED
      BY <3>3, <1>7, Consts
  <2> QED
    BY <2>1, <2>2
<1>10. ASSUME NEW m \in 0 .. n
       PROVE  f[m] \in Slot /\ OnList(f[m]) /\ bh[f[m]] \in Nat /\ bh[f[m]] # bh[r]
  <2>1. m \in 0 .. NrRequest /\ n \in m .. NrRequest
    BY Consts
  <2>2. f[m] # NULL
    BY <2>1, <1>2, <1>4, WalkEnds
  <2>3. f[m] \in Slot /\ OnList(f[m])
    BY <2>1, <2>2, <1>1, <1>2, <1>3, <1>4, WalkRanks
  <2>4. busy[f[m]] /\ f[m] # r
    BY <2>3 DEF OnList, Adding
  <2> QED
    BY <2>3, <2>4, <1>4, Consts, Unfolded DEF BufInv, ReqLocked, ReqAlone
<1>11. bh[r] \in Nat
  BY <1>4, Consts, Unfolded DEF BufInv, ReqLocked
<1>12. ASSUME NEW m \in 0 .. n - 1
       PROVE  next[f[m]] = f[m + 1] /\ f[m + 1] # NULL
              /\ (~(bh[f[m]] < bh[f[m + 1]]) \/ bh[f[m]] < bh[r] => ~(bh[r] < bh[f[m + 1]]))
  <2>1. m \in 0 .. n /\ m + 1 \in 0 .. n /\ m + 1 \in 1 .. NrRequest /\ (m + 1) - 1 = m
    BY Consts
  <2>2. f[m] # NULL /\ f[m + 1] # NULL
    BY <2>1, <1>10, Consts
  <2>3. next[f[m]] = f[m + 1]
    BY <2>1, <2>2, <1>8 DEF After
  <2>4. ~StopsAt(f[m], r)
    OBVIOUS
  <2> QED
    BY <2>2, <2>3, <2>4 DEF StopsAt, InOrder
<1>13. ~(bh[f[n]] < bh[r])
  BY DEF InOrder
<1>14. ASSUME NEW m \in 0 .. n - 1, m # k PROVE bh[f[m]] < bh[f[m + 1]]
  <2>1. m \in 0 .. n /\ m \in 0 .. NrRequest
    BY Consts
  <2>2. f[m] # x
    <3>1. f[m] # NULL /\ f[k] # NULL
      BY <2>1, <1>7, <1>10, Consts
    <3>2. rk[f[m]] = rk[tmp[t]] + m /\ rk[f[k]] = rk[tmp[t]] + k
      BY <3>1, <2>1, <1>1, <1>2, <1>3, <1>4, <1>9, WalkRanks
    <3> QED
      BY <3>2, <1>3, <1>7, <1>14
  <2>3. f[m] # thisReq
    <3>1. f[m] # NULL
      BY <2>1, <1>10, Consts
    <3>2. rk[f[m]] = rk[tmp[t]] + m
      BY <3>1, <2>1, <1>1, <1>2, <1>3, <1>4, WalkRanks
    <3> QED
      BY <3>2, <1>3
  <2>4. ~Falls(f[m])
    BY <2>1, <2>2, <1>10 DEF QInv, OneFall
  <2> QED
    BY <2>1, <2>3, <2>4, <1>10, <1>12 DEF Falls, InOrder
<1> HIDE DEF f, r
<1> DEFINE D == {m \in k + 1 .. n : ~(bh[f[m]] < bh[r])}
<1> DEFINE m == Min(D)
<1>15. m \in D /\ \A y \in D : m <= y
  <2>1. D \in SUBSET Nat /\ n \in D
    BY <1>9, <1>13, Consts
  <2> HIDE DEF D
  <2> QED
    BY <2>1, MinIsLeast
<1> HIDE DEF m
<1>16. m \in k + 1 .. n /\ ~(bh[f[m]] < bh[r])
  BY <1>15
<1>17. m - 1 \in 0 .. n - 1 /\ (m - 1) + 1 = m /\ m \in 0 .. n /\ m \in Nat
  BY <1>9, <1>16, Consts
<1>18. bh[f[m]] \in Nat /\ bh[f[m]] # bh[r] /\ bh[f[m - 1]] \in Nat
  BY <1>10, <1>17, Consts
<1>19. bh[r] < bh[f[m]]
  BY <1>11, <1>16, <1>18
<1>20. CASE m = k + 1
  <2>1. ~(bh[f[m - 1]] < bh[f[m]])
    <3>1. m - 1 = k
      BY <1>9, <1>20, Consts
    <3>2. next[x] = f[m]
      BY <3>1, <1>7, <1>12, <1>17
    <3> QED
      BY <3>1, <3>2, <1>5, <1>7 DEF InOrder
  <2> QED
    BY <2>1, <1>12, <1>17, <1>19
<1>21. CASE m # k + 1
  <2>1. m - 1 \in k + 1 .. n /\ m - 1 \notin D
    BY <1>9, <1>15, <1>16, <1>21, Consts
  <2>2. bh[f[m - 1]] < bh[r]
    BY <2>1
  <2> QED
    BY <2>2, <1>12, <1>17, <1>19
<1> QED
  BY <1>20, <1>21

LEMMA QAddSorted ==
    ASSUME IInv, QInv, NEW t \in Task, AddSorted(t)
    PROVE  QInv'
<1>1. /\ cpu = t /\ pc[t] = "insert" /\ pc[t] \in Adding /\ Goto(t, "added")
      /\ UNCHANGED <<busy, cmd, bh, nsector, errors>> /\ UNCHANGED <<thisReq, sorting, doHd>>
      /\ UNCHANGED <<moved, torn, raced>> /\ UNCHANGED <<cpu, rq, tmp, want, calls, waiting>>
  BY PcAre DEF AddSorted, drvVars, histVars
<1> SUFFICES ASSUME ~raced PROVE AddingTmp' /\ Sorted'
  BY <1>1, QParts
<1>2. Others(t) /\ pc'[t] = "added" /\ pc'[t] \notin Adding
  BY <1>1, Unfolded, PcAre, Gone
<1>3. AddingTmp'
  BY <1>1, <1>2, Unfolded, TaskTmp DEF ListInv, TmpOn
<1>4. PICK n \in 0 .. NrRequest :
        /\ Nth(tmp[t])[n] # NULL /\ StopsAt(Nth(tmp[t])[n], rq[t])
        /\ \A m \in 0 .. n - 1 : ~StopsAt(Nth(tmp[t])[m], rq[t])
        /\ InsertAfter(t, Nth(tmp[t])[n])
  BY DEF AddSorted
<1> DEFINE s == Nth(tmp[t])[n]
<1>5. PICK rk \in [Slot -> Nat] : Ranks(rk)
  BY DEF QInv
<1>6. tmp[t] \in Slot /\ thisReq \in Slot /\ next[thisReq] = tmp[t]
  BY <1>1, QParts, Unfolded DEF TmpOn, ListInv, AddingAt, TmpAt, Lists
<1>7. OnList(thisReq) /\ rk[thisReq] = 0 /\ OnList(tmp[t]) /\ rk[tmp[t]] = 1
  BY <1>5, <1>6, Consts DEF Ranks
<1>8. s \in Slot /\ OnList(s) /\ rk[s] = 1 + n
  BY <1>4, <1>5, <1>6, <1>7, Unfolded, WalkRanks
<1>9. s # thisReq
  BY <1>7, <1>8
<1>10. /\ rq[t] \in Slot /\ rq[t] # thisReq /\ ~OnList(rq[t])
       /\ \A x \in Slot : busy[x] => next[x] # rq[t]
       /\ \A x \in Slot : OnList(x)' <=> OnList(x) \/ x = rq[t]
  BY <1>1, <1>2, OnlyMine
<1>11. \A x \in Slot : Falls(x) /\ next[s] = NULL /\ ~InOrder(s, rq[t]) => FALSE
  BY <1>1, <1>4, NoFallBefore
<1>12. StopsAt(s, rq[t]) /\ InsertAfter(t, s)
  BY <1>4
<1> HIDE DEF s
<1>13. s # rq[t]
  BY <1>8, <1>10
<1>14. /\ next'[s] = rq[t] /\ next'[rq[t]] = next[s]
       /\ \A x \in Slot : x # s /\ x # rq[t] => next'[x] = next[x]
  BY <1>8, <1>10, <1>12, <1>13, Unfolded DEF InsertAfter, Lists
<1>15. \E k \in [Slot -> Nat] : Ranks(k)'
  BY <1>1, <1>2, <1>5, <1>8, <1>14, LinkedRanks
<1>16. ASSUME NEW x \in Slot, Falls(x)'
       PROVE  \/ Falls(x)
              \/ x = s /\ next[s] = NULL /\ ~InOrder(s, rq[t])
  <2>1. OnList(x)' /\ x # thisReq /\ next'[x] # NULL /\ ~(bh[x] < bh[next'[x]])
    BY <1>1, <1>16 DEF Falls, InOrder
  <2>2. x # rq[t]
    <3>1. ASSUME x = rq[t] PROVE FALSE
      <4>1. next[s] # NULL /\ ~(bh[rq[t]] < bh[next[s]])
        BY <3>1, <2>1, <1>14
      <4> QED
        BY <4>1, <1>12 DEF StopsAt, InOrder
    <3> QED
      BY <3>1
  <2>3. OnList(x)
    BY <2>1, <2>2, <1>10
  <2>4. CASE x = s
    <3>1. ~InOrder(s, rq[t])
      BY <2>1, <2>4, <1>14 DEF InOrder
    <3>2. CASE next[s] # NULL
      BY <2>3, <2>4, <3>1, <3>2, <1>9, <1>12 DEF StopsAt, Falls
    <3> QED
      BY <2>4, <3>1, <3>2
  <2>5. CASE x # s
    BY <2>1, <2>2, <2>3, <2>5, <1>14 DEF Falls, InOrder
  <2> QED
    BY <2>4, <2>5
<1>17. OneFall'
  <2>1. ASSUME NEW x \in Slot, NEW y \in Slot, Falls(x)', Falls(y)' PROVE x = y
    <3>1. CASE Falls(x) /\ Falls(y)
      BY <3>1 DEF QInv, OneFall
    <3> QED
      BY <3>1, <2>1, <1>11, <1>16
  <2> QED
    BY <2>1 DEF OneFall
<1> QED
  BY <1>3, <1>15, <1>17 DEF Sorted

-----------------------------------------------------------------------------
\* The handlers, while no task is in a window.
LEMMA QSameIntr ==
    ASSUME IInv, QInv, UNCHANGED <<busy, bh, next, thisReq, pc, rq, tmp>>, ~raced' => ~raced
    PROVE  QInv'
<1> SUFFICES ASSUME ~raced' PROVE AddingTmp' /\ Sorted'
  BY QParts
<1>1. AddingTmp'
  BY QParts DEF TmpOn
<1>2. \A s \in Slot : OnList(s)' <=> OnList(s)
  BY SameOn
<1> QED
  BY <1>1, <1>2, QParts, Unfolded, SameSorted

\* The first request leaves the list.
LEMMA QEndRequest ==
    ASSUME IInv, QInv, thisReq \in Slot, busy' = [busy EXCEPT ![thisReq] = FALSE],
           thisReq' = next[thisReq], UNCHANGED <<bh, next, pc, rq>>,
           ~raced' => ~raced /\ \A t \in Task : pc[t] \notin InAdd
    PROVE  QInv'
<1> SUFFICES ASSUME ~raced' PROVE AddingTmp' /\ Sorted'
  BY QParts
<1>1. AddingTmp'
  <2>1. \A t \in Task : pc'[t] \notin {"add", "second", "insert"}
    BY DEF InAdd
  <2> QED
    BY <2>1, QParts DEF TmpOn
<1>2. PICK rk \in [Slot -> Nat] : Ranks(rk)
  BY QParts DEF Sorted
<1>3. OnList(thisReq) /\ rk[thisReq] = 0
  BY <1>2, Consts DEF Ranks
<1>4. \A x \in Slot : OnList(x)' <=> OnList(x) /\ x # thisReq
  <2>1. ~busy'[thisReq] /\ \A x \in Slot : x # thisReq => busy'[x] = busy[x]
    BY Unfolded DEF Flags
  <2> QED
    BY <2>1 DEF OnList
<1>5. \A x \in Slot : OnList(x) /\ next[x] # NULL =>
        next[x] \in Slot /\ OnList(next[x]) /\ rk[next[x]] = rk[x] + 1
  BY <1>2, Unfolded DEF Ranks, Lists
<1>6. \A x \in Slot : OnList(x) => (rk[x] = 0 <=> x = thisReq)
  BY <1>2 DEF Ranks
<1>7. PICK k \in [Slot -> Nat] : \A x \in Slot : rk[x] # 0 => k[x] = rk[x] - 1
  <2> DEFINE g == [x \in Slot |-> IF rk[x] = 0 THEN 0 ELSE rk[x] - 1]
  <2>1. g \in [Slot -> Nat]
    OBVIOUS
  <2> QED
    BY <2>1
<1>8. \A x \in Slot : OnList(x) /\ x # thisReq => \E p \in Slot : OnList(p) /\ next[p] = x
  BY <1>2 DEF Ranks
<1>9. ASSUME NEW x \in Slot, OnList(x), x # thisReq PROVE k[x] = 0 <=> x = next[thisReq]
  <2>1. rk[x] \in Nat /\ rk[x] # 0 /\ k[x] = rk[x] - 1
    BY <1>6, <1>7, <1>9
  <2>2. ASSUME x = next[thisReq] PROVE k[x] = 0
    BY <2>1, <2>2, <1>3, <1>5, Consts
  <2>3. ASSUME k[x] = 0 PROVE x = next[thisReq]
    <3>1. PICK p \in Slot : OnList(p) /\ next[p] = x
      BY <1>8, <1>9
    <3>2. rk[x] = rk[p] + 1 /\ rk[p] \in Nat
      BY <3>1, <1>5, Consts
    <3>3. rk[p] = 0
      BY <3>2, <2>1, <2>3
    <3>4. p = thisReq
      BY <3>1, <3>3, <1>6
    <3> QED
      BY <3>1, <3>4
  <2> QED
    BY <2>2, <2>3
<1>10. ASSUME NEW x \in Slot, OnList(x), x # thisReq, next[x] # NULL
       PROVE  next[x] \in Slot /\ OnList(next[x]) /\ next[x] # thisReq /\ k[next[x]] = k[x] + 1
  <2>1. next[x] \in Slot /\ OnList(next[x]) /\ rk[next[x]] = rk[x] + 1 /\ rk[x] \in Nat
    BY <1>5, <1>10
  <2>2. rk[x] # 0 /\ rk[next[x]] # 0
    BY <2>1, <1>6, <1>10
  <2>3. k[x] = rk[x] - 1 /\ k[next[x]] = rk[next[x]] - 1
    BY <2>1, <2>2, <1>7
  <2>4. k[next[x]] = k[x] + 1
    BY <2>1, <2>3
  <2> QED
    BY <2>1, <2>2, <2>4, <1>6
<1>11. Ranks(k)'
  <2>1. \A x \in Slot : OnList(x)' => (k[x] = 0 <=> x = thisReq')
    BY <1>4, <1>9
  <2>2. \A x \in Slot : OnList(x)' /\ next'[x] # NULL => OnList(next[x])' /\ k[next'[x]] = k[x] + 1
    <3>1. ASSUME NEW x \in Slot, OnList(x)', next'[x] # NULL PROVE OnList(next[x])'
      BY <3>1, <1>4, <1>10 DEF OnList
    <3> QED
      BY <3>1, <1>4, <1>10
  <2>3. \A x \in Slot : OnList(x)' /\ x # thisReq' => \E p \in Slot : OnList(p)' /\ next'[p] = x
    <3>1. ASSUME NEW x \in Slot, OnList(x), x # thisReq, x # next[thisReq]
          PROVE  \E p \in Slot : OnList(p) /\ p # thisReq /\ next[p] = x
      BY <3>1, <1>8
    <3> QED
      BY <3>1, <1>4
  <2>4. thisReq' # NULL => OnList(thisReq)'
    <3>1. ASSUME next[thisReq] # NULL
          PROVE  next[thisReq] \in Slot /\ OnList(next[thisReq]) /\ next[thisReq] # thisReq
      <4>1. next[thisReq] \in Slot /\ OnList(next[thisReq]) /\ rk[next[thisReq]] = 0 + 1
        BY <3>1, <1>3, <1>5
      <4> QED
        BY <4>1, <1>3
    <3> QED
      BY <3>1, <1>4 DEF OnList
  <2> QED
    BY <2>1, <2>2, <2>3, <2>4 DEF Ranks
<1>12. OneFall'
  <2>1. \A x \in Slot : Falls(x)' => Falls(x)
    BY <1>4 DEF Falls, InOrder
  <2> QED
    BY <2>1, QParts DEF Sorted, OneFall
<1> QED
  BY <1>1, <1>11, <1>12 DEF Sorted

LEMMA QInterrupt ==
    ASSUME IInv, QInv, HdInterrupt
    PROVE  QInv'
<1>1. ctl # "idle" /\ raced' = (raced \/ \E t \in Task : pc[t] \in Window)
  BY DEF HdInterrupt
<1>2. ~raced' => ~raced /\ \A t \in Task : pc[t] \notin InAdd
  BY <1>1, Unfolded DEF Window, Flags
<1>3. CASE UNCHANGED <<busy, bh, next, thisReq, pc, rq, tmp>>
  BY <1>2, <1>3, QSameIntr
<1>4. CASE /\ doHd \in {"read_intr", "write_intr"} /\ UNCHANGED <<bh, next, pc, rq>>
           /\ \E ok \in BOOLEAN : EndRequest(thisReq, ok)
  <2>1. thisReq \in Slot
    BY <1>1, <1>4, Transfer
  <2>2. busy' = [busy EXCEPT ![thisReq] = FALSE] /\ thisReq' = next[thisReq]
    BY <1>4 DEF EndRequest
  <2>3. UNCHANGED <<bh, next, pc, rq>>
    BY <1>4
  <2> QED
    BY <1>2, <2>1, <2>2, <2>3, QEndRequest
<1>5. CASE doHd = "read_intr" /\ ReadIntr(thisReq)
  BY <1>3, <1>4, <1>5 DEF ReadIntr
<1>6. CASE doHd = "write_intr" /\ WriteIntr(thisReq)
  BY <1>3, <1>4, <1>6 DEF WriteIntr
<1>7. CASE doHd \in {"read_intr", "write_intr"} /\ BadRwIntr(thisReq)
  BY <1>3, <1>4, <1>7 DEF BadRwIntr
<1>8. CASE UNCHANGED <<reqVars, thisReq, sorting, bufVars, moved, torn, taskVars>>
  BY <1>3, <1>8 DEF reqVars, taskVars
<1> QED
  BY <1>5, <1>6, <1>7, <1>8 DEF HdInterrupt

LEMMA QStarts == Init => QInv
<1> SUFFICES ASSUME Init PROVE AddingTmp /\ Sorted
  BY QParts
<1>1. AddingTmp
  BY QParts DEF Init, TmpOn
<1>2. (\A s \in Slot : ~OnList(s)) /\ thisReq = NULL
  BY DEF Init, OnList
<1>3. OneFall
  BY <1>2 DEF OneFall, Falls
<1>4. [s \in Slot |-> 0] \in [Slot -> Nat]
  OBVIOUS
<1>5. Ranks([s \in Slot |-> 0])
  BY <1>2 DEF Ranks
<1> QED
  BY <1>1, <1>3, <1>4, <1>5 DEF Sorted

LEMMA QSteps == IInv /\ QInv /\ [Next]_vars => QInv'
<1> SUFFICES ASSUME IInv, QInv, [Next]_vars PROVE QInv'
  OBVIOUS
<1>1. ASSUME NEW t \in Task, NEW b \in Block, NEW c \in Command, Start(t, b, c) PROVE QInv'
  BY <1>1, QStart
<1>2. ASSUME NEW t \in Task, TaskStep(t) PROVE QInv'
  BY <1>2, QFindSlot, QSleepForSlot, QSlotWakeUp, QAddRequest, QAddFirst, QAddSecond,
     QAddSorted, QEndSorting, QRestart, QFinish DEF TaskStep
<1>3. CASE HdInterrupt
  BY <1>3, QInterrupt
<1>4. CASE UNCHANGED vars
  <2>1. UNCHANGED <<busy, bh, next, thisReq, pc, rq, tmp>> /\ raced' = raced
    BY <1>4 DEF vars, reqVars, drvVars, histVars, taskVars
  <2> QED
    BY <2>1, QSameIntr
<1> QED
  BY <1>1, <1>2, <1>3, <1>4 DEF Next

LEMMA QInvariant == Spec => [](IInv /\ QInv)
<1>1. Init => IInv /\ QInv
  BY Starts, QStarts
<1>2. IInv /\ QInv /\ [Next]_vars => (IInv /\ QInv)'
  BY Steps, QSteps
<1> QED
  BY <1>1, <1>2, PTL DEF Spec

\* add_request and the handlers: while interrupts stay clear of the windows the
\* list ends, holds requests in use only, and holds every request in use but
\* the one that a task is still adding.
THEOREM RequestsListed == Spec => []NoLostRequest
BY QInvariant, AllOnList, PTL

\* add_request: behind the first two requests the list falls at most once, so
\* it is at most two ascending sweeps over the disk.
THEOREM SweepsAreTwo == Spec => []TwoSweeps
BY QInvariant, OneDescent, PTL
=============================================================================
