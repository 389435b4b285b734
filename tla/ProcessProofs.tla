--------------------------- MODULE ProcessProofs ---------------------------
(***************************************************************************)
(* For every size of the task table, every number of pages and every range *)
(* of pids: the table and the pages agree, no two processes share a pid,   *)
(* the father of a process can collect it, and waitpid hands out the code  *)
(* the child exited with.                                                  *)
(***************************************************************************)
EXTENDS Process, FiniteSetsExt, FiniteSetTheorems, TLAPS

-----------------------------------------------------------------------------
\* Every set of numbers that is not empty has a least one, and Min is it.
LEMMA MinIsLeast ==
    ASSUME NEW S \in SUBSET Nat, S # {}
    PROVE  Min(S) \in S /\ \A y \in S : Min(S) <= y
<1> DEFINE R == {ss \in Nat \X Nat : ss[1] < ss[2]}
<1>1. OpToRel(<, Nat) = R
  BY Zenon DEF OpToRel
<1>2. IsWellFoundedOn(R, Nat)
  BY <1>1, NatLessThanWellFounded, Zenon
<1> HIDE DEF R
<1>3. PICK x \in S : \A y \in S : ~(<<y, x>> \in R)
  BY <1>2, WFMin, Zenon
<1>4. ASSUME NEW y \in S, y < x PROVE FALSE
  <2>1. <<y, x>> \in Nat \X Nat /\ <<y, x>>[1] < <<y, x>>[2]
    BY <1>4
  <2> QED
    BY <1>3, <2>1 DEF R
<1>5. \A y \in S : x <= y
  BY <1>4
<1> QED
  BY <1>5 DEF Min

\* Likewise every bounded set of numbers has a greatest one, and Max is it.
LEMMA MaxIsGreatest ==
    ASSUME NEW lim \in Nat, NEW S \in SUBSET (0 .. lim), S # {}
    PROVE  Max(S) \in S /\ \A y \in S : y <= Max(S)
<1> DEFINE D == {lim - p : p \in S}
<1> DEFINE m == Min(D)
<1>a. ASSUME NEW p \in S PROVE lim - p \in Nat /\ lim - p \in D
  OBVIOUS
<1>1. D \in SUBSET Nat /\ D # {}
  BY <1>a
<1>2. m \in D /\ \A y \in D : m <= y
  <2> HIDE DEF D
  <2> QED
    BY <1>1, MinIsLeast
<1>3. PICK x \in S : m = lim - x
  BY <1>2
<1>4. \A y \in S : m <= lim - y
  BY <1>2, <1>a
<1> HIDE DEF m
<1>5. \A y \in S : x >= y
  BY <1>3, <1>4
<1>6. Max(S) \in S /\ \A y \in S : Max(S) >= y
  BY <1>5 DEF Max
<1> QED
  BY <1>6

-----------------------------------------------------------------------------
\* What holds whether or not a tick cuts a fork.

\* A process has one slot, and the page of a process of the table is allocated.
OneSlot == \A s, r \in Slot : task[s] = task[r] /\ task[s] # Nothing => s = r
ListedUsed == \A p \in Page : Listed(p) => p \in used

\* A child that is being made has a page of its own, which is in no slot yet.
Coming ==
    /\ \A u \in Proc : pc[u] = "copy" => page[u] \in Page /\ page[u] \in used /\ ~Listed(page[u])
    /\ \A u, v \in Proc : pc[u] = "copy" /\ pc[v] = "copy" /\ page[u] = page[v] => u = v

\* Whatever comes into a page begins in user mode.
Fresh(p) == p \notin used \/ \E u \in Proc : pc[u] = "copy" /\ page[u] = p
FreshUser == \A p \in Page : Fresh(p) => pc[p] = "user"

\* A page that release() has taken out of the table and not yet freed: the
\* task's own, or that of a process whose exit is over.
Ending == {"tell", "code", "dead"}
Going ==
    /\ \A u \in Proc : pc[u] = "free" =>
            /\ page[u] \in Page /\ page[u] \in used /\ ~Listed(page[u])
            /\ page[u] = u \/ pc[page[u]] \in Ending
    /\ \A u, v \in Proc : pc[u] = "free" /\ pc[v] = "free" /\ page[u] = page[v] => u = v

ForkSlot == \A t \in Proc : pc[t] \in InFork => nr[t] # 0
ZombieEnds == \A p \in Proc : ts[p].state = Zombie => pc[p] \in {"tell", "code", "dead"}

\* Task 0 stays in its slot: it neither exits nor waits.
Root ==
    /\ task[0] = 0 /\ ts[0].pid = 0 /\ ts[0].state = Running
    /\ pc[0] \in {"user"} \union InFork

GInv == /\ TypeOK /\ OneSlot /\ ListedUsed /\ Coming /\ FreshUser /\ ForkSlot
        /\ ZombieEnds /\ Root

-----------------------------------------------------------------------------
\* What holds as long as no fork is cut.
ForkAlone == \A t \in Proc : pc[t] \in InFork => busy = t
ForkReady ==
    \A t \in Proc : pc[t] \in InFork =>
        /\ Listed(t) /\ ts[t].state = Running
        /\ task[nr[t]] = Nothing
        /\ last_pid >= 1 /\ PidFree(last_pid)
ChildReady ==
    \A t \in Proc : pc[t] = "copy" =>
        ts[page[t]].pid = last_pid /\ ts[page[t]].father = ts[t].pid /\ ts[page[t]].state # Zombie
UsedAll ==
    \A p \in used : Listed(p) \/ \E u \in Proc : pc[u] \in {"copy", "free"} /\ page[u] = p
PidsDistinct ==
    \A s, r \in Slot :
        task[s] # Nothing /\ task[r] # Nothing /\ s # r => ts[task[s]].pid # ts[task[r]].pid
PidsPositive == \A p \in Page : Listed(p) => ts[p].pid >= 1

\* A process that exits has given its children away and gets no new ones.
Childless ==
    \A t \in Page : Listed(t) /\ pc[t] \in InExit \union {"dead"} =>
        \A p \in Page : Listed(p) => ts[p].father # ts[t].pid

FParts == /\ ForkAlone /\ ForkReady /\ ChildReady /\ UsedAll /\ PidsDistinct
          /\ PidsPositive /\ FathersLive /\ Childless
FInv == "fork" \notin cut => FParts

-----------------------------------------------------------------------------
\* Who is inside release() is in the table or has the processor.
GoesOn ==
    cut \intersect {"fork", "release"} = {} =>
        \A u \in Proc : pc[u] = "free" => Listed(u) \/ busy = u

-----------------------------------------------------------------------------
\* The code of a zombie is there unless its exit is under way or was cut.
ZombieCode ==
    \A z \in Proc : ts[z].state = Zombie =>
        \/ ts[z].exit_code = 1
        \/ "exit" \in cut
        \/ busy = z /\ pc[z] \in {"tell", "code"}

-----------------------------------------------------------------------------
LEMMA Consts ==
    /\ NrTasks \in Nat /\ NrTasks >= 1 /\ Pages \in Nat /\ MaxPid \in Nat /\ MaxPid > Pages
    /\ 0 \in Slot /\ 0 \in Proc /\ 0 \notin Page /\ 0 \in Pid
    /\ Nothing \notin Proc /\ Nothing \notin Page /\ Page \subseteq Nat /\ Page \subseteq Proc
    /\ \A p \in Proc : p # 0 => p \in Page
    /\ 1 .. MaxPid \subseteq Pid
    /\ Asked \subseteq 1 .. MaxPid
<1>1. /\ NrTasks \in Nat \ {0} /\ Pages \in Nat
      /\ MaxPid \in Nat /\ MaxPid > Pages /\ Asked \subseteq 1 .. MaxPid
  BY ProcessAssumption, Zenon
<1>2. NrTasks >= 1 /\ 0 \in Slot /\ 0 \in Proc /\ 0 \notin Page /\ 0 \in Pid
  BY <1>1 DEF Slot, Proc, Page, Pid
<1>3. Nothing \notin Proc /\ Nothing \notin Page /\ Page \subseteq Nat /\ Page \subseteq Proc
  BY <1>1 DEF Proc, Page, Nothing
<1>4. (\A p \in Proc : p # 0 => p \in Page) /\ 1 .. MaxPid \subseteq Pid
  BY <1>1 DEF Proc, Page, Pid
<1> QED
  BY <1>1, <1>2, <1>3, <1>4

\* The fields of a task_struct, and one of them changed.
LEMMA FieldTypes ==
    ASSUME NEW f \in Fields
    PROVE  /\ f.pid \in Pid /\ f.father \in Pid \union {-1} /\ f.signal \in SUBSET Signal
           /\ f.state \in State /\ f.exit_code \in {0, 1}
BY DEF Fields

LEMMA SetState ==
    ASSUME NEW f \in Fields, NEW x \in State
    PROVE  LET g == [f EXCEPT !.state = x]
           IN /\ g \in Fields /\ g.state = x /\ g.pid = f.pid /\ g.father = f.father
              /\ g.signal = f.signal /\ g.exit_code = f.exit_code
BY DEF Fields

LEMMA SetSignal ==
    ASSUME NEW f \in Fields, NEW x \in SUBSET Signal
    PROVE  LET g == [f EXCEPT !.signal = x]
           IN /\ g \in Fields /\ g.state = f.state /\ g.pid = f.pid /\ g.father = f.father
              /\ g.signal = x /\ g.exit_code = f.exit_code
BY DEF Fields

LEMMA SetCode ==
    ASSUME NEW f \in Fields
    PROVE  LET g == [f EXCEPT !.exit_code = 1]
           IN /\ g \in Fields /\ g.state = f.state /\ g.pid = f.pid /\ g.father = f.father
              /\ g.signal = f.signal /\ g.exit_code = 1
BY DEF Fields

LEMMA SetFather ==
    ASSUME NEW f \in Fields
    PROVE  LET g == [f EXCEPT !.father = 0]
           IN /\ g \in Fields /\ g.state = f.state /\ g.pid = f.pid /\ g.father = 0
              /\ g.signal = f.signal /\ g.exit_code = f.exit_code
BY Consts DEF Fields

LEMMA BlankIs == Blank \in Fields /\ Blank.state = Running /\ Blank.pid = 0 /\ Blank.father = -1
BY Consts DEF Blank, Fields, State

\* The child of copy_process.
Child(f, n) == [f EXCEPT !.state = Uninterruptible, !.pid = n, !.father = f.pid, !.signal = {}]
LEMMA ChildIs ==
    ASSUME NEW f \in Fields, NEW n \in Pid
    PROVE  /\ Child(f, n) \in Fields /\ Child(f, n).state = Uninterruptible /\ Child(f, n).pid = n
           /\ Child(f, n).father = f.pid /\ Child(f, n).exit_code = f.exit_code
BY DEF Child, Fields, State

\* Max, over the pages and over the slots.
LEMMA MaxPage ==
    ASSUME NEW S \in SUBSET Page, S # {}
    PROVE  Max(S) \in S
<1>1. Pages \in Nat /\ S \in SUBSET (0 .. Pages)
  BY Consts DEF Page
<1> QED
  BY <1>1, MaxIsGreatest

LEMMA MaxSlot ==
    ASSUME NEW S \in SUBSET Slot, S # {}
    PROVE  Max(S) \in S
<1>1. NrTasks - 1 \in Nat /\ S \in SUBSET (0 .. NrTasks - 1)
  BY Consts DEF Slot
<1> QED
  BY <1>1, MaxIsGreatest

-----------------------------------------------------------------------------
\* The types, by kind.
Place == {"user", "dead", "free"} \union InFork \union InExit \union InWait
Tables == /\ task \in [Slot -> Proc \union {Nothing}] /\ used \subseteq Page
          /\ nr \in [Proc -> Slot] /\ page \in [Proc -> Page \union {Nothing}]
Args == /\ last_pid \in Pid /\ want \in [Proc -> Pid \union {Any}]
        /\ busy \in Proc \union {Nothing} /\ cut \subseteq {"fork", "exit", "release"}
Recs == ts \in [Proc -> Fields]
Places == pc \in [Proc -> Place]

LEMMA Types == TypeOK <=> Tables /\ Args /\ Recs /\ Places
BY Zenon DEF TypeOK, Tables, Args, Recs, Places, Place

LEMMA TypesNext == Tables' /\ Args' /\ Recs' /\ Places' => TypeOK'
BY Zenon DEF TypeOK, Tables, Args, Recs, Places, Place

LEMMA StatesDiffer ==
    /\ Running # Zombie /\ Interruptible # Zombie /\ Uninterruptible # Zombie
    /\ {Running, Interruptible, Uninterruptible, Zombie} \subseteq State
BY DEF Running, Interruptible, Uninterruptible, Zombie, State

-----------------------------------------------------------------------------
\* There is always a pid that no process of the table has: they are fewer than
\* the pids, and task 0 has none of them.
LEMMA PidLeft ==
    ASSUME Tables, Recs, Root
    PROVE  \E n \in 1 .. MaxPid : PidFree(n)
<1> SUFFICES ASSUME \A n \in 1 .. MaxPid : ~PidFree(n) PROVE FALSE
  OBVIOUS
<1> DEFINE P == 1 .. MaxPid
<1> DEFINE D == {p \in Page : ts[p].pid \in P}
<1> DEFINE f == [p \in D |-> ts[p].pid]
<1>1. ASSUME NEW n \in P PROVE \E p \in D : f[p] = n
  <2>1. PICK s \in Slot : task[s] # Nothing /\ ts[task[s]].pid = n
    BY DEF PidFree
  <2>2. task[s] \in Proc
    BY <2>1 DEF Tables
  <2>3. n # 0
    OBVIOUS
  <2>4. task[s] \in Page
    BY <2>1, <2>2, <2>3, Consts DEF Root
  <2> QED
    BY <2>1, <2>4
<1>2. f \in [D -> P]
  OBVIOUS
<1>3. f \in Surjection(D, P)
  <2> HIDE DEF P, D, f
  <2> QED
    BY <1>1, <1>2 DEF Surjection
<1>4. IsFiniteSet(Page) /\ Cardinality(Page) = Pages
  <2>1. 1 \in Int /\ Pages \in Int /\ Pages \in Nat
    BY Consts
  <2> QED
    BY <2>1, FS_Interval DEF Page
<1>5. IsFiniteSet(P) /\ Cardinality(P) = MaxPid
  <2>1. 1 \in Int /\ MaxPid \in Int /\ MaxPid \in Nat
    BY Consts
  <2> QED
    BY <2>1, FS_Interval
<1>6. IsFiniteSet(D) /\ Cardinality(D) <= Cardinality(Page)
  <2>1. D \subseteq Page
    OBVIOUS
  <2> HIDE DEF D
  <2> QED
    BY <2>1, <1>4, FS_Subset
<1>7. Cardinality(P) <= Cardinality(D)
  <2> HIDE DEF P, D, f
  <2> QED
    BY <1>3, <1>6, FS_Surjection
<1>8. Cardinality(D) \in Nat
  <2> HIDE DEF D
  <2> QED
    BY <1>6, FS_CardinalityType
<1> HIDE DEF P, D
<1> QED
  BY <1>4, <1>5, <1>6, <1>7, <1>8, Consts

\* What find_empty_process gives out is free.
LEMMA NextPidFree ==
    ASSUME Tables, Recs, Args, Root
    PROVE  NextPid \in 1 .. MaxPid /\ PidFree(NextPid)
<1> DEFINE F == {n \in 1 .. MaxPid : PidFree(n)}
<1> DEFINE D == {Distance(n) : n \in F}
<1> DEFINE d == Min(D)
<1>1. ASSUME NEW n \in F PROVE Distance(n) \in Nat
  <2>1. n \in Int /\ last_pid \in Int /\ MaxPid \in Nat /\ MaxPid > 0
    BY Consts DEF Args, Pid
  <2>2. n - last_pid - 1 \in Int
    BY <2>1
  <2> DEFINE x == n - last_pid - 1
  <2>3. x % MaxPid \in Nat
    <3> HIDE DEF x
    <3> QED
      BY <2>1, <2>2 DEF x
  <2> QED
    BY <2>3 DEF Distance
<1>2. F # {}
  BY PidLeft
<1>3. D \in SUBSET Nat /\ D # {}
  BY <1>1, <1>2
<1>4. d \in D /\ \A y \in D : d <= y
  <2> HIDE DEF D
  <2> QED
    BY <1>3, MinIsLeast
<1>5. PICK n \in F : d = Distance(n)
  BY <1>4
<1>6. \A m \in 1 .. MaxPid : PidFree(m) => Distance(n) <= Distance(m)
  <2>1. \A m \in F : Distance(m) \in D
    OBVIOUS
  <2> HIDE DEF D, d
  <2> QED
    BY <1>4, <1>5, <2>1
<1>7. \E k \in 1 .. MaxPid :
        /\ PidFree(k)
        /\ \A m \in 1 .. MaxPid : PidFree(m) => Distance(k) <= Distance(m)
  BY <1>6
<1> QED
  BY <1>7, Zenon DEF NextPid

-----------------------------------------------------------------------------
\* What the steps do to the task_structs.
Same(p) == /\ ts'[p].pid = ts[p].pid /\ ts'[p].father = ts[p].father
           /\ ts'[p].state = ts[p].state /\ ts'[p].exit_code = ts[p].exit_code
SameBut(q) == \A p \in Proc : p # q => Same(p)

LEMMA PutState ==
    ASSUME Recs, NEW t \in Proc, NEW x \in State, ts' = [ts EXCEPT ![t].state = x]
    PROVE  /\ Recs' /\ SameBut(t) /\ ts'[t].state = x
           /\ ts'[t].pid = ts[t].pid /\ ts'[t].father = ts[t].father
<1>1. ts[t] \in Fields
  BY DEF Recs
<1> DEFINE g == [ts[t] EXCEPT !.state = x]
<1>2. ts' = [ts EXCEPT ![t] = g]
  OBVIOUS
<1>3. g \in Fields /\ g.state = x /\ g.pid = ts[t].pid /\ g.father = ts[t].father
  BY <1>1, SetState
<1> HIDE DEF g
<1> QED
  BY <1>2, <1>3 DEF Recs, SameBut, Same

LEMMA PutCode ==
    ASSUME Recs, NEW t \in Proc, ts' = [ts EXCEPT ![t].exit_code = 1]
    PROVE  /\ Recs' /\ SameBut(t) /\ ts'[t].state = ts[t].state /\ ts'[t].exit_code = 1
           /\ ts'[t].pid = ts[t].pid /\ ts'[t].father = ts[t].father
<1>1. ts[t] \in Fields
  BY DEF Recs
<1> DEFINE g == [ts[t] EXCEPT !.exit_code = 1]
<1>2. ts' = [ts EXCEPT ![t] = g]
  OBVIOUS
<1>3. /\ g \in Fields /\ g.state = ts[t].state /\ g.pid = ts[t].pid
      /\ g.father = ts[t].father /\ g.exit_code = 1
  BY <1>1, SetCode
<1> HIDE DEF g
<1> QED
  BY <1>2, <1>3 DEF Recs, SameBut, Same

LEMMA PutBlank ==
    ASSUME Recs, NEW t \in Proc, ts' = [ts EXCEPT ![t] = Blank]
    PROVE  Recs' /\ SameBut(t) /\ ts'[t].state = Running
BY BlankIs DEF Recs, SameBut, Same

LEMMA PutWoken ==
    ASSUME Recs, NEW t \in Proc, NEW l \in SUBSET Signal,
           ts' = [ts EXCEPT ![t].state = Running, ![t].signal = l]
    PROVE  /\ Recs' /\ SameBut(t) /\ ts'[t].state = Running
           /\ ts'[t].pid = ts[t].pid /\ ts'[t].father = ts[t].father
<1>1. ts[t] \in Fields
  BY DEF Recs
<1> DEFINE g == [ts[t] EXCEPT !.state = Running]
<1> DEFINE h == [g EXCEPT !.signal = l]
<1>2. ts' = [ts EXCEPT ![t] = h]
  BY DEF Recs
<1>3. g \in Fields /\ g.state = Running /\ g.pid = ts[t].pid /\ g.father = ts[t].father
  BY <1>1, SetState, StatesDiffer
<1>4. h \in Fields /\ h.state = g.state /\ h.pid = g.pid /\ h.father = g.father
  <2> HIDE DEF g
  <2> QED
    BY <1>3, SetSignal
<1> HIDE DEF g, h
<1> QED
  BY <1>2, <1>3, <1>4 DEF Recs, SameBut, Same

LEMMA SignalsOnly ==
    ASSUME Recs, NEW n, NEW sig \in Signal, ts' = Signalled(ts, n, sig)
    PROVE  Recs' /\ \A p \in Proc : Same(p)
<1>1. ASSUME NEW p \in Proc PROVE ts'[p] \in Fields /\ Same(p)
  <2>1. ts[p] \in Fields
    BY DEF Recs
  <2> DEFINE g == [ts[p] EXCEPT !.signal = @ \union {sig}]
  <2>2. ts'[p] = IF p \in Named(n) THEN g ELSE ts[p]
    BY DEF Signalled
  <2>3. ts[p].signal \union {sig} \in SUBSET Signal
    BY <2>1, FieldTypes
  <2>4. /\ g \in Fields /\ g.state = ts[p].state /\ g.pid = ts[p].pid
        /\ g.father = ts[p].father /\ g.exit_code = ts[p].exit_code
    BY <2>1, <2>3, SetSignal
  <2> HIDE DEF g
  <2> QED
    BY <2>1, <2>2, <2>4 DEF Same
<1>2. ts' = [p \in Proc |-> ts'[p]]
  BY DEF Signalled
<1> QED
  BY <1>1, <1>2 DEF Recs

\* do_exit gives the children of t to task 0.
LEMMA GivesAway ==
    ASSUME Recs, NEW t \in Proc,
           ts' = [p \in Proc |->
                    IF Listed(p) /\ ts[p].father = ts[t].pid
                    THEN [ts[p] EXCEPT !.father = 0] ELSE ts[p]]
    PROVE  /\ Recs'
           /\ \A p \in Proc :
                /\ ts'[p].pid = ts[p].pid /\ ts'[p].state = ts[p].state
                /\ ts'[p].exit_code = ts[p].exit_code
                /\ ts'[p].father = IF Listed(p) /\ ts[p].father = ts[t].pid
                                   THEN 0 ELSE ts[p].father
<1>1. ASSUME NEW p \in Proc
      PROVE  /\ ts'[p] \in Fields
             /\ ts'[p].pid = ts[p].pid /\ ts'[p].state = ts[p].state
             /\ ts'[p].exit_code = ts[p].exit_code
             /\ ts'[p].father = IF Listed(p) /\ ts[p].father = ts[t].pid
                                THEN 0 ELSE ts[p].father
  <2>1. ts[p] \in Fields
    BY DEF Recs
  <2> DEFINE g == [ts[p] EXCEPT !.father = 0]
  <2>2. ts'[p] = IF Listed(p) /\ ts[p].father = ts[t].pid THEN g ELSE ts[p]
    OBVIOUS
  <2>3. /\ g \in Fields /\ g.state = ts[p].state /\ g.pid = ts[p].pid
        /\ g.father = 0 /\ g.exit_code = ts[p].exit_code
    BY <2>1, SetFather
  <2> HIDE DEF g
  <2>4. CASE Listed(p) /\ ts[p].father = ts[t].pid
    BY <2>2, <2>3, <2>4
  <2>5. CASE ~(Listed(p) /\ ts[p].father = ts[t].pid)
    BY <2>1, <2>2, <2>5
  <2> QED
    BY <2>4, <2>5
<1>2. ts' = [p \in Proc |-> ts'[p]]
  OBVIOUS
<1> QED
  BY <1>1, <1>2 DEF Recs

LEMMA PutChild ==
    ASSUME Recs, Args, NEW t \in Proc, NEW p \in Proc,
           ts' = [ts EXCEPT ![p] = [ts[t] EXCEPT
                    !.state = Uninterruptible,
                    !.pid = last_pid,
                    !.father = ts[t].pid,
                    !.signal = {}]]
    PROVE  /\ Recs' /\ SameBut(p) /\ ts'[p].state = Uninterruptible
           /\ ts'[p].pid = last_pid /\ ts'[p].father = ts[t].pid
<1>1. ts[t] \in Fields /\ last_pid \in Pid
  BY DEF Recs, Args
<1>2. ts' = [ts EXCEPT ![p] = Child(ts[t], last_pid)]
  BY Zenon DEF Child
<1>3. /\ Child(ts[t], last_pid) \in Fields /\ Child(ts[t], last_pid).state = Uninterruptible
      /\ Child(ts[t], last_pid).pid = last_pid /\ Child(ts[t], last_pid).father = ts[t].pid
  BY <1>1, ChildIs
<1> QED
  BY <1>2, <1>3 DEF Recs, SameBut, Same

-----------------------------------------------------------------------------
\* A process of the table, and one that is not in user mode, is not fresh.
LEMMA NotFresh ==
    ASSUME GInv, NEW t \in Proc, Listed(t) \/ pc[t] # "user"
    PROVE  t \in Page => ~Fresh(t)
BY DEF GInv, ListedUsed, Coming, FreshUser, Fresh

\* A step of t that leaves the table and the pages alone.
LEMMA QuietG ==
    ASSUME GInv, TypeOK', ZombieEnds', Root',
           task' = task, used' = used, page' = page, nr' = nr,
           NEW t \in Proc, t \in Page => ~Fresh(t),
           \A p \in Proc : p # t => pc'[p] = pc[p],
           pc[t] # "copy", pc'[t] \notin InFork
    PROVE  GInv'
<1>0. \A p \in Proc : Listed(p)' <=> Listed(p)
  BY DEF Listed
<1>1. OneSlot' /\ ListedUsed'
  BY <1>0, Consts DEF GInv, OneSlot, ListedUsed
<1>2. \A u \in Proc : pc'[u] = "copy" <=> pc[u] = "copy"
  BY DEF InFork
<1>3. Coming'
  BY <1>0, <1>2, Consts DEF GInv, Coming
<1>4. FreshUser'
  <2>1. ASSUME NEW p \in Page, Fresh(p)' PROVE Fresh(p)
    BY <2>1, <1>2 DEF Fresh
  <2> QED
    BY <2>1, Consts DEF GInv, FreshUser
<1>5. ForkSlot'
  BY DEF GInv, ForkSlot
<1> QED
  BY <1>1, <1>3, <1>4, <1>5 DEF GInv

\* A process of the table is released.
LEMMA ListedReleased ==
    ASSUME Tables, OneSlot, NEW z \in Page, Listed(z), task' = Released(z)
    PROVE  /\ task' \in [Slot -> Proc \union {Nothing}]
           /\ \A s \in Slot : task'[s] = IF task[s] = z THEN Nothing ELSE task[s]
           /\ \A q \in Proc : Listed(q)' <=> Listed(q) /\ q # z
<1>1. PICK r \in Slot : task[r] = z
  BY DEF Listed
<1>2. SlotOf(z) \in Slot /\ task[SlotOf(z)] = z
  BY <1>1 DEF SlotOf
<1>3. \A s \in Slot : task[s] = z <=> s = SlotOf(z)
  BY <1>2, Consts DEF OneSlot
<1>4. \A s \in Slot : task'[s] = IF task[s] = z THEN Nothing ELSE task[s]
  BY <1>3 DEF Released
<1>5. task' \in [Slot -> Proc \union {Nothing}]
  BY DEF Released, Tables
<1>6. \A q \in Proc : Listed(q)' <=> Listed(q) /\ q # z
  BY <1>4, Consts DEF Listed
<1> QED
  BY <1>4, <1>5, <1>6

LEMMA ReleaseG ==
    ASSUME GInv, TypeOK', NEW t \in Proc, Listed(t), t # 0, ts[t].state # Zombie,
           pc[t] \notin InFork, pc'[t] = "free",
           \A p \in Proc : p # t => pc'[p] = pc[p] /\ page'[p] = page[p],
           NEW z \in Page, Listed(z), task' = Released(z), used' = used, ts' = ts, nr' = nr
    PROVE  GInv'
<1>a. Tables /\ OneSlot
  BY Types DEF GInv
<1>0. /\ \A s \in Slot : task'[s] = IF task[s] = z THEN Nothing ELSE task[s]
      /\ \A q \in Proc : Listed(q)' <=> Listed(q) /\ q # z
  BY <1>a, ListedReleased
<1>1. OneSlot'
  BY <1>a, <1>0 DEF OneSlot
<1>2. ListedUsed'
  BY <1>0, Consts DEF GInv, ListedUsed
<1>3. \A u \in Proc : (pc'[u] = "copy" <=> pc[u] = "copy") /\ (pc[u] = "copy" => page'[u] = page[u])
  BY DEF InFork
<1>4. Coming'
  <2>1. ASSUME NEW u \in Proc, pc'[u] = "copy"
        PROVE  page'[u] \in Page /\ page'[u] \in used' /\ ~(\E s \in Slot : task'[s] = page'[u])
    <3>1. pc[u] = "copy" /\ page'[u] = page[u]
      BY <2>1, <1>3
    <3>2. page[u] \in Page /\ page[u] \in used /\ ~Listed(page[u])
      BY <3>1 DEF GInv, Coming
    <3> QED
      BY <3>1, <3>2, <1>0, Consts DEF Listed
  <2>2. ASSUME NEW u \in Proc, NEW v \in Proc, pc'[u] = "copy", pc'[v] = "copy",
               page'[u] = page'[v]
        PROVE  u = v
    BY <2>2, <1>3 DEF GInv, Coming
  <2> QED
    BY <2>1, <2>2 DEF Coming, Listed
<1>5. FreshUser'
  <2>1. ASSUME NEW p \in Page, Fresh(p)' PROVE Fresh(p)
    BY <2>1, <1>3 DEF Fresh
  <2>2. t \in Page => ~Fresh(t)
    BY NotFresh
  <2> QED
    BY <2>1, <2>2, Consts DEF GInv, FreshUser
<1>6. ForkSlot'
  BY DEF GInv, ForkSlot, InFork
<1>7. Root'
  <2>1. z # 0 /\ 0 \in Slot /\ 0 \in Proc
    BY Consts
  <2>3. pc'[0] = pc[0]
    BY <2>1
  <2>4. task'[0] = 0
    BY <2>1, <1>0 DEF GInv, Root
  <2> QED
    BY <2>3, <2>4 DEF GInv, Root
<1>8. ZombieEnds'
  BY DEF GInv, ZombieEnds
<1> QED
  BY <1>1, <1>2, <1>4, <1>5, <1>6, <1>7, <1>8 DEF GInv

-----------------------------------------------------------------------------
\* While no fork is cut: a step that leaves the table, the pages and the pids
\* alone while no fork is under way, or ends one without a child.
QuietStep == /\ task' = task /\ used' = used
             /\ \A q \in Proc : pc[q] # "copy" /\ pc'[q] \notin InFork
             /\ \A q \in Proc : ts'[q].pid = ts[q].pid
             /\ \A q \in Proc : pc[q] = "free" => pc'[q] = "free" /\ page'[q] = page[q]

LEMMA QuietListed == ASSUME QuietStep PROVE \A p \in Proc : Listed(p)' <=> Listed(p)
BY DEF QuietStep, Listed

LEMMA QuietF ==
    ASSUME GInv, FParts, QuietStep
    PROVE  (ForkAlone /\ ForkReady /\ ChildReady /\ UsedAll /\ PidsDistinct /\ PidsPositive)'
<1>0. \A p \in Proc : Listed(p)' <=> Listed(p)
  BY QuietListed
<1>1. (ForkAlone /\ ForkReady /\ ChildReady)'
  BY DEF QuietStep, ForkAlone, ForkReady, ChildReady, InFork
<1>2. UsedAll'
  <2>1. \A p \in used : p \in Proc
    BY Consts, Types DEF GInv, Tables
  <2> QED
    BY <1>0, <2>1 DEF QuietStep, FParts, UsedAll
<1>3. PidsDistinct'
  <2>1. \A s \in Slot : task[s] # Nothing => task[s] \in Proc
    BY Types DEF GInv, Tables
  <2> QED
    BY <2>1 DEF QuietStep, FParts, PidsDistinct
<1>4. PidsPositive'
  BY <1>0, Consts DEF QuietStep, FParts, PidsPositive
<1> QED
  BY <1>1, <1>2, <1>3, <1>4

LEMMA QuietFathers ==
    ASSUME GInv, FParts, QuietStep,
           \A p \in Proc : ts'[p].father \in {0, ts[p].father},
           \A p \in Page : Listed(p) /\ ts'[p].state = Zombie => ts[p].state = Zombie
    PROVE  FathersLive'
<1>0. \A p \in Proc : Listed(p)' <=> Listed(p)
  BY QuietListed
<1> SUFFICES ASSUME NEW p \in Page, Listed(p)', ts'[p].father > 0
             PROVE  \E q \in Page : /\ Listed(q)' /\ q # p
                                    /\ ts'[q].pid = ts'[p].father
                                    /\ ts'[q].state # Zombie
  BY DEF FathersLive
<1>1. ts'[p].father = ts[p].father
  <2>1. ~(0 > 0)
    OBVIOUS
  <2> QED
    BY <2>1, Consts
<1>2. PICK q \in Page : Listed(q) /\ q # p /\ ts[q].pid = ts[p].father /\ ts[q].state # Zombie
  BY <1>0, <1>1, Consts DEF FParts, FathersLive
<1> QED
  BY <1>0, <1>1, <1>2, Consts DEF QuietStep

LEMMA QuietChildless ==
    ASSUME GInv, FParts, QuietStep,
           \A p \in Proc : ts'[p].father \in {0, ts[p].father},
           \A p \in Page : Listed(p) /\ pc'[p] \in InExit \union {"dead"} =>
                               pc[p] \in InExit \union {"dead"}
    PROVE  Childless'
<1>0. \A p \in Proc : Listed(p)' <=> Listed(p)
  BY QuietListed
<1> SUFFICES ASSUME NEW t \in Page, Listed(t)', pc'[t] \in InExit \union {"dead"},
                    NEW p \in Page, Listed(p)'
             PROVE  ts'[p].father # ts'[t].pid
  BY DEF Childless
<1>1. t \in Proc /\ p \in Proc /\ Listed(t) /\ Listed(p)
  BY <1>0, Consts
<1>2. ts[p].father # ts[t].pid
  BY <1>1 DEF FParts, Childless
<1>3. ts'[t].pid = ts[t].pid /\ ts[t].pid >= 1
  BY <1>1 DEF QuietStep, FParts, PidsPositive
<1>4. ~(0 >= 1)
  OBVIOUS
<1>5. ts'[t].pid # 0
  BY <1>3, <1>4
<1> QED
  BY <1>1, <1>2, <1>3, <1>5

-----------------------------------------------------------------------------
IInv == GInv /\ FInv /\ ZombieCode /\ Going /\ GoesOn

\* t is the only task that moves.
Alone(t) == \A p \in Proc : p # t => pc'[p] = pc[p]

\* While no fork is cut, whoever runs is the only one that can be in a fork.
LEMMA NoOtherFork ==
    ASSUME FParts, NEW t \in Proc, busy \in {Nothing, t}
    PROVE  \A q \in Proc : q # t => pc[q] \notin InFork
BY Consts DEF FParts, ForkAlone

LEMMA QuietNow ==
    ASSUME FParts, NEW t \in Proc, busy \in {Nothing, t}, Alone(t),
           pc[t] \notin {"copy", "free"}, pc'[t] \notin InFork,
           task' = task, used' = used, page' = page, \A q \in Proc : ts'[q].pid = ts[q].pid
    PROVE  QuietStep
<1>1. \A q \in Proc : q # t => pc[q] \notin InFork
  BY NoOtherFork
<1>2. \A q \in Proc : pc[q] # "copy"
  BY <1>1 DEF InFork
<1>3. \A q \in Proc : pc'[q] \notin InFork
  BY <1>1 DEF Alone
<1>4. \A q \in Proc : pc[q] = "free" => pc'[q] = "free" /\ page'[q] = page[q]
  BY DEF Alone
<1> QED
  BY <1>2, <1>3, <1>4 DEF QuietStep

\* A step of t, outside release(), that takes no process out of the table.
LEMMA QuietGoing ==
    ASSUME GInv, Going, GoesOn, NEW t \in Proc, busy \in {Nothing, t}, Alone(t),
           pc[t] # "free", pc'[t] # "free", pc[t] \in Ending => pc'[t] \in Ending,
           \A p \in Proc : Listed(p)' <=> Listed(p), used \subseteq used', cut' = cut,
           \A u \in Proc : u # t => page'[u] = page[u]
    PROVE  Going' /\ GoesOn'
<1>1. ASSUME NEW u \in Proc, pc'[u] = "free"
      PROVE  u # t /\ pc[u] = "free" /\ page'[u] = page[u]
  BY <1>1 DEF Alone
<1>2. ASSUME NEW u \in Proc, pc'[u] = "free"
      PROVE  /\ page'[u] \in Page /\ page'[u] \in used' /\ ~Listed(page[u])'
             /\ page'[u] = u \/ pc'[page'[u]] \in Ending
  <2>1. u # t /\ pc[u] = "free" /\ page'[u] = page[u]
    BY <1>1, <1>2
  <2>2. /\ page[u] \in Page /\ page[u] \in used /\ ~Listed(page[u])
        /\ page[u] = u \/ pc[page[u]] \in Ending
    BY <2>1 DEF Going
  <2>3. page[u] \in Proc
    BY <2>2, Consts
  <2>4. ~Listed(page[u])'
    <3> DEFINE z == page[u]
    <3>1. z' = z
      BY <2>1
    <3>2. ~(\E s \in Slot : task'[s] = z)
      BY <2>2, <2>3 DEF Listed
    <3> QED
      BY <3>1, <3>2 DEF Listed
  <2> QED
    BY <2>1, <2>2, <2>3, <2>4 DEF Alone
<1>3. ASSUME NEW u \in Proc, NEW v \in Proc, pc'[u] = "free", pc'[v] = "free",
             page'[u] = page'[v]
      PROVE  u = v
  BY <1>1, <1>3 DEF Going
<1>4. Going'
  BY <1>2, <1>3 DEF Going
<1>5. GoesOn'
  <2> SUFFICES ASSUME cut \intersect {"fork", "release"} = {}, NEW u \in Proc, pc'[u] = "free"
               PROVE  Listed(u)'
    BY DEF GoesOn
  <2>1. u # t /\ pc[u] = "free"
    BY <1>1
  <2>2. Listed(u)
    BY <2>1, Consts DEF GoesOn
  <2> QED
    BY <2>2
<1> QED
  BY <1>4, <1>5

LEMMA QuietCode ==
    ASSUME ZombieCode, cut' = cut, NEW t \in Proc, busy \in {Nothing, t},
           ts[t].state # Zombie, NEW q \in Proc, SameBut(q), ts'[q].state # Zombie
    PROVE  ZombieCode'
<1> SUFFICES ASSUME NEW z \in Proc, ts'[z].state = Zombie
             PROVE  ts'[z].exit_code = 1 \/ "exit" \in cut'
  BY DEF ZombieCode
<1>1. z # q /\ ts[z].state = Zombie /\ ts'[z].exit_code = ts[z].exit_code
  BY DEF SameBut, Same
<1>2. z # t /\ busy # z
  BY <1>1, Consts
<1> QED
  BY <1>1, <1>2 DEF ZombieCode

LEMMA QuietEnds ==
    ASSUME ZombieEnds, NEW t \in Proc, SameBut(t), Alone(t), ts'[t].state # Zombie
    PROVE  ZombieEnds'
BY DEF ZombieEnds, SameBut, Same, Alone

\* A call of t that changes neither the table, nor a pid, nor a father.
LEMMA CallStep ==
    ASSUME IInv, TypeOK', NEW t \in Proc, busy \in {Nothing, t},
           Listed(t) \/ pc[t] # "user", ts[t].state # Zombie,
           task' = task, used' = used, page' = page, nr' = nr, cut' = cut,
           SameBut(t), Alone(t),
           ts'[t].state # Zombie, ts'[t].pid = ts[t].pid, ts'[t].father = ts[t].father,
           pc[t] \notin {"copy", "free"} \union Ending, pc'[t] \notin InFork, pc'[t] # "free",
           t = 0 => pc'[0] = "user" /\ ts'[0].state = ts[0].state,
           pc'[t] \in InExit \union {"dead"} => pc[t] \in InExit \union {"dead"}
    PROVE  IInv'
<1>1. ZombieEnds'
  BY QuietEnds DEF IInv, GInv
<1>2. Root'
  <2>1. 0 \in Slot /\ 0 \in Proc
    BY Consts
  <2>2. ts'[0].pid = ts[0].pid /\ ts'[0].state = ts[0].state
    BY <2>1 DEF SameBut, Same
  <2>3. pc'[0] = pc[0] \/ pc'[0] = "user"
    BY <2>1 DEF Alone
  <2> QED
    BY <2>2, <2>3 DEF IInv, GInv, Root
<1>3. GInv'
  <2>1. GInv
    BY DEF IInv
  <2>2. t \in Page => ~Fresh(t)
    BY <2>1, NotFresh
  <2> QED
    BY <2>1, <2>2, <1>1, <1>2, QuietG DEF Alone
<1>4. ZombieCode'
  BY QuietCode DEF IInv
<1>5. \A q \in Proc : ts'[q].pid = ts[q].pid /\ ts'[q].father = ts[q].father
  BY DEF SameBut, Same
<1>6. ASSUME "fork" \notin cut' PROVE FParts'
  <2>1. GInv /\ FParts
    BY <1>6 DEF IInv, FInv
  <2>2. QuietStep
    BY <2>1, <1>5, QuietNow
  <2>3. \A p \in Proc : ts'[p].father \in {0, ts[p].father}
    BY <1>5
  <2>4. \A p \in Page : Listed(p) /\ ts'[p].state = Zombie => ts[p].state = Zombie
    BY Consts DEF SameBut, Same
  <2>5. \A p \in Page : Listed(p) /\ pc'[p] \in InExit \union {"dead"} =>
                            pc[p] \in InExit \union {"dead"}
    BY Consts DEF Alone
  <2> QED
    BY <2>1, <2>2, <2>3, <2>4, <2>5, QuietF, QuietFathers, QuietChildless DEF FParts
<1>7. Going' /\ GoesOn'
  <2>1. \A p \in Proc : Listed(p)' <=> Listed(p)
    BY DEF Listed
  <2> QED
    BY <2>1, QuietGoing DEF IInv
<1> QED
  BY <1>3, <1>4, <1>6, <1>7 DEF IInv, FInv

-----------------------------------------------------------------------------
\* The calls that leave the table alone.
LEMMA Runs ==
    ASSUME NEW t \in Proc, CanRun(t)
    PROVE  Listed(t) /\ ts[t].state = Running /\ ts[t].state # Zombie /\ busy \in {Nothing, t}
BY StatesDiffer DEF CanRun

LEMMA Unfolded ==
    ASSUME IInv
    PROVE  GInv /\ Tables /\ Args /\ Recs /\ Places /\ ZombieCode /\ Going /\ GoesOn
BY Types DEF IInv, GInv

LEMMA Goes ==
    ASSUME Places, NEW t \in Proc, NEW w \in Place, Go(t, w)
    PROVE  Places' /\ Alone(t) /\ pc'[t] = w
BY DEF Go, Places, Alone

LEMMA PlacesAre ==
    /\ \A w \in {"user", "dead", "free", "fork", "copy", "exit", "zombie", "tell", "code",
                 "scan", "topause", "pause"} : w \in Place
    /\ \A w \in {"user", "free", "scan", "topause", "pause"} : w \notin InFork /\ w \notin InExit
    /\ \A w \in {"user", "fork", "copy", "exit", "zombie", "scan", "topause", "pause"} :
            w \notin Ending /\ w # "free"
    /\ \A w \in {"exit", "zombie", "tell", "code"} : w \in InExit /\ w \notin InFork
BY DEF Place, InFork, InExit, InWait, Ending

LEMMA SameTs == ASSUME ts' = ts PROVE \A p \in Proc : Same(p) /\ SameBut(p)
BY DEF Same, SameBut

LEMMA NotZero ==
    ASSUME IInv, pc[0] \notin {"user", "fork", "copy"} PROVE FALSE
BY DEF IInv, GInv, Root, InFork

LEMMA NewChildFails ==
    ASSUME IInv, NEW t \in Proc, CanRun(t), pc[t] = "fork", Go(t, "user"), Yields,
           UNCHANGED <<used, ts, page, task, last_pid, nr, want, cut>>
    PROVE  IInv'
<1>1. Tables' /\ Args' /\ Recs'
  BY Unfolded, Consts DEF Tables, Args, Recs, Yields
<1>2. Places' /\ Alone(t) /\ pc'[t] = "user"
  BY Unfolded, PlacesAre, Goes
<1>3. TypeOK'
  BY <1>1, <1>2, TypesNext
<1> QED
  BY <1>2, <1>3, Runs, SameTs, PlacesAre, CallStep DEF Same

LEMMA SysWaitpidStep ==
    ASSUME IInv, NEW t \in Proc, NEW n \in {Any} \union Asked, SysWaitpid(t, n)
    PROVE  IInv'
<1>0. n \in Pid \union {Any}
  BY Consts
<1>1. Tables' /\ Args' /\ Recs'
  BY <1>0, Unfolded DEF SysWaitpid, Tables, Args, Recs, KeepsCpu
<1>2. Places' /\ Alone(t) /\ pc'[t] = "scan"
  BY Unfolded, PlacesAre, Goes DEF SysWaitpid
<1>3. TypeOK'
  BY <1>1, <1>2, TypesNext
<1>4. /\ CanRun(t) /\ t # 0 /\ pc[t] = "user" /\ ts' = ts /\ task' = task /\ used' = used
      /\ page' = page /\ nr' = nr /\ cut' = cut
  BY DEF SysWaitpid
<1> QED
  BY <1>2, <1>3, <1>4, Runs, SameTs, PlacesAre, CallStep DEF Same

LEMMA WaitPausesStep ==
    ASSUME IInv, NEW t \in Proc, WaitPauses(t)
    PROVE  IInv'
<1>1. Tables' /\ Args'
  BY Unfolded DEF WaitPauses, Tables, Args, Yields
<1>2. Places' /\ Alone(t) /\ pc'[t] = "pause"
  BY Unfolded, PlacesAre, Goes DEF WaitPauses
<1>3. /\ Recs' /\ SameBut(t) /\ ts'[t].state = Interruptible
      /\ ts'[t].pid = ts[t].pid /\ ts'[t].father = ts[t].father
  BY Unfolded, StatesDiffer, PutState DEF WaitPauses
<1>4. TypeOK'
  BY <1>1, <1>2, <1>3, TypesNext
<1>5. /\ CanRun(t) /\ pc[t] = "topause" /\ task' = task /\ used' = used
      /\ page' = page /\ nr' = nr /\ cut' = cut
  BY DEF WaitPauses
<1>6. t # 0
  BY <1>5, NotZero
<1> QED
  BY <1>2, <1>3, <1>4, <1>5, <1>6, Runs, StatesDiffer, PlacesAre, CallStep

LEMMA WaitWakesStep ==
    ASSUME IInv, NEW t \in Proc, WaitWakes(t)
    PROVE  IInv'
<1> DEFINE left == ts[t].signal \ {CHLD}
<1>0. left \in SUBSET Signal
  <2>1. ts[t] \in Fields
    BY Unfolded DEF Recs
  <2> QED
    BY <2>1, FieldTypes
<1>1. Tables' /\ Args'
  BY Unfolded DEF WaitWakes, Tables, Args, Yields, KeepsCpu, Any
<1>2. Places' /\ Alone(t) /\ pc'[t] \in {"scan", "user"}
  <2>1. Go(t, "scan") \/ Go(t, "user")
    BY DEF WaitWakes
  <2> QED
    BY <2>1, Unfolded, PlacesAre, Goes
<1>3. /\ Recs' /\ SameBut(t) /\ ts'[t].state = Running
      /\ ts'[t].pid = ts[t].pid /\ ts'[t].father = ts[t].father
  <2>1. ts' = [ts EXCEPT ![t].state = Running, ![t].signal = left]
    BY DEF WaitWakes
  <2> HIDE DEF left
  <2> QED
    BY <2>1, <1>0, Unfolded, PutWoken
<1>4. TypeOK'
  BY <1>1, <1>2, <1>3, TypesNext
<1>5. /\ Listed(t) /\ pc[t] = "pause" /\ busy = Nothing /\ task' = task /\ used' = used
      /\ page' = page /\ nr' = nr /\ cut' = cut
  BY DEF WaitWakes
<1>6. t # 0
  BY <1>5, NotZero
<1>7. ts[t].state # Zombie
  BY <1>5 DEF IInv, GInv, ZombieEnds
<1> QED
  BY <1>2, <1>3, <1>4, <1>5, <1>6, <1>7, StatesDiffer, PlacesAre, CallStep

LEMMA SysKillStep ==
    ASSUME IInv, NEW t \in Proc, NEW n \in Target, NEW sig \in Sent, SysKill(t, n, sig)
    PROVE  IInv'
<1>0. sig \in Signal
  BY ProcessAssumption DEF Signal, CHLD, Other
<1>1. Tables' /\ Args' /\ Places'
  BY Unfolded DEF SysKill, Tables, Args, Places, Yields, locals
<1>2. Recs' /\ \A p \in Proc : Same(p)
  BY <1>0, Unfolded, SignalsOnly DEF SysKill
<1>3. TypeOK'
  BY <1>1, <1>2, TypesNext
<1>4. /\ CanRun(t) /\ pc[t] = "user" /\ pc' = pc /\ task' = task /\ used' = used
      /\ page' = page /\ nr' = nr /\ cut' = cut
  BY DEF SysKill, locals
<1>5. Alone(t) /\ SameBut(t)
  BY <1>2, <1>4 DEF Alone, SameBut
<1>6. /\ ts'[t].state = ts[t].state /\ ts'[t].pid = ts[t].pid
      /\ ts'[t].father = ts[t].father
  BY <1>2 DEF Same
<1> QED
  BY <1>3, <1>4, <1>5, <1>6, Runs, PlacesAre, CallStep

-----------------------------------------------------------------------------
\* find_empty_process.
LEMMA FindFails ==
    ASSUME IInv, NEW t \in Proc, CanRun(t), pc[t] = "user", last_pid' = NextPid, Yields,
           UNCHANGED <<pc, nr, task, used, ts, page, want, cut>>
    PROVE  IInv'
<1>0. NextPid \in Pid
  BY Unfolded, NextPidFree, Consts DEF IInv, GInv
<1>1. Tables' /\ Args' /\ Recs' /\ Places'
  BY <1>0, Unfolded DEF Tables, Args, Recs, Places, Yields
<1>2. TypeOK'
  BY <1>1, TypesNext
<1>3. Alone(t)
  BY DEF Alone
<1> QED
  BY <1>2, <1>3, Runs, SameTs, PlacesAre, CallStep DEF Same

LEMMA FindFinds ==
    ASSUME IInv, NEW t \in Proc, CanRun(t), pc[t] = "user", last_pid' = NextPid,
           NEW k \in Slot, k # 0, task[k] = Nothing,
           nr' = [nr EXCEPT ![t] = k], Go(t, "fork"), KeepsCpu(t),
           UNCHANGED <<task, used, ts, page, want, cut>>
    PROVE  IInv'
<1>0. NextPid \in Pid /\ NextPid \in 1 .. MaxPid /\ PidFree(NextPid)
  BY Unfolded, NextPidFree, Consts DEF IInv, GInv
<1>1. Tables' /\ Args' /\ Recs'
  BY <1>0, Unfolded DEF Tables, Args, Recs, KeepsCpu
<1>2. Places' /\ Alone(t) /\ pc'[t] = "fork"
  BY Unfolded, PlacesAre, Goes
<1>3. TypeOK'
  BY <1>1, <1>2, TypesNext
<1>4. \A p \in Proc : Listed(p)' <=> Listed(p)
  BY DEF Listed
<1>5. \A u \in Proc : pc'[u] = "copy" <=> pc[u] = "copy"
  BY <1>2 DEF Alone
<1>6. nr'[t] = k /\ \A q \in Proc : q # t => nr'[q] = nr[q]
  BY Unfolded DEF Tables
<1>7. Listed(t) /\ ts[t].state = Running /\ busy \in {Nothing, t} /\ busy' = t
  BY Runs DEF KeepsCpu
<1>8. GInv'
  <2>1. t \in Page => ~Fresh(t)
    BY <1>7, NotFresh DEF IInv
  <2>2. OneSlot' /\ ListedUsed' /\ Coming'
    BY <1>4, <1>5, Consts DEF IInv, GInv, OneSlot, ListedUsed, Coming
  <2>3. FreshUser'
    <3>1. ASSUME NEW p \in Page, Fresh(p)' PROVE Fresh(p)
      BY <3>1, <1>5 DEF Fresh
    <3> QED
      BY <3>1, <2>1, <1>2, Consts DEF IInv, GInv, FreshUser, Alone
  <2>4. ForkSlot'
    BY <1>2, <1>6 DEF IInv, GInv, ForkSlot, Alone
  <2>5. ZombieEnds'
    BY <1>2, <1>7, StatesDiffer DEF IInv, GInv, ZombieEnds, Alone
  <2>6. Root'
    BY <1>2, Consts DEF IInv, GInv, Root, Alone, InFork
  <2> QED
    BY <1>3, <2>2, <2>3, <2>4, <2>5, <2>6 DEF GInv
<1>9. ZombieCode'
  BY Unfolded, Runs, SameTs, QuietCode
<1>10. ASSUME "fork" \notin cut' PROVE FParts'
  <2>1. GInv /\ FParts
    BY <1>10 DEF IInv, FInv
  <2>2. \A q \in Proc : q # t => pc[q] \notin InFork /\ pc'[q] \notin InFork
    BY <2>1, <1>2, <1>7, NoOtherFork DEF Alone
  <2>3. \A q \in Proc : pc[q] # "copy" /\ pc'[q] # "copy"
    BY <2>2, <1>2 DEF InFork
  <2>4. ForkAlone'
    BY <2>2, <1>7 DEF ForkAlone
  <2>5. ForkReady'
    <3>2. last_pid' >= 1
      BY <1>0
    <3>3. PidFree(last_pid)'
      BY <1>0 DEF PidFree
    <3> QED
      BY <2>2, <3>2, <3>3, <1>4, <1>6, <1>7 DEF ForkReady
  <2>6. ChildReady'
    BY <2>3 DEF ChildReady
  <2>7. UsedAll'
    <3>1. \A p \in used : p \in Proc
      BY Consts, Unfolded DEF Tables
    <3> QED
      BY <3>1, <2>1, <2>3, <1>2, <1>4 DEF FParts, UsedAll, Alone
  <2>8. PidsDistinct' /\ PidsPositive' /\ FathersLive'
    BY <2>1, <1>4, Consts DEF FParts, PidsDistinct, PidsPositive, FathersLive
  <2>9. Childless'
    <3>1. "fork" \notin InExit \union {"dead"}
      BY DEF InExit
    <3>2. \A p \in Proc : pc'[p] \in InExit \union {"dead"} => pc[p] \in InExit \union {"dead"}
      BY <3>1, <1>2 DEF Alone
    <3> QED
      BY <2>1, <3>2, <1>4, Consts DEF FParts, Childless
  <2> QED
    BY <2>4, <2>5, <2>6, <2>7, <2>8, <2>9 DEF FParts
<1>11. Going' /\ GoesOn'
  BY <1>2, <1>4, <1>7, Unfolded, QuietGoing DEF Ending
<1> QED
  BY <1>8, <1>9, <1>10, <1>11 DEF IInv, FInv

LEMMA FindEmptyProcessStep ==
    ASSUME IInv, NEW t \in Proc, FindEmptyProcess(t)
    PROVE  IInv'
<1> DEFINE empty == {s \in Slot \ {0} : task[s] = Nothing}
<1>1. /\ CanRun(t) /\ pc[t] = "user" /\ last_pid' = NextPid
      /\ UNCHANGED <<task, used, ts, page, want, cut>>
  BY DEF FindEmptyProcess
<1>2. CASE Yields /\ UNCHANGED <<pc, nr>>
  BY <1>1, <1>2, FindFails
<1>3. CASE empty # {} /\ nr' = [nr EXCEPT ![t] = Min(empty)] /\ Go(t, "fork") /\ KeepsCpu(t)
  <2>1. empty \in SUBSET Nat
    BY Consts DEF Slot
  <2>2. Min(empty) \in empty
    <3> HIDE DEF empty
    <3> QED
      BY <2>1, <1>3, MinIsLeast
  <2>3. Min(empty) \in Slot /\ Min(empty) # 0 /\ task[Min(empty)] = Nothing
    BY <2>2
  <2> HIDE DEF empty
  <2> QED
    BY <1>1, <1>3, <2>3, FindFinds
<1> QED
  BY <1>1, <1>2, <1>3 DEF FindEmptyProcess

-----------------------------------------------------------------------------
\* do_exit.
LEMMA DoExitStep ==
    ASSUME IInv, NEW t \in Proc, DoExit(t)
    PROVE  IInv'
<1>1. Tables' /\ Args'
  BY Unfolded DEF DoExit, Tables, Args, Yields, KeepsCpu
<1>2. Places' /\ Alone(t) /\ pc'[t] = "exit"
  BY Unfolded, PlacesAre, Goes DEF DoExit
<1>3. /\ Recs'
      /\ \A p \in Proc :
            /\ ts'[p].pid = ts[p].pid /\ ts'[p].state = ts[p].state
            /\ ts'[p].exit_code = ts[p].exit_code
            /\ ts'[p].father = IF Listed(p) /\ ts[p].father = ts[t].pid
                               THEN 0 ELSE ts[p].father
  BY Unfolded, GivesAway DEF DoExit
<1>4. TypeOK'
  BY <1>1, <1>2, <1>3, TypesNext
<1>5. /\ CanRun(t) /\ t # 0 /\ pc[t] = "user" /\ task' = task /\ used' = used
      /\ page' = page /\ nr' = nr /\ cut' = cut
  BY DEF DoExit
<1>6. Listed(t) /\ ts[t].state # Zombie /\ busy \in {Nothing, t}
  BY <1>5, Runs
<1>7. GInv'
  <2>1. GInv
    BY DEF IInv
  <2>2. t \in Page => ~Fresh(t)
    BY <2>1, <1>6, NotFresh
  <2>3. ZombieEnds'
    BY <2>1, <1>2, <1>3, <1>6 DEF GInv, ZombieEnds, Alone
  <2>4. Root'
    BY <2>1, <1>2, <1>3, <1>5, Consts DEF GInv, Root, Alone
  <2> QED
    BY <2>1, <2>2, <2>3, <2>4, <1>2, <1>4, <1>5, PlacesAre, QuietG DEF Alone
<1>8. ZombieCode'
  <2> SUFFICES ASSUME NEW z \in Proc, ts'[z].state = Zombie
               PROVE  ts'[z].exit_code = 1 \/ "exit" \in cut'
    BY DEF ZombieCode
  <2>1. ts[z].state = Zombie /\ ts'[z].exit_code = ts[z].exit_code /\ z # t /\ busy # z
    BY <1>3, <1>6, Consts
  <2> QED
    BY <2>1, <1>5, Unfolded DEF ZombieCode
<1>9. ASSUME "fork" \notin cut' PROVE FParts'
  <2>1. GInv /\ FParts
    BY <1>9, <1>5 DEF IInv, FInv
  <2>2. QuietStep
    BY <2>1, <1>2, <1>3, <1>5, <1>6, PlacesAre, QuietNow
  <2>3. \A p \in Proc : ts'[p].father \in {0, ts[p].father}
    BY <1>3
  <2>4. FathersLive'
    BY <2>1, <2>2, <2>3, <1>3, Consts, QuietFathers
  <2>5. Childless'
    <3> SUFFICES ASSUME NEW u \in Page, Listed(u)', pc'[u] \in InExit \union {"dead"},
                        NEW p \in Page, Listed(p)'
                 PROVE  ts'[p].father # ts'[u].pid
      BY DEF Childless
    <3>1. u \in Proc /\ p \in Proc /\ Listed(u) /\ Listed(p)
      BY <2>2, QuietListed, Consts
    <3>2. ts'[u].pid = ts[u].pid /\ ts[u].pid >= 1
      BY <3>1, <2>1, <1>3 DEF FParts, PidsPositive
    <3>3. ts[u].pid # 0
      <4>1. ~(0 >= 1)
        OBVIOUS
      <4> QED
        BY <3>2, <4>1
    <3>4. CASE u = t
      BY <3>1, <3>2, <3>3, <3>4, <1>3
    <3>5. CASE u # t
      <4>1. pc[u] \in InExit \union {"dead"}
        BY <3>1, <3>5, <1>2 DEF Alone
      <4>2. ts[p].father # ts[u].pid
        BY <4>1, <3>1, <2>1 DEF FParts, Childless
      <4> QED
        BY <4>2, <3>1, <3>2, <3>3, <1>3
    <3> QED
      BY <3>4, <3>5
  <2> QED
    BY <2>1, <2>2, <2>4, <2>5, QuietF DEF FParts
<1>10. Going' /\ GoesOn'
  <2>1. \A p \in Proc : Listed(p)' <=> Listed(p)
    BY <1>5 DEF Listed
  <2> QED
    BY <2>1, <1>2, <1>5, <1>6, Unfolded, QuietGoing DEF Ending
<1> QED
  BY <1>7, <1>8, <1>9, <1>10 DEF IInv, FInv

LEMMA ExitZombieStep ==
    ASSUME IInv, NEW t \in Proc, ExitZombie(t)
    PROVE  IInv'
<1>1. Tables' /\ Args'
  BY Unfolded DEF ExitZombie, Tables, Args, KeepsCpu
<1>2. Places' /\ Alone(t) /\ pc'[t] = "tell"
  BY Unfolded, PlacesAre, Goes DEF ExitZombie
<1>3. /\ Recs' /\ SameBut(t) /\ ts'[t].state = Zombie
      /\ ts'[t].pid = ts[t].pid /\ ts'[t].father = ts[t].father
  BY Unfolded, StatesDiffer, PutState DEF ExitZombie
<1>4. TypeOK'
  BY <1>1, <1>2, <1>3, TypesNext
<1>5. /\ CanRun(t) /\ pc[t] = "zombie" /\ task' = task /\ used' = used
      /\ page' = page /\ nr' = nr /\ cut' = cut /\ busy' = t
  BY DEF ExitZombie, KeepsCpu
<1>6. Listed(t) /\ ts[t].state # Zombie /\ busy \in {Nothing, t}
  BY <1>5, Runs
<1>t. t # 0 /\ t \in Page
  BY <1>5, NotZero, Consts
<1>7. GInv'
  <2>1. GInv
    BY DEF IInv
  <2>2. t \in Page => ~Fresh(t)
    BY <2>1, <1>6, NotFresh
  <2>3. ZombieEnds'
    BY <2>1, <1>2, <1>3 DEF GInv, ZombieEnds, Alone, SameBut, Same
  <2>4. Root'
    BY <2>1, <1>2, <1>3, <1>5, <1>t, Consts DEF GInv, Root, Alone, SameBut, Same
  <2> QED
    BY <2>1, <2>2, <2>3, <2>4, <1>2, <1>4, <1>5, PlacesAre, QuietG DEF Alone
<1>8. ZombieCode'
  <2> SUFFICES ASSUME NEW z \in Proc, ts'[z].state = Zombie, z # t
               PROVE  ts'[z].exit_code = 1 \/ "exit" \in cut'
    BY <1>2, <1>5 DEF ZombieCode
  <2>1. ts[z].state = Zombie /\ ts'[z].exit_code = ts[z].exit_code /\ busy # z
    BY <1>3, <1>6, Consts DEF SameBut, Same
  <2> QED
    BY <2>1, <1>5, Unfolded DEF ZombieCode
<1>9. ASSUME "fork" \notin cut' PROVE FParts'
  <2>1. GInv /\ FParts
    BY <1>9, <1>5 DEF IInv, FInv
  <2>0. \A q \in Proc : ts'[q].pid = ts[q].pid /\ ts'[q].father = ts[q].father
    BY <1>3 DEF SameBut, Same
  <2>2. QuietStep
    BY <2>1, <2>0, <1>2, <1>5, <1>6, PlacesAre, QuietNow
  <2>3. \A p \in Proc : ts'[p].father \in {0, ts[p].father}
    BY <2>0
  <2>4. FathersLive'
    <3> SUFFICES ASSUME NEW p \in Page, Listed(p)', ts'[p].father > 0
                 PROVE  \E q \in Page : /\ Listed(q)' /\ q # p
                                        /\ ts'[q].pid = ts'[p].father
                                        /\ ts'[q].state # Zombie
      BY DEF FathersLive
    <3>1. p \in Proc /\ Listed(p)
      BY <2>2, QuietListed, Consts
    <3>2. PICK q \in Page : /\ Listed(q) /\ q # p
                            /\ ts[q].pid = ts[p].father /\ ts[q].state # Zombie
      BY <2>0, <2>1, <3>1 DEF FParts, FathersLive
    <3>3. ts[p].father # ts[t].pid
      BY <2>1, <3>1, <1>t, <1>5, <1>6, PlacesAre DEF FParts, Childless
    <3>4. q # t /\ q \in Proc
      BY <3>2, <3>3, Consts
    <3>5. Listed(q)' /\ ts'[q].state # Zombie
      BY <3>2, <3>4, <2>2, <1>3, QuietListed DEF SameBut, Same
    <3> QED
      BY <3>1, <3>2, <3>4, <3>5, <2>0
  <2>5. \A p \in Page : Listed(p) /\ pc'[p] \in InExit \union {"dead"} =>
                            pc[p] \in InExit \union {"dead"}
    BY <1>2, <1>5, Consts, PlacesAre DEF Alone
  <2> QED
    BY <2>1, <2>2, <2>3, <2>4, <2>5, QuietF, QuietChildless DEF FParts
<1>10. Going' /\ GoesOn'
  <2>1. \A p \in Proc : Listed(p)' <=> Listed(p)
    BY <1>5 DEF Listed
  <2> QED
    BY <2>1, <1>2, <1>5, <1>6, Unfolded, QuietGoing DEF Ending
<1> QED
  BY <1>7, <1>8, <1>9, <1>10 DEF IInv, FInv

\* The last steps of an exit, of a task that no longer runs by its state.
LEMMA ExitEnds ==
    ASSUME IInv, TypeOK', ZombieCode', NEW t \in Proc, busy = t,
           pc[t] \in {"tell", "code"}, pc'[t] \in {"code", "dead"}, Alone(t),
           task' = task, used' = used, page' = page, nr' = nr, cut' = cut,
           SameBut(t), ts'[t].state = ts[t].state, ts'[t].pid = ts[t].pid,
           ts'[t].father = ts[t].father
    PROVE  IInv'
<1>0. /\ \A q \in Proc : ts'[q].pid = ts[q].pid /\ ts'[q].father = ts[q].father
      /\ \A q \in Proc : ts'[q].state = ts[q].state
  BY DEF SameBut, Same
<1>1. t # 0
  BY NotZero
<1>2. pc'[t] \notin InFork /\ pc[t] \in InExit
  BY DEF InFork, InExit
<1>3. GInv'
  <2>1. GInv
    BY DEF IInv
  <2>2. t \in Page => ~Fresh(t)
    BY <2>1, NotFresh
  <2>3. ZombieEnds'
    BY <2>1, <1>0 DEF GInv, ZombieEnds, Alone
  <2>4. Root'
    BY <2>1, <1>0, <1>1, Consts DEF GInv, Root, Alone
  <2> QED
    BY <2>1, <2>2, <2>3, <2>4, <1>2, QuietG DEF Alone
<1>4. ASSUME "fork" \notin cut' PROVE FParts'
  <2>1. GInv /\ FParts
    BY <1>4 DEF IInv, FInv
  <2>2. QuietStep
    BY <2>1, <1>0, <1>2, QuietNow
  <2>3. \A p \in Proc : ts'[p].father \in {0, ts[p].father}
    BY <1>0
  <2>4. \A p \in Page : Listed(p) /\ ts'[p].state = Zombie => ts[p].state = Zombie
    BY <1>0, Consts
  <2>5. \A p \in Page : Listed(p) /\ pc'[p] \in InExit \union {"dead"} =>
                            pc[p] \in InExit \union {"dead"}
    BY <1>2, Consts DEF Alone
  <2> QED
    BY <2>1, <2>2, <2>3, <2>4, <2>5, QuietF, QuietFathers, QuietChildless DEF FParts
<1>5. Going' /\ GoesOn'
  <2>1. \A p \in Proc : Listed(p)' <=> Listed(p)
    BY DEF Listed
  <2> QED
    BY <2>1, Unfolded, QuietGoing DEF Ending
<1> QED
  BY <1>3, <1>4, <1>5 DEF IInv, FInv

LEMMA ExitTellsStep ==
    ASSUME IInv, NEW t \in Proc, ExitTells(t)
    PROVE  IInv'
<1>1. Tables' /\ Args'
  BY Unfolded DEF ExitTells, Tables, Args
<1>2. Places' /\ Alone(t) /\ pc'[t] = "code"
  BY Unfolded, PlacesAre, Goes DEF ExitTells
<1>3. Recs' /\ \A p \in Proc : Same(p)
  <2>1. CASE ts' = ts
    BY <2>1, Unfolded, SameTs DEF Recs
  <2>2. CASE ts' = Signalled(ts, ts[t].father, CHLD)
    BY <2>2, Unfolded, SignalsOnly DEF Signal
  <2> QED
    BY <2>1, <2>2 DEF ExitTells
<1>4. TypeOK'
  BY <1>1, <1>2, <1>3, TypesNext
<1>5. /\ busy = t /\ pc[t] = "tell" /\ task' = task /\ used' = used
      /\ page' = page /\ nr' = nr /\ cut' = cut /\ busy' = busy
  BY DEF ExitTells
<1>6. /\ SameBut(t) /\ ts'[t].state = ts[t].state /\ ts'[t].pid = ts[t].pid
      /\ ts'[t].father = ts[t].father /\ ts'[t].exit_code = ts[t].exit_code
  BY <1>3 DEF SameBut, Same
<1>7. ZombieCode'
  BY <1>2, <1>5, <1>6, Unfolded DEF ZombieCode, SameBut, Same
<1> QED
  BY <1>2, <1>4, <1>5, <1>6, <1>7, ExitEnds

LEMMA ExitCodeStep ==
    ASSUME IInv, NEW t \in Proc, ExitCode(t)
    PROVE  IInv'
<1>1. Tables' /\ Args'
  BY Unfolded DEF ExitCode, Tables, Args, Yields
<1>2. Places' /\ Alone(t) /\ pc'[t] = "dead"
  BY Unfolded, PlacesAre, Goes DEF ExitCode
<1>3. /\ Recs' /\ SameBut(t) /\ ts'[t].state = ts[t].state /\ ts'[t].exit_code = 1
      /\ ts'[t].pid = ts[t].pid /\ ts'[t].father = ts[t].father
  BY Unfolded, PutCode DEF ExitCode
<1>4. TypeOK'
  BY <1>1, <1>2, <1>3, TypesNext
<1>5. /\ busy = t /\ pc[t] = "code" /\ task' = task /\ used' = used
      /\ page' = page /\ nr' = nr /\ cut' = cut
  BY DEF ExitCode
<1>6. ZombieCode'
  BY <1>3, <1>5, Unfolded DEF ZombieCode, SameBut, Same
<1> QED
  BY <1>2, <1>3, <1>4, <1>5, <1>6, ExitEnds

-----------------------------------------------------------------------------
\* release.
LEMMA ReleaseStep ==
    ASSUME IInv, NEW t \in Proc, CanRun(t), t # 0, pc[t] \in {"exit", "scan"},
           NEW z \in Page, Listed(z), z = t \/ ts[z].state = Zombie,
           z = t => pc[t] = "exit", Release(t, z),
           UNCHANGED <<last_pid, nr, want, cut>>
    PROVE  IInv'
<1>0. Listed(t) /\ ts[t].state # Zombie /\ busy \in {Nothing, t}
  BY Runs
<1>1. GInv /\ Tables /\ OneSlot /\ Args /\ Recs /\ Places /\ ZombieCode /\ Going /\ GoesOn
  BY Unfolded DEF GInv
<1>2. /\ task' = Released(z) /\ page' = [page EXCEPT ![t] = z] /\ used' = used /\ ts' = ts
      /\ busy' = t
  BY DEF Release, KeepsCpu
<1>3. Places' /\ Alone(t) /\ pc'[t] = "free"
  BY <1>1, PlacesAre, Goes DEF Release
<1>4. z \in Proc /\ z # 0
  BY Consts
<1>5. page'[t] = z /\ \A u \in Proc : u # t => page'[u] = page[u]
  BY <1>1, <1>2 DEF Tables
<1>6. /\ task' \in [Slot -> Proc \union {Nothing}]
      /\ \A s \in Slot : task'[s] = IF task[s] = z THEN Nothing ELSE task[s]
      /\ \A q \in Proc : Listed(q)' <=> Listed(q) /\ q # z
  BY <1>1, <1>2, ListedReleased
<1>7. TypeOK'
  <2>1. Tables' /\ Args' /\ Recs'
    BY <1>1, <1>2, <1>6 DEF Tables, Args, Recs
  <2> QED
    BY <2>1, <1>3, TypesNext
<1>8. pc[t] \notin InFork
  BY PlacesAre
<1>9. GInv'
  BY <1>0, <1>1, <1>2, <1>3, <1>5, <1>7, <1>8, ReleaseG DEF Alone
<1>10. pc[z] \in InExit \union {"dead"} /\ (z # t => pc[z] \in Ending)
  BY <1>1, <1>4 DEF GInv, ZombieEnds, InExit, Ending
<1>11. ZombieCode'
  BY <1>0, <1>2, SameTs, <1>1, QuietCode
<1>12. Going'
  <2>1. ASSUME NEW u \in Proc, pc'[u] = "free"
        PROVE  /\ page'[u] \in Page /\ page'[u] \in used' /\ ~(\E s \in Slot : task'[s] = page'[u])
               /\ page'[u] = u \/ pc'[page'[u]] \in Ending
               /\ u # t => pc[u] = "free" /\ page'[u] = page[u] /\ page[u] # z
    <3>1. CASE u = t
      <4>1. z \in used /\ ~(\E s \in Slot : task'[s] = z)
        BY <1>1, <1>6, Consts DEF GInv, ListedUsed
      <4> QED
        BY <4>1, <3>1, <1>2, <1>3, <1>4, <1>5, <1>10 DEF Alone
    <3>2. CASE u # t
      <4>1. pc[u] = "free" /\ page'[u] = page[u]
        BY <3>2, <2>1, <1>3, <1>5 DEF Alone
      <4>2. /\ page[u] \in Page /\ page[u] \in used /\ ~Listed(page[u])
            /\ page[u] = u \/ pc[page[u]] \in Ending
        BY <4>1, <1>1 DEF Going
      <4>3. page[u] \in Proc /\ page[u] # t /\ page[u] # z
        BY <4>2, <1>0, Consts
      <4>4. ~(\E s \in Slot : task'[s] = page[u])
        BY <4>2, <4>3, <1>6, Consts DEF Listed
      <4> QED
        BY <4>1, <4>2, <4>3, <4>4, <1>2, <1>3 DEF Alone
    <3> QED
      BY <3>1, <3>2
  <2>2. ASSUME NEW u \in Proc, NEW v \in Proc, pc'[u] = "free", pc'[v] = "free",
               page'[u] = page'[v]
        PROVE  u = v
    BY <2>1, <2>2, <1>1, <1>5 DEF Going
  <2> QED
    BY <2>1, <2>2 DEF Going, Listed
<1>13. GoesOn'
  <2> SUFFICES ASSUME cut \intersect {"fork", "release"} = {}, NEW u \in Proc, pc'[u] = "free",
                      u # t
               PROVE  Listed(u)'
    BY <1>2 DEF GoesOn
  <2>1. pc[u] = "free"
    BY <1>3 DEF Alone
  <2>2. Listed(u)
    BY <2>1, <1>0, <1>1, Consts DEF GoesOn
  <2>3. u # z
    BY <2>1, <1>10 DEF InExit
  <2> QED
    BY <2>2, <2>3, <1>6
<1>14. ASSUME "fork" \notin cut' PROVE FParts'
  <2>1. FParts
    BY <1>14 DEF IInv, FInv
  <2>2. \A q \in Proc : pc[q] \notin InFork /\ pc'[q] \notin InFork
    BY <2>1, <1>0, <1>3, <1>8, NoOtherFork, PlacesAre DEF Alone
  <2>3. \A q \in Proc : pc[q] # "copy" /\ pc'[q] # "copy"
    BY <2>2 DEF InFork
  <2>4. ForkAlone' /\ ForkReady' /\ ChildReady'
    BY <2>2, <2>3 DEF ForkAlone, ForkReady, ChildReady
  <2>5. UsedAll'
    <3>1. \A p \in used : p \in Proc
      BY Consts, <1>1 DEF Tables
    <3>2. ASSUME NEW p \in used
          PROVE  Listed(p)' \/ \E u \in Proc : pc'[u] = "free" /\ page'[u] = p
      <4>1. CASE p = z
        BY <4>1, <1>3, <1>5
      <4>2. CASE p # z /\ Listed(p)
        BY <4>2, <3>1, <1>6
      <4>3. CASE \E u \in Proc : pc[u] = "free" /\ page[u] = p
        BY <4>3, <1>3, <1>5 DEF Alone
      <4> QED
        BY <4>1, <4>2, <4>3, <2>1, <2>3 DEF FParts, UsedAll
    <3>3. \A p \in used : Listed(p)' \/ \E u \in Proc : pc'[u] \in {"copy", "free"} /\ page'[u] = p
      BY <3>2
    <3> QED
      BY <3>3, <1>2 DEF UsedAll
  <2>7. PidsDistinct'
    <3>1. \A s \in Slot : task[s] # Nothing => task[s] \in Proc
      BY <1>1 DEF Tables
    <3> QED
      BY <3>1, <2>1, <1>2, <1>6 DEF FParts, PidsDistinct
  <2>8. PidsPositive'
    BY <2>1, <1>2, <1>6, Consts DEF FParts, PidsPositive
  <2>9. FathersLive'
    <3> SUFFICES ASSUME NEW p \in Page, Listed(p)', ts'[p].father > 0
                 PROVE  \E q \in Page : /\ Listed(q)' /\ q # p
                                        /\ ts'[q].pid = ts'[p].father
                                        /\ ts'[q].state # Zombie
      BY DEF FathersLive
    <3>1. p \in Proc /\ Listed(p) /\ p # z
      BY <1>6, Consts
    <3>2. PICK q \in Page : /\ Listed(q) /\ q # p
                            /\ ts[q].pid = ts[p].father /\ ts[q].state # Zombie
      BY <2>1, <1>2, <3>1 DEF FParts, FathersLive
    <3>3. ts[p].father # ts[z].pid
      BY <2>1, <3>1, <1>10 DEF FParts, Childless
    <3>4. q # z /\ q \in Proc
      BY <3>2, <3>3, Consts
    <3> QED
      BY <3>1, <3>2, <3>4, <1>2, <1>6
  <2>10. Childless'
    <3>1. \A p \in Proc : pc'[p] \in InExit \union {"dead"} => pc[p] = pc'[p]
      BY <1>3 DEF Alone, InExit
    <3> QED
      BY <3>1, <2>1, <1>2, <1>6, Consts DEF FParts, Childless
  <2> QED
    BY <2>4, <2>5, <2>7, <2>8, <2>9, <2>10 DEF FParts
<1> QED
  BY <1>9, <1>11, <1>12, <1>13, <1>14 DEF IInv, FInv

LEMMA ExitChoosesStep ==
    ASSUME IInv, NEW t \in Proc, ExitChooses(t)
    PROVE  IInv'
<1>1. /\ CanRun(t) /\ pc[t] = "exit"
      /\ UNCHANGED <<last_pid, nr, want, cut>>
  BY DEF ExitChooses
<1>2. t # 0 /\ t \in Page
  BY <1>1, NotZero, Consts
<1>3. /\ Listed(t) /\ ts[t].state # Zombie /\ busy \in {Nothing, t}
      /\ GInv /\ Tables /\ Args /\ Recs /\ Places
  BY <1>1, Runs, Unfolded
<1>4. CASE Go(t, "zombie") /\ KeepsCpu(t) /\ UNCHANGED <<task, used, ts, page>>
  <2>1. Tables' /\ Args' /\ Recs'
    BY <1>1, <1>3, <1>4 DEF Tables, Args, Recs, KeepsCpu
  <2>2. Places' /\ Alone(t) /\ pc'[t] = "zombie"
    BY <1>3, <1>4, PlacesAre, Goes
  <2>3. TypeOK'
    BY <2>1, <2>2, TypesNext
  <2> QED
    BY <1>1, <1>2, <1>3, <1>4, <2>2, <2>3, SameTs, PlacesAre, CallStep DEF Same
<1>5. CASE Release(t, t)
  BY <1>1, <1>2, <1>3, <1>5, ReleaseStep
<1> QED
  BY <1>4, <1>5 DEF ExitChooses

\* The child that waitpid collects is a zombie of the table.
LEMMA Collected ==
    ASSUME IInv, NEW t \in Proc, DeadChildren(t) # {}
    PROVE  LET z == task[Max(DeadChildren(t))]
           IN z \in Page /\ z # t /\ Listed(z) /\ ts[z].state = Zombie
<1> DEFINE s == Max(DeadChildren(t))
<1>1. DeadChildren(t) \in SUBSET Slot
  BY DEF DeadChildren, Children
<1>2. s \in DeadChildren(t)
  BY <1>1, MaxSlot
<1> HIDE DEF s
<1>3. s \in Slot /\ s # 0 /\ task[s] # Nothing /\ task[s] # t /\ ts[task[s]].state = Zombie
  BY <1>2 DEF DeadChildren, Children
<1>4. task[s] \in Proc
  BY <1>3, Unfolded DEF Tables
<1>5. task[s] # 0
  BY <1>3, StatesDiffer DEF IInv, GInv, Root
<1> QED
  BY <1>3, <1>4, <1>5, Consts DEF Listed, s

LEMMA WaitScanStep ==
    ASSUME IInv, NEW t \in Proc, WaitScan(t)
    PROVE  IInv'
<1> DEFINE dead == DeadChildren(t)
<1>1. CanRun(t) /\ pc[t] = "scan" /\ UNCHANGED <<last_pid, nr, cut>>
  BY DEF WaitScan
<1>2. t # 0 /\ t \in Page
  BY <1>1, NotZero, Consts
<1>3. /\ Listed(t) /\ ts[t].state # Zombie /\ busy \in {Nothing, t}
      /\ GInv /\ Tables /\ Args /\ Recs /\ Places
  BY <1>1, Runs, Unfolded
<1> DEFINE z == task[Max(dead)]
<1>4. CASE dead # {} /\ Release(t, z) /\ UNCHANGED want
  <2>1. z \in Page /\ z # t /\ Listed(z) /\ ts[z].state = Zombie
    BY <1>4, Collected
  <2> HIDE DEF z
  <2> QED
    BY <1>1, <1>2, <1>4, <2>1, ReleaseStep
<1>5. CASE /\ \/ Go(t, "topause") /\ KeepsCpu(t) /\ want' = want
              \/ Go(t, "user") /\ want' = [want EXCEPT ![t] = Any] /\ Yields
           /\ UNCHANGED <<task, used, ts, page>>
  <2>1. Tables' /\ Args' /\ Recs'
    BY <1>1, <1>3, <1>5 DEF Tables, Args, Recs, KeepsCpu, Yields
  <2>2. Places' /\ Alone(t) /\ pc'[t] \in {"user", "topause"}
    <3>1. Go(t, "topause") \/ Go(t, "user")
      BY <1>5
    <3> QED
      BY <3>1, <1>3, PlacesAre, Goes
  <2>3. TypeOK'
    BY <2>1, <2>2, TypesNext
  <2> QED
    BY <1>1, <1>2, <1>3, <1>5, <2>2, <2>3, SameTs, PlacesAre, CallStep DEF Same
<1> QED
  BY <1>4, <1>5 DEF WaitScan

-----------------------------------------------------------------------------
LEMMA TickCutsStep ==
    ASSUME IInv, TickCuts
    PROVE  IInv'
<1>1. /\ busy # Nothing /\ busy' = Nothing /\ task' = task /\ used' = used /\ ts' = ts
      /\ pc' = pc /\ nr' = nr /\ page' = page /\ want' = want /\ last_pid' = last_pid
  BY DEF TickCuts, Yields, locals
<1>2. /\ cut \subseteq cut' /\ cut' \subseteq cut \union {"fork", "exit", "release"}
      /\ "fork" \notin cut' => pc[busy] \notin InFork
      /\ "exit" \notin cut' => pc[busy] \notin InExit
      /\ "release" \notin cut' => ~(pc[busy] = "free" /\ ~Listed(busy))
  BY DEF TickCuts
<1>3. busy \in Proc /\ Tables' /\ Args' /\ Recs' /\ Places'
  BY <1>1, <1>2, Unfolded DEF Tables, Args, Recs, Places
<1>4. TypeOK'
  BY <1>3, TypesNext
<1>5. \A p : Listed(p)' <=> Listed(p)
  BY <1>1 DEF Listed
<1>6. GInv'
  <2>1. \A p \in Page : Fresh(p)' <=> Fresh(p)
    BY <1>1 DEF Fresh
  <2>2. OneSlot' /\ ListedUsed' /\ Coming'
    BY <1>1, <1>5 DEF IInv, GInv, OneSlot, ListedUsed, Coming
  <2>3. FreshUser' /\ ForkSlot' /\ ZombieEnds' /\ Root'
    BY <1>1, <2>1 DEF IInv, GInv, FreshUser, ForkSlot, ZombieEnds, Root
  <2> QED
    BY <1>4, <2>2, <2>3 DEF GInv
<1>7. ZombieCode'
  <2>1. \A w \in {"tell", "code"} : w \in InExit
    BY PlacesAre
  <2> QED
    BY <1>1, <1>2, <2>1 DEF IInv, ZombieCode
<1>8. ASSUME "fork" \notin cut' PROVE FParts'
  <2>1. GInv /\ FParts
    BY <1>2, <1>8 DEF IInv, FInv
  <2>2. \A q \in Proc : pc[q] \notin InFork
    BY <2>1, <1>2, <1>8 DEF FParts, ForkAlone
  <2>3. QuietStep
    BY <1>1, <2>2 DEF QuietStep, InFork
  <2> QED
    BY <2>1, <2>3, <1>1, QuietF, QuietFathers, QuietChildless DEF FParts
<1>9. Going'
  BY <1>1, <1>5 DEF IInv, Going
<1>10. GoesOn'
  <2> SUFFICES ASSUME cut' \intersect {"fork", "release"} = {}, NEW u \in Proc, pc'[u] = "free"
               PROVE  Listed(u)'
    BY DEF GoesOn
  <2>1. cut \intersect {"fork", "release"} = {} /\ "release" \notin cut' /\ pc[u] = "free"
    BY <1>1, <1>2
  <2>2. Listed(u) \/ busy = u
    BY <2>1 DEF IInv, GoesOn
  <2> QED
    BY <2>1, <2>2, <1>2, <1>5
<1> QED
  BY <1>6, <1>7, <1>8, <1>9, <1>10 DEF IInv, FInv

-----------------------------------------------------------------------------
\* copy_process.
LEMMA SameFathers ==
    ASSUME FathersLive, NEW p,
           \A q \in Page : Listed(q)' <=> Listed(q),
           \A q \in Page : Listed(q)' => q # p,
           \A q \in Proc : q # p => /\ ts'[q].pid = ts[q].pid /\ ts'[q].father = ts[q].father
                                    /\ ts'[q].state = ts[q].state
    PROVE  FathersLive'
<1> SUFFICES ASSUME NEW u \in Page, Listed(u)', ts'[u].father > 0
             PROVE  \E q \in Page : /\ Listed(q)' /\ q # u
                                    /\ ts'[q].pid = ts'[u].father
                                    /\ ts'[q].state # Zombie
  BY DEF FathersLive
<1>1. u \in Proc /\ u # p /\ Listed(u)
  BY Consts
<1>2. PICK q \in Page : Listed(q) /\ q # u /\ ts[q].pid = ts[u].father /\ ts[q].state # Zombie
  BY <1>1 DEF FathersLive
<1>3. q \in Proc /\ q # p /\ Listed(q)'
  BY <1>2, Consts
<1> QED
  BY <1>1, <1>2, <1>3

LEMMA NewChildStep ==
    ASSUME IInv, NEW t \in Proc, NewChild(t)
    PROVE  IInv'
<1>1. CanRun(t) /\ pc[t] = "fork" /\ UNCHANGED <<task, last_pid, nr, want, cut>>
  BY DEF NewChild
<1>2. CASE Go(t, "user") /\ Yields /\ UNCHANGED <<used, ts, page>>
  BY <1>1, <1>2, NewChildFails
<1> DEFINE p == Max(Page \ used)
<1>3. CASE /\ used # Page
           /\ used' = used \union {p}
           /\ ts' = [ts EXCEPT ![p] = [ts[t] EXCEPT
                        !.state = Uninterruptible,
                        !.pid = last_pid,
                        !.father = ts[t].pid,
                        !.signal = {}]]
           /\ page' = [page EXCEPT ![t] = p]
           /\ Go(t, "copy") /\ KeepsCpu(t)
  <2>1. /\ Listed(t) /\ ts[t].state # Zombie /\ ts[t].state = Running /\ busy \in {Nothing, t}
        /\ GInv /\ Tables /\ Args /\ Recs /\ Places /\ ZombieCode
    BY <1>1, Runs, Unfolded
  <2>2. Page \ used \in SUBSET Page /\ Page \ used # {}
    BY <1>3, <2>1 DEF Tables
  <2>3. p \in Page \ used
    BY <2>2, MaxPage
  <2> HIDE DEF p
  <2>4. p \in Page /\ p \in Proc /\ p \notin used /\ ~Listed(p) /\ p # t /\ p # 0
    BY <2>1, <2>3, Consts DEF GInv, ListedUsed
  <2>5. /\ Recs' /\ SameBut(p) /\ ts'[p].state = Uninterruptible
        /\ ts'[p].pid = last_pid /\ ts'[p].father = ts[t].pid
    BY <1>3, <2>1, <2>4, PutChild
  <2>6. Places' /\ Alone(t) /\ pc'[t] = "copy"
    BY <1>3, <2>1, PlacesAre, Goes
  <2>7. Tables' /\ Args' /\ busy' = t
    BY <1>1, <1>3, <2>1, <2>4 DEF Tables, Args, KeepsCpu
  <2>8. TypeOK'
    BY <2>5, <2>6, <2>7, TypesNext
  <2>9. page'[t] = p /\ \A u \in Proc : u # t => page'[u] = page[u]
    BY <1>3, <2>1 DEF Tables
  <2>10. \A q \in Proc : Listed(q)' <=> Listed(q)
    BY <1>1 DEF Listed
  <2>11. \A u \in Proc : u # t => (pc'[u] = "copy" <=> pc[u] = "copy")
    BY <2>6 DEF Alone
  <2>12. GInv'
    <3>1. OneSlot' /\ ListedUsed' /\ ForkSlot'
      BY <1>1, <1>3, <2>1, <2>6, <2>10, Consts
      DEF GInv, OneSlot, ListedUsed, ForkSlot, Alone, InFork
    <3>2. Coming'
      <4>1. ASSUME NEW u \in Proc, pc'[u] = "copy"
            PROVE  page'[u] \in Page /\ page'[u] \in used' /\ ~(\E s \in Slot : task'[s] = page'[u]) /\ (u # t => page'[u] # p)
        <5>1. CASE u = t
          BY <5>1, <1>1, <1>3, <2>4, <2>9 DEF Listed
        <5>2. CASE u # t
          <6>1. page[u] \in Page /\ page[u] \in used /\ ~Listed(page[u])
            BY <4>1, <5>2, <2>1, <2>11 DEF GInv, Coming
          <6> QED
            BY <6>1, <5>2, <1>1, <1>3, <2>4, <2>9 DEF Listed
        <5> QED
          BY <5>1, <5>2
      <4>2. ASSUME NEW u \in Proc, NEW v \in Proc, pc'[u] = "copy", pc'[v] = "copy",
                   page'[u] = page'[v]
            PROVE  u = v
        BY <4>1, <4>2, <2>1, <2>9, <2>11 DEF GInv, Coming
      <4> QED
        BY <4>1, <4>2 DEF Coming, Listed
    <3>3. FreshUser'
      <4>1. ASSUME NEW q \in Page, Fresh(q)' PROVE Fresh(q)
        <5>1. CASE q = p
          BY <5>1, <2>4 DEF Fresh
        <5>2. CASE q # p
          BY <4>1, <5>2, <1>3, <2>9, <2>11 DEF Fresh
        <5> QED
          BY <5>1, <5>2
      <4>2. t \in Page => ~Fresh(t)
        BY <2>1, NotFresh
      <4> QED
        BY <4>1, <4>2, <2>1, <2>6, Consts DEF GInv, FreshUser, Alone
    <3>4. ZombieEnds'
      BY <2>1, <2>4, <2>5, <2>6, StatesDiffer DEF GInv, ZombieEnds, Alone, SameBut, Same
    <3>5. Root'
      <4>1. 0 \in Slot /\ 0 \in Proc
        BY Consts
      <4>2. ts'[0].pid = ts[0].pid /\ ts'[0].state = ts[0].state
        BY <4>1, <2>4, <2>5 DEF SameBut, Same
      <4>3. pc'[0] = pc[0] \/ pc'[0] = "copy"
        BY <4>1, <2>6 DEF Alone
      <4> QED
        BY <4>2, <4>3, <1>1, <2>1 DEF GInv, Root, InFork
    <3> QED
      BY <2>8, <3>1, <3>2, <3>3, <3>4, <3>5 DEF GInv
  <2>13. ZombieCode'
    BY <1>1, <2>1, <2>4, <2>5, StatesDiffer, QuietCode
  <2>14. ASSUME "fork" \notin cut' PROVE FParts'
    <3>1. FParts
      BY <1>1, <2>14 DEF IInv, FInv
    <3>2. \A q \in Proc : q # t => pc[q] \notin InFork /\ pc'[q] \notin InFork
      BY <3>1, <2>1, <2>6, NoOtherFork DEF Alone
    <3>3. \A q \in Proc : q # t => pc[q] # "copy" /\ pc'[q] # "copy"
      BY <3>2 DEF InFork
    <3>4. \A q \in Proc : q # p => /\ ts'[q].pid = ts[q].pid /\ ts'[q].father = ts[q].father
                                   /\ ts'[q].state = ts[q].state
      BY <2>5 DEF SameBut, Same
    <3>5. \A s \in Slot : task[s] # Nothing => task[s] \in Proc /\ task[s] # p
      BY <2>1, <2>4 DEF Tables, Listed
    <3>6. ForkAlone'
      BY <3>2, <2>7 DEF ForkAlone
    <3>7. ForkReady'
      <4>1. /\ task[nr[t]] = Nothing /\ last_pid >= 1 /\ PidFree(last_pid)
        BY <1>1, <3>1 DEF FParts, ForkReady, InFork
      <4>2. PidFree(last_pid)'
        BY <1>1, <4>1, <3>4, <3>5 DEF PidFree
      <4>3. Listed(t)' /\ ts'[t].state = Running
        BY <2>1, <2>4, <2>10, <3>4
      <4> QED
        BY <4>1, <4>2, <4>3, <1>1, <3>2 DEF ForkReady
    <3>8. ChildReady'
      BY <1>1, <3>3, <3>4, <2>4, <2>5, <2>9, StatesDiffer DEF ChildReady
    <3>9. UsedAll'
      <4>1. \A q \in used : q \in Proc
        BY Consts, <2>1 DEF Tables
      <4>2. \A q \in used : Listed(q) \/ \E u \in Proc : u # t /\ pc[u] = "free" /\ page[u] = q
        BY <1>1, <3>1, <3>3 DEF FParts, UsedAll
      <4> QED
        BY <4>1, <4>2, <1>3, <2>6, <2>9, <2>10 DEF UsedAll, Alone
    <3>10. PidsDistinct'
      BY <1>1, <3>1, <3>4, <3>5 DEF FParts, PidsDistinct
    <3>11. \A q \in Page : Listed(q)' => Listed(q) /\ q # p /\ q \in Proc
      BY <2>4, <2>10, Consts
    <3>12. PidsPositive' /\ FathersLive'
      <4>1. \A q \in Page : Listed(q)' <=> Listed(q)
        BY <2>10, Consts
      <4> QED
        BY <4>1, <3>1, <3>4, <3>11, SameFathers DEF FParts, PidsPositive
    <3>13. Childless'
      <4>1. "copy" \notin InExit \union {"dead"}
        BY DEF InExit
      <4>2. \A q \in Proc : pc'[q] \in InExit \union {"dead"} => pc[q] \in InExit \union {"dead"}
        BY <4>1, <2>6 DEF Alone
      <4> QED
        BY <4>2, <3>1, <3>4, <3>11 DEF FParts, Childless
    <3> QED
      BY <3>6, <3>7, <3>8, <3>9, <3>10, <3>12, <3>13 DEF FParts
  <2>15. Going' /\ GoesOn'
    BY <1>1, <1>3, <2>1, <2>6, <2>9, <2>10, Unfolded, PlacesAre, QuietGoing
  <2> QED
    BY <2>12, <2>13, <2>14, <2>15 DEF IInv, FInv
<1> QED
  BY <1>2, <1>3 DEF NewChild

\* Neither does the end of a copy_process, whose page p no release() has.
LEMMA CopyGoing ==
    ASSUME IInv, NEW t \in Proc, busy \in {Nothing, t}, Alone(t), pc[t] = "copy",
           pc'[t] = "user", NEW p \in Proc, pc[p] = "user",
           \A q \in used : q # p => q \in used',
           \A q \in Proc : q # p /\ ~Listed(q) => ~Listed(q)',
           "fork" \notin cut => \A q \in Proc : Listed(q) => Listed(q)',
           cut' = cut, \A u \in Proc : u # t => page'[u] = page[u]
    PROVE  Going' /\ GoesOn'
<1>1. ASSUME NEW u \in Proc, pc'[u] = "free"
      PROVE  u # t /\ pc[u] = "free" /\ page'[u] = page[u]
  BY <1>1 DEF Alone
<1>2. ASSUME NEW u \in Proc, pc'[u] = "free"
      PROVE  /\ page'[u] \in Page /\ page'[u] \in used' /\ ~(\E s \in Slot : task'[s] = page'[u])
             /\ page'[u] = u \/ pc'[page'[u]] \in Ending
  <2>1. u # t /\ pc[u] = "free" /\ page'[u] = page[u]
    BY <1>1, <1>2
  <2>2. /\ page[u] \in Page /\ page[u] \in used /\ ~Listed(page[u])
        /\ page[u] = u \/ pc[page[u]] \in Ending
    BY <2>1 DEF IInv, Going
  <2>3. page[u] \in Proc /\ page[u] # p /\ page[u] # t
    <3>1. pc[page[u]] = "free" \/ pc[page[u]] \in {"tell", "code", "dead"}
      BY <2>1, <2>2 DEF Ending
    <3>2. pc[page[u]] # "user" /\ pc[page[u]] # "copy"
      BY <3>1
    <3> QED
      BY <2>2, <3>2, Consts
  <2>4. ~(\E s \in Slot : task'[s] = page[u])
    BY <2>2, <2>3 DEF Listed
  <2> QED
    BY <2>1, <2>2, <2>3, <2>4 DEF Alone
<1>3. ASSUME NEW u \in Proc, NEW v \in Proc, pc'[u] = "free", pc'[v] = "free",
             page'[u] = page'[v]
      PROVE  u = v
  BY <1>1, <1>3 DEF IInv, Going
<1>4. Going'
  BY <1>2, <1>3 DEF Going, Listed
<1>5. GoesOn'
  <2> SUFFICES ASSUME cut \intersect {"fork", "release"} = {}, NEW u \in Proc, pc'[u] = "free"
               PROVE  Listed(u)'
    BY DEF GoesOn
  <2>1. u # t /\ pc[u] = "free"
    BY <1>1
  <2>2. Listed(u)
    BY <2>1, Consts DEF IInv, GoesOn
  <2> QED
    BY <2>2
<1> QED
  BY <1>4, <1>5

LEMMA CopyProcessStep ==
    ASSUME IInv, NEW t \in Proc, CopyProcess(t)
    PROVE  IInv'
<1> DEFINE p == page[t]
<1>1. /\ CanRun(t) /\ pc[t] = "copy"
      /\ pc' = [pc EXCEPT ![t] = "user", ![p] = "user"]
      /\ nr' = [nr EXCEPT ![t] = 0] /\ page' = [page EXCEPT ![t] = Nothing]
      /\ busy' = Nothing /\ UNCHANGED <<last_pid, want, cut>>
  BY DEF CopyProcess, Yields
<1>2. /\ Listed(t) /\ ts[t].state # Zombie /\ ts[t].state = Running /\ busy \in {Nothing, t}
      /\ GInv /\ Tables /\ Args /\ Recs /\ Places /\ ZombieCode
  BY <1>1, Runs, Unfolded
<1>3. p \in Page /\ p \in Proc /\ p \in used /\ ~Listed(p) /\ p # t /\ p # 0
  BY <1>1, <1>2, Consts DEF GInv, Coming
<1> HIDE DEF p
<1>4. Places' /\ pc'[t] = "user" /\ pc'[p] = "user" /\ (\A q \in Proc \ {t, p} : pc'[q] = pc[q])
  BY <1>1, <1>2, <1>3 DEF Places, Place
<1>5. /\ nr' \in [Proc -> Slot] /\ page' \in [Proc -> Page \union {Nothing}] /\ Args'
      /\ \A q \in Proc : q # t => nr'[q] = nr[q] /\ page'[q] = page[q]
  BY <1>1, <1>2, Consts DEF Tables, Args
<1>u. pc[p] = "user" /\ Alone(t)
  <2>1. pc[p] = "user"
    BY <1>1, <1>2, <1>3 DEF GInv, FreshUser, Fresh, p
  <2> QED
    BY <2>1, <1>4 DEF Alone
<1>6. \A q \in Proc : pc'[q] = "copy" <=> pc[q] = "copy" /\ q # t
  BY <1>u, <1>4
<1>7. nr[t] # 0 /\ nr[t] \in Slot
  BY <1>1, <1>2 DEF GInv, ForkSlot, Tables, InFork
<1>8. \A u \in Proc : pc[u] = "copy" /\ u # t => page[u] # p
  BY <1>1, <1>2 DEF GInv, Coming, p
<1>9. CASE used' = used \ {p} /\ ts' = [ts EXCEPT ![p] = Blank] /\ task' = task
  <2>1. Recs' /\ SameBut(p) /\ ts'[p].state = Running
    BY <1>2, <1>3, <1>9, PutBlank
  <2>2. Tables'
    BY <1>2, <1>5, <1>9 DEF Tables
  <2>3. \A q \in Proc : Listed(q)' <=> Listed(q)
    BY <1>9 DEF Listed
  <2>4. GInv'
    <3>0. TypeOK'
      BY <1>4, <1>5, <2>1, <2>2, TypesNext
    <3>1. OneSlot' /\ ListedUsed'
      BY <1>2, <1>3, <1>9, <2>3, Consts DEF GInv, OneSlot, ListedUsed
    <3>2. Coming'
      BY <1>2, <1>5, <1>6, <1>8, <1>9, <2>3, Consts DEF GInv, Coming
    <3>3. FreshUser'
      <4>1. ASSUME NEW q \in Page, Fresh(q)', q # p PROVE Fresh(q)
        BY <4>1, <1>5, <1>6, <1>9 DEF Fresh
      <4> QED
        BY <4>1, <1>2, <1>4, Consts DEF GInv, FreshUser
    <3>4. ForkSlot'
      BY <1>2, <1>4, <1>5, PlacesAre DEF GInv, ForkSlot
    <3>5. ZombieEnds'
      BY <1>2, <1>4, <2>1, StatesDiffer DEF GInv, ZombieEnds, SameBut, Same
    <3>6. Root'
      <4>1. 0 \in Slot /\ 0 \in Proc
        BY Consts
      <4>2. ts'[0].pid = ts[0].pid /\ ts'[0].state = ts[0].state
        BY <4>1, <1>3, <2>1 DEF SameBut, Same
      <4>3. pc'[0] = pc[0] \/ pc'[0] = "user"
        BY <4>1, <1>4
      <4> QED
        BY <4>2, <4>3, <1>9, <1>2 DEF GInv, Root
    <3> QED
      BY <3>0, <3>1, <3>2, <3>3, <3>4, <3>5, <3>6 DEF GInv
  <2>5. ZombieCode'
    BY <1>1, <1>2, <1>3, <2>1, StatesDiffer, QuietCode
  <2>6. ASSUME "fork" \notin cut' PROVE FParts'
    <3>1. FParts
      BY <1>1, <2>6 DEF IInv, FInv
    <3>2. \A q \in Proc : pc'[q] \notin InFork
      BY <3>1, <1>2, <1>4, NoOtherFork, PlacesAre
    <3>3. \A q \in Proc : pc'[q] # "copy" /\ (q # t => pc[q] # "copy")
      BY <3>1, <3>2, <1>2, NoOtherFork DEF InFork
    <3>4. \A q \in Proc : q # p => /\ ts'[q].pid = ts[q].pid /\ ts'[q].father = ts[q].father
                                   /\ ts'[q].state = ts[q].state
      BY <2>1 DEF SameBut, Same
    <3>5. \A s \in Slot : task[s] # Nothing => task[s] \in Proc /\ task[s] # p
      BY <1>2, <1>3 DEF Tables, Listed
    <3>6. ForkAlone' /\ ForkReady' /\ ChildReady'
      BY <3>2, <3>3 DEF ForkAlone, ForkReady, ChildReady
    <3>7. UsedAll'
      <4>1. \A q \in used : q \in Proc
        BY Consts, <1>2 DEF Tables
      <4>2. \A q \in used : \/ Listed(q) \/ q = p
                            \/ \E u \in Proc : u # t /\ pc[u] = "free" /\ page[u] = q
        BY <1>1, <3>1, <3>3 DEF FParts, UsedAll, p
      <4> QED
        BY <4>1, <4>2, <1>5, <1>u, <1>9, <2>3 DEF UsedAll, Alone
    <3>8. PidsDistinct'
      BY <1>9, <3>1, <3>4, <3>5 DEF FParts, PidsDistinct
    <3>9. \A q \in Page : Listed(q)' => Listed(q) /\ q # p /\ q \in Proc
      BY <1>3, <2>3, Consts
    <3>10. PidsPositive' /\ FathersLive'
      <4>1. \A q \in Page : Listed(q)' <=> Listed(q)
        BY <2>3, Consts
      <4> QED
        BY <4>1, <3>1, <3>4, <3>9, SameFathers DEF FParts, PidsPositive
    <3>11. Childless'
      <4>1. "user" \notin InExit \union {"dead"}
        BY DEF InExit
      <4>2. \A q \in Proc : pc'[q] \in InExit \union {"dead"} => pc[q] \in InExit \union {"dead"}
        BY <4>1, <1>4
      <4> QED
        BY <4>2, <3>1, <3>4, <3>9 DEF FParts, Childless
    <3> QED
      BY <3>6, <3>7, <3>8, <3>10, <3>11 DEF FParts
  <2>7. Going' /\ GoesOn'
    BY <1>1, <1>2, <1>3, <1>4, <1>5, <1>u, <1>9, <2>3, CopyGoing
  <2> QED
    BY <2>4, <2>5, <2>6, <2>7 DEF IInv, FInv
<1>10. CASE /\ ts' = [ts EXCEPT ![p].state = Running]
            /\ task' = [task EXCEPT ![nr[t]] = p] /\ used' = used
  <2>1. /\ Recs' /\ SameBut(p) /\ ts'[p].state = Running
        /\ ts'[p].pid = ts[p].pid /\ ts'[p].father = ts[p].father
    BY <1>2, <1>3, <1>10, StatesDiffer, PutState
  <2>2. task' \in [Slot -> Proc \union {Nothing}]
    BY <1>2, <1>3, <1>7, <1>10 DEF Tables
  <2>2a. Tables'
    BY <1>2, <1>5, <1>10, <2>2 DEF Tables
  <2>3. \A s \in Slot : task'[s] = IF s = nr[t] THEN p ELSE task[s]
    BY <1>2, <1>10 DEF Tables
  <2>4. \A q \in Proc : Listed(q)' => Listed(q) \/ q = p
    BY <2>3 DEF Listed
  <2>5. GInv'
    <3>0. TypeOK'
      BY <1>4, <1>5, <2>1, <2>2a, TypesNext
    <3>1. OneSlot'
      <4>1. \A s \in Slot : task[s] # p
        BY <1>3 DEF Listed
      <4> QED
        BY <4>1, <1>2, <2>3 DEF GInv, OneSlot
    <3>1a. ListedUsed'
      BY <1>2, <1>3, <1>10, <2>4, Consts DEF GInv, ListedUsed
    <3>2. Coming'
      <4>1. ASSUME NEW u \in Proc, pc'[u] = "copy"
            PROVE  page'[u] \in Page /\ page'[u] \in used' /\ ~(\E s \in Slot : task'[s] = page'[u])
        <5>1. pc[u] = "copy" /\ u # t /\ page'[u] = page[u] /\ page[u] # p
          BY <4>1, <1>5, <1>6, <1>8
        <5>2. page[u] \in Page /\ page[u] \in used /\ ~Listed(page[u])
          BY <5>1, <1>2 DEF GInv, Coming
        <5> QED
          BY <5>1, <5>2, <1>10, <2>3 DEF Listed
      <4>2. ASSUME NEW u \in Proc, NEW v \in Proc, pc'[u] = "copy", pc'[v] = "copy",
                   page'[u] = page'[v]
            PROVE  u = v
        BY <4>2, <1>2, <1>5, <1>6 DEF GInv, Coming
      <4> QED
        BY <4>1, <4>2 DEF Coming, Listed
    <3>3. FreshUser'
      <4>1. ASSUME NEW q \in Page, Fresh(q)', q # p PROVE Fresh(q)
        BY <4>1, <1>5, <1>6, <1>10 DEF Fresh
      <4> QED
        BY <4>1, <1>2, <1>4, Consts DEF GInv, FreshUser
    <3>4. ForkSlot'
      BY <1>2, <1>4, <1>5, PlacesAre DEF GInv, ForkSlot
    <3>5. ZombieEnds'
      BY <1>2, <1>4, <2>1, StatesDiffer DEF GInv, ZombieEnds, SameBut, Same
    <3>6. Root'
      <4>1. 0 \in Slot /\ 0 \in Proc
        BY Consts
      <4>2. ts'[0].pid = ts[0].pid /\ ts'[0].state = ts[0].state
        BY <4>1, <1>3, <2>1 DEF SameBut, Same
      <4>3. pc'[0] = pc[0] \/ pc'[0] = "user"
        BY <4>1, <1>4
      <4>4. task'[0] = task[0]
        BY <4>1, <1>7, <2>3
      <4> QED
        BY <4>2, <4>3, <4>4, <1>2 DEF GInv, Root
    <3> QED
      BY <3>0, <3>1, <3>1a, <3>2, <3>3, <3>4, <3>5, <3>6 DEF GInv
  <2>6. ZombieCode'
    BY <1>1, <1>2, <1>3, <2>1, StatesDiffer, QuietCode
  <2>7. ASSUME "fork" \notin cut' PROVE FParts'
    <3>1. FParts
      BY <1>1, <2>7 DEF IInv, FInv
    <3>2. \A q \in Proc : pc'[q] \notin InFork
      BY <3>1, <1>2, <1>4, NoOtherFork, PlacesAre
    <3>3. \A q \in Proc : pc'[q] # "copy" /\ (q # t => pc[q] # "copy")
      BY <3>1, <3>2, <1>2, NoOtherFork DEF InFork
    <3>4. \A q \in Proc : /\ ts'[q].pid = ts[q].pid /\ ts'[q].father = ts[q].father
                          /\ q # p => ts'[q].state = ts[q].state
      BY <2>1 DEF SameBut, Same
    <3>5. /\ task[nr[t]] = Nothing /\ last_pid >= 1 /\ PidFree(last_pid)
          /\ ts[p].pid = last_pid /\ ts[p].father = ts[t].pid /\ ts[p].state # Zombie
      BY <1>1, <3>1 DEF FParts, ForkReady, ChildReady, InFork, p
    <3>6. \A q \in Proc : Listed(q)' <=> Listed(q) \/ q = p
      BY <2>3, <3>5, <1>7, Consts DEF Listed
    <3>7. ForkAlone' /\ ForkReady' /\ ChildReady'
      BY <3>2, <3>3 DEF ForkAlone, ForkReady, ChildReady
    <3>8. UsedAll'
      <4>1. \A q \in used : q \in Proc
        BY Consts, <1>2 DEF Tables
      <4>2. \A q \in used : \/ Listed(q) \/ q = p
                            \/ \E u \in Proc : u # t /\ pc[u] = "free" /\ page[u] = q
        BY <1>1, <3>1, <3>3 DEF FParts, UsedAll, p
      <4> QED
        BY <4>1, <4>2, <1>5, <1>u, <1>10, <3>6 DEF UsedAll, Alone
    <3>9. PidsDistinct'
      <4>1. \A s \in Slot : task[s] # Nothing => task[s] \in Proc /\ ts[task[s]].pid # ts[p].pid
        BY <1>2, <3>5 DEF Tables, PidFree
      <4> QED
        BY <4>1, <2>3, <3>1, <3>4, <1>3 DEF FParts, PidsDistinct
    <3>10. PidsPositive'
      BY <3>1, <3>4, <3>5, <3>6, Consts DEF FParts, PidsPositive
    <3>11. FathersLive'
      <4> SUFFICES ASSUME NEW q \in Page, Listed(q)', ts'[q].father > 0
                   PROVE  \E v \in Page : /\ Listed(v)' /\ v # q
                                          /\ ts'[v].pid = ts'[q].father
                                          /\ ts'[v].state # Zombie
        BY DEF FathersLive
      <4>0. q \in Proc
        BY Consts
      <4>1. CASE q = p
        <5>1. ts[t].pid > 0
          BY <4>1, <4>0, <3>4, <3>5
        <5>2. t # 0
          <6>1. ~(0 > 0)
            OBVIOUS
          <6> QED
            BY <6>1, <5>1, <1>2 DEF GInv, Root
        <5>3. t \in Page
          BY <5>2, Consts
        <5> QED
          BY <4>1, <5>3, <1>2, <1>3, <3>4, <3>5, <3>6
      <4>2. CASE q # p
        <5>1. Listed(q) /\ ts[q].father > 0
          BY <4>0, <4>2, <3>4, <3>6
        <5>2. PICK v \in Page : /\ Listed(v) /\ v # q
                                /\ ts[v].pid = ts[q].father /\ ts[v].state # Zombie
          BY <5>1, <3>1 DEF FParts, FathersLive
        <5>3. v \in Proc /\ v # p
          BY <5>2, <1>3, Consts
        <5> QED
          BY <5>2, <5>3, <4>0, <3>4, <3>6
      <4> QED
        BY <4>1, <4>2
    <3>12. Childless'
      <4> SUFFICES ASSUME NEW u \in Page, Listed(u)', pc'[u] \in InExit \union {"dead"},
                          NEW q \in Page, Listed(q)'
                   PROVE  ts'[q].father # ts'[u].pid
        BY DEF Childless
      <4>1. "user" \notin InExit \union {"dead"}
        BY DEF InExit
      <4>2. u \in Proc /\ q \in Proc /\ u # t /\ u # p /\ Listed(u) /\ pc[u] = pc'[u]
        BY <4>1, <1>4, <3>6, Consts
      <4>3. CASE q = p
        <5>1. ts[u].pid # ts[t].pid
          <6>1. PICK s \in Slot : task[s] = u
            BY <4>2 DEF Listed
          <6>2. PICK r \in Slot : task[r] = t
            BY <1>2 DEF Listed
          <6>3. u # Nothing /\ t # Nothing
            BY <4>2, Consts
          <6> QED
            BY <6>1, <6>2, <6>3, <4>2, <3>1 DEF FParts, PidsDistinct
        <5> QED
          BY <5>1, <4>2, <4>3, <3>4, <3>5
      <4>4. CASE q # p
        BY <4>2, <4>4, <3>1, <3>4, <3>6 DEF FParts, Childless
      <4> QED
        BY <4>3, <4>4
    <3> QED
      BY <3>7, <3>8, <3>9, <3>10, <3>11, <3>12 DEF FParts
  <2>8. Going' /\ GoesOn'
    <3>1. "fork" \notin cut => \A q \in Proc : Listed(q) => Listed(q)'
      <4>1. ASSUME "fork" \notin cut PROVE task[nr[t]] = Nothing
        BY <4>1, <1>1 DEF IInv, FInv, FParts, ForkReady, InFork
      <4> QED
        BY <4>1, <2>3, Consts DEF Listed
    <3> QED
      BY <1>1, <1>2, <1>3, <1>4, <1>5, <1>u, <1>10, <2>4, <3>1, CopyGoing
  <2> QED
    BY <2>5, <2>6, <2>7, <2>8 DEF IInv, FInv
<1> QED
  BY <1>9, <1>10 DEF CopyProcess, p

-----------------------------------------------------------------------------
\* The rest of release(): free_page.
LEMMA FreePageStep ==
    ASSUME IInv, NEW t \in Proc, FreePage(t)
    PROVE  IInv'
<1> DEFINE p == page[t]
<1>1. /\ pc[t] = "free" /\ (busy = t \/ CanRun(t))
      /\ used' = used \ {p} /\ ts' = [ts EXCEPT ![p] = Blank]
      /\ pc' = [pc EXCEPT ![t] = "user", ![p] = "user"]
      /\ page' = [page EXCEPT ![t] = Nothing] /\ want' = [want EXCEPT ![t] = Any]
      /\ busy' = Nothing /\ UNCHANGED <<task, last_pid, nr, cut>>
  BY DEF FreePage, Yields
<1>2. GInv /\ Tables /\ Args /\ Recs /\ Places /\ ZombieCode /\ Going /\ GoesOn
  BY Unfolded
<1>3. /\ p \in Page /\ p \in Proc /\ p \in used /\ ~Listed(p) /\ p # 0
      /\ p = t \/ pc[p] \in Ending
  BY <1>1, <1>2, Consts DEF Going
<1>8. \A u \in Proc : pc[u] \in {"copy", "free"} /\ u # t => page[u] # p
  <2>1. ASSUME NEW u \in Proc, pc[u] = "copy", page[u] = p PROVE FALSE
    <3>1. pc[p] = "user"
      BY <1>3, <2>1, <1>2 DEF GInv, FreshUser, Fresh
    <3> QED
      BY <3>1, <1>1, <1>3 DEF Ending
  <2>2. ASSUME NEW u \in Proc, pc[u] = "free", page[u] = p PROVE u = t
    BY <2>2, <1>1, <1>2 DEF Going
  <2> QED
    BY <2>1, <2>2
<1> HIDE DEF p
<1>4. Places' /\ pc'[t] = "user" /\ pc'[p] = "user" /\ (\A q \in Proc \ {t, p} : pc'[q] = pc[q])
  BY <1>1, <1>2, <1>3 DEF Places, Place
<1>5. /\ page' \in [Proc -> Page \union {Nothing}] /\ Args'
      /\ \A q \in Proc : q # t => page'[q] = page[q]
  BY <1>1, <1>2, Consts DEF Tables, Args
<1>6. \A q \in Proc : /\ pc'[q] = "copy" <=> pc[q] = "copy"
                      /\ pc'[q] = "free" <=> pc[q] = "free" /\ q # t
  BY <1>1, <1>3, <1>4 DEF Ending
<1>7. t # 0 /\ ts[t].state # Zombie /\ busy \in {Nothing, t}
  <2>1. t # 0
    BY <1>1, NotZero
  <2>2. ts[t].state # Zombie
    BY <1>1, <1>2 DEF GInv, ZombieEnds
  <2> QED
    BY <2>1, <2>2, <1>1, Runs
<1>9. Recs' /\ SameBut(p) /\ ts'[p].state = Running
  BY <1>1, <1>2, <1>3, PutBlank
<1>10. \A q \in Proc : Listed(q)' <=> Listed(q)
  BY <1>1 DEF Listed
<1>11. GInv'
  <2>0. TypeOK'
    <3>1. Tables'
      BY <1>1, <1>2, <1>5 DEF Tables
    <3> QED
      BY <3>1, <1>4, <1>5, <1>9, TypesNext
  <2>1. OneSlot' /\ ListedUsed'
    BY <1>1, <1>2, <1>3, <1>10, Consts DEF GInv, OneSlot, ListedUsed
  <2>2. Coming'
    <3>1. ASSUME NEW u \in Proc, pc'[u] = "copy"
          PROVE  /\ pc[u] = "copy" /\ page'[u] = page[u]
                 /\ page'[u] \in Page /\ page'[u] \in used'
                 /\ ~(\E s \in Slot : task'[s] = page'[u])
      <4>1. pc[u] = "copy" /\ u # t
        BY <3>1, <1>1, <1>6
      <4>2. page'[u] = page[u] /\ page[u] # p
        BY <4>1, <1>5, <1>8
      <4>3. page[u] \in Page /\ page[u] \in used /\ ~Listed(page[u])
        BY <4>1, <1>2 DEF GInv, Coming
      <4> QED
        BY <4>1, <4>2, <4>3, <1>1 DEF Listed
    <3>2. ASSUME NEW u \in Proc, NEW v \in Proc, pc'[u] = "copy", pc'[v] = "copy",
                 page'[u] = page'[v]
          PROVE  u = v
      BY <3>1, <3>2, <1>2 DEF GInv, Coming
    <3> QED
      BY <3>1, <3>2 DEF Coming, Listed
  <2>3. FreshUser'
    <3>1. ASSUME NEW q \in Page, Fresh(q)', q # p PROVE Fresh(q)
      BY <3>1, <1>1, <1>5, <1>6 DEF Fresh
    <3> QED
      BY <3>1, <1>2, <1>4, Consts DEF GInv, FreshUser
  <2>4. ForkSlot'
    BY <1>1, <1>2, <1>4, PlacesAre DEF GInv, ForkSlot
  <2>5. ZombieEnds'
    BY <1>2, <1>4, <1>7, <1>9, StatesDiffer DEF GInv, ZombieEnds, SameBut, Same
  <2>6. Root'
    <3>1. 0 \in Slot /\ 0 \in Proc
      BY Consts
    <3>2. ts'[0].pid = ts[0].pid /\ ts'[0].state = ts[0].state
      BY <3>1, <1>3, <1>9 DEF SameBut, Same
    <3>3. pc'[0] = pc[0]
      BY <3>1, <1>3, <1>4, <1>7
    <3> QED
      BY <3>2, <3>3, <1>1, <1>2 DEF GInv, Root
  <2> QED
    BY <2>0, <2>1, <2>2, <2>3, <2>4, <2>5, <2>6 DEF GInv
<1>12. ZombieCode'
  BY <1>1, <1>2, <1>3, <1>7, <1>9, StatesDiffer, QuietCode
<1>13. Going'
  <2>1. ASSUME NEW u \in Proc, pc'[u] = "free"
        PROVE  /\ page'[u] \in Page /\ page'[u] \in used' /\ ~(\E s \in Slot : task'[s] = page'[u])
               /\ page'[u] = u \/ pc'[page'[u]] \in Ending
               /\ pc[u] = "free" /\ page'[u] = page[u]
    <3>1. pc[u] = "free" /\ u # t /\ page'[u] = page[u] /\ page[u] # p
      BY <2>1, <1>5, <1>6, <1>8
    <3>2. /\ page[u] \in Page /\ page[u] \in used /\ ~Listed(page[u])
          /\ page[u] = u \/ pc[page[u]] \in Ending
      BY <3>1, <1>2 DEF Going
    <3>3. page[u] \in Proc /\ page[u] # t
      BY <3>1, <3>2, <1>1, Consts DEF Ending
    <3>4. page[u] = u \/ pc'[page[u]] \in Ending
      BY <3>1, <3>2, <3>3, <1>4
    <3>5. page[u] \in used' /\ ~(\E s \in Slot : task'[s] = page[u])
      BY <3>1, <3>2, <1>1 DEF Listed
    <3> QED
      BY <3>1, <3>2, <3>4, <3>5
  <2>2. ASSUME NEW u \in Proc, NEW v \in Proc, pc'[u] = "free", pc'[v] = "free",
               page'[u] = page'[v]
        PROVE  u = v
    BY <2>1, <2>2, <1>2 DEF Going
  <2> QED
    BY <2>1, <2>2 DEF Going, Listed
<1>14. GoesOn'
  <2> SUFFICES ASSUME cut \intersect {"fork", "release"} = {}, NEW u \in Proc, pc'[u] = "free"
               PROVE  Listed(u)'
    BY <1>1 DEF GoesOn
  <2> QED
    BY <1>2, <1>6, <1>7, <1>10, Consts DEF GoesOn
<1>15. ASSUME "fork" \notin cut' PROVE FParts'
  <2>1. FParts
    BY <1>1, <1>15 DEF IInv, FInv
  <2>2. \A q \in Proc : pc[q] \notin InFork /\ pc'[q] \notin InFork
    BY <2>1, <1>1, <1>4, <1>7, NoOtherFork, PlacesAre
  <2>3. \A q \in Proc : pc'[q] # "copy" /\ pc[q] # "copy"
    BY <2>2 DEF InFork
  <2>4. \A q \in Proc : q # p => /\ ts'[q].pid = ts[q].pid /\ ts'[q].father = ts[q].father
                                 /\ ts'[q].state = ts[q].state
    BY <1>9 DEF SameBut, Same
  <2>5. \A s \in Slot : task[s] # Nothing => task[s] \in Proc /\ task[s] # p
    BY <1>2, <1>3 DEF Tables, Listed
  <2>6. ForkAlone' /\ ForkReady' /\ ChildReady'
    BY <2>2, <2>3 DEF ForkAlone, ForkReady, ChildReady
  <2>7. UsedAll'
    <3>1. \A q \in used : q \in Proc
      BY Consts, <1>2 DEF Tables
    <3>2. \A q \in used : \/ Listed(q) \/ q = p
                          \/ \E u \in Proc : u # t /\ pc[u] = "free" /\ page[u] = q
      BY <2>1, <2>3 DEF FParts, UsedAll, p
    <3> QED
      BY <3>1, <3>2, <1>1, <1>5, <1>6, <1>10 DEF UsedAll
  <2>8. PidsDistinct'
    BY <1>1, <2>1, <2>4, <2>5 DEF FParts, PidsDistinct
  <2>9. \A q \in Page : Listed(q)' => Listed(q) /\ q # p /\ q \in Proc
    BY <1>3, <1>10, Consts
  <2>10. PidsPositive' /\ FathersLive'
    <3>1. \A q \in Page : Listed(q)' <=> Listed(q)
      BY <1>10, Consts
    <3> QED
      BY <3>1, <2>1, <2>4, <2>9, SameFathers DEF FParts, PidsPositive
  <2>11. Childless'
    <3>1. "user" \notin InExit \union {"dead"}
      BY DEF InExit
    <3>2. \A q \in Proc : pc'[q] \in InExit \union {"dead"} => pc[q] \in InExit \union {"dead"}
      BY <3>1, <1>4
    <3> QED
      BY <3>2, <2>1, <2>4, <2>9 DEF FParts, Childless
  <2> QED
    BY <2>6, <2>7, <2>8, <2>10, <2>11 DEF FParts
<1> QED
  BY <1>11, <1>12, <1>13, <1>14, <1>15 DEF IInv, FInv

-----------------------------------------------------------------------------
LEMMA InitIInv == Init => IInv
<1> SUFFICES ASSUME Init PROVE IInv
  OBVIOUS
<1>1. /\ task = [s \in Slot |-> IF s = 0 THEN 0 ELSE Nothing] /\ used = {}
      /\ ts = [p \in Proc |-> Blank] /\ pc = [p \in Proc |-> "user"]
      /\ nr = [p \in Proc |-> 0] /\ page = [p \in Proc |-> Nothing]
      /\ want = [p \in Proc |-> Any] /\ busy = Nothing /\ cut = {} /\ last_pid = 0
  BY DEF Init
<1>2. Tables /\ Args
  BY <1>1, Consts DEF Tables, Args
<1>3. Recs /\ Places
  BY <1>1, BlankIs DEF Recs, Places, Place
<1>4. TypeOK
  BY <1>2, <1>3, Types
<1>5. \A p \in Proc : Listed(p) => p = 0
  BY <1>1, Consts DEF Listed
<1>6. \A p \in Page : ~Listed(p)
  BY <1>5, Consts
<1>7. OneSlot /\ ListedUsed /\ Coming /\ FreshUser
  BY <1>1, <1>6, Consts DEF OneSlot, ListedUsed, Coming, FreshUser
<1>8. \A p \in Proc : pc[p] = "user" /\ pc[p] \notin InFork /\ ts[p] = Blank
  BY <1>1 DEF InFork
<1>9. ForkSlot /\ ZombieEnds /\ ZombieCode
  BY <1>8, BlankIs, StatesDiffer DEF ForkSlot, ZombieEnds, ZombieCode
<1>10. Root
  BY <1>1, <1>8, BlankIs, Consts DEF Root
<1>11. ForkAlone /\ ForkReady /\ ChildReady
  BY <1>8 DEF ForkAlone, ForkReady, ChildReady, InFork
<1>12. UsedAll /\ PidsPositive /\ FathersLive /\ Childless
  BY <1>1, <1>6 DEF UsedAll, PidsPositive, FathersLive, Childless
<1>13. PidsDistinct
  BY <1>1 DEF PidsDistinct
<1>14. Going /\ GoesOn
  BY <1>8 DEF Going, GoesOn
<1> QED
  BY <1>4, <1>7, <1>9, <1>10, <1>11, <1>12, <1>13, <1>14 DEF IInv, GInv, FInv, FParts

LEMMA NextIInv == IInv /\ [Next]_vars => IInv'
<1> SUFFICES ASSUME IInv, [Next]_vars PROVE IInv'
  OBVIOUS
<1>1. CASE \E t \in Proc : FindEmptyProcess(t) \/ DoExit(t)
  BY <1>1, FindEmptyProcessStep, DoExitStep
<1>2. ASSUME NEW t \in Proc, Continues(t) PROVE IInv'
  BY <1>2, NewChildStep, CopyProcessStep, FreePageStep, ExitChoosesStep, ExitZombieStep, ExitTellsStep,
     ExitCodeStep, WaitScanStep, WaitPausesStep, WaitWakesStep DEF Continues
<1>3. CASE \E t \in Proc, n \in {Any} \union Asked : SysWaitpid(t, n)
  BY <1>3, SysWaitpidStep
<1>4. CASE \E t \in Proc, n \in Target, sig \in Sent : SysKill(t, n, sig)
  BY <1>4, SysKillStep
<1>5. CASE TickCuts
  BY <1>5, TickCutsStep
<1>6. CASE UNCHANGED vars
  <2>1. /\ task' = task /\ last_pid' = last_pid /\ used' = used /\ ts' = ts /\ pc' = pc
        /\ nr' = nr /\ page' = page /\ want' = want /\ busy' = busy /\ cut' = cut
    BY <1>6 DEF vars, locals
  <2>2. Tables' /\ Args' /\ Recs' /\ Places'
    BY <2>1, Unfolded DEF Tables, Args, Recs, Places
  <2>3. TypeOK'
    BY <2>2, TypesNext
  <2>4. \A p : Listed(p)' <=> Listed(p)
    BY <2>1 DEF Listed
  <2>5. \A p : Fresh(p)' <=> Fresh(p)
    BY <2>1 DEF Fresh
  <2>6. GInv'
    BY <2>1, <2>3, <2>4, <2>5
    DEF IInv, GInv, OneSlot, ListedUsed, Coming, FreshUser, ForkSlot, ZombieEnds, Root
  <2>7. ZombieCode'
    BY <2>1 DEF IInv, ZombieCode
  <2>8. ASSUME "fork" \notin cut' PROVE FParts'
    <3>1. FParts
      BY <2>1, <2>8 DEF IInv, FInv
    <3>2. PidFree(last_pid)' <=> PidFree(last_pid)
      BY <2>1 DEF PidFree
    <3>3. (ForkAlone /\ ForkReady /\ ChildReady /\ UsedAll)'
      BY <2>1, <2>4, <3>1, <3>2 DEF FParts, ForkAlone, ForkReady, ChildReady, UsedAll
    <3>4. (PidsDistinct /\ PidsPositive /\ FathersLive /\ Childless)'
      BY <2>1, <2>4, <3>1 DEF FParts, PidsDistinct, PidsPositive, FathersLive, Childless
    <3> QED
      BY <3>3, <3>4 DEF FParts
  <2>9. Going' /\ GoesOn'
    BY <2>1, <2>4 DEF IInv, Going, GoesOn
  <2> QED
    BY <2>6, <2>7, <2>8, <2>9 DEF IInv, FInv
<1> QED
  BY <1>1, <1>2, <1>3, <1>4, <1>5, <1>6 DEF Next

\* The variables keep their types, and as long as no fork was cut and no tick
\* stopped a task that was releasing itself, the table and the pages agree: every
\* allocated task_struct is in one slot, or is the page of one fork or release()
\* that will be finished, and no slot holds a freed one.
THEOREM TableKept == Spec => []TableExact
<1>1. IInv => TableExact
  <2> SUFFICES ASSUME IInv PROVE TableExact
    OBVIOUS
  <2>1. TypeOK /\ Tables /\ Going /\ GoesOn /\ Coming /\ FreshUser
    BY Unfolded DEF GInv
  <2>2. ASSUME cut \intersect {"fork", "release"} = {}
        PROVE  LET listed == {p \in Page : Listed(p)}
                   goesOn == {t \in Proc : Listed(t) \/ busy = t}
                   coming == {page[t] : t \in {u \in goesOn : pc[u] = "copy"}}
                   going  == {page[t] : t \in {u \in goesOn : pc[u] = "free"}}
               IN /\ used = listed \union coming \union going
                  /\ listed \intersect (coming \union going) = {}
                  /\ coming \intersect going = {}
                  /\ \A s, r \in Slot : task[s] = task[r] /\ task[s] # Nothing => s = r
    <3> DEFINE listed == {p \in Page : Listed(p)}
    <3> DEFINE goesOn == {t \in Proc : Listed(t) \/ busy = t}
    <3> DEFINE coming == {page[t] : t \in {u \in goesOn : pc[u] = "copy"}}
    <3> DEFINE going  == {page[t] : t \in {u \in goesOn : pc[u] = "free"}}
    <3>1. FParts
      BY <2>2 DEF IInv, FInv
    <3>2. ASSUME NEW p \in used PROVE p \in listed \/ p \in coming \/ p \in going
      <4>1. p \in Page
        BY <2>1 DEF Tables
      <4>2. CASE Listed(p)
        BY <4>1, <4>2
      <4>3. ASSUME NEW u \in Proc, pc[u] = "copy", page[u] = p PROVE p \in coming
        <5>1. busy = u
          BY <3>1, <4>3 DEF FParts, ForkAlone, InFork
        <5> QED
          BY <4>3, <5>1
      <4>4. ASSUME NEW u \in Proc, pc[u] = "free", page[u] = p PROVE p \in going
        <5>1. Listed(u) \/ busy = u
          BY <2>1, <2>2, <4>4 DEF GoesOn
        <5> QED
          BY <4>4, <5>1
      <4>5. Listed(p) \/ \E u \in Proc : pc[u] \in {"copy", "free"} /\ page[u] = p
        BY <3>1 DEF FParts, UsedAll
      <4> HIDE DEF listed, coming, going
      <4> QED
        BY <4>2, <4>3, <4>4, <4>5
    <3>3. ASSUME NEW p \in listed PROVE p \in used /\ p \notin coming /\ p \notin going
      BY <2>1 DEF IInv, GInv, ListedUsed, Coming, Going
    <3>4. ASSUME NEW p \in coming PROVE p \in used /\ pc[p] = "user"
      <4>1. PICK u \in Proc : pc[u] = "copy" /\ page[u] = p
        BY <3>4
      <4> HIDE DEF coming
      <4> QED
        BY <4>1, <2>1 DEF Coming, FreshUser, Fresh
    <3>5. ASSUME NEW p \in going PROVE p \in used /\ pc[p] # "user"
      <4>1. PICK u \in Proc : pc[u] = "free" /\ page[u] = p
        BY <3>5
      <4> HIDE DEF going
      <4> QED
        BY <4>1, <2>1 DEF Going, Ending
    <3>6. \A s, r \in Slot : task[s] = task[r] /\ task[s] # Nothing => s = r
      BY DEF IInv, GInv, OneSlot
    <3> HIDE DEF listed, coming, going
    <3>7. used = listed \union coming \union going
      BY <3>2, <3>3, <3>4, <3>5
    <3>8. listed \intersect (coming \union going) = {} /\ coming \intersect going = {}
      BY <3>3, <3>4, <3>5
    <3> QED
      BY <3>6, <3>7, <3>8 DEF listed, coming, going
  <2> QED
    BY <2>1, <2>2 DEF TableExact
<1> QED
  BY <1>1, InitIInv, NextIInv, PTL DEF Spec

\* No two processes of the table have one pid, zombies included and however
\* often last_pid has wrapped, and the father that a process names can still
\* collect it, unless a fork was cut.
THEOREM PidsKept == Spec => []PidsUnique
<1>1. IInv => PidsUnique
  BY DEF IInv, FInv, FParts, PidsUnique, PidsDistinct
<1> QED
  BY <1>1, InitIInv, NextIInv, PTL DEF Spec

-----------------------------------------------------------------------------
\* A step that takes a process out of the table while t returns from waitpid.
Collects(t, z) == pc[t] = "scan" /\ pc'[t] = "free" /\ Listed(z) /\ ~Listed(z)'

LEMMA OnlyWaitScan ==
    ASSUME IInv, Next, NEW t \in Proc, NEW z \in Proc, Collects(t, z)
    PROVE  WaitScan(t) /\ DeadChildren(t) # {} /\ z = task[Max(DeadChildren(t))]
<1>0. pc[t] = "scan" /\ pc'[t] = "free" /\ Listed(z) /\ ~Listed(z)' /\ task' # task
  BY DEF Collects, Listed
<1>p. Places /\ Recs /\ GInv /\ Tables
  BY Unfolded
<1>1. ASSUME NEW u \in Proc, FindEmptyProcess(u) \/ DoExit(u) PROVE FALSE
  BY <1>0, <1>1 DEF FindEmptyProcess, DoExit
<1>2. ASSUME NEW u \in Proc, NewChild(u) \/ ExitZombie(u) \/ ExitTells(u) \/ ExitCode(u)
                             \/ WaitPauses(u) \/ WaitWakes(u)
      PROVE  FALSE
  BY <1>0, <1>2 DEF NewChild, ExitZombie, ExitTells, ExitCode, WaitPauses, WaitWakes
<1>3. ASSUME NEW u \in Proc, CopyProcess(u) \/ FreePage(u) PROVE FALSE
  <2>1. pc' = [pc EXCEPT ![u] = "user", ![page[u]] = "user"]
    BY <1>3 DEF CopyProcess, FreePage
  <2> QED
    BY <2>1, <1>0, <1>p DEF Places
<1>4. ASSUME NEW u \in Proc, ExitChooses(u) PROVE FALSE
  <2>1. pc[u] = "exit" /\ (Go(u, "free") \/ task' = task)
    BY <1>4 DEF ExitChooses, Release
  <2> QED
    BY <2>1, <1>0, <1>p DEF Places, Go
<1>5. ASSUME NEW u \in Proc, WaitScan(u) PROVE u = t
  <2>1. Go(u, "free")
    BY <1>5, <1>0 DEF WaitScan, Release
  <2> QED
    BY <2>1, <1>0, <1>p DEF Places, Go
<1>6. ASSUME NEW u \in Proc, NEW n, NEW sig, SysWaitpid(u, n) \/ SysKill(u, n, sig) \/ TickCuts
      PROVE  FALSE
  BY <1>0, <1>6 DEF SysWaitpid, SysKill, TickCuts
<1>7. WaitScan(t)
  BY <1>1, <1>2, <1>3, <1>4, <1>5, <1>6 DEF Next, Continues
<1>8. DeadChildren(t) # {} /\ Release(t, task[Max(DeadChildren(t))])
  BY <1>7, <1>0 DEF WaitScan
<1> DEFINE d == task[Max(DeadChildren(t))]
<1>9. d \in Page /\ Listed(d)
  BY <1>8, Collected
<1>10. task' = Released(d)
  BY <1>8 DEF Release
<1> HIDE DEF d
<1>11. \A q \in Proc : Listed(q)' <=> Listed(q) /\ q # d
  BY <1>9, <1>10, <1>p, ListedReleased DEF GInv
<1> QED
  BY <1>0, <1>7, <1>8, <1>11 DEF d

LEMMA StepStatus ==
    ASSUME IInv, Next, NEW t \in Proc, NEW z \in Proc, Collects(t, z)
    PROVE  ts[z].state = Zombie /\ (ts[z].exit_code = 1 \/ "exit" \in cut)
<1>1. WaitScan(t) /\ DeadChildren(t) # {} /\ z = task[Max(DeadChildren(t))]
  BY OnlyWaitScan
<1>2. z # t /\ ts[z].state = Zombie
  BY <1>1, Collected
<1>3. busy # z
  <2>1. CanRun(t)
    BY <1>1 DEF WaitScan
  <2> QED
    BY <2>1, <1>2, Runs, Consts
<1> QED
  BY <1>2, <1>3 DEF IInv, ZombieCode

\* waitpid collects zombies only, and with the code they exited with, unless a
\* tick cut the exit after TASK_ZOMBIE was set.
THEOREM StatusKept == Spec => StatusTrue
<1>1. ASSUME IInv, [Next]_vars
      PROVE  [\A t, z \in Proc :
                pc[t] = "scan" /\ pc'[t] = "free" /\ Listed(z) /\ ~Listed(z)' =>
                    ts[z].state = Zombie /\ (ts[z].exit_code = 1 \/ "exit" \in cut)]_vars
  BY <1>1, StepStatus DEF Collects
<1>2. IInv /\ [Next]_vars =>
            [\A t, z \in Proc :
                pc[t] = "scan" /\ pc'[t] = "free" /\ Listed(z) /\ ~Listed(z)' =>
                    ts[z].state = Zombie /\ (ts[z].exit_code = 1 \/ "exit" \in cut)]_vars
  BY <1>1
<1> QED
  BY <1>2, InitIInv, NextIInv, PTL DEF Spec, StatusTrue
=============================================================================
