---------------------------- MODULE InodeProofs ----------------------------
(***************************************************************************)
(* For every set of processes and of names and every size of the inode     *)
(* table: an inode number has one inode in core, i_count is the number of  *)
(* its users, and its link count is the number of its entries.             *)
(***************************************************************************)
EXTENDS Inode, FiniteSetsExt, FiniteSetTheorems, TLAPS

-----------------------------------------------------------------------------
\* Every set of numbers that is not empty has a least one, and Min is it.
LEMMA MinIsLeast ==
    ASSUME NEW S \in SUBSET Nat, S # {}
    PROVE  Min(S) \in S /\ \A y \in S : Min(S) <= y
<1> DEFINE R == {ss \in Nat \X Nat : ss[1] < ss[2]}
<1>1. OpToRel(<, Nat) = R
  BY Zenon DEF OpToRel
<1>2. IsWellFoundedOn(R, Nat)
  BY <1>1, NatLessThanWellFounded, Zenon
<1> HIDE DEF R
<1>3. PICK x \in S : \A y \in S : ~(<<y, x>> \in R)
  BY <1>2, WFMin, Zenon
<1>4. ASSUME NEW y \in S, y < x PROVE FALSE
  <2>1. <<y, x>> \in Nat \X Nat /\ <<y, x>>[1] < <<y, x>>[2]
    BY <1>4
  <2> QED
    BY <1>3, <2>1 DEF R
<1>5. \A y \in S : x <= y
  BY <1>4
<1> QED
  BY <1>5 DEF Min

-----------------------------------------------------------------------------
Pc == {"idle", "empty", "scan", "match", "read", "got", "new", "add", "iput",
       "last", "iputwrite", "trunc", "sync", "syncwrite"}

Call == [op : {"idle", "open", "unlink", "creat", "close", "sync"},
         name : Name \union {None}, nr : 0 .. NInodes,
         slot : 0 .. NrInode + 1, empty : 0 .. NrInode]

\* The variables other than pc and call.
DataOK ==
    /\ num \in [Slot -> 0 .. NInodes]
    /\ count \in [Slot -> Int]
    /\ links \in [Slot -> Int]
    /\ dirt \in [Slot -> BOOLEAN]
    /\ lock \in [Slot -> BOOLEAN]
    /\ dlinks \in [Num -> Int]
    /\ imap \subseteq Num
    /\ last \in Slot
    /\ dir \in [Name -> 0 .. NInodes]
    /\ cpu \in Proc \union {None}
    /\ fd \in [Proc -> 0 .. NrInode]
    /\ calls \in Nat
    /\ raced \subseteq {"stale", "late", "memset"}
    /\ panic \in {"no", "full", "free inode", "count", "links", "bit"}

TypeOK == DataOK /\ pc \in [Proc -> Pc] /\ call \in [Proc -> Call]

\* Where a call has got to tells which of its locals are set.
WithEmpty == {"scan", "match", "new"}
WithSlot == {"read", "got", "add", "iput", "last", "iputwrite", "trunc"}

CallAt(c, l) ==
    /\ l \in {"empty", "scan", "match"} => c.op = "creat" \/ c.nr \in Num
    /\ l \in {"scan", "match", "read"} => c.op # "creat"
    /\ l \in {"new", "add"} => c.op = "creat"
    /\ l \in WithEmpty => c.empty \in Slot
    /\ l \in WithSlot \union {"match", "syncwrite"} => c.slot \in Slot
    /\ l = "sync" => c.slot \in 1 .. NrInode + 1
    /\ l \in {"empty", "scan", "match", "read", "got", "new", "add"} => c.name \in Name

CallOK == \A p \in Proc : CallAt(call[p], pc[p])

Typed == TypeOK /\ CallOK

LEMMA Sizes == NrInode \in Nat /\ NrInode >= 1 /\ NInodes \in Nat /\ NInodes >= 1
BY InodeAssumption

LEMMA IdleIsCall == Idle \in Call
BY Sizes DEF Idle, Entered, Call, None

LEMMA InitTyped == Init => Typed
BY InodeAssumption, IdleIsCall
   DEF Init, Typed, TypeOK, DataOK, CallOK, CallAt, Pc, Slot, Num, None, WithEmpty, WithSlot

\* A step that gives one process a new record and a new place.
LEMMA CallStep ==
    ASSUME Typed, NEW p \in Proc, NEW c \in Call, NEW l \in Pc, CallAt(c, l),
           call' = [call EXCEPT ![p] = c], pc' = [pc EXCEPT ![p] = l]
    PROVE  call' \in [Proc -> Call] /\ pc' \in [Proc -> Pc] /\ CallOK'
BY DEF Typed, TypeOK, CallOK

\* What an update of one local does to a record.
LEMMA SlotSet ==
    ASSUME NEW c \in Call, NEW s \in 0 .. NrInode + 1
    PROVE  LET d == [c EXCEPT !.slot = s]
           IN d \in Call /\ d.slot = s /\ d.op = c.op /\ d.name = c.name /\ d.nr = c.nr /\ d.empty = c.empty
BY DEF Call

LEMMA EmptySet ==
    ASSUME NEW c \in Call, NEW s \in 0 .. NrInode
    PROVE  LET d == [c EXCEPT !.empty = s]
           IN d \in Call /\ d.slot = c.slot /\ d.op = c.op /\ d.name = c.name /\ d.nr = c.nr /\ d.empty = s
BY DEF Call

\* The record of a call that begins.
LEMMA EnteredIsCall ==
    ASSUME NEW op \in {"idle", "open", "unlink", "creat", "close", "sync"},
           NEW x \in Name \union {None}, NEW n \in 0 .. NInodes, NEW s \in 0 .. NrInode + 1
    PROVE  LET c == Entered(op, x, n, s)
           IN c \in Call /\ c.op = op /\ c.name = x /\ c.nr = n /\ c.slot = s /\ c.empty = None
BY InodeAssumption DEF Entered, Call, None

\* The types of what a step reads.
LEMMA Reads ==
    ASSUME Typed, NEW p \in Proc
    PROVE  /\ pc[p] \in Pc /\ call[p] \in Call /\ CallAt(call[p], pc[p]) /\ fd[p] \in 0 .. NrInode
           /\ call[p].slot \in 0 .. NrInode + 1 /\ call[p].empty \in 0 .. NrInode
           /\ call[p].nr \in 0 .. NInodes /\ call[p].name \in Name \union {None}
           /\ \A x \in Name : dir[x] \in 0 .. NInodes
           /\ \A s \in Slot : /\ num[s] \in 0 .. NInodes /\ count[s] \in Int /\ links[s] \in Int
                              /\ dirt[s] \in BOOLEAN /\ lock[s] \in BOOLEAN
BY DEF Typed, TypeOK, DataOK, CallOK, Call

LEMMA Tables ==
    ASSUME Typed
    PROVE  /\ num \in [Slot -> 0 .. NInodes] /\ count \in [Slot -> Int] /\ links \in [Slot -> Int]
           /\ dlinks \in [Num -> Int] /\ dir \in [Name -> 0 .. NInodes] /\ fd \in [Proc -> 0 .. NrInode]
BY DEF Typed, TypeOK, DataOK

LEMMA LookupTyped ==
    ASSUME Typed, NEW p \in Proc, NEW x \in Name, NEW op \in {"open", "unlink"}, Lookup(p, op, x)
    PROVE  Typed'
<1> DEFINE c == Entered(op, x, dir[x], fd[p])
<1>1. dir[x] \in Num /\ fd[p] \in 0 .. NrInode + 1
  <2>1. dir[x] # 0
    BY DEF Lookup, None
  <2> QED
    BY <2>1, Reads, Sizes DEF Num
<1>2. c \in Call /\ c.nr \in Num /\ c.name \in Name
  BY <1>1, EnteredIsCall, Sizes DEF Num
<1>3. call' = [call EXCEPT ![p] = c] /\ pc' = [pc EXCEPT ![p] = "empty"]
  BY DEF Lookup, Begin, Keeps, Sleeps
<1> HIDE DEF c
<1>4. CallAt(c, "empty")
  BY <1>2 DEF CallAt, WithEmpty, WithSlot
<1>5. call' \in [Proc -> Call] /\ pc' \in [Proc -> Pc] /\ CallOK'
  BY <1>2, <1>3, <1>4, CallStep DEF Pc
<1>6. DataOK'
  BY DEF Typed, TypeOK, DataOK, Lookup, Begin, Keeps, Sleeps, table, disk
<1> QED
  BY <1>5, <1>6 DEF Typed, TypeOK

LEMMA CreatTyped ==
    ASSUME Typed, NEW p \in Proc, NEW x \in Name, Creat(p, x)
    PROVE  Typed'
<1> DEFINE c == Entered("creat", x, dir[x], fd[p])
<1>1. dir[x] \in 0 .. NInodes /\ fd[p] \in 0 .. NrInode + 1
  BY Reads, Sizes
<1>2. c \in Call /\ c.op = "creat" /\ c.name \in Name
  BY <1>1, EnteredIsCall
<1>3. call' = [call EXCEPT ![p] = c] /\ pc' = [pc EXCEPT ![p] = "empty"]
  BY DEF Creat, Begin, Keeps
<1> HIDE DEF c
<1>4. CallAt(c, "empty")
  BY <1>2 DEF CallAt, WithEmpty, WithSlot
<1>5. call' \in [Proc -> Call] /\ pc' \in [Proc -> Pc] /\ CallOK'
  BY <1>2, <1>3, <1>4, CallStep DEF Pc
<1>6. DataOK'
  BY DEF Typed, TypeOK, DataOK, Creat, Begin, Keeps, table, disk
<1> QED
  BY <1>5, <1>6 DEF Typed, TypeOK

LEMMA CloseTyped ==
    ASSUME Typed, NEW p \in Proc, Close(p)
    PROVE  Typed'
<1> DEFINE c == Entered("close", None, IF None \in Name THEN dir[None] ELSE None, fd[p])
<1>1. fd[p] \in Slot
  <2>1. fd[p] # 0
    BY DEF Close, None
  <2> QED
    BY <2>1, Reads, Sizes DEF Slot
<1>2. (IF None \in Name THEN dir[None] ELSE None) \in 0 .. NInodes
  BY Reads, Sizes DEF None
<1>3. c \in Call /\ c.slot \in Slot
  BY <1>1, <1>2, EnteredIsCall, Sizes DEF Slot
<1>4. call' = [call EXCEPT ![p] = c] /\ pc' = [pc EXCEPT ![p] = "iput"]
  BY DEF Close, Begin, WaitsOn
<1> HIDE DEF c
<1>5. CallAt(c, "iput")
  BY <1>3 DEF CallAt, WithEmpty, WithSlot
<1>6. call' \in [Proc -> Call] /\ pc' \in [Proc -> Pc] /\ CallOK'
  BY <1>3, <1>4, <1>5, CallStep DEF Pc
<1>7. DataOK'
  <2>1. fd' \in [Proc -> 0 .. NrInode]
    BY Sizes DEF Typed, TypeOK, DataOK, Close, Begin, None
  <2> QED
    BY <2>1 DEF Typed, TypeOK, DataOK, Close, Begin, WaitsOn, table, disk
<1> QED
  BY <1>6, <1>7 DEF Typed, TypeOK

LEMMA SyncTyped ==
    ASSUME Typed, NEW p \in Proc, Sync(p)
    PROVE  Typed'
<1> DEFINE c == Entered("sync", None, None, 1)
<1>1. c \in Call /\ c.slot = 1
  BY EnteredIsCall, Sizes DEF None
<1>2. call' = [call EXCEPT ![p] = c] /\ pc' = [pc EXCEPT ![p] = "sync"]
  BY DEF Sync, Keeps
<1> HIDE DEF c
<1>3. CallAt(c, "sync")
  BY <1>1, Sizes DEF CallAt, WithEmpty, WithSlot
<1>4. call' \in [Proc -> Call] /\ pc' \in [Proc -> Pc] /\ CallOK'
  BY <1>1, <1>2, <1>3, CallStep DEF Pc
<1>5. DataOK'
  BY DEF Typed, TypeOK, DataOK, Sync, Keeps, table, disk
<1> QED
  BY <1>4, <1>5 DEF Typed, TypeOK

\* A call that ends, and a call whose record stays as it is.
LEMMA LeaveStep ==
    ASSUME Typed, NEW p \in Proc, Leave(p)
    PROVE  call' \in [Proc -> Call] /\ pc' \in [Proc -> Pc] /\ CallOK' /\ cpu' = None
<1>1. CallAt(Idle, "idle")
  BY DEF CallAt, WithEmpty, WithSlot
<1> QED
  BY <1>1, IdleIsCall, CallStep DEF Leave, Sleeps, Pc

LEMMA MoveStep ==
    ASSUME Typed, NEW p \in Proc, NEW l \in Pc, CallAt(call[p], l),
           pc' = [pc EXCEPT ![p] = l], call' = call
    PROVE  call' \in [Proc -> Call] /\ pc' \in [Proc -> Pc] /\ CallOK'
BY DEF Typed, TypeOK, CallOK

\* Panicking changes nothing else.
LEMMA PanicTyped ==
    ASSUME Typed, NEW why \in {"full", "free inode", "count", "links", "bit"}, Panics(why), calls' = calls
    PROVE  Typed'
BY DEF Typed, TypeOK, DataOK, CallOK, Panics, table, disk

\* The slot that get_empty_inode chooses.
Free == {s \in Slot : count[s] = 0}
Chosen == IF \E t \in Free : t >= last THEN Min({t \in Free : t >= last}) ELSE Min(Free)

LEMMA ChosenFree == Free # {} => Chosen \in Slot /\ count[Chosen] = 0
<1> SUFFICES ASSUME Free # {} PROVE Chosen \in Free
  BY DEF Free
<1>1. Free \in SUBSET Nat /\ {t \in Free : t >= last} \in SUBSET Nat
  BY Sizes DEF Free, Slot
<1>2. Min(Free) \in Free
  BY <1>1, MinIsLeast
<1>3. {t \in Free : t >= last} # {} => Min({t \in Free : t >= last}) \in Free
  BY <1>1, MinIsLeast
<1> QED
  BY <1>2, <1>3 DEF Chosen

LEMMA MemsetTyped ==
    ASSUME DataOK, NEW s \in Slot, NEW c \in Int, Memset(s, c)
    PROVE  /\ num' \in [Slot -> 0 .. NInodes] /\ count' \in [Slot -> Int] /\ links' \in [Slot -> Int]
           /\ dirt' \in [Slot -> BOOLEAN] /\ lock' \in [Slot -> BOOLEAN]
<1>1. /\ num' = [num EXCEPT ![s] = 0] /\ count' = [count EXCEPT ![s] = c] /\ links' = [links EXCEPT ![s] = 0]
      /\ num \in [Slot -> 0 .. NInodes] /\ count \in [Slot -> Int] /\ links \in [Slot -> Int]
  BY DEF DataOK, Memset, None
<1>2. num' \in [Slot -> 0 .. NInodes] /\ count' \in [Slot -> Int] /\ links' \in [Slot -> Int]
  BY <1>1, Sizes
<1>3. dirt' \in [Slot -> BOOLEAN] /\ lock' \in [Slot -> BOOLEAN]
  BY DEF DataOK, Memset
<1> QED
  BY <1>2, <1>3

LEMMA GetEmptyInodeTyped ==
    ASSUME Typed, NEW p \in Proc, GetEmptyInode(p)
    PROVE  Typed'
<1>1. CASE Free = {} /\ Panics("full") /\ calls' = calls
  BY <1>1, PanicTyped
<1>2. CASE /\ Free # {}
           /\ last' = Chosen
           /\ call' = [call EXCEPT ![p].empty = Chosen]
           /\ Memset(Chosen, 1)
           /\ Keeps(p, IF call[p].op = "creat" THEN "new" ELSE "scan")
           /\ UNCHANGED <<disk, fd, raced, panic>>
           /\ calls' = calls
  <2> DEFINE c == [call[p] EXCEPT !.empty = Chosen]
             l == IF call[p].op = "creat" THEN "new" ELSE "scan"
  <2>1. Chosen \in Slot /\ Chosen \in 0 .. NrInode
    BY <1>2, ChosenFree, Sizes DEF Slot
  <2>2. c \in Call /\ c.empty \in Slot /\ c.op = call[p].op /\ c.nr = call[p].nr /\ c.name = call[p].name
    BY <2>1, Reads, EmptySet
  <2>3. CallAt(call[p], "empty") /\ pc[p] = "empty"
    BY Reads DEF GetEmptyInode, Runs
  <2>4. call' = [call EXCEPT ![p] = c] /\ pc' = [pc EXCEPT ![p] = l]
    BY <1>2 DEF Keeps
  <2> HIDE DEF c
  <2>5. CallAt(c, l)
    BY <2>2, <2>3 DEF CallAt, WithEmpty, WithSlot
  <2>6. call' \in [Proc -> Call] /\ pc' \in [Proc -> Pc] /\ CallOK'
    BY <2>2, <2>4, <2>5, CallStep DEF Pc
  <2>7. DataOK'
    <3>1. /\ num' \in [Slot -> 0 .. NInodes] /\ count' \in [Slot -> Int] /\ links' \in [Slot -> Int]
          /\ dirt' \in [Slot -> BOOLEAN] /\ lock' \in [Slot -> BOOLEAN]
      BY <1>2, <2>1, MemsetTyped DEF Typed, TypeOK
    <3> QED
      BY <1>2, <2>1, <3>1 DEF Typed, TypeOK, DataOK, Keeps, disk
  <2> QED
    BY <2>6, <2>7 DEF Typed, TypeOK
<1> QED
  BY <1>1, <1>2 DEF GetEmptyInode, Free, Chosen

\* The slots in which iget finds its number.
Found(n) == {s \in Slot : num[s] = n}

LEMMA FoundSlot ==
    ASSUME NEW n, Found(n) # {}
    PROVE  Min(Found(n)) \in Slot /\ num[Min(Found(n))] = n /\ Min(Found(n)) \in 0 .. NrInode + 1
<1>1. Found(n) \in SUBSET Nat
  BY Sizes DEF Found, Slot
<1>2. Min(Found(n)) \in Found(n)
  BY <1>1, MinIsLeast
<1> QED
  BY <1>2, Sizes DEF Found, Slot

LEMMA IgetScanTyped ==
    ASSUME Typed, NEW p \in Proc, IgetScan(p)
    PROVE  Typed'
<1> DEFINE found == Found(call[p].nr)
<1>0. CallAt(call[p], "scan") /\ pc[p] = "scan"
  BY Reads DEF IgetScan, Runs
<1>1. CASE /\ found # {}
           /\ call' = [call EXCEPT ![p].slot = Min(found)]
           /\ WaitsOn(p, Min(found), "match")
           /\ UNCHANGED <<table, raced>>
           /\ UNCHANGED <<disk, last, fd, calls, panic>>
  <2> DEFINE c == [call[p] EXCEPT !.slot = Min(found)]
  <2>1. Min(found) \in Slot /\ Min(found) \in 0 .. NrInode + 1
    BY <1>1, FoundSlot
  <2>2. c \in Call /\ c.slot \in Slot /\ c.op = call[p].op /\ c.nr = call[p].nr /\ c.name = call[p].name /\ c.empty = call[p].empty
    BY <2>1, Reads, SlotSet
  <2>3. call' = [call EXCEPT ![p] = c] /\ pc' = [pc EXCEPT ![p] = "match"]
    BY <1>1 DEF WaitsOn
  <2> HIDE DEF c
  <2>4. CallAt(c, "match")
    BY <1>0, <2>2 DEF CallAt, WithEmpty, WithSlot
  <2>5. call' \in [Proc -> Call] /\ pc' \in [Proc -> Pc] /\ CallOK'
    BY <2>2, <2>3, <2>4, CallStep DEF Pc
  <2>6. DataOK'
    BY <1>1 DEF Typed, TypeOK, DataOK, WaitsOn, table, disk
  <2> QED
    BY <2>5, <2>6 DEF Typed, TypeOK
<1>2. CASE /\ found = {}
           /\ num' = [num EXCEPT ![call[p].empty] = call[p].nr]
           /\ lock' = [lock EXCEPT ![call[p].empty] = TRUE]
           /\ call' = [call EXCEPT ![p].slot = call[p].empty, ![p].empty = None]
           /\ raced' = raced \union Stale(call[p].nr)
           /\ Sleeps(p, "read")
           /\ UNCHANGED <<count, links, dirt>>
           /\ UNCHANGED <<disk, last, fd, calls, panic>>
  <2> DEFINE d == [call[p] EXCEPT !.slot = call[p].empty]
             c == [d EXCEPT !.empty = None]
  <2>1. call[p].empty \in Slot /\ call[p].nr \in 0 .. NInodes
    BY <1>0, Reads DEF CallAt, WithEmpty
  <2>2. c \in Call /\ c.slot \in Slot /\ c.op = call[p].op /\ c.name = call[p].name
    <3>1. call[p].empty \in 0 .. NrInode + 1 /\ None \in 0 .. NrInode
      BY <2>1, Sizes DEF Slot, None
    <3>2. d \in Call /\ d.slot \in Slot /\ d.op = call[p].op /\ d.name = call[p].name
      BY <2>1, <3>1, Reads, SlotSet
    <3> HIDE DEF d
    <3> QED
      BY <3>1, <3>2, EmptySet
  <2>3. call' = [call EXCEPT ![p] = c] /\ pc' = [pc EXCEPT ![p] = "read"]
    BY <1>2 DEF Sleeps, Typed, TypeOK
  <2> HIDE DEF c
  <2>4. CallAt(c, "read")
    BY <1>0, <2>2 DEF CallAt, WithEmpty, WithSlot
  <2>5. call' \in [Proc -> Call] /\ pc' \in [Proc -> Pc] /\ CallOK'
    BY <2>2, <2>3, <2>4, CallStep DEF Pc
  <2>6. DataOK'
    BY <1>2, <2>1 DEF Typed, TypeOK, DataOK, Sleeps, disk, Stale
  <2> QED
    BY <2>5, <2>6 DEF Typed, TypeOK
<1> QED
  BY <1>1, <1>2 DEF IgetScan, Found

LEMMA IgetMatchTyped ==
    ASSUME Typed, NEW p \in Proc, IgetMatch(p)
    PROVE  Typed'
<1>0. CallAt(call[p], "match") /\ pc[p] = "match" /\ call[p].slot \in Slot /\ call[p].empty \in Slot
  BY Reads DEF IgetMatch, Runs, CallAt, WithEmpty
<1>1. CASE num[call[p].slot] = call[p].nr
  <2> DEFINE c == [call[p] EXCEPT !.empty = None]
  <2>1. c \in Call /\ c.slot \in Slot /\ c.op = call[p].op /\ c.name = call[p].name
    BY <1>0, Reads, EmptySet, Sizes DEF None
  <2>2. call' = [call EXCEPT ![p] = c] /\ pc' = [pc EXCEPT ![p] = "got"]
    BY <1>1 DEF IgetMatch, Keeps
  <2> HIDE DEF c
  <2>3. CallAt(c, "got")
    BY <1>0, <2>1 DEF CallAt, WithEmpty, WithSlot
  <2>4. call' \in [Proc -> Call] /\ pc' \in [Proc -> Pc] /\ CallOK'
    BY <2>1, <2>2, <2>3, CallStep DEF Pc
  <2>5. count' \in [Slot -> Int]
    <3>1. count' = [count EXCEPT ![call[p].slot] = @ + 1, ![call[p].empty] = @ - 1]
      BY <1>1 DEF IgetMatch
    <3> QED
      BY <1>0, <3>1, Tables
  <2>6. DataOK'
    BY <1>1, <2>5 DEF Typed, TypeOK, DataOK, IgetMatch, Keeps, disk, Stale, Late
  <2> QED
    BY <2>4, <2>6 DEF Typed, TypeOK
<1>2. CASE num[call[p].slot] # call[p].nr
  <2>1. CallAt(call[p], "scan")
    BY <1>0 DEF CallAt, WithEmpty, WithSlot
  <2>2. call' \in [Proc -> Call] /\ pc' \in [Proc -> Pc] /\ CallOK'
    BY <1>2, <2>1, MoveStep DEF IgetMatch, Keeps, Pc
  <2>3. DataOK'
    BY <1>2 DEF Typed, TypeOK, DataOK, IgetMatch, Keeps, disk
  <2> QED
    BY <2>2, <2>3 DEF Typed, TypeOK
<1> QED
  BY <1>1, <1>2

LEMMA ReadInodeTyped ==
    ASSUME Typed, NEW p \in Proc, ReadInode(p), num[call[p].slot] \in Num
    PROVE  Typed'
<1>0. CallAt(call[p], "read") /\ pc[p] = "read" /\ call[p].slot \in Slot
  BY Reads DEF ReadInode, Runs, CallAt, WithSlot
<1>1. CallAt(call[p], "got")
  BY <1>0 DEF CallAt, WithEmpty, WithSlot
<1>2. call' \in [Proc -> Call] /\ pc' \in [Proc -> Pc] /\ CallOK'
  BY <1>1, MoveStep DEF ReadInode, Keeps, Pc
<1>3. links' \in [Slot -> Int]
  <2>1. dlinks[num[call[p].slot]] \in Int
    BY DEF Typed, TypeOK, DataOK
  <2> QED
    BY <1>0, <2>1 DEF Typed, TypeOK, DataOK, ReadInode
<1>4. lock' \in [Slot -> BOOLEAN]
  BY DEF Typed, TypeOK, DataOK, ReadInode
<1>5. DataOK'
  BY <1>3, <1>4 DEF Typed, TypeOK, DataOK, ReadInode, Keeps, disk
<1> QED
  BY <1>2, <1>5 DEF Typed, TypeOK

LEMMA OpenedTyped ==
    ASSUME Typed, NEW p \in Proc, Opened(p)
    PROVE  Typed'
<1>0. call[p].slot \in Slot
  BY Reads DEF Opened, Runs, CallAt, WithSlot
<1>1. CASE Leave(p) /\ fd' = [fd EXCEPT ![p] = call[p].slot]
  <2>1. call' \in [Proc -> Call] /\ pc' \in [Proc -> Pc] /\ CallOK' /\ cpu' = None
    BY <1>1, LeaveStep
  <2>2. call[p].slot \in 0 .. NrInode
    BY <1>0, Sizes DEF Slot
  <2>3. fd' \in [Proc -> 0 .. NrInode]
    BY <1>1, <2>2 DEF Typed, TypeOK, DataOK
  <2>4. DataOK'
    BY <2>1, <2>3 DEF Typed, TypeOK, DataOK, Opened, table, disk
  <2> QED
    BY <2>1, <2>4 DEF Typed, TypeOK
<1>2. CASE WaitsOn(p, call[p].slot, "iput") /\ UNCHANGED <<fd, call>>
  <2>1. CallAt(call[p], "iput")
    BY <1>0 DEF CallAt, WithEmpty, WithSlot
  <2>2. pc' = [pc EXCEPT ![p] = "iput"] /\ cpu' \in {p, None}
    BY <1>2 DEF WaitsOn
  <2>3. call' \in [Proc -> Call] /\ pc' \in [Proc -> Pc] /\ CallOK'
    BY <1>2, <2>1, <2>2 DEF Typed, TypeOK, CallOK, Pc
  <2>4. DataOK'
    BY <1>2, <2>2 DEF Typed, TypeOK, DataOK, Opened, table, disk
  <2> QED
    BY <2>3, <2>4 DEF Typed, TypeOK
<1> QED
  BY <1>1, <1>2 DEF Opened

LEMMA UnlinkTyped ==
    ASSUME Typed, NEW p \in Proc, Unlink(p)
    PROVE  Typed'
<1>0. CallAt(call[p], "got") /\ pc[p] = "got" /\ call[p].slot \in Slot
  BY Reads DEF Unlink, Runs, CallAt, WithSlot
<1>1. CallAt(call[p], "iput")
  BY <1>0 DEF CallAt, WithEmpty, WithSlot
<1>2. call' \in [Proc -> Call] /\ pc' \in [Proc -> Pc] /\ CallOK'
  BY <1>1, MoveStep DEF Unlink, WaitsOn, Pc
<1>3. links' \in [Slot -> Int]
  <2>1. links' = [links EXCEPT ![call[p].slot] = IF @ = 0 THEN 0 ELSE @ - 1]
    BY DEF Unlink
  <2> QED
    BY <1>0, <2>1, Tables
<1>4. dirt' \in [Slot -> BOOLEAN]
  BY DEF Typed, TypeOK, DataOK, Unlink
<1>5. dir' \in [Name -> 0 .. NInodes]
  <2>1. dir' = [dir EXCEPT ![call[p].name] = 0]
    BY DEF Unlink, None
  <2> QED
    BY <1>0, <2>1, Sizes, Tables DEF CallAt
<1>6. DataOK'
  BY <1>3, <1>4, <1>5 DEF Typed, TypeOK, DataOK, Unlink, WaitsOn
<1> QED
  BY <1>2, <1>6 DEF Typed, TypeOK

\* The number that new_inode takes.
NewNum == Min(Num \ imap)

LEMMA NewNumFree == ~(Num \subseteq imap) => NewNum \in Num \ imap
<1> SUFFICES ASSUME ~(Num \subseteq imap) PROVE NewNum \in Num \ imap
  OBVIOUS
<1>1. Num \ imap \in SUBSET Nat /\ Num \ imap # {}
  BY Sizes DEF Num
<1> QED
  BY <1>1, MinIsLeast DEF NewNum

LEMMA NewInodeTyped ==
    ASSUME Typed, NEW p \in Proc, NewInode(p)
    PROVE  Typed'
<1>0. pc[p] = "new" /\ call[p].empty \in Slot /\ CallAt(call[p], "new")
  BY Reads DEF NewInode, Runs, CallAt, WithEmpty
<1>1. CASE Num \subseteq imap
  <2>1. call' \in [Proc -> Call] /\ pc' \in [Proc -> Pc] /\ CallOK' /\ cpu' = None
    BY <1>1, LeaveStep DEF NewInode
  <2>2. count' \in [Slot -> Int]
    <3>1. count' = [count EXCEPT ![call[p].empty] = @ - 1]
      BY <1>1 DEF NewInode
    <3> QED
      BY <1>0, <3>1, Tables
  <2>3. DataOK'
    BY <1>1, <2>1, <2>2 DEF Typed, TypeOK, DataOK, NewInode
  <2> QED
    BY <2>1, <2>3 DEF Typed, TypeOK
<1>2. CASE ~(Num \subseteq imap)
  <2> DEFINE d == [call[p] EXCEPT !.slot = call[p].empty]
             e == [d EXCEPT !.empty = None]
             c == [e EXCEPT !.nr = NewNum]
  <2>1. NewNum \in Num /\ NewNum \in 0 .. NInodes
    BY <1>2, NewNumFree, Sizes DEF Num
  <2>2. d \in Call /\ d.slot \in Slot /\ d.name = call[p].name /\ d.op = call[p].op
    BY <1>0, Reads, SlotSet, Sizes DEF Slot
  <2>3. e \in Call /\ e.slot \in Slot /\ e.name = call[p].name /\ e.op = call[p].op
    <3> HIDE DEF d
    <3> QED
      BY <2>2, EmptySet, Sizes DEF None
  <2>4. c \in Call /\ c.slot \in Slot /\ c.name = call[p].name /\ c.op = call[p].op
    <3> HIDE DEF e
    <3> QED
      BY <2>1, <2>3 DEF Call
  <2>5. call' = [call EXCEPT ![p] = c] /\ pc' = [pc EXCEPT ![p] = "add"]
    BY <1>2 DEF NewInode, Sleeps, NewNum, Typed, TypeOK
  <2> HIDE DEF c
  <2>6. CallAt(c, "add")
    BY <1>0, <2>4 DEF CallAt, WithEmpty, WithSlot
  <2>7. call' \in [Proc -> Call] /\ pc' \in [Proc -> Pc] /\ CallOK'
    BY <2>4, <2>5, <2>6, CallStep DEF Pc
  <2>8. /\ imap' = imap \union {NewNum}
        /\ num' = [num EXCEPT ![call[p].empty] = NewNum]
        /\ count' = [count EXCEPT ![call[p].empty] = 1]
        /\ links' = [links EXCEPT ![call[p].empty] = 1]
        /\ dirt' = [dirt EXCEPT ![call[p].empty] = TRUE]
        /\ cpu' = None
        /\ UNCHANGED <<lock, dlinks, dir, last, fd, calls, raced, panic>>
    BY <1>2 DEF NewInode, Sleeps, NewNum
  <2>9. num' \in [Slot -> 0 .. NInodes] /\ count' \in [Slot -> Int] /\ links' \in [Slot -> Int]
    BY <1>0, <2>1, <2>8, Tables
  <2>10. dirt' \in [Slot -> BOOLEAN]
    BY <2>8 DEF Typed, TypeOK, DataOK
  <2>11. DataOK'
    BY <2>1, <2>8, <2>9, <2>10 DEF Typed, TypeOK, DataOK
  <2> QED
    BY <2>7, <2>11 DEF Typed, TypeOK
<1> QED
  BY <1>1, <1>2

LEMMA AddEntryTyped ==
    ASSUME Typed, NEW p \in Proc, AddEntry(p)
    PROVE  Typed'
<1>0. /\ CallAt(call[p], "add") /\ pc[p] = "add"
      /\ call[p].slot \in Slot /\ call[p].name \in Name /\ call[p].nr \in 0 .. NInodes
  BY Reads DEF AddEntry, Runs, CallAt, WithSlot
<1>1. CASE /\ dir' = [dir EXCEPT ![call[p].name] = call[p].nr]
           /\ fd' = [fd EXCEPT ![p] = call[p].slot]
           /\ Leave(p)
           /\ UNCHANGED links
  <2>1. call' \in [Proc -> Call] /\ pc' \in [Proc -> Pc] /\ CallOK' /\ cpu' = None
    BY <1>1, LeaveStep
  <2>2. dir' \in [Name -> 0 .. NInodes] /\ fd' \in [Proc -> 0 .. NrInode]
    <3>1. call[p].slot \in 0 .. NrInode
      BY <1>0, Sizes DEF Slot
    <3> QED
      BY <1>0, <1>1, <3>1, Tables
  <2>3. DataOK'
    BY <1>1, <2>1, <2>2 DEF Typed, TypeOK, DataOK, AddEntry
  <2> QED
    BY <2>1, <2>3 DEF Typed, TypeOK
<1>2. CASE /\ links' = [links EXCEPT ![call[p].slot] = @ - 1]
           /\ WaitsOn(p, call[p].slot, "iput")
           /\ UNCHANGED <<dir, fd, call>>
  <2>1. CallAt(call[p], "iput")
    BY <1>0 DEF CallAt, WithEmpty, WithSlot
  <2>2. call' \in [Proc -> Call] /\ pc' \in [Proc -> Pc] /\ CallOK'
    BY <1>2, <2>1, MoveStep DEF WaitsOn, Pc
  <2>3. links' \in [Slot -> Int]
    BY <1>0, <1>2, Tables
  <2>4. DataOK'
    BY <1>2, <2>3 DEF Typed, TypeOK, DataOK, AddEntry, WaitsOn
  <2> QED
    BY <2>2, <2>4 DEF Typed, TypeOK
<1> QED
  BY <1>1, <1>2 DEF AddEntry

LEMMA IputTyped ==
    ASSUME Typed, NEW p \in Proc, Iput(p)
    PROVE  Typed'
<1>0. CallAt(call[p], "iput") /\ pc[p] = "iput" /\ call[p].slot \in Slot
  BY Reads DEF Iput, Runs, CallAt, WithSlot
<1>1. CASE Panics("free inode") /\ calls' = calls
  BY <1>1, PanicTyped
<1>2. CASE /\ count' = [count EXCEPT ![call[p].slot] = @ - 1]
           /\ Leave(p)
           /\ UNCHANGED <<num, links, dirt, lock, disk, last, fd, raced, panic>>
           /\ UNCHANGED calls
  <2>1. call' \in [Proc -> Call] /\ pc' \in [Proc -> Pc] /\ CallOK' /\ cpu' = None
    BY <1>2, LeaveStep
  <2>2. count' \in [Slot -> Int]
    BY <1>0, <1>2, Tables
  <2>3. DataOK'
    BY <1>2, <2>1, <2>2 DEF Typed, TypeOK, DataOK, disk
  <2> QED
    BY <2>1, <2>3 DEF Typed, TypeOK
<1>3. CASE /\ Keeps(p, "last")
           /\ UNCHANGED <<table, disk, last, call, fd, raced, panic>>
           /\ UNCHANGED calls
  <2>1. CallAt(call[p], "last")
    BY <1>0 DEF CallAt, WithEmpty, WithSlot
  <2>2. call' \in [Proc -> Call] /\ pc' \in [Proc -> Pc] /\ CallOK'
    BY <1>3, <2>1, MoveStep DEF Keeps, Pc
  <2>3. DataOK'
    BY <1>3 DEF Typed, TypeOK, DataOK, table, disk, Keeps
  <2> QED
    BY <2>2, <2>3 DEF Typed, TypeOK
<1> QED
  BY <1>1, <1>2, <1>3 DEF Iput

LEMMA IputLastTyped ==
    ASSUME Typed, NEW p \in Proc, IputLast(p)
    PROVE  Typed'
<1>0. CallAt(call[p], "last") /\ pc[p] = "last" /\ call[p].slot \in Slot
  BY Reads DEF IputLast, Runs, CallAt, WithSlot
<1>1. CallAt(call[p], "trunc") /\ CallAt(call[p], "iputwrite")
  BY <1>0 DEF CallAt, WithEmpty, WithSlot
<1>2. CASE Sleeps(p, "trunc") /\ UNCHANGED <<table, call>>
  <2>1. call' \in [Proc -> Call] /\ pc' \in [Proc -> Pc] /\ CallOK'
    BY <1>1, <1>2, MoveStep DEF Sleeps, Pc
  <2>2. DataOK'
    BY <1>2 DEF Typed, TypeOK, DataOK, table, disk, Sleeps, IputLast
  <2> QED
    BY <2>1, <2>2 DEF Typed, TypeOK
<1>3. CASE WriteInode(p, call[p].slot, "iputwrite") /\ UNCHANGED <<num, count, links, dirt, call>>
  <2>1. call' \in [Proc -> Call] /\ pc' \in [Proc -> Pc] /\ CallOK'
    BY <1>1, <1>3, MoveStep DEF WriteInode, Sleeps, Pc
  <2>2. lock' \in [Slot -> BOOLEAN]
    BY <1>3 DEF Typed, TypeOK, DataOK, WriteInode
  <2>3. DataOK'
    BY <1>3, <2>2 DEF Typed, TypeOK, DataOK, disk, Sleeps, IputLast, WriteInode
  <2> QED
    BY <2>1, <2>3 DEF Typed, TypeOK
<1>4. CASE /\ count' = [count EXCEPT ![call[p].slot] = @ - 1]
           /\ Leave(p)
           /\ UNCHANGED <<num, links, dirt, lock>>
  <2>1. call' \in [Proc -> Call] /\ pc' \in [Proc -> Pc] /\ CallOK' /\ cpu' = None
    BY <1>4, LeaveStep
  <2>2. count' \in [Slot -> Int]
    BY <1>0, <1>4, Tables
  <2>3. DataOK'
    BY <1>4, <2>1, <2>2 DEF Typed, TypeOK, DataOK, disk, IputLast
  <2> QED
    BY <2>1, <2>3 DEF Typed, TypeOK
<1> QED
  BY <1>2, <1>3, <1>4 DEF IputLast

\* write_inode, whatever number the inode has by now.
LEMMA WroteTyped ==
    ASSUME Typed, NEW s \in Slot, WroteInode(s)
    PROVE  dlinks' \in [Num -> Int] /\ dirt' \in [Slot -> BOOLEAN] /\ lock' \in [Slot -> BOOLEAN]
<1>1. dlinks' = [dlinks EXCEPT ![IF num[s] = 0 THEN NInodes ELSE num[s]] = links[s]]
  BY DEF WroteInode, None
<1>2. dlinks' \in [Num -> Int]
  BY <1>1, Tables, Sizes DEF Num
<1>3. dirt' \in [Slot -> BOOLEAN] /\ lock' \in [Slot -> BOOLEAN]
  BY DEF WroteInode, Typed, TypeOK, DataOK
<1> QED
  BY <1>2, <1>3

LEMMA IputWrittenTyped ==
    ASSUME Typed, NEW p \in Proc, IputWritten(p)
    PROVE  Typed'
<1>0. CallAt(call[p], "iputwrite") /\ pc[p] = "iputwrite" /\ call[p].slot \in Slot
  BY Reads DEF IputWritten, Runs, CallAt, WithSlot
<1>1. CallAt(call[p], "last")
  BY <1>0 DEF CallAt, WithEmpty, WithSlot
<1>2. call' \in [Proc -> Call] /\ pc' \in [Proc -> Pc] /\ CallOK'
  BY <1>1, MoveStep DEF IputWritten, Keeps, Pc
<1>3. dlinks' \in [Num -> Int] /\ dirt' \in [Slot -> BOOLEAN] /\ lock' \in [Slot -> BOOLEAN]
  BY <1>0, WroteTyped DEF IputWritten
<1>4. DataOK'
  BY <1>3 DEF Typed, TypeOK, DataOK, IputWritten, Keeps
<1> QED
  BY <1>2, <1>4 DEF Typed, TypeOK

LEMMA FreeInodeTyped ==
    ASSUME Typed, NEW p \in Proc, FreeInode(p)
    PROVE  Typed'
<1>0. call[p].slot \in Slot
  BY Reads DEF FreeInode, Runs, CallAt, WithSlot
<1>1. CASE (Panics("count") \/ Panics("links") \/ Panics("bit")) /\ calls' = calls
  BY <1>1, PanicTyped
<1>2. CASE /\ imap' = imap \ {num[call[p].slot]}
           /\ Memset(call[p].slot, 0)
           /\ raced' = raced \union (IF lock[call[p].slot] THEN {"memset"} ELSE {})
           /\ Leave(p)
           /\ UNCHANGED <<dlinks, dir, last, fd, panic>>
           /\ UNCHANGED calls
  <2>1. call' \in [Proc -> Call] /\ pc' \in [Proc -> Pc] /\ CallOK' /\ cpu' = None
    BY <1>2, LeaveStep
  <2>2. /\ num' \in [Slot -> 0 .. NInodes] /\ count' \in [Slot -> Int] /\ links' \in [Slot -> Int]
        /\ dirt' \in [Slot -> BOOLEAN] /\ lock' \in [Slot -> BOOLEAN]
    BY <1>0, <1>2, MemsetTyped DEF Typed, TypeOK
  <2>3. DataOK'
    BY <1>2, <2>1, <2>2 DEF Typed, TypeOK, DataOK
  <2> QED
    BY <2>1, <2>3 DEF Typed, TypeOK
<1> QED
  BY <1>1, <1>2 DEF FreeInode

LEMMA SyncInodesTyped ==
    ASSUME Typed, NEW p \in Proc, SyncInodes(p)
    PROVE  Typed'
<1>0. CallAt(call[p], "sync") /\ pc[p] = "sync" /\ call[p].slot \in 1 .. NrInode + 1
  BY Reads DEF SyncInodes, Runs, CallAt
<1>1. CASE Leave(p) /\ UNCHANGED lock
  <2>1. call' \in [Proc -> Call] /\ pc' \in [Proc -> Pc] /\ CallOK' /\ cpu' = None
    BY <1>1, LeaveStep
  <2>2. DataOK'
    BY <1>1, <2>1 DEF Typed, TypeOK, DataOK, disk, SyncInodes
  <2> QED
    BY <2>1, <2>2 DEF Typed, TypeOK
<1>2. CASE Sleeps(p, "sync") /\ UNCHANGED <<lock, call>>
  <2>1. call' \in [Proc -> Call] /\ pc' \in [Proc -> Pc] /\ CallOK'
    BY <1>0, <1>2, MoveStep DEF Sleeps, Pc
  <2>2. DataOK'
    BY <1>2 DEF Typed, TypeOK, DataOK, disk, SyncInodes, Sleeps
  <2> QED
    BY <2>1, <2>2 DEF Typed, TypeOK
<1>3. CASE /\ call[p].slot <= NrInode
           /\ WriteInode(p, call[p].slot, "syncwrite")
           /\ UNCHANGED call
  <2>1. call[p].slot \in Slot
    BY <1>0, <1>3, Sizes DEF Slot
  <2>2. CallAt(call[p], "syncwrite")
    BY <1>0, <2>1 DEF CallAt, WithEmpty, WithSlot
  <2>3. call' \in [Proc -> Call] /\ pc' \in [Proc -> Pc] /\ CallOK'
    BY <1>3, <2>2, MoveStep DEF WriteInode, Sleeps, Pc
  <2>4. lock' \in [Slot -> BOOLEAN]
    BY <1>3 DEF Typed, TypeOK, DataOK, WriteInode
  <2>5. DataOK'
    BY <1>3, <2>4 DEF Typed, TypeOK, DataOK, disk, SyncInodes, WriteInode, Sleeps
  <2> QED
    BY <2>3, <2>5 DEF Typed, TypeOK
<1>4. CASE /\ call[p].slot <= NrInode
           /\ call' = [call EXCEPT ![p].slot = @ + 1]
           /\ Keeps(p, "sync")
           /\ UNCHANGED lock
  <2> DEFINE c == [call[p] EXCEPT !.slot = @ + 1]
  <2>1. c \in Call /\ c.slot \in 1 .. NrInode + 1
    <3>1. call[p].slot + 1 \in 0 .. NrInode + 1 /\ call[p].slot + 1 \in 1 .. NrInode + 1
      BY <1>0, <1>4, Sizes
    <3> QED
      BY <3>1, Reads, SlotSet
  <2>2. call' = [call EXCEPT ![p] = c] /\ pc' = [pc EXCEPT ![p] = "sync"]
    BY <1>4 DEF Keeps
  <2> HIDE DEF c
  <2>3. CallAt(c, "sync")
    BY <2>1 DEF CallAt, WithEmpty, WithSlot
  <2>4. call' \in [Proc -> Call] /\ pc' \in [Proc -> Pc] /\ CallOK'
    BY <2>1, <2>2, <2>3, CallStep DEF Pc
  <2>5. DataOK'
    BY <1>4 DEF Typed, TypeOK, DataOK, disk, SyncInodes, Keeps
  <2> QED
    BY <2>4, <2>5 DEF Typed, TypeOK
<1> QED
  BY <1>1, <1>2, <1>3, <1>4 DEF SyncInodes

LEMMA SyncWrittenTyped ==
    ASSUME Typed, NEW p \in Proc, SyncWritten(p)
    PROVE  Typed'
<1>0. CallAt(call[p], "syncwrite") /\ pc[p] = "syncwrite" /\ call[p].slot \in Slot
  BY Reads DEF SyncWritten, Runs, CallAt
<1> DEFINE c == [call[p] EXCEPT !.slot = @ + 1]
<1>1. c \in Call /\ c.slot \in 1 .. NrInode + 1
  <2>1. call[p].slot + 1 \in 0 .. NrInode + 1 /\ call[p].slot + 1 \in 1 .. NrInode + 1
    BY <1>0, Sizes DEF Slot
  <2> QED
    BY <2>1, Reads, SlotSet
<1>2. call' = [call EXCEPT ![p] = c] /\ pc' = [pc EXCEPT ![p] = "sync"]
  BY DEF SyncWritten, Keeps
<1> HIDE DEF c
<1>3. CallAt(c, "sync")
  BY <1>1 DEF CallAt, WithEmpty, WithSlot
<1>4. call' \in [Proc -> Call] /\ pc' \in [Proc -> Pc] /\ CallOK'
  BY <1>1, <1>2, <1>3, CallStep DEF Pc
<1>5. dlinks' \in [Num -> Int] /\ dirt' \in [Slot -> BOOLEAN] /\ lock' \in [Slot -> BOOLEAN]
  BY <1>0, WroteTyped DEF SyncWritten
<1>6. DataOK'
  BY <1>5 DEF Typed, TypeOK, DataOK, SyncWritten, Keeps
<1> QED
  BY <1>4, <1>6 DEF Typed, TypeOK

-----------------------------------------------------------------------------
\* The slot that the call of q has a reference to, and the references to a slot.
RefAt(c, l) == IF l \in WithEmpty THEN c.empty ELSE IF l \in WithSlot THEN c.slot ELSE None
Ref(q) == RefAt(call[q], pc[q])

FdOf(s) == {q \in Proc : fd[q] = s}
CallOf(s) == {q \in Proc : Ref(q) = s}
Refs(s) == Cardinality(FdOf(s)) + Cardinality(CallOf(s))
Is(a, s) == IF a = s THEN 1 ELSE 0

LEMMA RefsFinite ==
    ASSUME NEW s
    PROVE  /\ IsFiniteSet(FdOf(s)) /\ Cardinality(FdOf(s)) \in Nat
           /\ IsFiniteSet(CallOf(s)) /\ Cardinality(CallOf(s)) \in Nat
<1>1. FdOf(s) \in SUBSET Proc /\ CallOf(s) \in SUBSET Proc
  BY DEF FdOf, CallOf
<1>2. IsFiniteSet(FdOf(s)) /\ IsFiniteSet(CallOf(s))
  BY <1>1, InodeAssumption, FS_Subset
<1> QED
  BY <1>2, FS_CardinalityType

\* A slot without references is nobody's; one with a single reference is his.
LEMMA NoRefs ==
    ASSUME NEW s, Refs(s) = 0, NEW q \in Proc
    PROVE  Ref(q) # s /\ fd[q] # s
<1>1. FdOf(s) = {} /\ CallOf(s) = {}
  BY RefsFinite, FS_EmptySet DEF Refs
<1> QED
  BY <1>1 DEF FdOf, CallOf

LEMMA SoleRef ==
    ASSUME NEW s, Refs(s) = 1, NEW p \in Proc, Ref(p) = s, NEW q \in Proc
    PROVE  (q # p => Ref(q) # s) /\ fd[q] # s
<1>1. p \in CallOf(s)
  BY DEF CallOf
<1>2. Cardinality(CallOf(s)) # 0
  BY <1>1, RefsFinite, FS_EmptySet
<1>3. Cardinality(FdOf(s)) = 0 /\ Cardinality(CallOf(s)) = 1
  BY <1>2, RefsFinite DEF Refs
<1>4. FdOf(s) = {} /\ \E x : CallOf(s) = {x}
  BY <1>3, RefsFinite, FS_EmptySet, FS_Singleton
<1> QED
  BY <1>1, <1>4 DEF FdOf, CallOf

LEMMA HasRef ==
    ASSUME NEW s, NEW p \in Proc, Ref(p) = s \/ fd[p] = s
    PROVE  Refs(s) \in Nat /\ Refs(s) >= 1
<1>1. p \in CallOf(s) \/ p \in FdOf(s)
  BY DEF CallOf, FdOf
<1>2. Cardinality(CallOf(s)) # 0 \/ Cardinality(FdOf(s)) # 0
  BY <1>1, RefsFinite, FS_EmptySet
<1> QED
  BY <1>2, RefsFinite DEF Refs

\* One process at a time gets and gives up references.
LEMMA RefsStep ==
    ASSUME NEW p \in Proc, NEW s,
           \A q \in Proc \ {p} : Ref(q)' = Ref(q) /\ fd'[q] = fd[q]
    PROVE  Refs(s)' = Refs(s) + Is(Ref(p)', s) - Is(Ref(p), s) + Is(fd'[p], s) - Is(fd[p], s)
<1>1. CallOf(s)' = IF Ref(p)' = s THEN CallOf(s) \union {p} ELSE CallOf(s) \ {p}
  BY DEF CallOf
<1>2. FdOf(s)' = IF fd'[p] = s THEN FdOf(s) \union {p} ELSE FdOf(s) \ {p}
  BY DEF FdOf
<1>3. p \in CallOf(s) <=> Ref(p) = s
  BY DEF CallOf
<1>4. p \in FdOf(s) <=> fd[p] = s
  BY DEF FdOf
<1>5. Cardinality(CallOf(s)') = Cardinality(CallOf(s)) + Is(Ref(p)', s) - Is(Ref(p), s)
  <2>1. Cardinality(CallOf(s) \union {p}) = IF p \in CallOf(s) THEN Cardinality(CallOf(s)) ELSE Cardinality(CallOf(s)) + 1
    BY RefsFinite, FS_AddElement
  <2>2. Cardinality(CallOf(s) \ {p}) = IF p \in CallOf(s) THEN Cardinality(CallOf(s)) - 1 ELSE Cardinality(CallOf(s))
    BY RefsFinite, FS_RemoveElement
  <2> QED
    BY <1>1, <1>3, <2>1, <2>2, RefsFinite DEF Is
<1>6. Cardinality(FdOf(s)') = Cardinality(FdOf(s)) + Is(fd'[p], s) - Is(fd[p], s)
  <2>1. Cardinality(FdOf(s) \union {p}) = IF p \in FdOf(s) THEN Cardinality(FdOf(s)) ELSE Cardinality(FdOf(s)) + 1
    BY RefsFinite, FS_AddElement
  <2>2. Cardinality(FdOf(s) \ {p}) = IF p \in FdOf(s) THEN Cardinality(FdOf(s)) - 1 ELSE Cardinality(FdOf(s))
    BY RefsFinite, FS_RemoveElement
  <2> QED
    BY <1>2, <1>4, <2>1, <2>2, RefsFinite DEF Is
<1> QED
  BY <1>5, <1>6, RefsFinite DEF Refs, Is

\* The users of module Inode are these references.
LEMMA Tagged ==
    ASSUME NEW S, IsFiniteSet(S), NEW tag
    PROVE  LET T == {<<q, tag>> : q \in S} IN IsFiniteSet(T) /\ Cardinality(T) = Cardinality(S)
<1> DEFINE T == {<<q, tag>> : q \in S}
           f == [q \in S |-> <<q, tag>>]
<1>1. f \in [S -> T] /\ (\A t \in T : \E q \in S : f[q] = t)
  OBVIOUS
<1>2. \A a, b \in S : f[a] = f[b] => a = b
  OBVIOUS
<1>3. f \in Bijection(S, T)
  BY <1>1, <1>2 DEF Bijection, Injection, Surjection, IsInjective
<1>4. ExistsBijection(S, T)
  BY <1>3 DEF ExistsBijection
<1> QED
  BY <1>4, FS_Bijection

LEMMA UsersAreRefs == \A s \in Slot : Cardinality(Users(s)) = Refs(s)
<1> SUFFICES ASSUME NEW s \in Slot PROVE Cardinality(Users(s)) = Refs(s)
  OBVIOUS
<1> DEFINE F == {<<q, "fd">> : q \in FdOf(s)}
           C == {<<q, "call">> : q \in CallOf(s)}
<1>1. IsFiniteSet(F) /\ Cardinality(F) = Cardinality(FdOf(s))
  BY RefsFinite, Tagged
<1>2. IsFiniteSet(C) /\ Cardinality(C) = Cardinality(CallOf(s))
  BY RefsFinite, Tagged
<1>3. F \cap C = {}
  OBVIOUS
<1>4. s # 0
  BY Sizes DEF Slot
<1>5. CallOf(s) = {q \in Proc :
        \/ call[q].empty = s /\ pc[q] \in {"scan", "match", "new"}
        \/ call[q].slot = s /\ pc[q] \in {"read", "got", "add", "iput", "last", "iputwrite", "trunc"}}
  BY <1>4 DEF CallOf, Ref, RefAt, WithEmpty, WithSlot, None
<1>6. Users(s) = F \union C
  BY <1>5 DEF Users, FdOf
<1> HIDE DEF F, C
<1>7. Cardinality(F \union C) = Cardinality(F) + Cardinality(C)
  <2>1. Cardinality(F \cap C) = 0
    BY <1>3, FS_EmptySet
  <2>2. Cardinality(F \union C) = Cardinality(F) + Cardinality(C) - Cardinality(F \cap C)
    BY <1>1, <1>2, FS_Union
  <2> QED
    BY <1>1, <1>2, <2>1, <2>2, RefsFinite
<1> QED
  BY <1>1, <1>2, <1>6, <1>7 DEF Refs

-----------------------------------------------------------------------------
\* i_count counts the references.
Counts == \A s \in Slot : count[s] = Refs(s)

\* A slot that nobody has is clean and unlocked.
Clean == \A s \in Slot : count[s] = 0 => ~dirt[s] /\ ~lock[s]

\* The slot that get_empty_inode gave out has one user, no number and no lock
\* until that user gives it a number.
EmptyAlone ==
    \A p \in Proc : pc[p] \in WithEmpty =>
        /\ count[call[p].empty] = 1 /\ num[call[p].empty] = None
        /\ ~dirt[call[p].empty] /\ ~lock[call[p].empty]

\* Other users have a slot with a number.
Named ==
    \A p \in Proc :
        /\ pc[p] \in WithSlot => num[call[p].slot] # None
        /\ fd[p] # None => num[fd[p]] # None

\* iput has not met a free inode.
NoFreePanic == panic # "free inode"

IInv == Typed /\ Counts /\ Clean /\ EmptyAlone /\ Named /\ NoFreePanic

LEMMA InitIInv == Init => IInv
<1> SUFFICES ASSUME Init PROVE IInv
  OBVIOUS
<1>1. Typed
  BY InitTyped
<1>2. \A q \in Proc : Ref(q) = None /\ fd[q] = None
  BY DEF Init, Ref, RefAt, WithEmpty, WithSlot
<1>3. Counts
  <2> SUFFICES ASSUME NEW s \in Slot PROVE Refs(s) = 0
    BY DEF Counts, Init
  <2>1. FdOf(s) = {} /\ CallOf(s) = {}
    BY <1>2, Sizes DEF FdOf, CallOf, Slot, None
  <2> QED
    BY <2>1, FS_EmptySet DEF Refs
<1>4. Clean /\ EmptyAlone /\ Named /\ NoFreePanic
  BY DEF Init, Clean, EmptyAlone, Named, NoFreePanic, WithEmpty, WithSlot
<1> QED
  BY <1>1, <1>3, <1>4 DEF IInv

\* A step after which every process has the references and every slot the count
\* and the number that it had.
Others(p) == \A q \in Proc \ {p} : pc'[q] = pc[q] /\ call'[q] = call[q] /\ fd'[q] = fd[q]

LEMMA OthersRefs ==
    ASSUME NEW p \in Proc, Others(p)
    PROVE  \A q \in Proc \ {p} : Ref(q)' = Ref(q) /\ fd'[q] = fd[q]
BY DEF Others, Ref

\* Only the slot of a user gets dirty or locked.
Marks(p) ==
    \A s \in Slot : dirt'[s] \/ lock'[s] =>
        dirt[s] \/ lock[s] \/ (pc[p] \in WithSlot /\ call[p].slot = s)

SameRef(p) ==
    /\ Ref(p)' = Ref(p)
    /\ pc'[p] \in WithEmpty => pc[p] \in WithEmpty /\ call'[p].empty = call[p].empty
    /\ pc'[p] \in WithSlot => pc[p] \in WithSlot /\ call'[p].slot = call[p].slot

LEMMA RefsInt == \A s : Refs(s) \in Int
BY RefsFinite DEF Refs

LEMMA UserCounts ==
    ASSUME IInv, NEW q \in Proc, NEW s \in Slot, Ref(q) = s \/ fd[q] = s
    PROVE  count[s] # 0
<1>1. Refs(s) \in Nat /\ Refs(s) >= 1
  BY HasRef
<1>2. count[s] = Refs(s)
  BY DEF IInv, Counts
<1> QED
  BY <1>1, <1>2

LEMMA QuietStep ==
    ASSUME IInv, Typed', NEW p \in Proc, Others(p), SameRef(p), Marks(p), fd' = fd,
           count' = count, num' = num, NoFreePanic'
    PROVE  IInv'
<1>1. Counts'
  <2> SUFFICES ASSUME NEW s \in Slot PROVE count'[s] = Refs(s)'
    BY DEF Counts
  <2>1. Refs(s)' = Refs(s) + Is(Ref(p)', s) - Is(Ref(p), s) + Is(fd'[p], s) - Is(fd[p], s)
    BY OthersRefs, RefsStep
  <2>2. Refs(s)' = Refs(s)
    <3>1. Ref(p)' = Ref(p)
      BY DEF SameRef
    <3>2. Is(Ref(p)', s) = Is(Ref(p), s) /\ Is(fd'[p], s) = Is(fd[p], s) /\ Is(Ref(p), s) \in Int /\ Is(fd[p], s) \in Int
      BY <3>1 DEF Is
    <3> QED
      BY <2>1, <3>2, RefsInt
  <2> QED
    BY <2>2 DEF IInv, Counts
<1>3. pc[p] \in WithSlot => Ref(p) = call[p].slot
  BY DEF Ref, RefAt, WithEmpty, WithSlot
<1>4. Clean'
  BY <1>3, UserCounts DEF IInv, Clean, Marks
<1>5. EmptyAlone'
  <2> SUFFICES ASSUME NEW q \in Proc, pc'[q] \in WithEmpty
               PROVE  /\ count[call'[q].empty] = 1 /\ num[call'[q].empty] = None
                      /\ ~dirt'[call'[q].empty] /\ ~lock'[call'[q].empty]
    BY DEF EmptyAlone
  <2>1. pc[q] \in WithEmpty /\ call'[q].empty = call[q].empty
    BY DEF Others, SameRef
  <2>2. call[q].empty \in Slot
    BY <2>1 DEF IInv, Typed, CallOK, CallAt
  <2>3. count[call[q].empty] = 1 /\ num[call[q].empty] = None /\ ~dirt[call[q].empty] /\ ~lock[call[q].empty]
    BY <2>1 DEF IInv, EmptyAlone
  <2>4. pc[p] \in WithSlot => call[p].slot # call[q].empty
    BY <2>3 DEF IInv, Named
  <2> QED
    BY <2>1, <2>2, <2>3, <2>4 DEF Marks
<1>6. Named'
  <2> SUFFICES ASSUME NEW q \in Proc
               PROVE  (pc'[q] \in WithSlot => num[call'[q].slot] # None) /\ (fd[q] # None => num[fd[q]] # None)
    BY DEF Named
  <2>1. pc'[q] \in WithSlot => pc[q] \in WithSlot /\ call'[q].slot = call[q].slot
    BY DEF Others, SameRef
  <2> QED
    BY <2>1 DEF IInv, Named
<1> QED
  BY <1>1, <1>4, <1>5, <1>6 DEF IInv

\* A process that moves from a place without references to another such place.
LEMMA NoRefMove ==
    ASSUME IInv, NEW p \in Proc, NEW l \in Pc, l \notin WithEmpty, l \notin WithSlot,
           pc[p] \notin WithEmpty, pc[p] \notin WithSlot, pc' = [pc EXCEPT ![p] = l]
    PROVE  SameRef(p)
<1>1. pc'[p] = l
  BY DEF IInv, Typed, TypeOK
<1> QED
  BY <1>1 DEF SameRef, Ref, RefAt

\* A process that stays with its slot.
LEMMA SlotMove ==
    ASSUME IInv, NEW p \in Proc, NEW l \in Pc, l \in WithSlot, pc[p] \in WithSlot,
           pc' = [pc EXCEPT ![p] = l], call' = call
    PROVE  SameRef(p)
<1>1. pc'[p] = l
  BY DEF IInv, Typed, TypeOK
<1> QED
  BY <1>1 DEF SameRef, Ref, RefAt, WithEmpty, WithSlot

\* A process that stays with its empty slot.
LEMMA EmptyMove ==
    ASSUME IInv, NEW p \in Proc, NEW l \in Pc, l \in WithEmpty, pc[p] \in WithEmpty,
           pc' = [pc EXCEPT ![p] = l], call'[p].empty = call[p].empty
    PROVE  SameRef(p)
<1>1. pc'[p] = l
  BY DEF IInv, Typed, TypeOK
<1> QED
  BY <1>1 DEF SameRef, Ref, RefAt, WithEmpty, WithSlot

LEMMA OthersStay ==
    ASSUME IInv, NEW p \in Proc, NEW l, pc' = [pc EXCEPT ![p] = l],
           \/ call' = call
           \/ \E c : call' = [call EXCEPT ![p] = c],
           \/ fd' = fd
           \/ \E f : fd' = [fd EXCEPT ![p] = f]
    PROVE  Others(p)
BY DEF Others, IInv, Typed, TypeOK, DataOK

LEMMA SameMarks == ASSUME NEW p \in Proc, dirt' = dirt, lock' = lock PROVE Marks(p)
BY DEF Marks

LEMMA LookupIInv ==
    ASSUME IInv, NEW p \in Proc, NEW x \in Name, NEW op \in {"open", "unlink"}, Lookup(p, op, x)
    PROVE  IInv'
<1>1. Typed'
  BY LookupTyped DEF IInv
<1>2. /\ pc[p] = "idle" /\ pc' = [pc EXCEPT ![p] = "empty"]
      /\ \E c : call' = [call EXCEPT ![p] = c]
      /\ fd' = fd /\ count' = count /\ num' = num /\ dirt' = dirt /\ lock' = lock /\ panic' = panic
  BY DEF Lookup, Begin, Keeps, Sleeps, table
<1>3. SameRef(p)
  BY <1>2, NoRefMove DEF Pc, WithEmpty, WithSlot
<1>4. Others(p) /\ Marks(p)
  BY <1>2, OthersStay, SameMarks
<1> QED
  BY <1>1, <1>2, <1>3, <1>4, QuietStep DEF IInv, NoFreePanic

LEMMA CreatIInv ==
    ASSUME IInv, NEW p \in Proc, NEW x \in Name, Creat(p, x)
    PROVE  IInv'
<1>1. Typed'
  BY CreatTyped DEF IInv
<1>2. /\ pc[p] = "idle" /\ pc' = [pc EXCEPT ![p] = "empty"]
      /\ \E c : call' = [call EXCEPT ![p] = c]
      /\ fd' = fd /\ count' = count /\ num' = num /\ dirt' = dirt /\ lock' = lock /\ panic' = panic
  BY DEF Creat, Begin, Keeps, table
<1>3. SameRef(p)
  BY <1>2, NoRefMove DEF Pc, WithEmpty, WithSlot
<1>4. Others(p) /\ Marks(p)
  BY <1>2, OthersStay, SameMarks
<1> QED
  BY <1>1, <1>2, <1>3, <1>4, QuietStep DEF IInv, NoFreePanic

LEMMA SyncIInv ==
    ASSUME IInv, NEW p \in Proc, Sync(p)
    PROVE  IInv'
<1>1. Typed'
  BY SyncTyped DEF IInv
<1>2. /\ pc[p] = "idle" /\ pc' = [pc EXCEPT ![p] = "sync"]
      /\ \E c : call' = [call EXCEPT ![p] = c]
      /\ fd' = fd /\ count' = count /\ num' = num /\ dirt' = dirt /\ lock' = lock /\ panic' = panic
  BY DEF Sync, Keeps, table
<1>3. SameRef(p)
  BY <1>2, NoRefMove DEF Pc, WithEmpty, WithSlot
<1>4. Others(p) /\ Marks(p)
  BY <1>2, OthersStay, SameMarks
<1> QED
  BY <1>1, <1>2, <1>3, <1>4, QuietStep DEF IInv, NoFreePanic

LEMMA PanicIInv ==
    ASSUME IInv, NEW why \in {"full", "count", "links", "bit"}, Panics(why), calls' = calls
    PROVE  IInv'
<1>1. Typed'
  BY PanicTyped DEF IInv
<1>2. count' = count /\ num' = num /\ dirt' = dirt /\ lock' = lock /\ pc' = pc /\ call' = call /\ fd' = fd
  BY DEF Panics, table
<1>3. \A s : Refs(s)' = Refs(s)
  BY <1>2 DEF Refs, FdOf, CallOf, Ref
<1>4. NoFreePanic'
  BY DEF Panics, NoFreePanic
<1> QED
  BY <1>1, <1>2, <1>3, <1>4 DEF IInv, Counts, Clean, EmptyAlone, Named

LEMMA SyncInodesIInv ==
    ASSUME IInv, NEW p \in Proc, SyncInodes(p)
    PROVE  IInv'
<1>1. Typed'
  BY SyncInodesTyped DEF IInv
<1>2. /\ pc[p] = "sync" /\ \E l \in {"idle", "sync", "syncwrite"} : pc' = [pc EXCEPT ![p] = l]
      /\ call' = call \/ \E c : call' = [call EXCEPT ![p] = c]
      /\ fd' = fd /\ count' = count /\ num' = num /\ dirt' = dirt /\ panic' = panic
  BY DEF SyncInodes, Runs, Leave, Sleeps, Keeps, WriteInode
<1>3. SameRef(p) /\ Others(p)
  BY <1>2, NoRefMove, OthersStay DEF Pc, WithEmpty, WithSlot
<1>4. Marks(p)
  <2>1. CASE lock' = lock
    BY <1>2, <2>1, SameMarks
  <2>2. CASE dirt[call[p].slot] /\ lock' = [lock EXCEPT ![call[p].slot] = TRUE]
    BY <1>2, <2>2 DEF Marks, IInv, Typed, TypeOK, DataOK
  <2> QED
    BY <2>1, <2>2 DEF SyncInodes, WriteInode
<1> QED
  BY <1>1, <1>2, <1>3, <1>4, QuietStep DEF IInv, NoFreePanic

LEMMA WroteMarks ==
    ASSUME IInv, NEW p \in Proc, NEW s \in Slot, WroteInode(s)
    PROVE  Marks(p)
BY DEF WroteInode, Marks, IInv, Typed, TypeOK, DataOK

LEMMA SyncWrittenIInv ==
    ASSUME IInv, NEW p \in Proc, SyncWritten(p)
    PROVE  IInv'
<1>1. Typed'
  BY SyncWrittenTyped DEF IInv
<1>2. /\ pc[p] = "syncwrite" /\ pc' = [pc EXCEPT ![p] = "sync"]
      /\ \E c : call' = [call EXCEPT ![p] = c]
      /\ fd' = fd /\ count' = count /\ num' = num /\ panic' = panic
  BY DEF SyncWritten, Runs, Keeps
<1>3. SameRef(p) /\ Others(p)
  BY <1>2, NoRefMove, OthersStay DEF Pc, WithEmpty, WithSlot
<1>4. Marks(p)
  <2>1. call[p].slot \in Slot
    BY <1>2, Reads DEF IInv, CallAt
  <2> QED
    BY <2>1, WroteMarks DEF SyncWritten
<1> QED
  BY <1>1, <1>2, <1>3, <1>4, QuietStep DEF IInv, NoFreePanic

LEMMA IputWrittenIInv ==
    ASSUME IInv, NEW p \in Proc, IputWritten(p)
    PROVE  IInv'
<1>1. Typed'
  BY IputWrittenTyped DEF IInv
<1>2. /\ pc[p] = "iputwrite" /\ pc' = [pc EXCEPT ![p] = "last"] /\ call' = call
      /\ fd' = fd /\ count' = count /\ num' = num /\ panic' = panic
  BY DEF IputWritten, Runs, Keeps
<1>3. SameRef(p) /\ Others(p)
  BY <1>2, SlotMove, OthersStay DEF Pc, WithSlot
<1>4. Marks(p)
  <2>1. call[p].slot \in Slot
    BY <1>2, Reads DEF IInv, CallAt, WithSlot
  <2> QED
    BY <2>1, WroteMarks DEF IputWritten
<1> QED
  BY <1>1, <1>2, <1>3, <1>4, QuietStep DEF IInv, NoFreePanic

LEMMA ReadInodeIInv ==
    ASSUME IInv, NEW p \in Proc, ReadInode(p)
    PROVE  IInv'
<1>1. /\ pc[p] = "read" /\ pc' = [pc EXCEPT ![p] = "got"] /\ call' = call
      /\ fd' = fd /\ count' = count /\ num' = num /\ dirt' = dirt /\ panic' = panic
      /\ lock' = [lock EXCEPT ![call[p].slot] = FALSE]
  BY DEF ReadInode, Runs, Keeps
<1>2. num[call[p].slot] \in Num
  <2>1. call[p].slot \in Slot
    BY <1>1, Reads DEF IInv, CallAt, WithSlot
  <2>2. num[call[p].slot] # 0
    BY <1>1 DEF IInv, Named, WithSlot, None
  <2> QED
    BY <2>1, <2>2, Tables, Sizes DEF IInv, Num
<1>3. Typed'
  BY <1>2, ReadInodeTyped DEF IInv
<1>4. SameRef(p) /\ Others(p)
  BY <1>1, SlotMove, OthersStay DEF Pc, WithSlot
<1>5. Marks(p)
  BY <1>1 DEF Marks, IInv, Typed, TypeOK, DataOK
<1> QED
  BY <1>1, <1>3, <1>4, <1>5, QuietStep DEF IInv, NoFreePanic

LEMMA UnlinkIInv ==
    ASSUME IInv, NEW p \in Proc, Unlink(p)
    PROVE  IInv'
<1>1. Typed'
  BY UnlinkTyped DEF IInv
<1>2. /\ pc[p] = "got" /\ pc' = [pc EXCEPT ![p] = "iput"] /\ call' = call
      /\ fd' = fd /\ count' = count /\ num' = num /\ lock' = lock /\ panic' = panic
      /\ dirt' = [dirt EXCEPT ![call[p].slot] = TRUE]
  BY DEF Unlink, Runs, WaitsOn
<1>3. SameRef(p) /\ Others(p)
  BY <1>2, SlotMove, OthersStay DEF Pc, WithSlot
<1>4. Marks(p)
  BY <1>2 DEF Marks, IInv, Typed, TypeOK, DataOK, WithSlot
<1> QED
  BY <1>1, <1>2, <1>3, <1>4, QuietStep DEF IInv, NoFreePanic

-----------------------------------------------------------------------------
\* What a step that gets or gives up references leaves alone: the empty slots of
\* the others, and the numbers of the slots that others use.
EmptyIn(e) == count[e] = 1 /\ num[e] = None /\ ~dirt[e] /\ ~lock[e]

EmptyFrame(p) == \A s \in Slot : EmptyIn(s) /\ Ref(p) # s => EmptyIn(s)'

NumFrame(p) ==
    \A s \in Slot : count[s] # 0 /\ num[s] # None /\ ~(count[s] = 1 /\ Ref(p) = s) => num'[s] # None

OwnEmpty(p) == pc'[p] \in WithEmpty => EmptyIn(call[p].empty)'
OwnNamed(p) ==
    /\ pc'[p] \in WithSlot => num'[call'[p].slot] # None
    /\ fd'[p] # None => num'[fd'[p]] # None

LEMMA SoleUser ==
    ASSUME IInv, NEW s \in Slot, count[s] = 1, NEW p \in Proc, Ref(p) = s, NEW q \in Proc
    PROVE  (q # p => Ref(q) # s) /\ fd[q] # s
BY SoleRef DEF IInv, Counts

LEMMA EmptyKept ==
    ASSUME IInv, NEW p \in Proc, Others(p), EmptyFrame(p), OwnEmpty(p)
    PROVE  EmptyAlone'
<1> SUFFICES ASSUME NEW q \in Proc, pc'[q] \in WithEmpty PROVE EmptyIn(call[q].empty)'
  BY DEF EmptyAlone, EmptyIn
<1>1. CASE q = p
  BY <1>1 DEF OwnEmpty
<1>2. CASE q # p
  <2>1. pc[q] \in WithEmpty /\ call'[q].empty = call[q].empty
    BY <1>2 DEF Others
  <2>2. call[q].empty \in Slot /\ EmptyIn(call[q].empty) /\ Ref(q) = call[q].empty
    BY <2>1, Reads DEF IInv, EmptyAlone, EmptyIn, CallAt, Ref, RefAt
  <2>3. Ref(p) # call[q].empty
    BY <1>2, <2>2, SoleUser DEF EmptyIn
  <2> DEFINE e == call[q].empty
  <2>4. count'[e] = 1 /\ num'[e] = None /\ ~dirt'[e] /\ ~lock'[e]
    BY <2>2, <2>3 DEF EmptyFrame, EmptyIn
  <2> QED
    BY <2>1, <2>4 DEF EmptyIn
<1> QED
  BY <1>1, <1>2

LEMMA NamedKept ==
    ASSUME IInv, NEW p \in Proc, Others(p), NumFrame(p), OwnNamed(p)
    PROVE  Named'
<1> SUFFICES ASSUME NEW q \in Proc, q # p
             PROVE  (pc'[q] \in WithSlot => num'[call'[q].slot] # None) /\ (fd'[q] # None => num'[fd'[q]] # None)
  BY DEF Named, OwnNamed
<1>1. pc'[q] = pc[q] /\ call'[q] = call[q] /\ fd'[q] = fd[q]
  BY DEF Others
<1>2. ASSUME NEW s \in Slot, Ref(q) = s \/ fd[q] = s, num[s] # None PROVE num'[s] # None
  <2>1. count[s] # 0
    BY <1>2, UserCounts
  <2>2. ~(count[s] = 1 /\ Ref(p) = s)
    BY <1>2, SoleUser
  <2> QED
    BY <1>2, <2>1, <2>2 DEF NumFrame
<1>3. pc[q] \in WithSlot => call[q].slot \in Slot /\ Ref(q) = call[q].slot /\ num[call[q].slot] # None
  BY Reads DEF IInv, Named, CallAt, Ref, RefAt, WithEmpty, WithSlot
<1>4. fd[q] # None => fd[q] \in Slot /\ num[fd[q]] # None
  <2>1. fd[q] \in 0 .. NrInode
    BY Reads DEF IInv
  <2> QED
    BY <2>1, Sizes DEF IInv, Named, None, Slot
<1> QED
  BY <1>1, <1>2, <1>3, <1>4

\* The count of slot s after a step of p.
LEMMA CountsKept ==
    ASSUME IInv, NEW p \in Proc, Others(p),
           \A s \in Slot : count'[s] = count[s] + Is(Ref(p)', s) - Is(Ref(p), s) + Is(fd'[p], s) - Is(fd[p], s)
    PROVE  Counts'
<1> SUFFICES ASSUME NEW s \in Slot PROVE count'[s] = Refs(s)'
  BY DEF Counts
<1>1. Refs(s)' = Refs(s) + Is(Ref(p)', s) - Is(Ref(p), s) + Is(fd'[p], s) - Is(fd[p], s)
  BY OthersRefs, RefsStep
<1> QED
  BY <1>1 DEF IInv, Counts

LEMMA FdNamed ==
    ASSUME IInv, NEW p \in Proc, fd[p] # None
    PROVE  fd[p] \in Slot /\ num[fd[p]] # None
<1>1. fd[p] \in 0 .. NrInode
  BY Reads DEF IInv
<1> QED
  BY <1>1, Sizes DEF IInv, Named, None, Slot

LEMMA GetEmptyInodeIInv ==
    ASSUME IInv, NEW p \in Proc, GetEmptyInode(p)
    PROVE  IInv'
<1>0. Typed'
  BY GetEmptyInodeTyped DEF IInv
<1>1. CASE Free = {} /\ Panics("full") /\ calls' = calls
  BY <1>1, PanicIInv
<1>2. CASE /\ Free # {}
           /\ last' = Chosen
           /\ call' = [call EXCEPT ![p].empty = Chosen]
           /\ Memset(Chosen, 1)
           /\ Keeps(p, IF call[p].op = "creat" THEN "new" ELSE "scan")
           /\ UNCHANGED <<disk, fd, raced, panic>>
  <2>1. Chosen \in Slot /\ count[Chosen] = 0
    BY <1>2, ChosenFree
  <2>2. PICK l \in {"new", "scan"} : pc' = [pc EXCEPT ![p] = l]
    BY <1>2 DEF Keeps
  <2>3. pc[p] = "empty" /\ Ref(p) = None
    BY DEF GetEmptyInode, Runs, Ref, RefAt, WithEmpty, WithSlot
  <2>4. pc'[p] \in {"new", "scan"} /\ call'[p].empty = Chosen
    BY <1>2, <2>2, Reads DEF IInv, Typed, TypeOK, Call
  <2>5. Ref(p)' = Chosen
    BY <2>4 DEF Ref, RefAt, WithEmpty
  <2>6. Others(p)
    BY <1>2, <2>2, OthersStay
  <2>7. /\ num'[Chosen] = None /\ count'[Chosen] = 1 /\ ~dirt'[Chosen] /\ ~lock'[Chosen]
        /\ \A s \in Slot \ {Chosen} : /\ num'[s] = num[s] /\ count'[s] = count[s]
                                      /\ dirt'[s] = dirt[s] /\ lock'[s] = lock[s]
    BY <1>2, <2>1 DEF Memset, IInv, Typed, TypeOK, DataOK
  <2>8. Counts'
    <3> SUFFICES ASSUME NEW s \in Slot
                 PROVE  count'[s] = count[s] + Is(Ref(p)', s) - Is(Ref(p), s) + Is(fd'[p], s) - Is(fd[p], s)
      BY <2>6, CountsKept
    <3>1. fd'[p] = fd[p] /\ s # None /\ count[s] \in Int
      BY <1>2, Tables, Sizes DEF Slot, None, IInv
    <3> QED
      BY <2>1, <2>3, <2>5, <2>7, <3>1 DEF Is
  <2>9. Clean'
    BY <2>7 DEF IInv, Clean
  <2>10. EmptyAlone'
    <3>1. EmptyFrame(p)
      BY <2>1, <2>7 DEF EmptyFrame, EmptyIn
    <3>2. OwnEmpty(p)
      BY <2>4, <2>7 DEF OwnEmpty, EmptyIn
    <3> QED
      BY <2>6, <3>1, <3>2, EmptyKept
  <2>11. Named'
    <3>1. NumFrame(p)
      BY <2>1, <2>7 DEF NumFrame
    <3>2. fd[p] # None => fd[p] # Chosen /\ fd[p] \in Slot /\ num[fd[p]] # None
      BY <2>1, FdNamed, UserCounts
    <3>3. OwnNamed(p)
      BY <1>2, <2>4, <2>7, <3>2 DEF OwnNamed, WithSlot
    <3> QED
      BY <2>6, <3>1, <3>3, NamedKept
  <2> QED
    BY <1>0, <1>2, <2>8, <2>9, <2>10, <2>11 DEF IInv, NoFreePanic
<1> QED
  BY <1>1, <1>2 DEF GetEmptyInode, Free, Chosen

LEMMA IgetScanIInv ==
    ASSUME IInv, NEW p \in Proc, IgetScan(p)
    PROVE  IInv'
<1>0. Typed'
  BY IgetScanTyped DEF IInv
<1>1. pc[p] = "scan" /\ panic' = panic /\ fd' = fd
  BY DEF IgetScan, Runs
<1>2. CASE /\ call' = [call EXCEPT ![p].slot = Min(Found(call[p].nr))]
           /\ WaitsOn(p, Min(Found(call[p].nr)), "match")
           /\ UNCHANGED <<table, raced>>
  <2>1. /\ pc' = [pc EXCEPT ![p] = "match"] /\ \E c : call' = [call EXCEPT ![p] = c]
        /\ count' = count /\ num' = num /\ dirt' = dirt /\ lock' = lock
    BY <1>2 DEF WaitsOn, table
  <2>2. call'[p].empty = call[p].empty
    BY <1>2, Reads DEF IInv, Typed, TypeOK, Call
  <2>3. SameRef(p) /\ Others(p) /\ Marks(p)
    BY <1>1, <2>1, <2>2, EmptyMove, OthersStay, SameMarks DEF Pc, WithEmpty
  <2> QED
    BY <1>0, <1>1, <2>1, <2>3, QuietStep DEF IInv, NoFreePanic
<1>3. CASE /\ num' = [num EXCEPT ![call[p].empty] = call[p].nr]
           /\ lock' = [lock EXCEPT ![call[p].empty] = TRUE]
           /\ call' = [call EXCEPT ![p].slot = call[p].empty, ![p].empty = None]
           /\ Sleeps(p, "read")
           /\ UNCHANGED <<count, links, dirt>>
  <2> DEFINE e == call[p].empty
  <2>1. e \in Slot /\ Ref(p) = e /\ EmptyIn(e) /\ call[p].nr \in Num
    BY <1>1, Reads DEF IInv, EmptyAlone, EmptyIn, CallAt, Ref, RefAt, WithEmpty
  <2>2. pc' = [pc EXCEPT ![p] = "read"] /\ pc'[p] = "read"
    BY <1>3 DEF Sleeps, IInv, Typed, TypeOK
  <2>3. call'[p].slot = e
    BY <1>3, Reads DEF IInv, Typed, TypeOK, Call
  <2>4. Ref(p)' = Ref(p)
    BY <2>1, <2>2, <2>3 DEF Ref, RefAt, WithEmpty, WithSlot
  <2>5. Others(p)
    BY <1>1, <1>3, <2>2 DEF Others, IInv, Typed, TypeOK
  <2>6. /\ num'[e] = call[p].nr /\ call[p].nr # None
        /\ \A s \in Slot \ {e} : num'[s] = num[s] /\ lock'[s] = lock[s]
    <3>1. call[p].nr # None
      BY <2>1, Sizes DEF Num, None
    <3>2. num'[e] = call[p].nr /\ \A s \in Slot \ {e} : num'[s] = num[s]
      BY <1>3, <2>1, Tables DEF IInv
    <3>3. \A s \in Slot \ {e} : lock'[s] = lock[s]
      BY <1>3 DEF IInv, Typed, TypeOK, DataOK
    <3> QED
      BY <3>1, <3>2, <3>3
  <2>7. Counts'
    <3> SUFFICES ASSUME NEW s \in Slot
                 PROVE  count'[s] = count[s] + Is(Ref(p)', s) - Is(Ref(p), s) + Is(fd'[p], s) - Is(fd[p], s)
      BY <2>5, CountsKept
    <3>1. count'[s] = count[s] /\ count[s] \in Int /\ fd'[p] = fd[p]
      BY <1>1, <1>3, Tables DEF IInv
    <3> QED
      BY <2>4, <3>1 DEF Is
  <2>8. Clean'
    BY <1>3, <2>1, <2>6 DEF IInv, Clean, EmptyIn
  <2>9. EmptyAlone'
    <3>1. EmptyFrame(p)
      BY <1>3, <2>1, <2>6 DEF EmptyFrame, EmptyIn
    <3>2. OwnEmpty(p)
      BY <2>2 DEF OwnEmpty, WithEmpty
    <3> QED
      BY <2>5, <3>1, <3>2, EmptyKept
  <2>10. Named'
    <3>1. NumFrame(p)
      BY <2>6 DEF NumFrame
    <3>2. OwnNamed(p)
      BY <1>1, <2>3, <2>6, FdNamed DEF OwnNamed
    <3> QED
      BY <2>5, <3>1, <3>2, NamedKept
  <2> QED
    BY <1>0, <1>1, <2>7, <2>8, <2>9, <2>10 DEF IInv, NoFreePanic
<1> QED
  BY <1>2, <1>3 DEF IgetScan, Found

LEMMA IgetMatchIInv ==
    ASSUME IInv, NEW p \in Proc, IgetMatch(p)
    PROVE  IInv'
<1>0. Typed'
  BY IgetMatchTyped DEF IInv
<1>1. /\ pc[p] = "match" /\ panic' = panic /\ fd' = fd
      /\ num' = num /\ dirt' = dirt /\ lock' = lock
  BY DEF IgetMatch, Runs
<1>2. CASE num[call[p].slot] # call[p].nr
  <2>1. pc' = [pc EXCEPT ![p] = "scan"] /\ call' = call /\ count' = count
    BY <1>2 DEF IgetMatch, Keeps
  <2>2. SameRef(p) /\ Others(p) /\ Marks(p)
    BY <1>1, <2>1, EmptyMove, OthersStay, SameMarks DEF Pc, WithEmpty
  <2> QED
    BY <1>0, <1>1, <2>1, <2>2, QuietStep DEF IInv, NoFreePanic
<1>3. CASE num[call[p].slot] = call[p].nr
  <2> DEFINE e == call[p].empty
             t == call[p].slot
  <2>1. e \in Slot /\ t \in Slot /\ Ref(p) = e /\ EmptyIn(e) /\ call[p].nr \in Num
    BY <1>1, Reads DEF IInv, EmptyAlone, EmptyIn, CallAt, Ref, RefAt, WithEmpty
  <2>2. num[t] # None /\ t # e
    BY <1>3, <2>1, Sizes DEF Num, None, EmptyIn
  <2>3. /\ count' = [count EXCEPT ![t] = @ + 1, ![e] = @ - 1]
        /\ call' = [call EXCEPT ![p].empty = None]
        /\ pc' = [pc EXCEPT ![p] = "got"]
    BY <1>3 DEF IgetMatch, Keeps
  <2>4. /\ count'[t] = count[t] + 1 /\ count'[e] = count[e] - 1
        /\ \A s \in Slot \ {t, e} : count'[s] = count[s]
    BY <2>1, <2>2, <2>3, Tables DEF IInv
  <2>5. pc'[p] = "got" /\ call'[p].slot = t
    BY <2>3, Reads DEF IInv, Typed, TypeOK, Call
  <2>6. Ref(p)' = t
    BY <2>5 DEF Ref, RefAt, WithEmpty, WithSlot
  <2>7. Others(p)
    BY <1>1, <2>3, OthersStay
  <2>8. Counts'
    <3> SUFFICES ASSUME NEW s \in Slot
                 PROVE  count'[s] = count[s] + Is(Ref(p)', s) - Is(Ref(p), s) + Is(fd'[p], s) - Is(fd[p], s)
      BY <2>7, CountsKept
    <3>1. count[s] \in Int /\ fd'[p] = fd[p]
      BY <1>1, Tables DEF IInv
    <3> QED
      BY <2>1, <2>2, <2>4, <2>6, <3>1 DEF Is
  <2>9. Clean'
    <3>1. \A s \in Slot : count[s] \in Int /\ count[s] >= 0
      BY RefsFinite DEF IInv, Counts, Refs
    <3> QED
      BY <1>1, <2>1, <2>4, <3>1 DEF IInv, Clean, EmptyIn
  <2>10. EmptyAlone'
    <3>1. EmptyFrame(p)
      BY <1>1, <2>1, <2>2, <2>4 DEF EmptyFrame, EmptyIn
    <3>2. OwnEmpty(p)
      BY <2>5 DEF OwnEmpty, WithEmpty
    <3> QED
      BY <2>7, <3>1, <3>2, EmptyKept
  <2>11. Named'
    <3>1. NumFrame(p)
      BY <1>1 DEF NumFrame
    <3>2. OwnNamed(p)
      BY <1>1, <2>2, <2>5, FdNamed DEF OwnNamed
    <3> QED
      BY <2>7, <3>1, <3>2, NamedKept
  <2> QED
    BY <1>0, <1>1, <2>8, <2>9, <2>10, <2>11 DEF IInv, NoFreePanic
<1> QED
  BY <1>2, <1>3

\* A reference that passes from the call to the open file, or back.
LEMMA PassIInv ==
    ASSUME IInv, Typed', NEW p \in Proc, NEW t \in Slot, Others(p),
           Is(Ref(p)', t) + Is(fd'[p], t) = Is(Ref(p), t) + Is(fd[p], t),
           \A s \in Slot \ {t} : Ref(p) # s /\ Ref(p)' # s /\ fd[p] # s /\ fd'[p] # s,
           num[t] # None, fd'[p] \in {t, None}, pc'[p] \notin WithEmpty,
           pc'[p] \in WithSlot => call'[p].slot = t,
           count' = count, num' = num, dirt' = dirt, lock' = lock, panic' = panic
    PROVE  IInv'
<1>1. Counts'
  <2> SUFFICES ASSUME NEW s \in Slot
               PROVE  count'[s] = count[s] + Is(Ref(p)', s) - Is(Ref(p), s) + Is(fd'[p], s) - Is(fd[p], s)
    BY CountsKept
  <2>1. count[s] \in Int
    BY Tables DEF IInv
  <2> QED
    BY <2>1 DEF Is
<1>2. Clean'
  BY DEF IInv, Clean
<1>3. EmptyAlone'
  BY EmptyKept DEF EmptyFrame, EmptyIn, OwnEmpty
<1>4. Named'
  BY NamedKept DEF NumFrame, OwnNamed
<1> QED
  BY <1>1, <1>2, <1>3, <1>4 DEF IInv, NoFreePanic

LEMMA CloseIInv ==
    ASSUME IInv, NEW p \in Proc, Close(p)
    PROVE  IInv'
<1>0. Typed'
  BY CloseTyped DEF IInv
<1>1. /\ pc[p] = "idle" /\ fd[p] # None /\ fd' = [fd EXCEPT ![p] = None]
      /\ pc' = [pc EXCEPT ![p] = "iput"]
      /\ call' = [call EXCEPT ![p] = Entered("close", None, IF None \in Name THEN dir[None] ELSE None, fd[p])]
      /\ count' = count /\ num' = num /\ dirt' = dirt /\ lock' = lock /\ panic' = panic
  BY DEF Close, Begin, WaitsOn, table
<1>2. fd[p] \in Slot /\ num[fd[p]] # None
  BY <1>1, FdNamed
<1>3. fd'[p] = None /\ pc'[p] = "iput" /\ call'[p].slot = fd[p]
  BY <1>1 DEF IInv, Typed, TypeOK, DataOK, Entered
<1>4. Ref(p) = None /\ Ref(p)' = fd[p]
  BY <1>1, <1>3 DEF Ref, RefAt, WithEmpty, WithSlot
<1>5. Others(p)
  BY <1>1, OthersStay
<1>6. \A s \in Slot : s # None
  BY Sizes DEF Slot, None
<1>7. Is(Ref(p)', fd[p]) + Is(fd'[p], fd[p]) = Is(Ref(p), fd[p]) + Is(fd[p], fd[p])
  BY <1>2, <1>3, <1>4, <1>6 DEF Is
<1>8. \A s \in Slot \ {fd[p]} : Ref(p) # s /\ Ref(p)' # s /\ fd[p] # s /\ fd'[p] # s
  BY <1>3, <1>4, <1>6
<1>9. pc'[p] \notin WithEmpty
  BY <1>3 DEF WithEmpty
<1> QED
  BY <1>0, <1>1, <1>2, <1>3, <1>5, <1>7, <1>8, <1>9, PassIInv

\* sys_open and a creat that succeeds.
LEMMA HandOverIInv ==
    ASSUME IInv, Typed', NEW p \in Proc, pc[p] \in WithSlot, fd[p] = None, Leave(p),
           fd' = [fd EXCEPT ![p] = call[p].slot],
           count' = count, num' = num, dirt' = dirt, lock' = lock, panic' = panic
    PROVE  IInv'
<1> DEFINE t == call[p].slot
<1>1. t \in Slot /\ num[t] # None /\ Ref(p) = t
  BY Reads DEF IInv, Named, CallAt, Ref, RefAt, WithEmpty, WithSlot
<1>2. fd'[p] = t /\ pc'[p] = "idle"
  BY DEF IInv, Typed, TypeOK, DataOK, Leave, Sleeps
<1>3. Ref(p)' = None
  BY <1>2 DEF Ref, RefAt, WithEmpty, WithSlot
<1>4. Others(p)
  BY OthersStay DEF Leave, Sleeps
<1>5. \A s \in Slot : s # None
  BY Sizes DEF Slot, None
<1>6. Is(Ref(p)', t) + Is(fd'[p], t) = Is(Ref(p), t) + Is(fd[p], t)
  BY <1>1, <1>2, <1>3, <1>5 DEF Is
<1>7. \A s \in Slot \ {t} : Ref(p) # s /\ Ref(p)' # s /\ fd[p] # s /\ fd'[p] # s
  BY <1>1, <1>2, <1>3, <1>5
<1>8. pc'[p] \notin WithEmpty /\ pc'[p] \notin WithSlot
  BY <1>2 DEF WithEmpty, WithSlot
<1> QED
  BY <1>1, <1>2, <1>4, <1>6, <1>7, <1>8, PassIInv

\* A process opens one file at a time: its descriptor is free until it has it.
OpenFree == \A p \in Proc : call[p].op \in {"open", "creat"} => fd[p] = None

\* A call goes on, or ends.
SameOp == fd' = fd /\ \A q \in Proc : call'[q].op = call[q].op
LeftOp(p) == call' = [call EXCEPT ![p] = Idle] /\ \A q \in Proc \ {p} : fd'[q] = fd[q]

LEMMA SameOpFree == OpenFree /\ SameOp => OpenFree'
BY DEF OpenFree, SameOp

LEMMA LeftOpFree == ASSUME Typed, OpenFree, NEW p \in Proc, LeftOp(p) PROVE OpenFree'
BY DEF OpenFree, LeftOp, Idle, Entered, Typed, TypeOK

LEMMA StepOpenFree ==
    ASSUME Typed, OpenFree, NEW p \in Proc, Step(p)
    PROVE  OpenFree'
<1> USE DEF Typed, TypeOK
<1>1. call' = call /\ fd' = fd => SameOp
  BY DEF SameOp
<1>2. Leave(p) /\ fd' = fd => LeftOp(p)
  BY DEF Leave, LeftOp
<1>3. (\E v : call' = [call EXCEPT ![p].slot = v] \/ call' = [call EXCEPT ![p].empty = v]) /\ fd' = fd => SameOp
  BY DEF SameOp, Call
<1>4. (\E v, w : call' = [call EXCEPT ![p].slot = v, ![p].empty = w]) /\ fd' = fd => SameOp
  BY DEF SameOp, Call
<1>5. CASE GetEmptyInode(p)
  BY <1>1, <1>3, <1>5, SameOpFree DEF GetEmptyInode, Panics
<1>6. CASE IgetScan(p)
  BY <1>3, <1>4, <1>6, SameOpFree DEF IgetScan
<1>7. CASE IgetMatch(p)
  BY <1>1, <1>3, <1>7, SameOpFree DEF IgetMatch
<1>8. CASE ReadInode(p) \/ Unlink(p) \/ IputWritten(p)
  BY <1>1, <1>8, SameOpFree DEF ReadInode, Unlink, IputWritten
<1>9. CASE Opened(p)
  <2>1. CASE Leave(p) /\ fd' = [fd EXCEPT ![p] = call[p].slot]
    <3>1. LeftOp(p)
      BY <2>1 DEF Leave, LeftOp, DataOK
    <3> QED
      BY <3>1, LeftOpFree
  <2>2. CASE UNCHANGED <<fd, call>>
    BY <1>1, <2>2, SameOpFree
  <2> QED
    BY <1>9, <2>1, <2>2 DEF Opened
<1>10. CASE NewInode(p)
  <2>1. CASE Leave(p)
    BY <1>2, <1>10, <2>1, LeftOpFree DEF NewInode
  <2>2. CASE \E n : call' = [call EXCEPT ![p].slot = call[p].empty, ![p].empty = None, ![p].nr = n]
    <3>1. SameOp
      BY <1>10, <2>2 DEF NewInode, SameOp, Call
    <3> QED
      BY <3>1, SameOpFree
  <2> QED
    BY <1>10, <2>1, <2>2 DEF NewInode
<1>11. CASE AddEntry(p)
  <2>1. CASE Leave(p) /\ fd' = [fd EXCEPT ![p] = call[p].slot]
    <3>1. LeftOp(p)
      BY <2>1 DEF Leave, LeftOp, DataOK
    <3> QED
      BY <3>1, LeftOpFree
  <2>2. CASE UNCHANGED <<dir, fd, call>>
    BY <1>1, <2>2, SameOpFree
  <2> QED
    BY <1>11, <2>1, <2>2 DEF AddEntry
<1>12. CASE Iput(p)
  BY <1>1, <1>2, <1>12, SameOpFree, LeftOpFree DEF Iput, Panics
<1>13. CASE IputLast(p)
  BY <1>1, <1>2, <1>13, SameOpFree, LeftOpFree DEF IputLast
<1>14. CASE FreeInode(p)
  BY <1>1, <1>2, <1>14, SameOpFree, LeftOpFree DEF FreeInode, Panics
<1>15. CASE SyncInodes(p)
  BY <1>1, <1>2, <1>3, <1>15, SameOpFree, LeftOpFree DEF SyncInodes
<1>16. CASE SyncWritten(p)
  BY <1>3, <1>16, SameOpFree DEF SyncWritten
<1> QED
  BY <1>5, <1>6, <1>7, <1>8, <1>9, <1>10, <1>11, <1>12, <1>13, <1>14, <1>15, <1>16 DEF Step

LEMMA OpenedIInv ==
    ASSUME IInv, OpenFree, NEW p \in Proc, Opened(p)
    PROVE  IInv'
<1>1. Typed'
  BY OpenedTyped DEF IInv
<1>2. /\ pc[p] \in WithSlot
      /\ count' = count /\ num' = num /\ dirt' = dirt /\ lock' = lock /\ panic' = panic
  BY DEF Opened, Runs, WithSlot, table
<1>3. fd[p] = None
  BY DEF Opened, OpenFree
<1>4. CASE Leave(p) /\ fd' = [fd EXCEPT ![p] = call[p].slot]
  BY <1>1, <1>2, <1>3, <1>4, HandOverIInv
<1>5. CASE WaitsOn(p, call[p].slot, "iput") /\ UNCHANGED <<fd, call>>
  <2>1. pc' = [pc EXCEPT ![p] = "iput"]
    BY <1>5 DEF WaitsOn
  <2>2. SameRef(p) /\ Others(p) /\ Marks(p)
    BY <1>2, <1>5, <2>1, SlotMove, OthersStay, SameMarks DEF Pc, WithSlot
  <2> QED
    BY <1>1, <1>2, <1>5, <2>2, QuietStep DEF IInv, NoFreePanic
<1> QED
  BY <1>4, <1>5 DEF Opened

LEMMA AddEntryIInv ==
    ASSUME IInv, OpenFree, NEW p \in Proc, AddEntry(p)
    PROVE  IInv'
<1>1. Typed'
  BY AddEntryTyped DEF IInv
<1>2. /\ pc[p] = "add" /\ count' = count /\ num' = num /\ dirt' = dirt /\ lock' = lock /\ panic' = panic
  BY DEF AddEntry, Runs
<1>3. fd[p] = None
  BY <1>2, Reads DEF IInv, CallAt, OpenFree
<1>4. CASE Leave(p) /\ fd' = [fd EXCEPT ![p] = call[p].slot]
  BY <1>1, <1>2, <1>3, <1>4, HandOverIInv DEF WithSlot
<1>5. CASE WaitsOn(p, call[p].slot, "iput") /\ UNCHANGED <<dir, fd, call>>
  <2>1. pc' = [pc EXCEPT ![p] = "iput"]
    BY <1>5 DEF WaitsOn
  <2>2. SameRef(p) /\ Others(p) /\ Marks(p)
    BY <1>2, <1>5, <2>1, SlotMove, OthersStay, SameMarks DEF Pc, WithSlot
  <2> QED
    BY <1>1, <1>2, <1>5, <2>2, QuietStep DEF IInv, NoFreePanic
<1> QED
  BY <1>4, <1>5 DEF AddEntry

\* The counts are natural numbers.
LEMMA CountNat == ASSUME IInv, NEW s \in Slot PROVE count[s] \in Nat
<1>1. Refs(s) \in Nat
  BY RefsFinite DEF Refs
<1> QED
  BY <1>1 DEF IInv, Counts

\* A call that ends and gives its slot up, clean if it was the last user.
GivesUp(p, t) ==
    /\ Ref(p) = t /\ Leave(p)
    /\ count' = [count EXCEPT ![t] = @ - 1]
    /\ count[t] = 1 => ~dirt[t] /\ ~lock[t]
    /\ UNCHANGED <<num, dirt, lock, fd, panic>>

LEMMA GiveUpIInv ==
    ASSUME IInv, Typed', NEW p \in Proc, NEW t \in Slot, GivesUp(p, t)
    PROVE  IInv'
<1>1. /\ Ref(p) = t /\ count' = [count EXCEPT ![t] = @ - 1] /\ pc' = [pc EXCEPT ![p] = "idle"]
      /\ call' = [call EXCEPT ![p] = Idle]
      /\ num' = num /\ dirt' = dirt /\ lock' = lock /\ fd' = fd
  BY DEF GivesUp, Leave, Sleeps
<1>2. pc'[p] = "idle"
  BY <1>1 DEF IInv, Typed, TypeOK
<1>3. Ref(p)' = None
  BY <1>2 DEF Ref, RefAt, WithEmpty, WithSlot
<1>4. Others(p)
  BY <1>1, OthersStay
<1>5. count'[t] = count[t] - 1 /\ \A s \in Slot \ {t} : count'[s] = count[s]
  BY <1>1, Tables DEF IInv
<1>6. Counts'
  <2> SUFFICES ASSUME NEW s \in Slot
               PROVE  count'[s] = count[s] + Is(Ref(p)', s) - Is(Ref(p), s) + Is(fd'[p], s) - Is(fd[p], s)
    BY <1>4, CountsKept
  <2>1. count[s] \in Int /\ fd'[p] = fd[p] /\ s # None
    BY <1>1, Tables, Sizes DEF IInv, Slot, None
  <2> QED
    BY <1>1, <1>3, <1>5, <2>1 DEF Is
<1>7. Clean'
  <2> SUFFICES ASSUME NEW s \in Slot, count'[s] = 0 PROVE ~dirt[s] /\ ~lock[s]
    BY <1>1 DEF Clean
  <2>1. CASE s = t
    BY <1>5, <2>1, CountNat DEF GivesUp
  <2>2. CASE s # t
    BY <1>5, <2>2 DEF IInv, Clean
  <2> QED
    BY <2>1, <2>2
<1>8. EmptyAlone'
  <2>1. EmptyFrame(p)
    BY <1>1, <1>5 DEF EmptyFrame, EmptyIn
  <2>2. OwnEmpty(p)
    BY <1>2 DEF OwnEmpty, WithEmpty
  <2> QED
    BY <1>4, <2>1, <2>2, EmptyKept
<1>9. Named'
  <2>1. NumFrame(p)
    BY <1>1 DEF NumFrame
  <2>2. OwnNamed(p)
    BY <1>1, <1>2, FdNamed DEF OwnNamed, WithSlot
  <2> QED
    BY <1>4, <2>1, <2>2, NamedKept
<1> QED
  BY <1>6, <1>7, <1>8, <1>9 DEF IInv, GivesUp, NoFreePanic

LEMMA NewInodeIInv ==
    ASSUME IInv, NEW p \in Proc, NewInode(p)
    PROVE  IInv'
<1>0. Typed'
  BY NewInodeTyped DEF IInv
<1> DEFINE e == call[p].empty
<1>1. pc[p] = "new" /\ lock' = lock /\ fd' = fd /\ panic' = panic
  BY DEF NewInode, Runs
<1>2. e \in Slot /\ Ref(p) = e /\ EmptyIn(e)
  BY <1>1, Reads DEF IInv, EmptyAlone, EmptyIn, CallAt, Ref, RefAt, WithEmpty
<1>3. CASE Num \subseteq imap
  <2>1. GivesUp(p, e)
    BY <1>2, <1>3 DEF NewInode, GivesUp, EmptyIn
  <2> QED
    BY <1>0, <1>2, <2>1, GiveUpIInv
<1>4. CASE ~(Num \subseteq imap)
  <2>1. /\ num' = [num EXCEPT ![e] = NewNum]
        /\ count' = [count EXCEPT ![e] = 1]
        /\ dirt' = [dirt EXCEPT ![e] = TRUE]
        /\ call' = [call EXCEPT ![p].slot = e, ![p].empty = None, ![p].nr = NewNum]
        /\ pc' = [pc EXCEPT ![p] = "add"]
    BY <1>4 DEF NewInode, Sleeps, NewNum
  <2>2. pc'[p] = "add" /\ call'[p].slot = e
    BY <2>1, Reads DEF IInv, Typed, TypeOK, Call
  <2>3. Ref(p)' = e
    BY <2>2 DEF Ref, RefAt, WithEmpty, WithSlot
  <2>4. Others(p)
    BY <1>1, <2>1 DEF Others, IInv, Typed, TypeOK
  <2>5. NewNum # None
    BY <1>4, NewNumFree, Sizes DEF Num, None
  <2>6. num'[e] = NewNum /\ count'[e] = 1 /\ \A s \in Slot \ {e} : num'[s] = num[s] /\ count'[s] = count[s]
    BY <1>2, <2>1, Tables DEF IInv
  <2>7. \A s \in Slot \ {e} : dirt'[s] = dirt[s]
    BY <2>1 DEF IInv, Typed, TypeOK, DataOK
  <2>8. Counts'
    <3> SUFFICES ASSUME NEW s \in Slot
                 PROVE  count'[s] = count[s] + Is(Ref(p)', s) - Is(Ref(p), s) + Is(fd'[p], s) - Is(fd[p], s)
      BY <2>4, CountsKept
    <3>1. count[s] \in Int /\ fd'[p] = fd[p] /\ count'[s] = count[s]
      BY <1>1, <1>2, <2>6, Tables DEF IInv, EmptyIn
    <3> QED
      BY <1>2, <2>3, <3>1 DEF Is
  <2>9. Clean'
    BY <1>1, <2>6, <2>7 DEF IInv, Clean
  <2>10. EmptyAlone'
    <3>1. EmptyFrame(p)
      BY <1>1, <1>2, <2>6, <2>7 DEF EmptyFrame, EmptyIn
    <3>2. OwnEmpty(p)
      BY <2>2 DEF OwnEmpty, WithEmpty
    <3> QED
      BY <2>4, <3>1, <3>2, EmptyKept
  <2>11. Named'
    <3>1. NumFrame(p)
      BY <2>5, <2>6 DEF NumFrame
    <3>2. OwnNamed(p)
      BY <1>1, <2>2, <2>5, <2>6, FdNamed DEF OwnNamed
    <3> QED
      BY <2>4, <3>1, <3>2, NamedKept
  <2> QED
    BY <1>0, <1>1, <2>8, <2>9, <2>10, <2>11 DEF IInv, NoFreePanic
<1> QED
  BY <1>3, <1>4

LEMMA IputIInv ==
    ASSUME IInv, NEW p \in Proc, Iput(p)
    PROVE  IInv'
<1>0. Typed'
  BY IputTyped DEF IInv
<1>1. pc[p] = "iput"
  BY DEF Iput, Runs
<1> DEFINE t == call[p].slot
<1>2. t \in Slot /\ Ref(p) = t /\ count[t] # 0
  <2>1. t \in Slot /\ Ref(p) = t
    BY <1>1, Reads DEF IInv, CallAt, Ref, RefAt, WithEmpty, WithSlot
  <2> QED
    BY <2>1, UserCounts
<1>3. CASE /\ count[t] > 1
           /\ count' = [count EXCEPT ![t] = @ - 1]
           /\ Leave(p)
           /\ UNCHANGED <<num, links, dirt, lock, disk, last, fd, raced, panic>>
  <2>1. GivesUp(p, t)
    BY <1>2, <1>3 DEF GivesUp
  <2> QED
    BY <1>0, <1>2, <2>1, GiveUpIInv
<1>4. CASE /\ Keeps(p, "last")
           /\ UNCHANGED <<table, disk, last, call, fd, raced, panic>>
  <2>1. /\ pc' = [pc EXCEPT ![p] = "last"] /\ call' = call /\ fd' = fd /\ panic' = panic
        /\ count' = count /\ num' = num /\ dirt' = dirt /\ lock' = lock
    BY <1>4 DEF Keeps, table
  <2>2. SameRef(p) /\ Others(p) /\ Marks(p)
    BY <1>1, <2>1, SlotMove, OthersStay, SameMarks DEF Pc, WithSlot
  <2> QED
    BY <1>0, <2>1, <2>2, QuietStep DEF IInv, NoFreePanic
<1> QED
  BY <1>2, <1>3, <1>4 DEF Iput

LEMMA IputLastIInv ==
    ASSUME IInv, NEW p \in Proc, IputLast(p)
    PROVE  IInv'
<1>0. Typed'
  BY IputLastTyped DEF IInv
<1>1. pc[p] = "last" /\ fd' = fd /\ panic' = panic
  BY DEF IputLast, Runs
<1> DEFINE t == call[p].slot
<1>2. t \in Slot /\ Ref(p) = t
  BY <1>1, Reads DEF IInv, CallAt, Ref, RefAt, WithEmpty, WithSlot
<1>3. CASE Sleeps(p, "trunc") /\ UNCHANGED <<table, call>>
  <2>1. /\ pc' = [pc EXCEPT ![p] = "trunc"] /\ call' = call
        /\ count' = count /\ num' = num /\ dirt' = dirt /\ lock' = lock
    BY <1>3 DEF Sleeps, table
  <2>2. SameRef(p) /\ Others(p) /\ Marks(p)
    BY <1>1, <2>1, SlotMove, OthersStay, SameMarks DEF Pc, WithSlot
  <2> QED
    BY <1>0, <1>1, <2>1, <2>2, QuietStep DEF IInv, NoFreePanic
<1>4. CASE WriteInode(p, t, "iputwrite") /\ UNCHANGED <<num, count, links, dirt, call>>
  <2>1. /\ pc' = [pc EXCEPT ![p] = "iputwrite"] /\ call' = call
        /\ count' = count /\ num' = num /\ dirt' = dirt /\ lock' = [lock EXCEPT ![t] = TRUE]
    BY <1>4 DEF WriteInode, Sleeps
  <2>2. SameRef(p) /\ Others(p)
    BY <1>1, <2>1, SlotMove, OthersStay DEF Pc, WithSlot
  <2>3. Marks(p)
    BY <1>1, <2>1 DEF Marks, IInv, Typed, TypeOK, DataOK, WithSlot
  <2> QED
    BY <1>0, <1>1, <2>1, <2>2, <2>3, QuietStep DEF IInv, NoFreePanic
<1>5. CASE /\ ~dirt[t]
           /\ count' = [count EXCEPT ![t] = @ - 1]
           /\ Leave(p)
           /\ UNCHANGED <<num, links, dirt, lock>>
  <2>1. GivesUp(p, t)
    BY <1>1, <1>2, <1>5 DEF GivesUp, IputLast
  <2> QED
    BY <1>0, <1>2, <2>1, GiveUpIInv
<1> QED
  BY <1>3, <1>4, <1>5 DEF IputLast

LEMMA FreeInodeIInv ==
    ASSUME IInv, NEW p \in Proc, FreeInode(p)
    PROVE  IInv'
<1>0. Typed'
  BY FreeInodeTyped DEF IInv
<1>1. pc[p] = "trunc"
  BY DEF FreeInode, Runs
<1> DEFINE t == call[p].slot
<1>2. t \in Slot /\ Ref(p) = t
  BY <1>1, Reads DEF IInv, CallAt, Ref, RefAt, WithEmpty, WithSlot
<1>3. CASE (Panics("count") \/ Panics("links") \/ Panics("bit")) /\ calls' = calls
  BY <1>3, PanicIInv
<1>4. CASE count[t] = 1 /\ Memset(t, 0) /\ Leave(p) /\ UNCHANGED <<dlinks, dir, last, fd, panic>>
  <2>1. /\ num'[t] = None /\ count'[t] = 0 /\ ~dirt'[t] /\ ~lock'[t]
        /\ \A s \in Slot \ {t} : /\ num'[s] = num[s] /\ count'[s] = count[s]
                                 /\ dirt'[s] = dirt[s] /\ lock'[s] = lock[s]
    BY <1>2, <1>4 DEF Memset, IInv, Typed, TypeOK, DataOK
  <2>2. pc' = [pc EXCEPT ![p] = "idle"] /\ call' = [call EXCEPT ![p] = Idle] /\ pc'[p] = "idle"
    BY <1>4 DEF Leave, Sleeps, IInv, Typed, TypeOK
  <2>3. Ref(p)' = None
    BY <2>2 DEF Ref, RefAt, WithEmpty, WithSlot
  <2>4. Others(p)
    BY <1>4, <2>2, OthersStay
  <2>5. Counts'
    <3> SUFFICES ASSUME NEW s \in Slot
                 PROVE  count'[s] = count[s] + Is(Ref(p)', s) - Is(Ref(p), s) + Is(fd'[p], s) - Is(fd[p], s)
      BY <2>4, CountsKept
    <3>1. count[s] \in Int /\ fd'[p] = fd[p] /\ s # None
      BY <1>4, Tables, Sizes DEF IInv, Slot, None
    <3> QED
      BY <1>2, <1>4, <2>1, <2>3, <3>1 DEF Is
  <2>6. Clean'
    BY <2>1 DEF IInv, Clean
  <2>7. EmptyAlone'
    <3>1. EmptyFrame(p)
      BY <1>2, <2>1 DEF EmptyFrame, EmptyIn
    <3>2. OwnEmpty(p)
      BY <2>2 DEF OwnEmpty, WithEmpty
    <3> QED
      BY <2>4, <3>1, <3>2, EmptyKept
  <2>8. Named'
    <3>1. NumFrame(p)
      BY <1>2, <1>4, <2>1 DEF NumFrame
    <3>2. fd[p] # t
      BY <1>2, <1>4, SoleUser
    <3>3. OwnNamed(p)
      BY <1>4, <2>1, <2>2, <3>2, FdNamed DEF OwnNamed, WithSlot
    <3> QED
      BY <2>4, <3>1, <3>3, NamedKept
  <2> QED
    BY <1>0, <1>4, <2>5, <2>6, <2>7, <2>8 DEF IInv, NoFreePanic
<1> QED
  BY <1>3, <1>4 DEF FreeInode

LEMMA BeginOpenFree ==
    ASSUME Typed, OpenFree, NEW p \in Proc,
           \/ \E x \in Name : \E op \in {"open", "unlink"} : Lookup(p, op, x)
           \/ \E x \in Name : Creat(p, x)
           \/ Close(p)
           \/ Sync(p)
    PROVE  OpenFree'
<1> USE DEF OpenFree, Typed, TypeOK, DataOK, Entered
<1>1. ASSUME NEW x \in Name, NEW op \in {"open", "unlink"}, Lookup(p, op, x) PROVE OpenFree'
  BY <1>1 DEF Lookup, Begin
<1>2. ASSUME NEW x \in Name, Creat(p, x) PROVE OpenFree'
  BY <1>2 DEF Creat, Begin
<1>3. CASE Close(p)
  BY <1>3 DEF Close, Begin
<1>4. CASE Sync(p)
  BY <1>4 DEF Sync
<1> QED
  BY <1>1, <1>2, <1>3, <1>4

\* Every step keeps the inductive invariant.
LEMMA NextIInv ==
    ASSUME IInv, OpenFree, [Next]_vars
    PROVE  IInv' /\ OpenFree'
<1>1. ASSUME NEW p \in Proc, Step(p) PROVE IInv' /\ OpenFree'
  <2>1. OpenFree'
    BY <1>1, StepOpenFree DEF IInv
  <2>2. IInv'
    BY <1>1, GetEmptyInodeIInv, IgetScanIInv, IgetMatchIInv, ReadInodeIInv, OpenedIInv, UnlinkIInv,
       NewInodeIInv, AddEntryIInv, IputIInv, IputLastIInv, IputWrittenIInv, FreeInodeIInv,
       SyncInodesIInv, SyncWrittenIInv DEF Step
  <2> QED
    BY <2>1, <2>2
<1>2. ASSUME NEW p \in Proc,
             \/ \E x \in Name : \E op \in {"open", "unlink"} : Lookup(p, op, x)
             \/ \E x \in Name : Creat(p, x)
             \/ Close(p)
             \/ Sync(p)
      PROVE  IInv' /\ OpenFree'
  <2>1. OpenFree'
    BY <1>2, BeginOpenFree DEF IInv
  <2>2. IInv'
    BY <1>2, LookupIInv, CreatIInv, CloseIInv, SyncIInv
  <2> QED
    BY <2>1, <2>2
<1>3. CASE UNCHANGED vars
  <2>1. /\ num' = num /\ count' = count /\ links' = links /\ dirt' = dirt /\ lock' = lock
        /\ dlinks' = dlinks /\ imap' = imap /\ last' = last /\ dir' = dir /\ cpu' = cpu /\ pc' = pc
        /\ call' = call /\ fd' = fd /\ calls' = calls /\ raced' = raced /\ panic' = panic
    BY <1>3 DEF vars, table, disk
  <2>2. Typed'
    BY <2>1 DEF IInv, Typed, TypeOK, DataOK, CallOK
  <2>3. \A s : Refs(s)' = Refs(s)
    BY <2>1 DEF Refs, FdOf, CallOf, Ref
  <2> QED
    BY <2>1, <2>2, <2>3 DEF IInv, OpenFree, Counts, Clean, EmptyAlone, Named, NoFreePanic
<1> QED
  BY <1>1, <1>2, <1>3 DEF Next

\* Every variable of the inode table keeps its type, and a call has the locals
\* that its place needs: no step of iget, iput or sync_inodes runs off the table.
THEOREM TypeCorrect == Spec => []Typed
<1>1. Init => IInv /\ OpenFree
  BY InitIInv DEF Init, OpenFree
<1>2. IInv /\ OpenFree /\ [Next]_vars => IInv' /\ OpenFree'
  BY NextIInv
<1>3. IInv => Typed
  BY DEF IInv
<1> QED
  BY <1>1, <1>2, <1>3, PTL DEF Spec

\* i_count is exact in every interleaving of opens, creats, closes, unlinks and
\* syncs: iput never meets a free inode, and get_empty_inode never takes a slot
\* that somebody uses, nor one that is dirty or locked.
THEOREM UsersCounted == Spec => []CountExact
<1>1. Init => IInv /\ OpenFree
  BY InitIInv DEF Init, OpenFree
<1>2. IInv /\ OpenFree /\ [Next]_vars => IInv' /\ OpenFree'
  BY NextIInv
<1>3. IInv => CountExact
  BY UsersAreRefs DEF IInv, Counts, Clean, NoFreePanic, CountExact
<1> QED
  BY <1>1, <1>2, <1>3, PTL DEF Spec

-----------------------------------------------------------------------------
\* The numbers in core are distinct and allocated, unless iget was given a
\* number that had been freed.
NumsDistinct == \A s, t \in Slot : num[s] = num[t] /\ num[s] # None => s = t
NumsAllocated == \A s \in Slot : num[s] # None => num[s] \in imap
NumsInv == "stale" \notin raced => NumsDistinct /\ NumsAllocated

SameNums == num' = num /\ imap' = imap /\ raced \subseteq raced'

LEMMA SameNumsInv == NumsInv /\ SameNums => NumsInv'
BY DEF NumsInv, SameNums, NumsDistinct, NumsAllocated

\* A slot that loses its number, and perhaps the bit of the number with it.
LEMMA ClearedNums ==
    ASSUME Typed, NumsInv, NEW t \in Slot, num' = [num EXCEPT ![t] = None], raced \subseteq raced',
           imap' = imap \/ imap' = imap \ {num[t]}
    PROVE  NumsInv'
<1>1. \A s \in Slot : num'[s] = IF s = t THEN None ELSE num[s]
  BY Tables
<1> QED
  BY <1>1 DEF NumsInv, NumsDistinct, NumsAllocated

LEMMA StepNums ==
    ASSUME Typed, NumsInv, NEW p \in Proc, Step(p)
    PROVE  NumsInv'
<1>1. CASE GetEmptyInode(p)
  <2>1. CASE Free = {} /\ Panics("full")
    BY <2>1, SameNumsInv DEF Panics, SameNums, table, disk
  <2>2. CASE /\ Free # {} /\ Memset(Chosen, 1) /\ UNCHANGED <<disk, fd, raced, panic>>
    BY <2>2, ChosenFree, ClearedNums DEF Memset, disk
  <2> QED
    BY <1>1, <2>1, <2>2 DEF GetEmptyInode, Free, Chosen
<1>2. CASE IgetScan(p)
  <2>1. CASE UNCHANGED <<table, raced>>
    BY <1>2, <2>1, SameNumsInv DEF IgetScan, SameNums, table, disk
  <2>2. CASE /\ Found(call[p].nr) = {}
             /\ num' = [num EXCEPT ![call[p].empty] = call[p].nr]
             /\ raced' = raced \union Stale(call[p].nr)
    <3>1. call[p].empty \in Slot
      BY <1>2, Reads DEF IgetScan, Runs, CallAt, WithEmpty
    <3>2. \A s \in Slot : num'[s] = IF s = call[p].empty THEN call[p].nr ELSE num[s]
      BY <2>2, <3>1, Tables
    <3>3. \A s \in Slot : num[s] # call[p].nr
      BY <2>2 DEF Found
    <3>4. imap' = imap
      BY <1>2 DEF IgetScan, disk
    <3>5. "stale" \notin raced' => call[p].nr \in imap /\ "stale" \notin raced
      BY <2>2 DEF Stale
    <3> QED
      BY <3>2, <3>3, <3>4, <3>5 DEF NumsInv, NumsDistinct, NumsAllocated
  <2> QED
    BY <1>2, <2>1, <2>2 DEF IgetScan, Found
<1>3. CASE NewInode(p)
  <2>1. CASE Num \subseteq imap
    BY <1>3, <2>1, SameNumsInv DEF NewInode, SameNums
  <2>2. CASE ~(Num \subseteq imap)
    <3>1. call[p].empty \in Slot
      BY <1>3, Reads DEF NewInode, Runs, CallAt, WithEmpty
    <3>2. num' = [num EXCEPT ![call[p].empty] = NewNum] /\ imap' = imap \union {NewNum} /\ raced' = raced
      BY <1>3, <2>2 DEF NewInode, NewNum
    <3>3. \A s \in Slot : num'[s] = IF s = call[p].empty THEN NewNum ELSE num[s]
      BY <3>1, <3>2, Tables
    <3>4. NewNum \notin imap
      BY <2>2, NewNumFree
    <3> QED
      BY <3>2, <3>3, <3>4 DEF NumsInv, NumsDistinct, NumsAllocated
  <2> QED
    BY <2>1, <2>2
<1>4. CASE FreeInode(p)
  <2>1. CASE Panics("count") \/ Panics("links") \/ Panics("bit")
    BY <2>1, SameNumsInv DEF Panics, SameNums, table, disk
  <2>2. CASE /\ imap' = imap \ {num[call[p].slot]} /\ Memset(call[p].slot, 0)
             /\ raced' = raced \union (IF lock[call[p].slot] THEN {"memset"} ELSE {})
    <3>1. call[p].slot \in Slot
      BY <1>4, Reads DEF FreeInode, Runs, CallAt, WithSlot
    <3> QED
      BY <2>2, <3>1, ClearedNums DEF Memset
  <2> QED
    BY <1>4, <2>1, <2>2 DEF FreeInode
<1>5. CASE IgetMatch(p) \/ ReadInode(p) \/ Opened(p) \/ Unlink(p) \/ AddEntry(p)
  BY <1>5, SameNumsInv DEF IgetMatch, ReadInode, Opened, Unlink, AddEntry, SameNums, table, disk
<1>6. CASE Iput(p) \/ IputLast(p)
  BY <1>6, SameNumsInv DEF Iput, IputLast, Panics, SameNums, table, disk
<1>7. CASE IputWritten(p) \/ SyncInodes(p) \/ SyncWritten(p)
  BY <1>7, SameNumsInv DEF IputWritten, SyncInodes, SyncWritten, SameNums, table, disk
<1> QED
  BY <1>1, <1>2, <1>3, <1>4, <1>5, <1>6, <1>7 DEF Step

LEMMA NextNums ==
    ASSUME Typed, NumsInv, [Next]_vars
    PROVE  NumsInv'
<1>1. ASSUME NEW p \in Proc, NEW x \in Name, NEW op \in {"open", "unlink"}, Lookup(p, op, x)
      PROVE  NumsInv'
  BY <1>1, SameNumsInv DEF Lookup, Begin, SameNums, table, disk
<1>2. ASSUME NEW p \in Proc, NEW x \in Name, Creat(p, x) PROVE NumsInv'
  BY <1>2, SameNumsInv DEF Creat, Begin, SameNums, table, disk
<1>3. ASSUME NEW p \in Proc, Close(p) \/ Sync(p) PROVE NumsInv'
  BY <1>3, SameNumsInv DEF Close, Sync, Begin, SameNums, table, disk
<1>4. CASE UNCHANGED vars
  BY <1>4, SameNumsInv DEF vars, SameNums, table, disk
<1> QED
  BY <1>1, <1>2, <1>3, <1>4, StepNums DEF Next

\* iget and new_inode never make two inodes of one number, for any number of
\* processes, names, slots and inodes, unless a number was freed after its entry
\* was read; the bit of every number in core is set then, too.
THEOREM OneInodePerNumber == Spec => []OneInode
<1>1. Init => NumsInv
  BY DEF Init, NumsInv, NumsDistinct, NumsAllocated
<1>2. Typed /\ NumsInv /\ [Next]_vars => NumsInv'
  BY NextNums
<1>3. NumsInv => OneInode
  BY DEF NumsInv, NumsDistinct, OneInode
<1> QED
  BY <1>1, <1>2, <1>3, TypeCorrect, PTL DEF Spec

-----------------------------------------------------------------------------
\* The link counts, as long as none of the three races has happened.
Busy == {"read", "iputwrite", "syncwrite"}
Lone == {"read", "last", "iputwrite", "trunc"}
Reading(s) == \E p \in Proc : pc[p] = "read" /\ call[p].slot = s

\* What a call knows of its inode: it is locked while it is read or written; the
\* last iput stays the last one through write_inode and truncate; an inode that
\* gets its entry has no other.
At(p) ==
    /\ pc[p] \in Busy => lock[call[p].slot] /\ num[call[p].slot] # None
    /\ pc[p] \in Lone => count[call[p].slot] = 1
    /\ pc[p] = "last" => cpu = p /\ ~lock[call[p].slot]
    /\ pc[p] = "read" => ~dirt[call[p].slot]
    /\ pc[p] = "trunc" => links[call[p].slot] = 0
    /\ pc[p] = "add" => links[call[p].slot] = 1
    /\ pc[p] \in {"read", "got", "add"} => num[call[p].slot] = call[p].nr /\ call[p].nr \in Num
BusyAlone ==
    \A p, q \in Proc :
        pc[p] \in Busy /\ pc[q] \in Busy /\ call[p].slot = call[q].slot => p = q
CallsKnow == (\A p \in Proc : At(p)) /\ BusyAlone

\* An inode in core has the links that its entries make; a clean one is on the
\* disk as it is in core, or about to be freed.
SlotOK(s) ==
    /\ dirt[s] => num[s] # None
    /\ num[s] # None =>
        /\ count[s] = 0 => links[s] # 0
        /\ ~Reading(s) => /\ links[s] = Entries(num[s])
                          /\ ~dirt[s] => dlinks[num[s]] = links[s] \/ links[s] = 0

\* An inode with entries is allocated, an allocated one without is in use; one
\* that is not in core is right on the disk.
NumOK(n) ==
    /\ Entries(n) # 0 => n \in imap
    /\ n \in imap /\ Entries(n) = 0 => \E s \in Slot : num[s] = n /\ count[s] # 0
    /\ n \in imap /\ (\A s \in Slot : num[s] = n => Reading(s)) => dlinks[n] = Entries(n)
LinksKnown == (\A s \in Slot : SlotOK(s)) /\ \A n \in Num : NumOK(n)

NoFreeInodePanic == panic \notin {"count", "links", "bit"}
LinkParts == CallsKnow /\ LinksKnown /\ NoFreeInodePanic
LinksInv == raced = {} => LinkParts

\* What a step may use.
LinksPre == IInv /\ NumsDistinct /\ NumsAllocated /\ LinkParts

-----------------------------------------------------------------------------
\* The entries of a number.
DirOf(n) == {x \in Name : dir[x] = n}
Adds(p, n) == pc[p] = "add" /\ call[p].nr = n
AddOf(n) == {p \in Proc : Adds(p, n)}
Bit(b) == IF b THEN 1 ELSE 0

LEMMA EntriesFinite ==
    ASSUME NEW n
    PROVE  /\ IsFiniteSet(DirOf(n)) /\ Cardinality(DirOf(n)) \in Nat
           /\ IsFiniteSet(AddOf(n)) /\ Cardinality(AddOf(n)) \in Nat
           /\ Entries(n) = Cardinality(DirOf(n)) + Cardinality(AddOf(n)) /\ Entries(n) \in Nat
<1>1. DirOf(n) \in SUBSET Name /\ AddOf(n) \in SUBSET Proc
  BY DEF DirOf, AddOf
<1>2. IsFiniteSet(DirOf(n)) /\ IsFiniteSet(AddOf(n))
  BY <1>1, InodeAssumption, FS_Subset
<1>3. Cardinality(DirOf(n)) \in Nat /\ Cardinality(AddOf(n)) \in Nat
  BY <1>2, FS_CardinalityType
<1>4. Entries(n) = Cardinality(DirOf(n)) + Cardinality(AddOf(n))
  BY DEF Entries, DirOf, AddOf, Adds
<1> QED
  BY <1>2, <1>3, <1>4

\* A call that adds an entry counts, and so does a name.
LEMMA AddCounts ==
    ASSUME NEW n, NEW p \in Proc, Adds(p, n)
    PROVE  /\ Entries(n) >= 1
           /\ Entries(n) = 1 => (\A x \in Name : dir[x] # n) /\ \A q \in Proc : Adds(q, n) => q = p
<1>1. p \in AddOf(n)
  BY DEF AddOf
<1>2. Cardinality(AddOf(n)) # 0
  BY <1>1, EntriesFinite, FS_EmptySet
<1>3. ASSUME Entries(n) = 1
      PROVE  (\A x \in Name : dir[x] # n) /\ \A q \in Proc : Adds(q, n) => q = p
  <2>1. Cardinality(DirOf(n)) = 0 /\ Cardinality(AddOf(n)) = 1
    BY <1>2, <1>3, EntriesFinite
  <2>2. DirOf(n) = {} /\ \E q : AddOf(n) = {q}
    BY <2>1, EntriesFinite, FS_EmptySet, FS_Singleton
  <2> QED
    BY <1>1, <2>2 DEF DirOf, AddOf
<1> QED
  BY <1>2, <1>3, EntriesFinite

LEMMA NameCounts ==
    ASSUME NEW n, NEW x \in Name, dir[x] = n
    PROVE  Entries(n) >= 1
<1>1. x \in DirOf(n)
  BY DEF DirOf
<1>2. Cardinality(DirOf(n)) # 0
  BY <1>1, EntriesFinite, FS_EmptySet
<1> QED
  BY <1>2, EntriesFinite

\* One entry more or less in the directory, one adder more or less.
LEMMA EntriesStep ==
    ASSUME NEW p \in Proc, Others(p), NEW x, \A y \in Name \ {x} : dir'[y] = dir[y], NEW n
    PROVE  /\ x \in Name => Entries(n)' = Entries(n) + Is(dir'[x], n) - Is(dir[x], n)
                                          + Bit(Adds(p, n)') - Bit(Adds(p, n))
           /\ dir' = dir => Entries(n)' = Entries(n) + Bit(Adds(p, n)') - Bit(Adds(p, n))
<1>1. x \in Name => DirOf(n)' = IF dir'[x] = n THEN DirOf(n) \union {x} ELSE DirOf(n) \ {x}
  BY DEF DirOf
<1>2. AddOf(n)' = IF Adds(p, n)' THEN AddOf(n) \union {p} ELSE AddOf(n) \ {p}
  BY DEF AddOf, Adds, Others
<1>3. x \in Name => (x \in DirOf(n) <=> dir[x] = n)
  BY DEF DirOf
<1>4. p \in AddOf(n) <=> Adds(p, n)
  BY DEF AddOf
<1>5. ASSUME x \in Name
      PROVE  Cardinality(DirOf(n)') = Cardinality(DirOf(n)) + Is(dir'[x], n) - Is(dir[x], n)
  <2>1. Cardinality(DirOf(n) \union {x}) = IF x \in DirOf(n) THEN Cardinality(DirOf(n)) ELSE Cardinality(DirOf(n)) + 1
    BY EntriesFinite, FS_AddElement
  <2>2. Cardinality(DirOf(n) \ {x}) = IF x \in DirOf(n) THEN Cardinality(DirOf(n)) - 1 ELSE Cardinality(DirOf(n))
    BY EntriesFinite, FS_RemoveElement
  <2>3. Is(dir[x], n) = IF x \in DirOf(n) THEN 1 ELSE 0
    BY <1>3, <1>5 DEF Is
  <2>4. Cardinality(DirOf(n)) \in Nat
    BY EntriesFinite
  <2>5. CASE dir'[x] = n
    <3>1. DirOf(n)' = DirOf(n) \union {x} /\ Is(dir'[x], n) = 1
      BY <1>1, <1>5, <2>5 DEF Is
    <3> QED
      BY <3>1, <2>1, <2>3, <2>4
  <2>6. CASE dir'[x] # n
    <3>1. DirOf(n)' = DirOf(n) \ {x} /\ Is(dir'[x], n) = 0
      BY <1>1, <1>5, <2>6 DEF Is
    <3> QED
      BY <3>1, <2>2, <2>3, <2>4
  <2> QED
    BY <2>5, <2>6
<1>6. Cardinality(AddOf(n)') = Cardinality(AddOf(n)) + Bit(Adds(p, n)') - Bit(Adds(p, n))
  <2>1. Cardinality(AddOf(n) \union {p}) = IF p \in AddOf(n) THEN Cardinality(AddOf(n)) ELSE Cardinality(AddOf(n)) + 1
    BY EntriesFinite, FS_AddElement
  <2>2. Cardinality(AddOf(n) \ {p}) = IF p \in AddOf(n) THEN Cardinality(AddOf(n)) - 1 ELSE Cardinality(AddOf(n))
    BY EntriesFinite, FS_RemoveElement
  <2> QED
    BY <1>2, <1>4, <2>1, <2>2, EntriesFinite DEF Bit
<1>7. Entries(n)' = Cardinality(DirOf(n)') + Cardinality(AddOf(n)')
  BY DEF Entries, DirOf, AddOf, Adds
<1>8. dir' = dir => DirOf(n)' = DirOf(n)
  BY DEF DirOf
<1> QED
  BY <1>5, <1>6, <1>7, <1>8, EntriesFinite DEF Is, Bit

LEMMA EntriesSame ==
    ASSUME NEW p \in Proc, Others(p), dir' = dir, pc[p] # "add", pc'[p] # "add"
    PROVE  \A n : Entries(n)' = Entries(n)
<1> SUFFICES ASSUME NEW n PROVE Entries(n)' = Entries(n)
  OBVIOUS
<1>1. Entries(n)' = Entries(n) + Bit(Adds(p, n)') - Bit(Adds(p, n))
  BY EntriesStep
<1>2. Bit(Adds(p, n)') = 0 /\ Bit(Adds(p, n)) = 0
  BY DEF Bit, Adds
<1> QED
  BY <1>1, <1>2, EntriesFinite

-----------------------------------------------------------------------------
\* The places where a call knows something of its slot.
Touch == {"read", "got", "add", "last", "iputwrite", "trunc", "syncwrite"}

SameSlot(s) ==
    num'[s] = num[s] /\ count'[s] = count[s] /\ links'[s] = links[s] /\ dirt'[s] = dirt[s]
SameNum(n) == dlinks'[n] = dlinks[n] /\ (n \in imap' <=> n \in imap) /\ Entries(n)' = Entries(n)

LEMMA TouchSlot ==
    ASSUME Typed, NEW q \in Proc, pc[q] \in Touch
    PROVE  call[q].slot \in Slot
BY Reads DEF Touch, CallAt, WithSlot

LEMMA NoTouch == ASSUME NEW p, pc[p] \notin Touch PROVE At(p)
BY DEF At, Touch, Busy, Lone

LEMMA NotProc == ASSUME NEW p \in Proc PROVE p # None
BY InodeAssumption DEF None

\* No other call is at the slot, or those that are still know what they did.
LEMMA CallsKept ==
    ASSUME Typed, CallsKnow, NEW p \in Proc, Others(p), cpu \in {p, None}, NEW T,
           \A s \in Slot \ T : SameSlot(s) /\ lock'[s] = lock[s],
           At(p)',
           \A q \in Proc \ {p} : pc[q] \in Touch /\ call[q].slot \in T => At(q)',
           pc'[p] \in Busy => \A q \in Proc \ {p} : pc[q] \in Busy => call[q].slot # call'[p].slot
    PROVE  CallsKnow'
<1>1. ASSUME NEW q \in Proc \ {p} PROVE At(q)'
  <2>1. pc'[q] = pc[q] /\ call'[q] = call[q]
    BY DEF Others
  <2>2. CASE pc[q] \notin Touch
    BY <2>1, <2>2 DEF At, Touch, Busy, Lone
  <2>3. CASE pc[q] \in Touch /\ call[q].slot \notin T
    <3>1. At(q) /\ cpu # q
      BY NotProc DEF CallsKnow
    <3>2. SameSlot(call[q].slot) /\ lock'[call[q].slot] = lock[call[q].slot]
      BY <2>3, TouchSlot
    <3>3. pc[q] # "last"
      BY <3>1 DEF At
    <3> QED
      BY <2>1, <3>1, <3>2, <3>3 DEF At, SameSlot
  <2> QED
    BY <2>2, <2>3
<1>2. BusyAlone'
  BY DEF CallsKnow, BusyAlone, Others
<1> QED
  BY <1>1, <1>2 DEF CallsKnow

\* A step that touches the slots T, which hold the numbers N.
LEMMA ReadingKept ==
    ASSUME NEW p \in Proc, Others(p), NEW s,
           pc[p] = "read" => call[p].slot # s, pc'[p] = "read" => call'[p].slot # s
    PROVE  Reading(s)' <=> Reading(s)
BY DEF Reading, Others

DataStep(p, T, N) ==
    /\ Others(p)
    /\ \A s \in Slot \ T : SameSlot(s) /\ num[s] \notin N
    /\ \A s \in T : num[s] \in N \union {None} /\ num'[s] \in N \union {None}
    /\ \A n \in Num \ N : SameNum(n)
    /\ pc[p] = "read" => call[p].slot \in T
    /\ pc'[p] = "read" => call'[p].slot \in T

LEMMA LinksKept ==
    ASSUME Typed, LinksKnown, NEW p \in Proc, NEW T \in SUBSET Slot, NEW N, DataStep(p, T, N),
           \A s \in T : SlotOK(s)', \A n \in N : NumOK(n)'
    PROVE  LinksKnown'
<1>1. \A s \in Slot \ T : Reading(s)' <=> Reading(s)
  BY ReadingKept DEF DataStep
<1>2. \A s \in Slot : num[s] = None \/ num[s] \in Num
  BY Tables, Sizes DEF Num, None
<1>3. ASSUME NEW s \in Slot \ T PROVE SlotOK(s)'
  <2>1. SlotOK(s) /\ SameSlot(s) /\ num[s] \notin N
    BY DEF LinksKnown, DataStep
  <2>2. PICK n : n = num[s] /\ n = num'[s]
    BY <2>1 DEF SameSlot
  <2>3. n # None => SameNum(n)
    BY <1>2, <2>1, <2>2 DEF DataStep
  <2>4. Entries(num[s])' = Entries(n)' /\ Entries(num[s]) = Entries(n)
    BY <2>2 DEF Entries
  <2>5. n # None => Entries(num[s])' = Entries(num[s]) /\ dlinks'[num'[s]] = dlinks[num[s]]
    BY <2>2, <2>3, <2>4 DEF SameNum
  <2> QED
    BY <1>1, <2>1, <2>2, <2>5 DEF SlotOK, SameSlot
<1>4. ASSUME NEW n \in Num \ N PROVE NumOK(n)'
  <2>1. NumOK(n) /\ SameNum(n) /\ n # None
    BY Sizes DEF LinksKnown, DataStep, Num, None
  <2>2. \A s \in Slot : num'[s] = n <=> num[s] = n
    BY <2>1 DEF DataStep, SameSlot
  <2>3. \A s \in Slot : num[s] = n => s \notin T /\ SameSlot(s)
    BY <2>1 DEF DataStep
  <2>4. \A s \in Slot : num[s] = n => count'[s] = count[s] /\ (Reading(s)' <=> Reading(s))
    BY <1>1, <2>3 DEF SameSlot
  <2>5. Entries(n)' = Entries(n) /\ (n \in imap' <=> n \in imap) /\ dlinks'[n] = dlinks[n]
    BY <2>1 DEF SameNum
  <2> QED
    BY <2>1, <2>2, <2>4, <2>5 DEF NumOK
<1> QED
  BY <1>3, <1>4 DEF LinksKnown

\* A step that touches nothing that LinksKnown is about.
LEMMA LinksQuiet ==
    ASSUME Typed, LinksKnown, NEW p \in Proc, Others(p),
           UNCHANGED <<num, count, links, dirt, dlinks, imap>>,
           pc[p] # "read", pc'[p] # "read", \A n \in Num : Entries(n)' = Entries(n)
    PROVE  LinksKnown'
<1>1. DataStep(p, {}, {})
  BY DEF DataStep, SameSlot, SameNum
<1> QED
  BY <1>1, LinksKept

\* What is known of an inode in core, and what has to be shown of it.
LEMMA SlotKnows ==
    ASSUME LinksKnown, NEW s \in Slot, NEW n, num[s] = n, n # None
    PROVE  /\ count[s] = 0 => links[s] # 0
           /\ ~Reading(s) => /\ links[s] = Entries(n)
                             /\ ~dirt[s] => dlinks[n] = links[s] \/ links[s] = 0
BY DEF LinksKnown, SlotOK

LEMMA SlotShown ==
    ASSUME NEW s, NEW n, num'[s] = n, n # None, count'[s] = 0 => links'[s] # 0,
           ~Reading(s)' => /\ links'[s] = Entries(n)'
                           /\ ~dirt'[s] => dlinks'[n] = links'[s] \/ links'[s] = 0
    PROVE  SlotOK(s)'
<1>1. Entries(num[s])' = Entries(n)'
  BY DEF Entries
<1> QED
  BY <1>1 DEF SlotOK

LEMMA SlotWiped == ASSUME NEW s, num'[s] = None, ~dirt'[s] PROVE SlotOK(s)'
BY DEF SlotOK

\* A number whose inode is in core and in use.
LEMMA NumUsed ==
    ASSUME NEW n, NEW s \in Slot, num'[s] = n, count'[s] # 0, n \in imap', ~Reading(s)'
    PROVE  NumOK(n)'
BY DEF NumOK

\* Who else can be at the slot of a call.
LEMMA AtSlot ==
    ASSUME IInv, NEW p \in Proc, pc[p] \in WithSlot
    PROVE  /\ call[p].slot \in Slot /\ Ref(p) = call[p].slot
           /\ num[call[p].slot] # None /\ num[call[p].slot] \in Num
<1>1. call[p].slot \in Slot /\ Ref(p) = call[p].slot /\ num[call[p].slot] # None
  BY Reads DEF IInv, Named, CallAt, Ref, RefAt, WithEmpty, WithSlot
<1> QED
  BY <1>1, Tables, Sizes DEF IInv, Num, None

LEMMA AtEmpty ==
    ASSUME IInv, NEW p \in Proc, pc[p] \in WithEmpty
    PROVE  call[p].empty \in Slot /\ Ref(p) = call[p].empty /\ EmptyIn(call[p].empty)
BY Reads DEF IInv, EmptyAlone, EmptyIn, CallAt, Ref, RefAt, WithEmpty

LEMMA TouchRef ==
    ASSUME IInv, NEW q \in Proc, pc[q] \in Touch, pc[q] # "syncwrite"
    PROVE  Ref(q) = call[q].slot
BY AtSlot DEF Touch, WithSlot

LEMMA LoneTouch ==
    ASSUME IInv, NEW t \in Slot, NEW p \in Proc, Ref(p) = t, count[t] = 1,
           NEW q \in Proc \ {p}, pc[q] \in Touch, call[q].slot = t
    PROVE  pc[q] = "syncwrite"
BY TouchRef, SoleUser

LEMMA LockedTouch ==
    ASSUME CallsKnow, NEW q \in Proc, pc[q] \in Busy
    PROVE  lock[call[q].slot]
BY DEF CallsKnow, At

LEMMA EmptyTouch ==
    ASSUME IInv, CallsKnow, NEW e \in Slot, NEW p \in Proc, Ref(p) = e, EmptyIn(e),
           NEW q \in Proc \ {p}, pc[q] \in Touch
    PROVE  call[q].slot # e
BY LoneTouch, LockedTouch DEF EmptyIn, Busy

LEMMA FreeTouch ==
    ASSUME IInv, CallsKnow, NEW t \in Slot, count[t] = 0, NEW q \in Proc, pc[q] \in Touch
    PROVE  call[q].slot # t
<1> SUFFICES ASSUME call[q].slot = t PROVE FALSE
  OBVIOUS
<1>1. pc[q] = "syncwrite"
  BY TouchRef, UserCounts
<1> QED
  BY <1>1, LockedTouch DEF IInv, Clean, Busy

LEMMA BusyTouch == ASSUME NEW l \in Busy PROVE l \in Touch
BY DEF Busy, Touch

\* While a call has got an inode nobody else reads it.
LEMMA GotIsRead ==
    ASSUME IInv, CallsKnow, NEW p \in Proc, pc[p] # "read", NEW t \in Slot, Ref(p) = t
    PROVE  ~Reading(t)
<1> SUFFICES ASSUME NEW r \in Proc, pc[r] = "read", call[r].slot = t PROVE FALSE
  BY DEF Reading
<1>1. count[t] = 1 /\ Ref(r) = t
  BY TouchRef DEF CallsKnow, At, Lone, Touch
<1> QED
  BY <1>1, SoleUser

LEMMA NotRead == ASSUME CallsKnow, NEW t, ~lock[t] PROVE ~Reading(t)
BY LockedTouch DEF Reading, Busy

LEMMA NumOfSlot ==
    ASSUME Typed, NEW s \in Slot
    PROVE  num[s] = None \/ num[s] \in Num
BY Tables, Sizes DEF Num, None

-----------------------------------------------------------------------------
\* The two kinds of step: one that leaves links, disk and directory as they are,
\* and one that works on one slot and its number.
LEMMA QuietLinks ==
    ASSUME LinksPre, NEW p \in Proc, Others(p), cpu \in {p, None},
           num' = num, count' = count, links' = links, dirt' = dirt, lock' = lock,
           dlinks' = dlinks, imap' = imap, dir' = dir,
           pc[p] \notin {"read", "add"}, pc'[p] \notin {"read", "add"}, pc'[p] \notin Busy, At(p)',
           NoFreeInodePanic'
    PROVE  LinkParts'
<1>1. Typed /\ CallsKnow /\ LinksKnown
  BY DEF LinksPre, IInv, LinkParts
<1>2. CallsKnow'
  <2>0. PICK T : T = {}
    OBVIOUS
  <2>1. \A s \in Slot \ T : SameSlot(s) /\ lock'[s] = lock[s]
    BY DEF SameSlot
  <2>2. \A q \in Proc \ {p} : pc[q] \in Touch /\ call[q].slot \in T => At(q)'
    BY <2>0
  <2>3. pc'[p] \in Busy => \A q \in Proc \ {p} : pc[q] \in Busy => call[q].slot # call'[p].slot
    OBVIOUS
  <2> QED
    BY <1>1, <2>1, <2>2, <2>3, CallsKept
<1>3. \A n \in Num : Entries(n)' = Entries(n)
  BY EntriesSame
<1>4. LinksKnown'
  BY <1>1, <1>3, LinksQuiet
<1> QED
  BY <1>2, <1>4 DEF LinkParts

OneSlot(p, t, n) ==
    /\ Others(p) /\ cpu \in {p, None}
    /\ \A s \in Slot \ {t} : SameSlot(s) /\ lock'[s] = lock[s]
    /\ \A m \in Num \ {n} : SameNum(m)
    /\ num'[t] \in {n, None}
    /\ pc[p] = "read" => call[p].slot = t
    /\ pc'[p] = "read" => call'[p].slot = t
    /\ NoFreeInodePanic'

CallsHold(p, t) ==
    /\ At(p)'
    /\ \A q \in Proc \ {p} : pc[q] \in Touch /\ call[q].slot = t => At(q)'
    /\ pc'[p] \in Busy => \A q \in Proc \ {p} : pc[q] \in Busy => call[q].slot # call'[p].slot

LEMMA OneSlotLinks ==
    ASSUME LinksPre, NEW p \in Proc, NEW t \in Slot, NEW n \in Num, OneSlot(p, t, n), CallsHold(p, t),
           num[t] = n \/ (num[t] = None /\ \A s \in Slot : num[s] # n),
           SlotOK(t)', NumOK(n)'
    PROVE  LinkParts'
<1>1. Typed /\ CallsKnow /\ LinksKnown
  BY DEF LinksPre, IInv, LinkParts
<1>2. CallsKnow'
  <2>1. \A s \in Slot \ {t} : SameSlot(s) /\ lock'[s] = lock[s]
    BY DEF OneSlot
  <2> QED
    BY <1>1, <2>1, CallsKept DEF OneSlot, CallsHold
<1>3. n # None
  BY Sizes DEF Num, None
<1>4. \A s \in Slot \ {t} : num[s] # n
  BY <1>3 DEF LinksPre, NumsDistinct
<1>5. DataStep(p, {t}, {n})
  BY <1>4 DEF DataStep, OneSlot
<1>6. LinksKnown'
  BY <1>1, <1>5, LinksKept
<1> QED
  BY <1>2, <1>6 DEF LinkParts, OneSlot

LEMMA BeginLinks ==
    ASSUME LinksPre, NEW p \in Proc,
           \/ \E x \in Name : \E op \in {"open", "unlink"} : Lookup(p, op, x)
           \/ \E x \in Name : Creat(p, x)
           \/ Close(p)
           \/ Sync(p)
    PROVE  LinkParts'
<1>0. IInv /\ pc \in [Proc -> Pc] /\ NoFreeInodePanic
  BY DEF LinksPre, LinkParts, IInv, Typed, TypeOK
<1> SUFFICES ASSUME NEW l \in {"empty", "iput", "sync"}, pc' = [pc EXCEPT ![p] = l],
                    NEW c, call' = [call EXCEPT ![p] = c], fd' = fd \/ \E f : fd' = [fd EXCEPT ![p] = f],
                    UNCHANGED <<table, disk, panic>>, cpu = None, pc[p] = "idle"
             PROVE  LinkParts'
  <2>1. ASSUME NEW x \in Name, NEW op \in {"open", "unlink"}, Lookup(p, op, x) PROVE LinkParts'
    BY <2>1 DEF Lookup, Begin, Keeps, Sleeps
  <2>2. ASSUME NEW x \in Name, Creat(p, x) PROVE LinkParts'
    BY <2>2 DEF Creat, Begin, Keeps
  <2>3. CASE Close(p)
    BY <2>3 DEF Close, Begin, WaitsOn
  <2>4. CASE Sync(p)
    BY <2>4 DEF Sync, Keeps
  <2> QED
    BY <2>1, <2>2, <2>3, <2>4
<1>1. Others(p)
  BY <1>0, OthersStay
<1>2. pc'[p] = l
  BY <1>0
<1>3. pc'[p] \notin Touch /\ pc'[p] \notin Busy /\ pc[p] \notin {"read", "add"} /\ pc'[p] \notin {"read", "add"}
  BY <1>2 DEF Touch, Busy
<1>4. At(p)'
  BY <1>3 DEF At, Touch, Busy, Lone
<1>5. NoFreeInodePanic'
  BY <1>0 DEF NoFreeInodePanic
<1>6. /\ num' = num /\ count' = count /\ links' = links /\ dirt' = dirt /\ lock' = lock
      /\ dlinks' = dlinks /\ imap' = imap /\ dir' = dir
  BY DEF table, disk
<1> QED
  BY <1>1, <1>3, <1>4, <1>5, <1>6, QuietLinks

LEMMA StillLinks ==
    ASSUME LinkParts, NoFreeInodePanic',
           num' = num, count' = count, links' = links, dirt' = dirt, lock' = lock,
           dlinks' = dlinks, imap' = imap, dir' = dir, cpu' = cpu, pc' = pc, call' = call
    PROVE  LinkParts'
<1>1. (\A s : Reading(s)' <=> Reading(s)) /\ \A p \in Proc : At(p)' <=> At(p)
  BY DEF Reading, At
<1>2. BusyAlone'
  BY DEF LinkParts, CallsKnow, BusyAlone
<1>3. \A n : Entries(n)' = Entries(n)
  BY DEF Entries
<1>4. \A n \in Num : NumOK(n)'
  BY <1>1, <1>3 DEF LinkParts, LinksKnown, NumOK
<1>5. ASSUME NEW s \in Slot PROVE SlotOK(s)'
  <2>1. Entries(num[s])' = Entries(num[s])
    BY DEF Entries
  <2> QED
    BY <1>1, <2>1 DEF LinkParts, LinksKnown, SlotOK
<1> QED
  BY <1>1, <1>2, <1>4, <1>5 DEF LinkParts, CallsKnow, LinksKnown

LEMMA PanicLinks ==
    ASSUME LinkParts, NEW why, why \notin {"count", "links", "bit"}, Panics(why)
    PROVE  LinkParts'
<1>1. NoFreeInodePanic'
  BY DEF Panics, NoFreeInodePanic
<1> QED
  BY <1>1, StillLinks DEF Panics, table, disk

\* A call that moves on and touches nothing.
LEMMA MoveLinks ==
    ASSUME LinksPre, NEW p \in Proc, NEW l \in Pc, pc' = [pc EXCEPT ![p] = l], NEW c,
           call' = call \/ call' = [call EXCEPT ![p] = c], fd' = fd \/ \E f : fd' = [fd EXCEPT ![p] = f],
           UNCHANGED <<table, disk, panic>>, cpu \in {p, None},
           pc[p] \notin {"read", "add"}, l \notin {"read", "add"}, l \notin Busy, At(p)'
    PROVE  LinkParts'
<1>0. IInv /\ pc \in [Proc -> Pc] /\ NoFreeInodePanic
  BY DEF LinksPre, LinkParts, IInv, Typed, TypeOK
<1>1. Others(p)
  <2>1. call' = call \/ \E d : call' = [call EXCEPT ![p] = d]
    OBVIOUS
  <2> QED
    BY <1>0, <2>1, OthersStay
<1>2. pc'[p] = l
  BY <1>0
<1>3. NoFreeInodePanic'
  BY <1>0 DEF NoFreeInodePanic
<1>4. /\ num' = num /\ count' = count /\ links' = links /\ dirt' = dirt /\ lock' = lock
      /\ dlinks' = dlinks /\ imap' = imap /\ dir' = dir
  BY DEF table, disk
<1> QED
  BY <1>1, <1>2, <1>3, <1>4, QuietLinks

LEMMA AwayLinks ==
    ASSUME LinksPre, NEW p \in Proc, NEW l \in Pc, pc' = [pc EXCEPT ![p] = l], NEW c,
           call' = call \/ call' = [call EXCEPT ![p] = c], fd' = fd \/ \E f : fd' = [fd EXCEPT ![p] = f],
           UNCHANGED <<table, disk, panic>>, cpu \in {p, None},
           pc[p] \notin {"read", "add"}, l \in {"idle", "scan", "match", "sync"}
    PROVE  LinkParts'
<1>1. pc'[p] = l
  BY DEF LinksPre, IInv, Typed, TypeOK
<1>2. At(p)'
  BY <1>1 DEF At, Busy, Lone
<1>3. l \notin {"read", "add"} /\ l \notin Busy
  BY DEF Busy
<1> QED
  BY <1>2, <1>3, MoveLinks

\* A slot without a number before and after.
LEMMA NoNumLinks ==
    ASSUME LinksPre, NEW p \in Proc, NEW t \in Slot, num[t] = None, num'[t] = None, ~dirt'[t],
           Others(p), cpu \in {p, None}, \A s \in Slot \ {t} : SameSlot(s) /\ lock'[s] = lock[s],
           dlinks' = dlinks, imap' = imap, dir' = dir,
           pc[p] \notin {"read", "add"}, pc'[p] \notin {"read", "add"},
           CallsHold(p, t), NoFreeInodePanic'
    PROVE  LinkParts'
<1>1. Typed /\ CallsKnow /\ LinksKnown
  BY DEF LinksPre, IInv, LinkParts
<1>2. CallsKnow'
  BY <1>1, CallsKept DEF CallsHold
<1>3. \A n \in Num : SameNum(n)
  BY EntriesSame DEF SameNum
<1>4. PICK N : N = {}
  OBVIOUS
<1>5. DataStep(p, {t}, N)
  BY <1>3, <1>4 DEF DataStep
<1>6. SlotOK(t)'
  BY SlotWiped
<1>7. LinksKnown'
  BY <1>1, <1>4, <1>5, <1>6, LinksKept
<1> QED
  BY <1>2, <1>7 DEF LinkParts

\* get_empty_inode: the inode that loses its slot was on the disk as it was in core.
LEMMA GetEmptyInodeLinks ==
    ASSUME LinksPre, NEW p \in Proc, GetEmptyInode(p)
    PROVE  LinkParts'
<1>0. IInv /\ Typed /\ CallsKnow /\ LinksKnown /\ NoFreeInodePanic /\ LinkParts
  BY DEF LinksPre, IInv, LinkParts
<1>1. CASE Free = {} /\ Panics("full")
  BY <1>0, <1>1, PanicLinks
<1>2. CASE /\ Free # {}
           /\ call' = [call EXCEPT ![p].empty = Chosen]
           /\ Memset(Chosen, 1)
           /\ Keeps(p, IF call[p].op = "creat" THEN "new" ELSE "scan")
           /\ UNCHANGED <<disk, fd, raced, panic>>
  <2>0. PICK t \in Slot : t = Chosen /\ count[t] = 0
    BY <1>2, ChosenFree
  <2>1. pc[p] = "empty" /\ cpu \in {p, None}
    BY DEF GetEmptyInode, Runs
  <2>2. PICK l \in {"new", "scan"} : pc' = [pc EXCEPT ![p] = l]
    BY <1>2 DEF Keeps
  <2>3. pc'[p] = l
    BY <1>0, <2>2 DEF Typed, TypeOK
  <2>4. Others(p)
    BY <1>0, <1>2, <2>2, OthersStay
  <2>5. /\ num'[t] = None /\ ~dirt'[t]
        /\ \A s \in Slot \ {t} : SameSlot(s) /\ lock'[s] = lock[s]
    BY <1>0, <1>2, <2>0 DEF Memset, Typed, TypeOK, DataOK, SameSlot
  <2>6. dlinks' = dlinks /\ imap' = imap /\ dir' = dir /\ NoFreeInodePanic'
    BY <1>0, <1>2 DEF disk, NoFreeInodePanic
  <2>7. \A q \in Proc \ {p} : pc[q] \in Touch => call[q].slot # t
    BY <1>0, <2>0, FreeTouch
  <2>8. pc'[p] \notin Touch /\ pc'[p] \notin Busy
    BY <2>3 DEF Touch, Busy
  <2>9. CallsHold(p, t)
    <3>1. At(p)'
      BY <2>8 DEF At, Touch, Busy, Lone
    <3> QED
      BY <2>7, <2>8, <3>1 DEF CallsHold
  <2>10. /\ pc[p] \notin {"read", "add"} /\ pc'[p] \notin {"read", "add"}
         /\ pc[p] # "read" /\ pc'[p] # "read" /\ pc[p] # "add" /\ pc'[p] # "add"
    BY <2>1, <2>3
  <2>11. CASE num[t] = None
    BY <2>1, <2>4, <2>5, <2>6, <2>9, <2>10, <2>11, NoNumLinks
  <2>12. CASE num[t] # None
    <3>1. PICK n \in Num : num[t] = n /\ n # None
      BY <1>0, <2>12, NumOfSlot
    <3>2. \A m \in Num : SameNum(m)
      BY <2>4, <2>6, <2>10, EntriesSame DEF SameNum
    <3>3. OneSlot(p, t, n)
      BY <2>1, <2>4, <2>5, <2>6, <2>10, <3>2 DEF OneSlot
    <3>4. ~Reading(t)
      BY <1>0, <2>0, NotRead DEF IInv, Clean
    <3>5. links[t] # 0 /\ links[t] = Entries(n) /\ dlinks[n] = links[t]
      <4>1. ~dirt[t]
        BY <1>0, <2>0 DEF IInv, Clean
      <4> QED
        BY <1>0, <2>0, <3>1, <3>4, <4>1, SlotKnows
    <3>6. NumOK(n)'
      <4>1. NumOK(n) /\ SameNum(n)
        BY <1>0, <3>2 DEF LinksKnown
      <4> QED
        BY <3>5, <4>1 DEF NumOK, SameNum
    <3>7. SlotOK(t)'
      BY <2>5, SlotWiped
    <3> QED
      BY <2>9, <3>1, <3>3, <3>6, <3>7, OneSlotLinks
  <2> QED
    BY <2>11, <2>12
<1> QED
  BY <1>1, <1>2 DEF GetEmptyInode, Free, Chosen

\* iget: what is on the disk is right when nobody has the inode in core.
LEMMA IgetScanLinks ==
    ASSUME LinksPre, NEW p \in Proc, IgetScan(p), raced' = {}
    PROVE  LinkParts'
<1>0. IInv /\ Typed /\ CallsKnow /\ LinksKnown /\ NoFreeInodePanic
  BY DEF LinksPre, IInv, LinkParts
<1>1. pc[p] = "scan" /\ panic' = panic /\ fd' = fd /\ cpu \in {p, None} /\ UNCHANGED disk
  BY DEF IgetScan, Runs
<1>2. CASE /\ call' = [call EXCEPT ![p].slot = Min(Found(call[p].nr))]
           /\ WaitsOn(p, Min(Found(call[p].nr)), "match")
           /\ UNCHANGED <<table, raced>>
  <2>1. pc' = [pc EXCEPT ![p] = "match"] /\ UNCHANGED <<table, disk, panic>>
    BY <1>1, <1>2 DEF WaitsOn
  <2> QED
    BY <1>1, <1>2, <2>1, AwayLinks DEF Pc
<1>3. CASE /\ Found(call[p].nr) = {}
           /\ num' = [num EXCEPT ![call[p].empty] = call[p].nr]
           /\ lock' = [lock EXCEPT ![call[p].empty] = TRUE]
           /\ call' = [call EXCEPT ![p].slot = call[p].empty, ![p].empty = None]
           /\ raced' = raced \union Stale(call[p].nr)
           /\ Sleeps(p, "read")
           /\ UNCHANGED <<count, links, dirt>>
  <2>0. PICK e \in Slot : e = call[p].empty /\ Ref(p) = e /\ EmptyIn(e)
    BY <1>0, <1>1, AtEmpty DEF WithEmpty
  <2>1. PICK n \in Num : n = call[p].nr /\ n # None
    BY <1>0, <1>1, Reads, Sizes DEF CallAt, Num, None
  <2>2. pc' = [pc EXCEPT ![p] = "read"] /\ pc'[p] = "read"
    BY <1>0, <1>3 DEF Sleeps, Typed, TypeOK
  <2>3. call'[p].slot = e /\ call'[p].nr = n
    BY <1>0, <1>3, <2>0, <2>1, Reads DEF Typed, TypeOK, Call
  <2>4. Others(p)
    BY <1>0, <1>1, <1>3, <2>2 DEF Others, Typed, TypeOK
  <2>5. /\ num'[e] = n /\ count'[e] = 1 /\ ~dirt'[e] /\ lock'[e]
        /\ \A s \in Slot \ {e} : SameSlot(s) /\ lock'[s] = lock[s]
    BY <1>0, <1>3, <2>0, <2>1 DEF Typed, TypeOK, DataOK, SameSlot, EmptyIn
  <2>6. dlinks' = dlinks /\ imap' = imap /\ dir' = dir /\ NoFreeInodePanic'
    BY <1>0, <1>1 DEF disk, NoFreeInodePanic
  <2>7. \A q \in Proc \ {p} : pc[q] \in Touch => call[q].slot # e
    BY <1>0, <2>0, EmptyTouch
  <2>8. CallsHold(p, e)
    <3>1. At(p)'
      BY <2>1, <2>2, <2>3, <2>5 DEF At, Busy, Lone
    <3> QED
      BY <2>3, <2>7, <3>1, BusyTouch DEF CallsHold
  <2>9. \A m \in Num : SameNum(m)
    BY <1>1, <2>2, <2>4, <2>6, EntriesSame DEF SameNum
  <2>10. OneSlot(p, e, n)
    BY <1>1, <2>2, <2>3, <2>4, <2>5, <2>6, <2>9 DEF OneSlot
  <2>11. \A s \in Slot : num[s] # n
    BY <1>3, <2>1 DEF Found
  <2>12. Reading(e)'
    BY <2>2, <2>3 DEF Reading
  <2>13. SlotOK(e)'
    BY <2>1, <2>5, <2>12, SlotShown
  <2>14. n \in imap
    BY <1>3, <2>1 DEF Stale
  <2>15. NumOK(n)'
    <3>1. NumOK(n) /\ SameNum(n)
      BY <1>0, <2>9 DEF LinksKnown
    <3>2. dlinks[n] = Entries(n)
      BY <2>11, <2>14, <3>1 DEF NumOK
    <3> QED
      BY <2>5, <2>14, <3>1, <3>2 DEF NumOK, SameNum
  <2>16. num[e] = None
    BY <2>0 DEF EmptyIn
  <2> QED
    BY <2>8, <2>10, <2>11, <2>13, <2>15, <2>16, OneSlotLinks
<1> QED
  BY <1>2, <1>3 DEF IgetScan, Found

\* iget that finds the inode: it is nobody's last one, or the race is on record.
LEMMA IgetMatchLinks ==
    ASSUME LinksPre, NEW p \in Proc, IgetMatch(p), raced' = {}
    PROVE  LinkParts'
<1>0. IInv /\ Typed /\ CallsKnow /\ LinksKnown /\ NoFreeInodePanic
  BY DEF LinksPre, IInv, LinkParts
<1>1. /\ pc[p] = "match" /\ panic' = panic /\ fd' = fd /\ cpu \in {p, None} /\ UNCHANGED disk
      /\ num' = num /\ links' = links /\ dirt' = dirt /\ lock' = lock /\ ~lock[call[p].slot]
  BY DEF IgetMatch, Runs
<1>2. CASE Keeps(p, "scan") /\ UNCHANGED <<count, call, raced>>
  <2>1. pc' = [pc EXCEPT ![p] = "scan"] /\ UNCHANGED <<table, disk, panic>> /\ call' = call
    BY <1>1, <1>2 DEF Keeps, table
  <2> QED
    BY <1>1, <2>1, AwayLinks DEF Pc
<1>3. CASE /\ num[call[p].slot] = call[p].nr
           /\ count' = [count EXCEPT ![call[p].slot] = @ + 1, ![call[p].empty] = @ - 1]
           /\ call' = [call EXCEPT ![p].empty = None]
           /\ raced' = raced \union Stale(call[p].nr) \union Late(call[p].slot)
           /\ Keeps(p, "got")
  <2>0. PICK e \in Slot : e = call[p].empty /\ Ref(p) = e /\ EmptyIn(e)
    BY <1>0, <1>1, AtEmpty DEF WithEmpty
  <2>1. PICK n \in Num : n = call[p].nr /\ n # None
    BY <1>0, <1>1, Reads, Sizes DEF CallAt, Num, None
  <2>2. PICK t \in Slot : t = call[p].slot /\ num[t] = n /\ ~lock[t]
    BY <1>0, <1>1, <1>3, <2>1, Reads DEF CallAt, WithSlot
  <2>3. t # e
    BY <2>0, <2>1, <2>2 DEF EmptyIn
  <2>4. pc' = [pc EXCEPT ![p] = "got"] /\ pc'[p] = "got"
    BY <1>0, <1>3 DEF Keeps, Typed, TypeOK
  <2>5. call'[p].slot = t /\ call'[p].nr = n
    BY <1>0, <1>3, <2>1, <2>2, Reads DEF Typed, TypeOK, Call
  <2>6. Others(p)
    BY <1>0, <1>1, <1>3, <2>4, OthersStay
  <2>7. count'[t] = count[t] + 1 /\ count'[e] = 0 /\ \A s \in Slot \ {t, e} : count'[s] = count[s]
    BY <1>0, <1>3, <2>0, <2>2, <2>3, Tables DEF EmptyIn
  <2>8. count'[t] # 0
    BY <1>0, <2>7, CountNat
  <2>9. \A s \in Slot \ {t, e} : SameSlot(s) /\ lock'[s] = lock[s]
    BY <1>1, <2>7 DEF SameSlot
  <2>10. \A q \in Proc \ {p} : pc[q] \in Touch => call[q].slot # e
    BY <1>0, <2>0, EmptyTouch
  <2>11. ASSUME NEW q \in Proc \ {p}, pc[q] \in Touch, call[q].slot = t PROVE At(q)'
    <3>1. At(q) /\ cpu # q
      BY <1>0, <1>1, NotProc DEF CallsKnow
    <3>2. pc[q] \notin Busy /\ pc[q] # "last"
      BY <1>0, <2>2, <2>11, <3>1, LockedTouch DEF At
    <3>3. pc[q] # "trunc"
      BY <1>3, <2>2, <2>11 DEF Late
    <3>4. pc'[q] = pc[q] /\ call'[q] = call[q]
      BY <2>6 DEF Others
    <3> QED
      BY <1>1, <3>1, <3>2, <3>3, <3>4 DEF At, Busy, Lone
  <2>12. At(p)'
    BY <1>1, <2>1, <2>2, <2>4, <2>5 DEF At, Busy, Lone
  <2>13. CallsKnow'
    <3>1. \A q \in Proc \ {p} : pc[q] \in Touch /\ call[q].slot \in {t, e} => At(q)'
      BY <2>10, <2>11
    <3>2. pc'[p] \notin Busy
      BY <2>4 DEF Busy
    <3> QED
      BY <1>0, <1>1, <2>6, <2>9, <2>12, <3>1, <3>2, CallsKept
  <2>14. \A m \in Num : SameNum(m)
    BY <1>1, <2>4, <2>6, EntriesSame DEF SameNum, disk
  <2>15. \A s \in Slot \ {t, e} : num[s] # n
    BY <2>1, <2>2 DEF LinksPre, NumsDistinct
  <2>16. DataStep(p, {t, e}, {n})
    BY <1>1, <2>0, <2>2, <2>4, <2>6, <2>9, <2>14, <2>15 DEF DataStep, EmptyIn
  <2>17. ~Reading(t) /\ ~Reading(t)'
    <3>1. ~Reading(t)
      BY <1>0, <2>2, NotRead
    <3> QED
      BY <1>1, <2>4, <2>6, <3>1, ReadingKept
  <2>18. SlotOK(t)'
    <3>1. links[t] = Entries(n) /\ (~dirt[t] => dlinks[n] = links[t] \/ links[t] = 0)
      BY <1>0, <2>1, <2>2, <2>17, SlotKnows
    <3>2. Entries(n)' = Entries(n) /\ dlinks'[n] = dlinks[n]
      BY <2>14 DEF SameNum
    <3>3. num'[t] = n /\ links'[t] = links[t] /\ dirt'[t] = dirt[t]
      BY <1>1, <2>2
    <3> QED
      BY <2>1, <2>8, <3>1, <3>2, <3>3, SlotShown
  <2>19. SlotOK(e)'
    BY <1>1, <2>0, SlotWiped DEF EmptyIn
  <2>20. NumOK(n)'
    <3>1. n \in imap'
      BY <1>1, <2>1, <2>2 DEF LinksPre, NumsAllocated, disk
    <3> QED
      BY <1>1, <2>2, <2>8, <2>17, <3>1, NumUsed
  <2>21. LinksKnown'
    <3>1. {t, e} \in SUBSET Slot
      OBVIOUS
    <3> QED
      BY <1>0, <2>16, <2>18, <2>19, <2>20, <3>1, LinksKept
  <2> QED
    BY <1>0, <1>1, <2>13, <2>21 DEF LinkParts, NoFreeInodePanic
<1> QED
  BY <1>2, <1>3 DEF IgetMatch

LEMMA ReadInodeLinks ==
    ASSUME LinksPre, NEW p \in Proc, ReadInode(p)
    PROVE  LinkParts'
<1>0. IInv /\ Typed /\ CallsKnow /\ LinksKnown /\ NoFreeInodePanic
  BY DEF LinksPre, IInv, LinkParts
<1>1. /\ pc[p] = "read" /\ panic' = panic /\ fd' = fd /\ cpu \in {p, None} /\ UNCHANGED disk
      /\ num' = num /\ count' = count /\ dirt' = dirt /\ call' = call /\ pc' = [pc EXCEPT ![p] = "got"]
      /\ links' = [links EXCEPT ![call[p].slot] = dlinks[num[call[p].slot]]]
      /\ lock' = [lock EXCEPT ![call[p].slot] = FALSE]
  BY DEF ReadInode, Runs, Keeps
<1>2. PICK t \in Slot : t = call[p].slot /\ Ref(p) = t
  BY <1>0, <1>1, AtSlot DEF WithSlot
<1>3. PICK n \in Num : n = call[p].nr /\ num[t] = n /\ n # None
  BY <1>0, <1>1, <1>2, Sizes DEF CallsKnow, At, Num, None
<1>4. count[t] = 1 /\ ~dirt[t]
  BY <1>0, <1>1, <1>2 DEF CallsKnow, At, Lone
<1>5. pc'[p] = "got"
  BY <1>0, <1>1 DEF Typed, TypeOK
<1>6. Others(p)
  BY <1>0, <1>1, OthersStay
<1>7. links'[t] = dlinks[n] /\ \A s \in Slot \ {t} : SameSlot(s) /\ lock'[s] = lock[s]
  BY <1>0, <1>1, <1>2, <1>3 DEF Typed, TypeOK, DataOK, SameSlot
<1>8. \A q \in Proc \ {p} : pc[q] \in Touch => call[q].slot # t
  <2> SUFFICES ASSUME NEW q \in Proc \ {p}, pc[q] \in Touch, call[q].slot = t PROVE FALSE
    OBVIOUS
  <2>1. pc[q] = "syncwrite"
    BY <1>0, <1>2, <1>4, LoneTouch
  <2> QED
    BY <1>0, <1>1, <1>2, <2>1 DEF CallsKnow, BusyAlone, Busy
<1>9. CallsHold(p, t)
  <2>1. At(p)'
    BY <1>1, <1>2, <1>3, <1>5 DEF At, Busy, Lone
  <2>2. pc'[p] \notin Busy
    BY <1>5 DEF Busy
  <2> QED
    BY <1>8, <2>1, <2>2 DEF CallsHold
<1>10. \A m \in Num : SameNum(m)
  BY <1>1, <1>5, <1>6, EntriesSame DEF SameNum, disk
<1>11. OneSlot(p, t, n)
  BY <1>0, <1>1, <1>2, <1>3, <1>5, <1>6, <1>7, <1>10 DEF OneSlot, NoFreeInodePanic
<1>12. Reading(t) /\ ~Reading(t)'
  BY <1>1, <1>2, <1>5, <1>6, <1>8 DEF Reading, Others, Touch
<1>13. n \in imap /\ n \in imap'
  BY <1>1, <1>3 DEF LinksPre, NumsAllocated, disk
<1>14. dlinks[n] = Entries(n)
  <2>1. \A s \in Slot : num[s] = n => Reading(s)
    BY <1>3, <1>12 DEF LinksPre, NumsDistinct
  <2> QED
    BY <1>0, <1>13, <2>1 DEF LinksKnown, NumOK
<1>15. num'[t] = n /\ count'[t] # 0
  BY <1>1, <1>3, <1>4
<1>16. SlotOK(t)'
  <2>1. links'[t] = Entries(n)' /\ dlinks'[n] = links'[t]
    BY <1>7, <1>10, <1>14 DEF SameNum
  <2> QED
    BY <1>3, <1>15, <2>1, SlotShown
<1>17. NumOK(n)'
  BY <1>12, <1>13, <1>15, NumUsed
<1> QED
  BY <1>3, <1>9, <1>11, <1>16, <1>17, OneSlotLinks

LEMMA OpenedLinks ==
    ASSUME LinksPre, NEW p \in Proc, Opened(p)
    PROVE  LinkParts'
<1>1. pc[p] = "got" /\ cpu \in {p, None} /\ UNCHANGED <<table, disk, panic>>
  BY DEF Opened, Runs
<1>2. CASE Leave(p) /\ fd' = [fd EXCEPT ![p] = call[p].slot]
  <2>1. pc' = [pc EXCEPT ![p] = "idle"] /\ call' = [call EXCEPT ![p] = Idle]
    BY <1>2 DEF Leave, Sleeps
  <2> QED
    BY <1>1, <1>2, <2>1, AwayLinks DEF Pc
<1>3. CASE WaitsOn(p, call[p].slot, "iput") /\ UNCHANGED <<fd, call>>
  <2>1. pc' = [pc EXCEPT ![p] = "iput"] /\ pc'[p] = "iput"
    BY <1>3 DEF WaitsOn, LinksPre, IInv, Typed, TypeOK
  <2>2. At(p)'
    BY <2>1 DEF At, Busy, Lone
  <2> QED
    BY <1>1, <1>3, <2>1, <2>2, MoveLinks DEF Pc, Busy
<1> QED
  BY <1>2, <1>3 DEF Opened

\* sys_unlink: the entry is the one that was looked up, or the race is on record.
LEMMA UnlinkLinks ==
    ASSUME LinksPre, NEW p \in Proc, Unlink(p), raced' = {}
    PROVE  LinkParts'
<1>0. IInv /\ Typed /\ CallsKnow /\ LinksKnown /\ NoFreeInodePanic
  BY DEF LinksPre, IInv, LinkParts
<1>1. /\ pc[p] = "got" /\ panic' = panic /\ fd' = fd /\ cpu \in {p, None}
      /\ num' = num /\ count' = count /\ lock' = lock /\ dlinks' = dlinks /\ imap' = imap /\ call' = call
      /\ pc' = [pc EXCEPT ![p] = "iput"]
      /\ dir' = [dir EXCEPT ![call[p].name] = None]
      /\ links' = [links EXCEPT ![call[p].slot] = IF @ = 0 THEN 0 ELSE @ - 1]
      /\ dirt' = [dirt EXCEPT ![call[p].slot] = TRUE]
      /\ raced' = raced \union (IF dir[call[p].name] = call[p].nr THEN {} ELSE {"stale"})
  BY DEF Unlink, Runs, WaitsOn
<1>2. PICK t \in Slot : t = call[p].slot /\ Ref(p) = t
  BY <1>0, <1>1, AtSlot DEF WithSlot
<1>3. PICK n \in Num : n = call[p].nr /\ num[t] = n /\ n # None
  BY <1>0, <1>1, <1>2, Sizes DEF CallsKnow, At, Num, None
<1>4. PICK x \in Name : x = call[p].name /\ dir[x] = n
  <2>1. dir[call[p].name] = call[p].nr
    BY <1>1
  <2>2. call[p].name \in Name
    BY <1>0, <1>1, Reads DEF CallAt
  <2> QED
    BY <1>3, <2>1, <2>2
<1>5. pc'[p] = "iput"
  BY <1>0, <1>1 DEF Typed, TypeOK
<1>6. Others(p)
  BY <1>0, <1>1, OthersStay
<1>7. dir'[x] = None /\ \A y \in Name \ {x} : dir'[y] = dir[y]
  BY <1>0, <1>1, <1>4, Tables
<1>8. /\ links'[t] = IF links[t] = 0 THEN 0 ELSE links[t] - 1
      /\ dirt'[t] /\ num'[t] = n
      /\ \A s \in Slot \ {t} : SameSlot(s) /\ lock'[s] = lock[s]
  BY <1>0, <1>1, <1>2, <1>3 DEF Typed, TypeOK, DataOK, SameSlot
<1>9. ~Reading(t) /\ ~Reading(t)'
  <2>1. ~Reading(t)
    BY <1>0, <1>1, <1>2, GotIsRead
  <2> QED
    BY <1>1, <1>5, <1>6, <2>1, ReadingKept
<1>10. links[t] = Entries(n) /\ Entries(n) >= 1 /\ Entries(n) \in Nat
  BY <1>0, <1>3, <1>4, <1>9, SlotKnows, NameCounts, EntriesFinite
<1>11. \A m : Entries(m)' = Entries(m) + Is(None, m) - Is(n, m)
  <2> SUFFICES ASSUME NEW m PROVE Entries(m)' = Entries(m) + Is(None, m) - Is(n, m)
    OBVIOUS
  <2>1. Entries(m)' = Entries(m) + Is(dir'[x], m) - Is(dir[x], m) + Bit(Adds(p, m)') - Bit(Adds(p, m))
    BY <1>6, <1>7, EntriesStep
  <2>2. Bit(Adds(p, m)') = 0 /\ Bit(Adds(p, m)) = 0
    BY <1>1, <1>5 DEF Bit, Adds
  <2>3. Entries(m) \in Nat /\ dir'[x] = None /\ dir[x] = n
    BY <1>4, <1>7, EntriesFinite
  <2> QED
    BY <2>1, <2>2, <2>3 DEF Is
<1>12. Entries(n)' = Entries(n) - 1
  BY <1>3, <1>10, <1>11 DEF Is
<1>13. \A m \in Num \ {n} : SameNum(m)
  <2> SUFFICES ASSUME NEW m \in Num \ {n} PROVE Entries(m)' = Entries(m)
    BY <1>1 DEF SameNum
  <2>1. m # None /\ Entries(m) \in Nat
    BY EntriesFinite, Sizes DEF Num, None
  <2> QED
    BY <1>11, <2>1 DEF Is
<1>14. ASSUME NEW q \in Proc \ {p}, pc[q] \in Touch, call[q].slot = t PROVE At(q)'
  <2>1. At(q) /\ cpu # q /\ pc'[q] = pc[q] /\ call'[q] = call[q]
    BY <1>0, <1>1, <1>6, NotProc DEF CallsKnow, Others
  <2>2. pc[q] \notin Lone
    <3> SUFFICES ASSUME pc[q] \in Lone PROVE FALSE
      OBVIOUS
    <3>1. count[t] = 1 /\ Ref(q) = t
      BY <1>0, <1>14, <2>1, TouchRef DEF At, Lone
    <3> QED
      BY <1>0, <1>2, <3>1, SoleUser
  <2>3. pc[q] # "add"
    <3> SUFFICES ASSUME pc[q] = "add" PROVE FALSE
      OBVIOUS
    <3>1. links[t] = 1 /\ Adds(q, n)
      BY <1>3, <1>14, <2>1 DEF At, Adds
    <3> QED
      BY <1>4, <1>10, <3>1, AddCounts
  <2> QED
    BY <1>1, <2>1, <2>2, <2>3 DEF At, Lone
<1>15. CallsHold(p, t)
  <2>1. At(p)' /\ pc'[p] \notin Busy
    BY <1>5 DEF At, Busy, Lone
  <2> QED
    BY <1>14, <2>1 DEF CallsHold
<1>16. OneSlot(p, t, n)
  BY <1>0, <1>1, <1>5, <1>6, <1>8, <1>13 DEF OneSlot, NoFreeInodePanic
<1>17. count'[t] # 0
  BY <1>0, <1>1, <1>2, UserCounts
<1>18. SlotOK(t)'
  <2>1. links'[t] = Entries(n)'
    BY <1>8, <1>10, <1>12
  <2> QED
    BY <1>3, <1>8, <1>17, <2>1, SlotShown
<1>19. NumOK(n)'
  <2>1. n \in imap'
    BY <1>1, <1>3 DEF LinksPre, NumsAllocated
  <2> QED
    BY <1>8, <1>9, <1>17, <2>1, NumUsed
<1> QED
  BY <1>3, <1>15, <1>16, <1>18, <1>19, OneSlotLinks

LEMMA NewInodeLinks ==
    ASSUME LinksPre, NEW p \in Proc, NewInode(p)
    PROVE  LinkParts'
<1>0. IInv /\ Typed /\ CallsKnow /\ LinksKnown /\ NoFreeInodePanic
  BY DEF LinksPre, IInv, LinkParts
<1>1. /\ pc[p] = "new" /\ panic' = panic /\ fd' = fd /\ cpu \in {p, None}
      /\ lock' = lock /\ dlinks' = dlinks /\ dir' = dir
  BY DEF NewInode, Runs
<1>2. PICK e \in Slot : e = call[p].empty /\ Ref(p) = e /\ EmptyIn(e)
  BY <1>0, <1>1, AtEmpty DEF WithEmpty
<1>3. \A q \in Proc \ {p} : pc[q] \in Touch => call[q].slot # e
  BY <1>0, <1>2, EmptyTouch
<1>4. CASE Num \subseteq imap
  <2>1. /\ count' = [count EXCEPT ![e] = @ - 1] /\ pc' = [pc EXCEPT ![p] = "idle"]
        /\ call' = [call EXCEPT ![p] = Idle] /\ num' = num /\ links' = links /\ dirt' = dirt /\ imap' = imap
    BY <1>2, <1>4 DEF NewInode, Leave, Sleeps
  <2>2. pc'[p] = "idle" /\ Others(p)
    BY <1>0, <1>1, <2>1, OthersStay DEF Typed, TypeOK
  <2>3. /\ \A s \in Slot \ {e} : SameSlot(s) /\ lock'[s] = lock[s]
        /\ num[e] = None /\ num'[e] = None /\ ~dirt'[e]
    BY <1>0, <1>1, <1>2, <2>1, Tables DEF SameSlot, EmptyIn
  <2>4. CallsHold(p, e)
    <3>1. At(p)' /\ pc'[p] \notin Busy
      BY <2>2 DEF At, Busy, Lone
    <3> QED
      BY <1>3, <3>1 DEF CallsHold
  <2>5. NoFreeInodePanic' /\ pc[p] \notin {"read", "add"} /\ pc'[p] \notin {"read", "add"}
    BY <1>0, <1>1, <2>2 DEF NoFreeInodePanic
  <2> QED
    BY <1>1, <2>1, <2>2, <2>3, <2>4, <2>5, NoNumLinks
<1>5. CASE ~(Num \subseteq imap)
  <2>0. PICK n \in Num : n = NewNum /\ n \notin imap /\ n # None
    BY <1>5, NewNumFree, Sizes DEF Num, None
  <2>1. /\ imap' = imap \union {n}
        /\ num' = [num EXCEPT ![e] = n] /\ count' = [count EXCEPT ![e] = 1]
        /\ links' = [links EXCEPT ![e] = 1] /\ dirt' = [dirt EXCEPT ![e] = TRUE]
        /\ call' = [call EXCEPT ![p].slot = e, ![p].empty = None, ![p].nr = n]
        /\ pc' = [pc EXCEPT ![p] = "add"]
    BY <1>2, <1>5, <2>0 DEF NewInode, Sleeps, NewNum
  <2>2. pc'[p] = "add" /\ call'[p].slot = e /\ call'[p].nr = n
    BY <1>0, <2>1, Reads DEF Typed, TypeOK, Call
  <2>3. Others(p)
    BY <1>0, <1>1, <2>1 DEF Others, Typed, TypeOK
  <2>4. /\ num'[e] = n /\ count'[e] = 1 /\ links'[e] = 1 /\ dirt'[e]
        /\ \A s \in Slot \ {e} : SameSlot(s) /\ lock'[s] = lock[s]
    BY <1>0, <1>1, <1>2, <2>1 DEF Typed, TypeOK, DataOK, SameSlot
  <2>5. \A m : Entries(m)' = Entries(m) + Is(n, m)
    <3> SUFFICES ASSUME NEW m PROVE Entries(m)' = Entries(m) + Is(n, m)
      OBVIOUS
    <3>1. PICK x : x = None
      OBVIOUS
    <3>2. \A y \in Name \ {x} : dir'[y] = dir[y]
      BY <1>1
    <3>3. Entries(m)' = Entries(m) + Bit(Adds(p, m)') - Bit(Adds(p, m))
      BY <1>1, <2>3, <3>2, EntriesStep
    <3>4. Bit(Adds(p, m)') = Is(n, m) /\ Bit(Adds(p, m)) = 0
      BY <1>1, <2>2 DEF Bit, Adds, Is
    <3>5. Entries(m) \in Nat
      BY EntriesFinite
    <3> QED
      BY <3>3, <3>4, <3>5 DEF Is
  <2>6. Entries(n) = 0
    BY <1>0, <2>0 DEF LinksKnown, NumOK
  <2>7. Entries(n)' = 1
    BY <2>5, <2>6 DEF Is
  <2>8. \A m \in Num \ {n} : SameNum(m)
    <3> SUFFICES ASSUME NEW m \in Num \ {n} PROVE Entries(m)' = Entries(m)
      BY <1>1, <2>1 DEF SameNum
    <3> QED
      BY <2>5, EntriesFinite DEF Is
  <2>9. \A s \in Slot : num[s] # n
    BY <2>0 DEF LinksPre, NumsAllocated
  <2>10. OneSlot(p, e, n)
    BY <1>0, <1>1, <2>2, <2>3, <2>4, <2>8 DEF OneSlot, NoFreeInodePanic
  <2>11. CallsHold(p, e)
    <3>1. At(p)' /\ pc'[p] \notin Busy
      BY <2>2, <2>4 DEF At, Busy, Lone
    <3> QED
      BY <1>3, <3>1 DEF CallsHold
  <2>12. ~Reading(e)'
    BY <1>3, <2>2, <2>3 DEF Reading, Others, Touch
  <2>13. SlotOK(e)'
    BY <2>0, <2>4, <2>7, SlotShown
  <2>14. NumOK(n)'
    <3>1. n \in imap' /\ count'[e] # 0
      BY <2>1, <2>4
    <3> QED
      BY <2>4, <2>12, <3>1, NumUsed
  <2>15. num[e] = None
    BY <1>2 DEF EmptyIn
  <2> QED
    BY <2>9, <2>10, <2>11, <2>13, <2>14, <2>15, OneSlotLinks
<1> QED
  BY <1>4, <1>5

\* open_namei after add_entry: the entry takes the place of the one that was
\* announced, or the new inode is given up with no link.
LEMMA AddEntryLinks ==
    ASSUME LinksPre, NEW p \in Proc, AddEntry(p)
    PROVE  LinkParts'
<1>0. IInv /\ Typed /\ CallsKnow /\ LinksKnown /\ NoFreeInodePanic
  BY DEF LinksPre, IInv, LinkParts
<1>1. /\ pc[p] = "add" /\ panic' = panic /\ cpu \in {p, None}
      /\ num' = num /\ count' = count /\ dirt' = dirt /\ lock' = lock /\ dlinks' = dlinks /\ imap' = imap
  BY DEF AddEntry, Runs
<1>2. PICK t \in Slot : t = call[p].slot /\ Ref(p) = t
  BY <1>0, <1>1, AtSlot DEF WithSlot
<1>3. PICK n \in Num : n = call[p].nr /\ num[t] = n /\ n # None
  BY <1>0, <1>1, <1>2, Sizes DEF CallsKnow, At, Num, None
<1>4. \A m : Adds(p, m) <=> m = n
  BY <1>1, <1>3 DEF Adds
<1>5. NoFreeInodePanic'
  BY <1>0, <1>1 DEF NoFreeInodePanic
<1>6. CASE /\ dir[call[p].name] = None
           /\ dir' = [dir EXCEPT ![call[p].name] = call[p].nr]
           /\ fd' = [fd EXCEPT ![p] = call[p].slot]
           /\ Leave(p)
           /\ UNCHANGED links
  <2>1. PICK x \in Name : x = call[p].name
    BY <1>0, <1>1, Reads DEF CallAt
  <2>2. dir[x] = None /\ dir'[x] = n /\ \A y \in Name \ {x} : dir'[y] = dir[y]
    BY <1>0, <1>3, <1>6, <2>1, Tables
  <2>3. pc' = [pc EXCEPT ![p] = "idle"] /\ call' = [call EXCEPT ![p] = Idle] /\ pc'[p] = "idle"
    BY <1>0, <1>6 DEF Leave, Sleeps, Typed, TypeOK
  <2>4. Others(p)
    BY <1>0, <1>6, <2>3, OthersStay
  <2>5. \A m \in Num : Entries(m)' = Entries(m)
    <3> SUFFICES ASSUME NEW m \in Num PROVE Entries(m)' = Entries(m)
      OBVIOUS
    <3>1. Entries(m)' = Entries(m) + Is(dir'[x], m) - Is(dir[x], m) + Bit(Adds(p, m)') - Bit(Adds(p, m))
      BY <2>2, <2>4, EntriesStep
    <3>2. Bit(Adds(p, m)') = 0
      BY <2>3 DEF Bit, Adds
    <3>3. Bit(Adds(p, m)) = Is(n, m)
      BY <1>4 DEF Bit, Is
    <3>4. Is(dir[x], m) = 0 /\ Is(dir'[x], m) = Is(n, m) /\ Is(n, m) \in {0, 1} /\ Entries(m) \in Nat
      BY <2>2, EntriesFinite, Sizes DEF Is, Num, None
    <3> QED
      BY <3>1, <3>2, <3>3, <3>4
  <2>6. LinksKnown'
    BY <1>0, <1>1, <1>6, <2>3, <2>4, <2>5, LinksQuiet
  <2>7. CallsKnow'
    <3>0. PICK T : T = {}
      OBVIOUS
    <3>1. \A s \in Slot \ T : SameSlot(s) /\ lock'[s] = lock[s]
      BY <1>1, <1>6 DEF SameSlot
    <3>2. \A q \in Proc \ {p} : pc[q] \in Touch /\ call[q].slot \in T => At(q)'
      BY <3>0
    <3>3. At(p)' /\ pc'[p] \notin Busy
      BY <2>3 DEF At, Busy, Lone
    <3> QED
      BY <1>0, <1>1, <2>4, <3>1, <3>2, <3>3, CallsKept
  <2> QED
    BY <1>5, <2>6, <2>7 DEF LinkParts
<1>7. CASE /\ links' = [links EXCEPT ![call[p].slot] = @ - 1]
           /\ WaitsOn(p, call[p].slot, "iput")
           /\ UNCHANGED <<dir, fd, call>>
  <2>1. pc' = [pc EXCEPT ![p] = "iput"] /\ pc'[p] = "iput"
    BY <1>0, <1>7 DEF WaitsOn, Typed, TypeOK
  <2>2. Others(p)
    BY <1>0, <1>7, <2>1, OthersStay
  <2>3. links[t] = 1
    BY <1>0, <1>1, <1>2 DEF CallsKnow, At
  <2>4. links'[t] = 0 /\ \A s \in Slot \ {t} : SameSlot(s) /\ lock'[s] = lock[s]
    BY <1>0, <1>1, <1>2, <1>7, <2>3, Tables DEF SameSlot
  <2>5. ~Reading(t) /\ ~Reading(t)'
    <3>1. ~Reading(t)
      BY <1>0, <1>1, <1>2, GotIsRead
    <3> QED
      BY <1>1, <2>1, <2>2, <3>1, ReadingKept
  <2>6. Entries(n) = 1
    BY <1>0, <1>3, <2>3, <2>5, SlotKnows
  <2>7. \A m : Entries(m)' = Entries(m) - Is(n, m)
    <3> SUFFICES ASSUME NEW m PROVE Entries(m)' = Entries(m) - Is(n, m)
      OBVIOUS
    <3>1. PICK x : x = None
      OBVIOUS
    <3>2. dir' = dir /\ \A y \in Name \ {x} : dir'[y] = dir[y]
      BY <1>7
    <3>3. Entries(m)' = Entries(m) + Bit(Adds(p, m)') - Bit(Adds(p, m))
      BY <2>2, <3>2, EntriesStep
    <3>4. Bit(Adds(p, m)') = 0
      BY <2>1 DEF Bit, Adds
    <3>5. Bit(Adds(p, m)) = Is(n, m)
      BY <1>4 DEF Bit, Is
    <3>6. Entries(m) \in Nat /\ Is(n, m) \in {0, 1}
      BY EntriesFinite DEF Is
    <3> QED
      BY <3>3, <3>4, <3>5, <3>6
  <2>8. Entries(n)' = 0
    BY <2>6, <2>7 DEF Is
  <2>9. \A m \in Num \ {n} : SameNum(m)
    <3> SUFFICES ASSUME NEW m \in Num \ {n} PROVE Entries(m)' = Entries(m)
      BY <1>1 DEF SameNum
    <3> QED
      BY <2>7, EntriesFinite DEF Is
  <2>10. ASSUME NEW q \in Proc \ {p}, pc[q] \in Touch, call[q].slot = t PROVE At(q)'
    <3>1. At(q) /\ cpu # q /\ pc'[q] = pc[q] /\ call'[q] = call[q]
      BY <1>0, <1>1, <2>2, NotProc DEF CallsKnow, Others
    <3>2. pc[q] \notin Lone
      <4> SUFFICES ASSUME pc[q] \in Lone PROVE FALSE
        OBVIOUS
      <4>1. count[t] = 1 /\ Ref(q) = t
        BY <1>0, <2>10, <3>1, TouchRef DEF At, Lone
      <4> QED
        BY <1>0, <1>2, <4>1, SoleUser
    <3>3. pc[q] # "add"
      <4> SUFFICES ASSUME pc[q] = "add" PROVE FALSE
        OBVIOUS
      <4>1. Adds(q, n) /\ Adds(p, n)
        BY <1>3, <1>4, <2>10, <3>1 DEF At, Adds
      <4> QED
        BY <2>6, <4>1, AddCounts
    <3> QED
      BY <1>1, <3>1, <3>2, <3>3 DEF At, Lone
  <2>11. CallsHold(p, t)
    <3>1. At(p)' /\ pc'[p] \notin Busy
      BY <2>1 DEF At, Busy, Lone
    <3> QED
      BY <2>10, <3>1 DEF CallsHold
  <2>12. OneSlot(p, t, n)
    BY <1>1, <1>3, <1>5, <2>1, <2>2, <2>4, <2>9 DEF OneSlot
  <2>13. count'[t] # 0 /\ num'[t] = n
    BY <1>0, <1>1, <1>2, <1>3, UserCounts
  <2>14. SlotOK(t)'
    BY <1>3, <2>4, <2>8, <2>13, SlotShown
  <2>15. NumOK(n)'
    <3>1. n \in imap'
      BY <1>1, <1>3 DEF LinksPre, NumsAllocated
    <3> QED
      BY <2>5, <2>13, <3>1, NumUsed
  <2> QED
    BY <1>3, <2>11, <2>12, <2>14, <2>15, OneSlotLinks
<1> QED
  BY <1>6, <1>7 DEF AddEntry

\* iput of one user of several.
LEMMA IputLinks ==
    ASSUME LinksPre, NEW p \in Proc, Iput(p)
    PROVE  LinkParts'
<1>0. IInv /\ Typed /\ CallsKnow /\ LinksKnown /\ NoFreeInodePanic /\ LinkParts
  BY DEF LinksPre, IInv, LinkParts
<1>1. pc[p] = "iput" /\ cpu \in {p, None} /\ ~lock[call[p].slot]
  BY DEF Iput, Runs
<1>2. PICK t \in Slot : t = call[p].slot /\ Ref(p) = t /\ num[t] # None
  BY <1>0, <1>1, AtSlot DEF WithSlot
<1>3. CASE Panics("free inode")
  BY <1>0, <1>3, PanicLinks
<1>4. CASE /\ count[t] > 1
           /\ count' = [count EXCEPT ![t] = @ - 1]
           /\ Leave(p)
           /\ UNCHANGED <<num, links, dirt, lock, disk, last, fd, raced, panic>>
  <2>1. PICK n \in Num : num[t] = n /\ n # None
    BY <1>0, <1>2, NumOfSlot
  <2>2. pc' = [pc EXCEPT ![p] = "idle"] /\ call' = [call EXCEPT ![p] = Idle] /\ pc'[p] = "idle"
    BY <1>0, <1>4 DEF Leave, Sleeps, Typed, TypeOK
  <2>3. Others(p)
    BY <1>0, <1>4, <2>2, OthersStay
  <2>4. count'[t] # 0 /\ \A s \in Slot \ {t} : SameSlot(s) /\ lock'[s] = lock[s]
    BY <1>0, <1>4, Tables DEF SameSlot
  <2>5. \A m \in Num : SameNum(m)
    BY <1>1, <1>4, <2>2, <2>3, EntriesSame DEF SameNum, disk
  <2>6. OneSlot(p, t, n)
    BY <1>0, <1>1, <1>4, <2>1, <2>2, <2>3, <2>4, <2>5 DEF OneSlot, NoFreeInodePanic
  <2>7. ASSUME NEW q \in Proc \ {p}, pc[q] \in Touch, call[q].slot = t PROVE At(q)'
    <3>1. At(q) /\ pc'[q] = pc[q] /\ call'[q] = call[q] /\ cpu # q
      BY <1>0, <1>1, <2>3, NotProc DEF CallsKnow, Others
    <3>2. pc[q] \notin Lone
      BY <1>4, <2>7, <3>1 DEF At
    <3> QED
      BY <1>4, <3>1, <3>2 DEF At, Lone
  <2>8. CallsHold(p, t)
    <3>1. At(p)' /\ pc'[p] \notin Busy
      BY <2>2 DEF At, Busy, Lone
    <3> QED
      BY <2>7, <3>1 DEF CallsHold
  <2>9. ~Reading(t) /\ ~Reading(t)'
    <3>1. ~Reading(t)
      BY <1>0, <1>1, <1>2, NotRead
    <3> QED
      BY <1>1, <2>2, <2>3, <3>1, ReadingKept
  <2>10. num'[t] = n /\ links'[t] = links[t] /\ dirt'[t] = dirt[t]
    BY <1>4, <2>1
  <2>11. SlotOK(t)'
    <3>1. links[t] = Entries(n) /\ (~dirt[t] => dlinks[n] = links[t] \/ links[t] = 0)
      BY <1>0, <2>1, <2>9, SlotKnows
    <3>2. Entries(n)' = Entries(n) /\ dlinks'[n] = dlinks[n]
      BY <2>5 DEF SameNum
    <3> QED
      BY <2>1, <2>4, <2>10, <3>1, <3>2, SlotShown
  <2>12. NumOK(n)'
    <3>1. n \in imap'
      BY <1>4, <2>1 DEF LinksPre, NumsAllocated, disk
    <3> QED
      BY <2>4, <2>9, <2>10, <3>1, NumUsed
  <2> QED
    BY <2>1, <2>6, <2>8, <2>11, <2>12, OneSlotLinks
<1>5. CASE /\ count[t] = 1
           /\ Keeps(p, "last")
           /\ UNCHANGED <<table, disk, last, call, fd, raced, panic>>
  <2>1. /\ pc' = [pc EXCEPT ![p] = "last"] /\ cpu' = p /\ UNCHANGED <<table, disk, panic>>
        /\ call' = call /\ fd' = fd
    BY <1>5 DEF Keeps
  <2>2. pc'[p] = "last" /\ count' = count /\ lock' = lock
    BY <1>0, <2>1 DEF Typed, TypeOK, table
  <2>3. At(p)'
    BY <1>1, <1>2, <1>5, <2>1, <2>2 DEF At, Busy, Lone
  <2> QED
    BY <1>1, <2>1, <2>3, MoveLinks DEF Pc, Busy
<1> QED
  BY <1>2, <1>3, <1>4, <1>5 DEF Iput

\* write_inode locks the inode; nobody else is writing or reading it.
LEMMA WriteLinks ==
    ASSUME LinksPre, NEW p \in Proc, NEW t \in Slot, t = call[p].slot, ~lock[t], num[t] # None,
           NEW l \in {"iputwrite", "syncwrite"}, l = "iputwrite" => count[t] = 1,
           WriteInode(p, t, l), pc[p] \notin {"read", "add"}, cpu \in {p, None},
           UNCHANGED <<num, count, links, dirt, disk, fd, call, panic>>
    PROVE  LinkParts'
<1>0. IInv /\ Typed /\ CallsKnow /\ LinksKnown /\ NoFreeInodePanic
  BY DEF LinksPre, IInv, LinkParts
<1>1. pc' = [pc EXCEPT ![p] = l] /\ pc'[p] = l /\ lock' = [lock EXCEPT ![t] = TRUE]
  BY <1>0 DEF WriteInode, Sleeps, Typed, TypeOK
<1>2. Others(p)
  BY <1>0, <1>1, OthersStay
<1>3. lock'[t] /\ \A s \in Slot \ {t} : SameSlot(s) /\ lock'[s] = lock[s]
  BY <1>0, <1>1 DEF Typed, TypeOK, DataOK, SameSlot
<1>4. At(p)'
  BY <1>1, <1>3 DEF At, Busy, Lone
<1>5. ASSUME NEW q \in Proc \ {p}, pc[q] \in Touch, call[q].slot = t PROVE At(q)'
  <2>1. At(q) /\ cpu # q /\ pc'[q] = pc[q] /\ call'[q] = call[q]
    BY <1>0, <1>2, NotProc DEF CallsKnow, Others
  <2>2. pc[q] # "last"
    BY <2>1 DEF At
  <2> QED
    BY <1>3, <1>5, <2>1, <2>2 DEF At
<1>6. \A q \in Proc \ {p} : pc[q] \in Busy => call[q].slot # call'[p].slot
  BY <1>0, LockedTouch
<1>7. CallsKnow'
  <2>1. \A q \in Proc \ {p} : pc[q] \in Touch /\ call[q].slot \in {t} => At(q)'
    BY <1>5
  <2> QED
    BY <1>0, <1>2, <1>3, <1>4, <1>6, <2>1, CallsKept
<1>8. \A n \in Num : Entries(n)' = Entries(n)
  BY <1>1, <1>2, EntriesSame DEF disk
<1>9. LinksKnown'
  BY <1>0, <1>1, <1>2, <1>8, LinksQuiet DEF disk
<1> QED
  BY <1>0, <1>7, <1>9 DEF LinkParts, NoFreeInodePanic

\* ... and has it on the disk as it is in core.
LEMMA WroteLinks ==
    ASSUME LinksPre, NEW p \in Proc, pc[p] \in {"iputwrite", "syncwrite"}, WroteInode(call[p].slot),
           cpu \in {p, None}, NEW l \in {"last", "sync"}, pc' = [pc EXCEPT ![p] = l],
           l = "last" => pc[p] = "iputwrite" /\ cpu' = p /\ call' = call,
           call' = call \/ \E c : call' = [call EXCEPT ![p] = c],
           UNCHANGED <<num, count, links, imap, dir, fd, panic>>
    PROVE  LinkParts'
<1>0. IInv /\ Typed /\ CallsKnow /\ LinksKnown /\ NoFreeInodePanic
  BY DEF LinksPre, IInv, LinkParts
<1>1. PICK t \in Slot : t = call[p].slot /\ num[t] # None
  BY <1>0, TouchSlot DEF CallsKnow, At, Busy, Touch
<1>2. PICK n \in Num : num[t] = n /\ n # None
  BY <1>0, <1>1, NumOfSlot
<1>3. pc'[p] = l /\ Others(p)
  BY <1>0, OthersStay DEF Typed, TypeOK
<1>4. dlinks' = [dlinks EXCEPT ![n] = links[t]] /\ dirt' = [dirt EXCEPT ![t] = FALSE] /\ lock' = [lock EXCEPT ![t] = FALSE]
  BY <1>1, <1>2 DEF WroteInode
<1>5. /\ dlinks'[n] = links[t] /\ \A m \in Num \ {n} : dlinks'[m] = dlinks[m]
  BY <1>0, <1>4, Tables
<1>6. /\ ~dirt'[t] /\ ~lock'[t] /\ \A s \in Slot \ {t} : SameSlot(s) /\ lock'[s] = lock[s]
  BY <1>0, <1>4 DEF Typed, TypeOK, DataOK, SameSlot
<1>7. \A m : Entries(m)' = Entries(m)
  BY <1>3, EntriesSame
<1>8. \A m \in Num \ {n} : SameNum(m)
  BY <1>5, <1>7 DEF SameNum
<1>9. OneSlot(p, t, n)
  BY <1>0, <1>2, <1>3, <1>6, <1>8 DEF OneSlot, NoFreeInodePanic
<1>10. \A q \in Proc \ {p} : pc[q] \in Busy => call[q].slot # t
  BY <1>0, <1>1 DEF CallsKnow, BusyAlone, Busy
<1>11. ASSUME NEW q \in Proc \ {p}, pc[q] \in Touch, call[q].slot = t PROVE At(q)'
  <2>1. At(q) /\ cpu # q /\ pc'[q] = pc[q] /\ call'[q] = call[q]
    BY <1>0, <1>3, NotProc DEF CallsKnow, Others
  <2>2. pc[q] # "last" /\ pc[q] \notin Busy
    BY <1>10, <1>11, <2>1 DEF At
  <2> QED
    BY <2>1, <2>2 DEF At, Busy
<1>12. At(p)'
  <2>1. pc[p] = "iputwrite" => count[t] = 1
    BY <1>0, <1>1 DEF CallsKnow, At, Lone
  <2> QED
    BY <1>1, <1>3, <1>6, <2>1 DEF At, Busy, Lone
<1>13. CallsHold(p, t)
  BY <1>3, <1>11, <1>12 DEF CallsHold, Busy
<1>14. ~Reading(t) /\ ~Reading(t)'
  <2>1. ~Reading(t)
    BY <1>10 DEF Reading, Busy
  <2> QED
    BY <1>3, <2>1, ReadingKept
<1>15. links[t] = Entries(n) /\ (count[t] = 0 => links[t] # 0)
  BY <1>0, <1>2, <1>14, SlotKnows
<1>16. SlotOK(t)'
  BY <1>2, <1>5, <1>7, <1>15, SlotShown
<1>17. NumOK(n)'
  <2>1. NumOK(n)
    BY <1>0 DEF LinksKnown
  <2> QED
    BY <1>2, <1>7, <1>14, <2>1 DEF NumOK
<1> QED
  BY <1>2, <1>9, <1>13, <1>16, <1>17, OneSlotLinks

LEMMA IputLastLinks ==
    ASSUME LinksPre, NEW p \in Proc, IputLast(p)
    PROVE  LinkParts'
<1>0. IInv /\ Typed /\ CallsKnow /\ LinksKnown /\ NoFreeInodePanic
  BY DEF LinksPre, IInv, LinkParts
<1>1. pc[p] = "last" /\ cpu \in {p, None} /\ ~lock[call[p].slot] /\ UNCHANGED <<disk, fd, panic>>
  BY DEF IputLast, Runs
<1>2. PICK t \in Slot : t = call[p].slot /\ Ref(p) = t /\ num[t] # None /\ count[t] = 1
  BY <1>0, <1>1, AtSlot DEF WithSlot, CallsKnow, At, Lone
<1>3. CASE links[t] = 0 /\ Sleeps(p, "trunc") /\ UNCHANGED <<table, call>>
  <2>1. pc' = [pc EXCEPT ![p] = "trunc"] /\ UNCHANGED <<table, disk, panic>> /\ call' = call /\ fd' = fd
    BY <1>1, <1>3 DEF Sleeps
  <2>2. pc'[p] = "trunc" /\ count' = count /\ links' = links
    BY <1>0, <2>1 DEF Typed, TypeOK, table
  <2>3. At(p)'
    BY <1>2, <1>3, <2>1, <2>2 DEF At, Busy, Lone
  <2> QED
    BY <1>1, <2>1, <2>3, MoveLinks DEF Pc, Busy
<1>4. CASE WriteInode(p, t, "iputwrite") /\ UNCHANGED <<num, count, links, dirt, call>>
  BY <1>1, <1>2, <1>4, WriteLinks
<1>5. CASE /\ links[t] # 0 /\ ~dirt[t]
           /\ count' = [count EXCEPT ![t] = @ - 1]
           /\ Leave(p)
           /\ UNCHANGED <<num, links, dirt, lock>>
  <2>1. PICK n \in Num : num[t] = n /\ n # None
    BY <1>0, <1>2, NumOfSlot
  <2>2. pc' = [pc EXCEPT ![p] = "idle"] /\ call' = [call EXCEPT ![p] = Idle] /\ pc'[p] = "idle"
    BY <1>0, <1>5 DEF Leave, Sleeps, Typed, TypeOK
  <2>3. Others(p)
    BY <1>0, <1>1, <2>2, OthersStay
  <2>4. \A s \in Slot \ {t} : SameSlot(s) /\ lock'[s] = lock[s]
    BY <1>0, <1>5, Tables DEF SameSlot
  <2>5. \A m \in Num : SameNum(m)
    BY <1>1, <2>2, <2>3, EntriesSame DEF SameNum, disk
  <2>6. OneSlot(p, t, n)
    BY <1>0, <1>1, <1>5, <2>1, <2>2, <2>3, <2>4, <2>5 DEF OneSlot, NoFreeInodePanic
  <2>7. ASSUME NEW q \in Proc \ {p}, pc[q] \in Touch, call[q].slot = t PROVE At(q)'
    <3>1. At(q) /\ pc'[q] = pc[q] /\ call'[q] = call[q]
      BY <1>0, <2>3 DEF CallsKnow, Others
    <3>2. pc[q] = "syncwrite"
      BY <1>0, <1>2, <2>7, LoneTouch
    <3> QED
      BY <1>5, <3>1, <3>2 DEF At, Lone
  <2>8. CallsHold(p, t)
    <3>1. At(p)' /\ pc'[p] \notin Busy
      BY <2>2 DEF At, Busy, Lone
    <3> QED
      BY <2>7, <3>1 DEF CallsHold
  <2>9. ~Reading(t)
    BY <1>0, <1>1, <1>2, NotRead
  <2>10. links[t] = Entries(n) /\ (~dirt[t] => dlinks[n] = links[t] \/ links[t] = 0)
    BY <1>0, <2>1, <2>9, SlotKnows
  <2>11. Entries(n)' = Entries(n) /\ dlinks'[n] = dlinks[n]
    BY <2>5 DEF SameNum
  <2>12. SlotOK(t)'
    BY <1>5, <2>1, <2>10, <2>11, SlotShown
  <2>13. NumOK(n)'
    <3>1. dlinks'[n] = Entries(n)' /\ Entries(n)' # 0
      BY <1>5, <2>10, <2>11
    <3>2. n \in imap'
      BY <1>1, <2>1 DEF LinksPre, NumsAllocated, disk
    <3> QED
      BY <3>1, <3>2 DEF NumOK
  <2> QED
    BY <2>1, <2>6, <2>8, <2>12, <2>13, OneSlotLinks
<1> QED
  BY <1>2, <1>3, <1>4, <1>5 DEF IputLast

\* free_inode: the inode has one user, no entries and its bit.
LEMMA FreeInodeLinks ==
    ASSUME LinksPre, NEW p \in Proc, FreeInode(p), raced' = {}
    PROVE  LinkParts'
<1>0. IInv /\ Typed /\ CallsKnow /\ LinksKnown /\ NoFreeInodePanic
  BY DEF LinksPre, IInv, LinkParts
<1>1. pc[p] = "trunc" /\ cpu \in {p, None}
  BY DEF FreeInode, Runs
<1>2. PICK t \in Slot : t = call[p].slot /\ Ref(p) = t /\ num[t] # None /\ count[t] = 1 /\ links[t] = 0
  BY <1>0, <1>1, AtSlot DEF WithSlot, CallsKnow, At, Lone
<1>3. PICK n \in Num : num[t] = n /\ n # None /\ n \in imap
  BY <1>0, <1>2, NumOfSlot DEF LinksPre, NumsAllocated
<1>4. /\ imap' = imap \ {n} /\ Memset(t, 0)
      /\ raced' = raced \union (IF lock[t] THEN {"memset"} ELSE {})
      /\ Leave(p) /\ UNCHANGED <<dlinks, dir, fd, panic>>
  BY <1>2, <1>3 DEF FreeInode
<1>5. ~lock[t]
  BY <1>4
<1>6. pc' = [pc EXCEPT ![p] = "idle"] /\ call' = [call EXCEPT ![p] = Idle] /\ pc'[p] = "idle"
  BY <1>0, <1>4 DEF Leave, Sleeps, Typed, TypeOK
<1>7. Others(p)
  BY <1>0, <1>4, <1>6, OthersStay
<1>8. num'[t] = None /\ ~dirt'[t] /\ \A s \in Slot \ {t} : SameSlot(s) /\ lock'[s] = lock[s]
  BY <1>0, <1>4 DEF Memset, Typed, TypeOK, DataOK, SameSlot
<1>9. \A m : Entries(m)' = Entries(m)
  BY <1>1, <1>4, <1>6, <1>7, EntriesSame
<1>10. \A m \in Num \ {n} : SameNum(m)
  BY <1>4, <1>9 DEF SameNum
<1>11. OneSlot(p, t, n)
  BY <1>0, <1>1, <1>4, <1>6, <1>7, <1>8, <1>10 DEF OneSlot, NoFreeInodePanic
<1>12. CallsHold(p, t)
  <2>1. \A q \in Proc \ {p} : pc[q] \in Touch => call[q].slot # t
    BY <1>0, <1>2, <1>5, LoneTouch, LockedTouch DEF Busy
  <2>2. At(p)' /\ pc'[p] \notin Busy
    BY <1>6 DEF At, Busy, Lone
  <2> QED
    BY <2>1, <2>2 DEF CallsHold
<1>13. Entries(n) = 0
  <2>1. ~Reading(t)
    BY <1>0, <1>5, NotRead
  <2> QED
    BY <1>0, <1>2, <1>3, <2>1, SlotKnows
<1>14. SlotOK(t)'
  BY <1>8, SlotWiped
<1>15. NumOK(n)'
  BY <1>4, <1>9, <1>13 DEF NumOK
<1> QED
  BY <1>3, <1>11, <1>12, <1>14, <1>15, OneSlotLinks

LEMMA SyncInodesLinks ==
    ASSUME LinksPre, NEW p \in Proc, SyncInodes(p)
    PROVE  LinkParts'
<1>0. IInv /\ Typed /\ CallsKnow /\ LinksKnown
  BY DEF LinksPre, IInv, LinkParts
<1>1. /\ pc[p] = "sync" /\ cpu \in {p, None}
      /\ UNCHANGED <<num, count, links, dirt, disk, fd, panic>>
  BY DEF SyncInodes, Runs
<1>2. CASE /\ call[p].slot <= NrInode /\ ~lock[call[p].slot] /\ dirt[call[p].slot]
           /\ WriteInode(p, call[p].slot, "syncwrite")
           /\ UNCHANGED call
  <2>1. call[p].slot \in Slot
    <3>1. call[p].slot \in 1 .. NrInode + 1
      BY <1>0, <1>1, Reads DEF CallAt
    <3> QED
      BY <1>2, <3>1, Sizes DEF Slot
  <2>2. num[call[p].slot] # None
    BY <1>0, <1>2, <2>1 DEF LinksKnown, SlotOK
  <2>3. PICK t \in Slot : t = call[p].slot
    BY <2>1
  <2> QED
    BY <1>1, <1>2, <2>2, <2>3, WriteLinks
<1>3. CASE lock' = lock /\ Leave(p)
  <2>1. /\ pc' = [pc EXCEPT ![p] = "idle"] /\ call' = [call EXCEPT ![p] = Idle]
        /\ UNCHANGED <<table, disk, panic>>
    BY <1>1, <1>3 DEF Leave, Sleeps, table
  <2> QED
    BY <1>1, <2>1, AwayLinks DEF Pc
<1>4. CASE /\ lock' = lock /\ pc' = [pc EXCEPT ![p] = "sync"]
           /\ call' = call \/ call' = [call EXCEPT ![p].slot = @ + 1]
  <2>1. UNCHANGED <<table, disk, panic>>
    BY <1>1, <1>4 DEF table
  <2>2. PICK c : call' = call \/ call' = [call EXCEPT ![p] = c]
    BY <1>4
  <2> QED
    BY <1>1, <1>4, <2>1, <2>2, AwayLinks DEF Pc
<1> QED
  BY <1>2, <1>3, <1>4 DEF SyncInodes, Sleeps, Keeps

LEMMA WrittenLinks ==
    ASSUME LinksPre, NEW p \in Proc, IputWritten(p) \/ SyncWritten(p)
    PROVE  LinkParts'
<1>1. CASE IputWritten(p)
  <2>1. /\ pc[p] = "iputwrite" /\ cpu \in {p, None} /\ WroteInode(call[p].slot)
        /\ pc' = [pc EXCEPT ![p] = "last"] /\ cpu' = p /\ call' = call
        /\ UNCHANGED <<num, count, links, imap, dir, fd, panic>>
    BY <1>1 DEF IputWritten, Runs, Keeps
  <2> QED
    BY <2>1, WroteLinks
<1>2. CASE SyncWritten(p)
  <2>1. /\ pc[p] = "syncwrite" /\ cpu \in {p, None} /\ WroteInode(call[p].slot)
        /\ pc' = [pc EXCEPT ![p] = "sync"] /\ \E c : call' = [call EXCEPT ![p] = c]
        /\ UNCHANGED <<num, count, links, imap, dir, fd, panic>>
    BY <1>2 DEF SyncWritten, Runs, Keeps
  <2> QED
    BY <2>1, WroteLinks
<1> QED
  BY <1>1, <1>2

LEMMA NextLinks ==
    ASSUME IInv, NumsInv, LinksInv, [Next]_vars
    PROVE  LinksInv'
<1> SUFFICES ASSUME raced' = {} PROVE LinkParts'
  BY DEF LinksInv
<1>1. ASSUME NEW p \in Proc, Step(p) PROVE LinkParts'
  <2>1. raced = {}
    BY <1>1 DEF Step, GetEmptyInode, IgetScan, IgetMatch, ReadInode, Opened, Unlink, NewInode, AddEntry,
                Iput, IputLast, IputWritten, FreeInode, SyncInodes, SyncWritten, Panics
  <2>2. LinksPre
    BY <2>1 DEF LinksPre, NumsInv, LinksInv
  <2> QED
    BY <1>1, <2>2, GetEmptyInodeLinks, IgetScanLinks, IgetMatchLinks, ReadInodeLinks, OpenedLinks,
       UnlinkLinks, NewInodeLinks, AddEntryLinks, IputLinks, IputLastLinks, WrittenLinks,
       FreeInodeLinks, SyncInodesLinks DEF Step
<1>2. ASSUME NEW p \in Proc,
             \/ \E x \in Name : \E op \in {"open", "unlink"} : Lookup(p, op, x)
             \/ \E x \in Name : Creat(p, x)
             \/ Close(p)
             \/ Sync(p)
      PROVE  LinkParts'
  <2>1. raced = {}
    BY <1>2 DEF Lookup, Creat, Close, Sync, Begin
  <2>2. LinksPre
    BY <2>1 DEF LinksPre, NumsInv, LinksInv
  <2> QED
    BY <1>2, <2>2, BeginLinks
<1>3. CASE UNCHANGED vars
  <2>1. LinkParts /\ panic' = panic
    BY <1>3 DEF vars, LinksInv
  <2> QED
    BY <1>3, <2>1, StillLinks DEF vars, table, disk, LinkParts, NoFreeInodePanic
<1> QED
  BY <1>1, <1>2, <1>3 DEF Next

LEMMA InitLinks == Init => LinksInv
<1> SUFFICES ASSUME Init PROVE LinkParts
  BY DEF LinksInv
<1>1. CallsKnow
  BY DEF Init, CallsKnow, At, BusyAlone, Busy, Lone
<1>2. ASSUME NEW n \in Num PROVE Entries(n) = 0
  <2>1. n # None
    BY Sizes DEF Num, None
  <2>2. DirOf(n) = {} /\ AddOf(n) = {}
    BY <2>1 DEF Init, DirOf, AddOf, Adds
  <2> QED
    BY <2>2, EntriesFinite, FS_EmptySet
<1>3. LinksKnown
  BY <1>2 DEF Init, LinksKnown, SlotOK, NumOK
<1> QED
  BY <1>1, <1>3 DEF Init, LinkParts, NoFreeInodePanic

LEMMA LinksAreExact == ASSUME IInv, NumsInv, LinksInv PROVE LinksExact
<1> SUFFICES ASSUME raced = {}, LinkParts, NumsDistinct, NumsAllocated, NEW n \in Num
             PROVE  /\ panic \notin {"count", "links", "bit"}
                    /\ n \in imap => Links(n) = Entries(n)
                    /\ Entries(n) > 0 => n \in imap
                    /\ n \in imap /\ Entries(n) = 0 => \E s \in Slot : num[s] = n /\ count[s] > 0
  <2>1. ASSUME raced = {} PROVE panic \notin {"count", "links", "bit"}
    BY <2>1 DEF LinksInv, LinkParts, NoFreeInodePanic
  <2> QED
    BY <2>1 DEF LinksExact, NumsInv, LinksInv
<1>1. panic \notin {"count", "links", "bit"} /\ NumOK(n) /\ LinksKnown
  BY DEF LinkParts, NoFreeInodePanic, LinksKnown
<1>2. n # None
  BY Sizes DEF Num, None
<1>3. ASSUME n \in imap PROVE Links(n) = Entries(n)
  <2> DEFINE core == {s \in Slot : num[s] = n /\ ~Reading(s)}
  <2>1. Links(n) = IF core = {} THEN dlinks[n] ELSE links[CHOOSE s \in core : TRUE]
    BY DEF Links, Reading
  <2>2. CASE core = {}
    <3>1. \A s \in Slot : num[s] = n => Reading(s)
      BY <2>2
    <3> QED
      BY <1>1, <1>3, <2>1, <2>2, <3>1 DEF NumOK
  <2>3. CASE core # {}
    <3>1. PICK s : s = CHOOSE r \in core : TRUE
      OBVIOUS
    <3>2. s \in core
      BY <2>3, <3>1
    <3>3. links[s] = Entries(n)
      BY <1>1, <1>2, <3>2, SlotKnows
    <3> QED
      BY <2>1, <2>3, <3>1, <3>3
  <2> QED
    BY <2>2, <2>3
<1>4. Entries(n) > 0 => n \in imap
  BY <1>1, EntriesFinite DEF NumOK
<1>5. ASSUME n \in imap, Entries(n) = 0 PROVE \E s \in Slot : num[s] = n /\ count[s] > 0
  <2>1. PICK s \in Slot : num[s] = n /\ count[s] # 0
    BY <1>1, <1>5 DEF NumOK
  <2>2. count[s] > 0
    BY <2>1, CountNat
  <2> QED
    BY <2>1, <2>2
<1> QED
  BY <1>1, <1>3, <1>4, <1>5

\* As long as no iget was late, none was given a freed number and no locked inode
\* was wiped, no link count is lost between slots and disk, for any number of
\* processes, names, slots and inodes: every allocated inode has as many links as
\* entries, one with entries stays allocated, one without is still in somebody's
\* hands, and free_inode does not panic.
THEOREM LinksCounted == Spec => []LinksExact
<1>1. Init => IInv /\ OpenFree /\ NumsInv /\ LinksInv
  BY InitIInv, InitLinks DEF Init, OpenFree, NumsInv, NumsDistinct, NumsAllocated
<1>2. IInv /\ OpenFree /\ NumsInv /\ LinksInv /\ [Next]_vars => IInv' /\ OpenFree' /\ NumsInv' /\ LinksInv'
  BY NextIInv, NextNums, NextLinks DEF IInv
<1>3. IInv /\ NumsInv /\ LinksInv => LinksExact
  BY LinksAreExact
<1> QED
  BY <1>1, <1>2, <1>3, PTL DEF Spec
=============================================================================
