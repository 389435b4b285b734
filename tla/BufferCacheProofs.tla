------------------------- MODULE BufferCacheProofs -------------------------
(***************************************************************************)
(* For every number of processes, buffers and blocks: b_count is the       *)
(* number of users of a buffer, a block has one buffer, a request has its  *)
(* buffer to itself, no version of a block is lost, unless one of the      *)
(* windows that `hurt' records was hit, and the free list is one ring.     *)
(***************************************************************************)
EXTENDS BufferCache, FiniteSetsExt, FiniteSetTheorems, TLAPS

-----------------------------------------------------------------------------
\* Every set of numbers that is not empty has a least one, and Min is it.
LEMMA MinIsLeast ==
    ASSUME NEW S \in SUBSET Nat, S # {}
    PROVE  Min(S) \in S /\ \A y \in S : Min(S) <= y
<1> DEFINE R == {ss \in Nat \X Nat : ss[1] < ss[2]}
<1>1. OpToRel(<, Nat) = R
  BY Zenon DEF OpToRel
<1>2. IsWellFoundedOn(R, Nat)
  BY <1>1, NatLessThanWellFounded, Zenon
<1> HIDE DEF R
<1>3. PICK x \in S : \A y \in S : ~(<<y, x>> \in R)
  BY <1>2, WFMin, Zenon
<1>4. ASSUME NEW y \in S, y < x PROVE FALSE
  <2>1. <<y, x>> \in Nat \X Nat /\ <<y, x>>[1] < <<y, x>>[2]
    BY <1>4
  <2> QED
    BY <1>3, <2>1 DEF R
<1>5. \A y \in S : x <= y
  BY <1>4
<1> QED
  BY <1>5 DEF Min

-----------------------------------------------------------------------------
\* The types, with b_count as a number: its bound follows from its exactness.
Flags == dirt \in [Buf -> BOOLEAN] /\ uptodate \in [Buf -> BOOLEAN]

Tables ==
    /\ blk \in [Buf -> AllBlocks \union {NULL}]
    /\ count \in [Buf -> Int]
    /\ lock \in [Buf -> {NULL} \union ({"read", "write"} \X Proc \X AllBlocks)]
    /\ data \in [Buf -> Version]
    /\ disk \in [AllBlocks -> Version]
    /\ sent \in [Buf -> Version]
    /\ latest \in [AllBlocks -> Version]
    /\ calls \in 0 .. MaxCalls
    /\ faults \in 0 .. MaxFaults
    /\ hurt \in SUBSET {"evict", "modify", "error"}

Lists ==
    /\ hashed \in SUBSET Buf
    /\ nf \in [Buf -> Buf] /\ pf \in [Buf -> Buf]
    /\ freeList \in Buf

Procs ==
    /\ cpu \in Proc \union {NULL}
    /\ pc \in [Proc -> Pc]
    /\ want \in [Proc -> Block \union {NULL}]
    /\ mode \in [Proc -> {"bread", "new", "sync"}]
    /\ bh \in [Proc -> Buf \union {NULL}]
    /\ idx \in [Proc -> 1 .. NrBuffers + 1]
    /\ waiting \in SUBSET Proc

Typed == Flags /\ Tables /\ Lists /\ Procs

\* The buffer that a process counts on: the scan of the free list only looks.
Looks == {"scan", "scanwait"}
UseAt(b, l) == IF l \in Looks THEN NULL ELSE b
Use(p) == UseAt(bh[p], pc[p])

\* getblk has taken p's buffer off the queues.
TakenAt(m, l) == l = "fill" \/ (l \in {"sync", "syncio"} /\ m # "sync")
Taken(p) == TakenAt(mode[p], pc[p])

\* What a call has got, place by place.
Holds == {"hashwait", "got", "readio", "hold"}
CallAt(b, k, m, i, l) ==
    /\ l \in {"idle", "hash"} => b = NULL
    /\ l \in Looks \union Holds \union {"fill"} => b \in Buf
    /\ l \in Looks \union Holds \union {"fill", "hash"} => k \in Block /\ m # "sync"
    /\ l \in {"sync", "syncio"} => IF m = "sync" THEN b = NULL ELSE b \in Buf /\ k \in Block
    /\ l = "syncio" => i \in Buf
CallOK == \A p \in Proc : CallAt(bh[p], want[p], mode[p], idx[p], pc[p])

\* b_count is the number of users.
One(b) == IF b \in Pinned THEN 1 ELSE 0
Counts == \A b \in Buf : count[b] = Cardinality(Users(b)) + One(b)

\* A buffer that is off the queues has one user; a user of a buffer on them has
\* the block it asked for.
TakenAlone == \A p \in Proc : Taken(p) => bh[p] \notin hashed /\ count[bh[p]] = 1
HoldsBlock == \A p \in Proc : pc[p] \in Holds => bh[p] \in hashed /\ blk[bh[p]] = want[p]
PinnedKept == \A b \in Pinned : b \in hashed /\ blk[b] = -b
HashedNamed == \A b \in hashed : blk[b] # NULL

IInv == /\ Typed /\ CallOK /\ Counts /\ TakenAlone /\ HoldsBlock /\ PinnedKept
        /\ HashedNamed /\ OneBuffer

-----------------------------------------------------------------------------
\* The requests.
Reads(b) == lock[b] # NULL /\ lock[b][1] = "read"
ReadHeld == \A b \in Buf : Reads(b) => \E p \in Proc : pc[p] = "readio" /\ bh[p] = b

\* getblk and bread go on with an unlocked buffer.
GotFree == \A p \in Proc : pc[p] = "got" => cpu = p /\ lock[bh[p]] = NULL

\* sync_dev has cleaned the buffer that getblk has taken.
TakenClean ==
    \A p \in Proc : Taken(p) =>
        /\ pc[p] = "fill" \/ idx[p] > bh[p] => ~dirt[bh[p]] /\ lock[bh[p]] = NULL
        /\ pc[p] = "syncio" /\ idx[p] = bh[p] => ~dirt[bh[p]] \/ lock[bh[p]] # NULL
NullClean == \A b \in Buf : blk[b] = NULL => ~dirt[b] /\ lock[b] = NULL

\* A request is for the block that its buffer has.
LockBlock == \A b \in Buf : lock[b] # NULL => lock[b][3] = blk[b]

LockParts == GotFree /\ TakenClean /\ NullClean /\ LockBlock
LockInv == ReadHeld /\ ("error" \notin hurt => LockParts)

-----------------------------------------------------------------------------
\* The versions.
DirtyAlone == \A b, c \in Buf : dirt[b] /\ blk[b] = blk[c] /\ (c \in hashed \/ dirt[c]) => b = c
DirtyLatest == \A b \in Buf : dirt[b] => uptodate[b] /\ data[b] = latest[blk[b]]
CleanLatest == \A b \in hashed : uptodate[b] => data[b] = latest[blk[b]]
ReadsClean == \A b \in Buf : Reads(b) => ~uptodate[b] /\ ~dirt[b]
SentLatest == \A b \in Buf : lock[b] # NULL /\ lock[b][1] = "write" => dirt[b] /\ sent[b] = data[b]
HoldsUp == /\ \A p \in Proc : pc[p] = "hold" => uptodate[bh[p]]
           /\ \A b \in Pinned : uptodate[b]
OnDisk == \A k \in AllBlocks : disk[k] # latest[k] => \E b \in Buf : blk[b] = k /\ dirt[b]

VersionParts == /\ DirtyAlone /\ DirtyLatest /\ CleanLatest /\ ReadsClean
                /\ SentLatest /\ HoldsUp /\ OnDisk
VersionInv == hurt = {} => VersionParts

-----------------------------------------------------------------------------
LEMMA Consts ==
    /\ NrBuffers \in Nat /\ NrBuffers >= 1
    /\ MaxVersion \in Nat /\ MaxCalls \in Nat /\ MaxFaults \in Nat
    /\ NULL \notin Buf /\ NULL \notin Block /\ NULL \notin AllBlocks /\ NULL \notin Proc
    /\ Pinned \subseteq Buf
    /\ \A b \in Pinned : -b \in AllBlocks /\ -b \notin Block
    /\ \A k \in Block : k \in AllBlocks
BY BufferAssumption DEF Buf, AllBlocks

\* Counting the users of a buffer.
UsersOf(b) == {p \in Proc : Use(p) = b}
Is(a, b) == IF a = b THEN 1 ELSE 0

LEMMA UsersAre == \A b \in Buf : Users(b) = UsersOf(b)
BY Consts DEF Users, UsersOf, Use, UseAt, Looks

LEMMA UsersFinite == \A b : IsFiniteSet(UsersOf(b)) /\ Cardinality(UsersOf(b)) \in Nat
<1> SUFFICES ASSUME NEW b PROVE IsFiniteSet(UsersOf(b)) /\ Cardinality(UsersOf(b)) \in Nat
  OBVIOUS
<1>1. UsersOf(b) \in SUBSET Proc
  BY DEF UsersOf
<1>2. IsFiniteSet(UsersOf(b))
  BY <1>1, BufferAssumption, FS_Subset
<1> QED
  BY <1>2, FS_CardinalityType

LEMMA NoUser ==
    ASSUME NEW b, Cardinality(UsersOf(b)) = 0, NEW p \in Proc
    PROVE  Use(p) # b
<1>1. UsersOf(b) = {}
  BY UsersFinite, FS_EmptySet
<1> QED
  BY <1>1 DEF UsersOf

LEMMA SoleUser ==
    ASSUME NEW b, Cardinality(UsersOf(b)) = 1, NEW p \in Proc, Use(p) = b, NEW q \in Proc, q # p
    PROVE  Use(q) # b
<1>1. PICK x : UsersOf(b) = {x}
  BY UsersFinite, FS_Singleton
<1> QED
  BY <1>1 DEF UsersOf

LEMMA HasUser ==
    ASSUME NEW b, NEW p \in Proc, Use(p) = b
    PROVE  Cardinality(UsersOf(b)) >= 1
<1>1. p \in UsersOf(b)
  BY DEF UsersOf
<1>2. Cardinality(UsersOf(b)) # 0
  BY <1>1, UsersFinite, FS_EmptySet
<1> QED
  BY <1>2, UsersFinite

\* The other processes stay where they are.
Others(p) ==
    \A q \in Proc \ {p} :
        pc'[q] = pc[q] /\ bh'[q] = bh[q] /\ want'[q] = want[q] /\ mode'[q] = mode[q] /\ idx'[q] = idx[q]

LEMMA UsersStep ==
    ASSUME NEW p \in Proc, Others(p), NEW b
    PROVE  Cardinality(UsersOf(b))' = Cardinality(UsersOf(b)) + Is(Use(p)', b) - Is(Use(p), b)
<1> DEFINE S == UsersOf(b)
           T == UsersOf(b)'
<1>1. T = IF Use(p)' = b THEN S \union {p} ELSE S \ {p}
  BY DEF UsersOf, Others, Use
<1>2. p \in S <=> Use(p) = b
  BY DEF UsersOf
<1>3. IsFiniteSet(S) /\ Cardinality(S) \in Nat
  BY UsersFinite
<1> HIDE DEF S, T
<1>4. Cardinality(S \union {p}) = IF p \in S THEN Cardinality(S) ELSE Cardinality(S) + 1
  BY <1>3, FS_AddElement
<1>5. Cardinality(S \ {p}) = IF p \in S THEN Cardinality(S) - 1 ELSE Cardinality(S)
  BY <1>3, FS_RemoveElement
<1>6. Cardinality(T) = Cardinality(S) + Is(Use(p)', b) - Is(Use(p), b)
  BY <1>1, <1>2, <1>3, <1>4, <1>5 DEF Is
<1> QED
  BY <1>6 DEF S, T

\* What the counts say.
LEMMA CountIs ==
    Counts => \A b \in Buf : /\ count[b] = Cardinality(UsersOf(b)) + One(b)
                             /\ Cardinality(UsersOf(b)) \in Nat /\ One(b) \in {0, 1}
BY UsersAre, UsersFinite DEF Counts, One

LEMMA UsesOf ==
    ASSUME CallOK, NEW p \in Proc
    PROVE  /\ Taken(p) => bh[p] \in Buf /\ Use(p) = bh[p]
           /\ pc[p] \in Holds => bh[p] \in Buf /\ Use(p) = bh[p]
           /\ Use(p) # NULL => Use(p) = bh[p] /\ (Taken(p) \/ pc[p] \in Holds \/ pc[p] \notin Pc)
BY Consts DEF CallOK, CallAt, Taken, TakenAt, Use, UseAt, Holds, Looks, Pc

\* A process other than p has a taken buffer to itself.
LEMMA TakenApart ==
    ASSUME CallOK, Counts, TakenAlone, NEW p \in Proc, NEW q \in Proc, q # p, Taken(q)
    PROVE  Use(p) # bh[q] /\ bh[q] \notin Pinned
<1>1. bh[q] \in Buf /\ Use(q) = bh[q] /\ count[bh[q]] = 1
  BY UsesOf DEF TakenAlone
<1>2. Cardinality(UsersOf(bh[q])) >= 1
  BY <1>1, HasUser
<1>3. Cardinality(UsersOf(bh[q])) = 1 /\ One(bh[q]) = 0
  BY <1>1, <1>2, CountIs
<1> QED
  BY <1>1, <1>3, SoleUser DEF One

\* The counts follow one process.
CountStep(p) == \A b \in Buf : count'[b] = count[b] + Is(Use(p)', b) - Is(Use(p), b)

LEMMA CountsKept ==
    ASSUME Counts, NEW p \in Proc, Others(p), CountStep(p)
    PROVE  Counts'
<1> SUFFICES ASSUME NEW b \in Buf PROVE count'[b] = Cardinality(Users(b))' + One(b)
  BY DEF Counts, One
<1>1. Cardinality(UsersOf(b))' = Cardinality(UsersOf(b)) + Is(Use(p)', b) - Is(Use(p), b)
  BY UsersStep
<1>2. count[b] = Cardinality(UsersOf(b)) + One(b) /\ Cardinality(UsersOf(b)) \in Nat /\ One(b) \in {0, 1}
  BY CountIs
<1>3. Users(b)' = UsersOf(b)'
  BY Consts DEF Users, UsersOf, Use, UseAt, Looks
<1>4. Is(Use(p)', b) \in {0, 1} /\ Is(Use(p), b) \in {0, 1}
  BY DEF Is
<1> QED
  BY <1>1, <1>2, <1>3, <1>4 DEF CountStep

\* p's own place after the step.
OwnCall(p) == CallAt(bh'[p], want'[p], mode'[p], idx'[p], pc'[p])
OwnTaken(p) == Taken(p)' => bh'[p] \notin hashed' /\ count'[bh'[p]] = 1
OwnHolds(p) == pc'[p] \in Holds => bh'[p] \in hashed' /\ blk'[bh'[p]] = want'[p]

\* A step of p that leaves the queues alone, and counts only on a buffer that
\* is on them or that p counted on before.
LEMMA ProcIInv ==
    ASSUME IInv, NEW p \in Proc, Others(p), CountStep(p), Typed', hashed' = hashed, blk' = blk,
           OwnCall(p), OwnTaken(p), OwnHolds(p),
           Use(p)' \in {NULL, Use(p)} \/ Use(p)' \in hashed
    PROVE  IInv'
<1>1. CallOK'
  BY DEF IInv, CallOK, Others, OwnCall
<1>2. Counts'
  BY CountsKept DEF IInv
<1>3. TakenAlone'
  <2> SUFFICES ASSUME NEW q \in Proc, q # p, Taken(q)'
               PROVE  bh'[q] \notin hashed' /\ count'[bh'[q]] = 1
    BY DEF TakenAlone, OwnTaken
  <2>1. Taken(q) /\ bh'[q] = bh[q]
    BY DEF Taken, Others
  <2>2. bh[q] \in Buf /\ bh[q] \notin hashed /\ count[bh[q]] = 1
    BY <2>1, UsesOf DEF IInv, TakenAlone
  <2>3. Use(p) # bh[q]
    BY <2>1, TakenApart DEF IInv
  <2>4. Use(p)' # bh[q]
    BY <2>2, <2>3, Consts
  <2> QED
    BY <2>1, <2>2, <2>3, <2>4 DEF CountStep, Is
<1>4. HoldsBlock'
  BY DEF IInv, HoldsBlock, Others, OwnHolds
<1>5. PinnedKept' /\ HashedNamed' /\ OneBuffer'
  BY DEF IInv, PinnedKept, HashedNamed, OneBuffer
<1> QED
  BY <1>1, <1>2, <1>3, <1>4, <1>5 DEF IInv

LEMMA SameCount ==
    ASSUME Tables, NEW p \in Proc, count' = count, Use(p)' = Use(p)
    PROVE  CountStep(p)
BY DEF Tables, CountStep, Is

LEMMA OneMore ==
    ASSUME Tables, NEW p \in Proc, NEW b \in Buf, count' = [count EXCEPT ![b] = @ + 1],
           Use(p) = NULL, Use(p)' = b
    PROVE  CountStep(p) /\ count' \in [Buf -> Int]
<1>1. count \in [Buf -> Int]
  BY DEF Tables
<1>2. count' \in [Buf -> Int] /\ \A c \in Buf : c # b => count'[c] = count[c]
  BY <1>1
<1>3. count'[b] = count[b] + 1
  BY <1>1
<1> QED
  BY <1>1, <1>2, <1>3, Consts DEF CountStep, Is

LEMMA OneLess ==
    ASSUME Tables, NEW p \in Proc, NEW b \in Buf, count' = [count EXCEPT ![b] = @ - 1],
           Use(p) = b, Use(p)' = NULL
    PROVE  CountStep(p) /\ count' \in [Buf -> Int]
<1>1. count \in [Buf -> Int]
  BY DEF Tables
<1>2. count' \in [Buf -> Int] /\ \A c \in Buf : c # b => count'[c] = count[c]
  BY <1>1
<1>3. count'[b] = count[b] - 1
  BY <1>1
<1> QED
  BY <1>1, <1>2, <1>3, Consts DEF CountStep, Is

-----------------------------------------------------------------------------
\* The actions, one by one.
LEMMA StartIInv ==
    ASSUME IInv, NEW p \in Proc, NEW k \in Block, NEW m \in {"bread", "new"}, Start(p, k, m)
    PROVE  IInv'
<1> USE DEF Start, Keeps, bufVars, listVars, histVars
<1>0. bh[p] = NULL
  BY DEF IInv, CallOK, CallAt
<1>1. Typed'
  <2>1. Flags' /\ Lists'
    BY DEF IInv, Typed, Flags, Lists
  <2>2. Tables'
    BY Consts DEF IInv, Typed, Tables
  <2>3. Procs'
    BY DEF IInv, Typed, Procs, Pc
  <2> QED
    BY <2>1, <2>2, <2>3 DEF Typed
<1>2. Others(p) /\ pc'[p] = "hash" /\ want'[p] = k /\ mode'[p] = m /\ bh'[p] = NULL
  BY <1>0 DEF Others, IInv, Typed, Procs
<1>3. Use(p) = NULL /\ Use(p)' = NULL
  BY <1>0, <1>2 DEF Use, UseAt
<1>4. CountStep(p)
  BY <1>3, SameCount DEF IInv, Typed
<1>5. OwnCall(p) /\ OwnTaken(p) /\ OwnHolds(p)
  BY <1>2 DEF OwnCall, CallAt, OwnTaken, Taken, TakenAt, OwnHolds, Holds, Looks
<1> QED
  BY <1>1, <1>2, <1>3, <1>4, <1>5, ProcIInv

LEMMA SysSyncIInv ==
    ASSUME IInv, NEW p \in Proc, SysSync(p)
    PROVE  IInv'
<1> USE DEF SysSync, Keeps, bufVars, listVars, histVars
<1>0. bh[p] = NULL
  BY DEF IInv, CallOK, CallAt
<1>1. Typed'
  <2>1. Flags' /\ Lists'
    BY DEF IInv, Typed, Flags, Lists
  <2>2. Tables'
    BY Consts DEF IInv, Typed, Tables
  <2>3. Procs'
    BY Consts DEF IInv, Typed, Procs, Pc
  <2> QED
    BY <2>1, <2>2, <2>3 DEF Typed
<1>2. Others(p) /\ pc'[p] = "sync" /\ mode'[p] = "sync" /\ bh'[p] = NULL
  BY <1>0 DEF Others, IInv, Typed, Procs
<1>3. Use(p) = NULL /\ Use(p)' = NULL
  BY <1>0, <1>2 DEF Use, UseAt
<1>4. CountStep(p)
  BY <1>3, SameCount DEF IInv, Typed
<1>5. OwnCall(p) /\ OwnTaken(p) /\ OwnHolds(p)
  BY <1>2 DEF OwnCall, CallAt, OwnTaken, Taken, TakenAt, OwnHolds, Holds, Looks
<1> QED
  BY <1>1, <1>2, <1>3, <1>4, <1>5, ProcIInv

LEMMA GetHashTableIInv ==
    ASSUME IInv, NEW p \in Proc, GetHashTable(p)
    PROVE  IInv'
<1> USE DEF listVars, histVars
<1>0. pc[p] = "hash" /\ bh[p] = NULL /\ want[p] \in Block /\ mode[p] # "sync"
  BY DEF GetHashTable, Runs, IInv, CallOK, CallAt
<1>a. Use(p) = NULL
  BY <1>0 DEF Use, UseAt
<1>b. Flags' /\ Lists'
  BY DEF GetHashTable, IInv, Typed, Flags, Lists
<1>1. CASE \E b \in Found(want[p]) :
            /\ count' = [count EXCEPT ![b] = @ + 1]
            /\ bh' = [bh EXCEPT ![p] = b]
            /\ WaitsOn(p, b, "hashwait")
  <2>1. PICK b \in Found(want[p]) :
            /\ count' = [count EXCEPT ![b] = @ + 1]
            /\ bh' = [bh EXCEPT ![p] = b]
            /\ WaitsOn(p, b, "hashwait")
    BY <1>1
  <2>2. b \in hashed /\ b \in Buf /\ blk[b] = want[p]
    BY DEF Found, IInv, Typed, Lists
  <2>3. Procs'
    BY <2>1, <2>2 DEF GetHashTable, WaitsOn, IInv, Typed, Procs, Pc
  <2>4. Others(p) /\ pc'[p] = "hashwait" /\ want'[p] = want[p] /\ mode'[p] = mode[p] /\ bh'[p] = b
    BY <2>1 DEF GetHashTable, WaitsOn, Others, IInv, Typed, Procs
  <2>5. Use(p)' = b
    BY <2>4 DEF Use, UseAt, Looks
  <2>6. CountStep(p) /\ count' \in [Buf -> Int]
    BY <1>a, <2>1, <2>2, <2>5, OneMore DEF IInv, Typed
  <2>7. Typed'
    BY <1>b, <2>3, <2>6 DEF GetHashTable, IInv, Typed, Tables
  <2>8. OwnCall(p) /\ OwnTaken(p) /\ OwnHolds(p) /\ hashed' = hashed /\ blk' = blk
    BY <1>0, <2>2, <2>4 DEF GetHashTable, OwnCall, CallAt, OwnTaken, Taken, TakenAt, OwnHolds, Holds, Looks
  <2> QED
    BY <2>2, <2>4, <2>5, <2>6, <2>7, <2>8, ProcIInv
<1>2. CASE /\ bh' = [bh EXCEPT ![p] = freeList]
           /\ Keeps(p, "scan")
           /\ UNCHANGED count
  <2>1. Procs' /\ freeList \in Buf
    BY <1>2 DEF GetHashTable, Keeps, IInv, Typed, Procs, Lists, Pc
  <2>2. Others(p) /\ pc'[p] = "scan" /\ want'[p] = want[p] /\ mode'[p] = mode[p] /\ bh'[p] = freeList
    BY <1>2 DEF GetHashTable, Keeps, Others, IInv, Typed, Procs
  <2>3. Use(p)' = NULL
    BY <2>2 DEF Use, UseAt, Looks
  <2>4. CountStep(p)
    BY <1>a, <1>2, <2>3, SameCount DEF IInv, Typed
  <2>5. Typed'
    BY <1>b, <1>2, <2>1 DEF GetHashTable, IInv, Typed, Tables
  <2>6. OwnCall(p) /\ OwnTaken(p) /\ OwnHolds(p) /\ hashed' = hashed /\ blk' = blk
    BY <1>0, <2>1, <2>2 DEF GetHashTable, OwnCall, CallAt, OwnTaken, Taken, TakenAt, OwnHolds, Holds, Looks
  <2> QED
    BY <2>2, <2>3, <2>4, <2>5, <2>6, ProcIInv
<1> QED
  BY <1>1, <1>2 DEF GetHashTable

\* The counted buffer is still the block's: HoldsBlock.
LEMMA HashWaitIInv ==
    ASSUME IInv, NEW p \in Proc, HashWait(p)
    PROVE  IInv'
<1> USE DEF listVars, histVars
<1> DEFINE b == bh[p]
<1>0. pc[p] = "hashwait" /\ b \in Buf /\ want[p] \in Block /\ mode[p] # "sync"
  BY DEF HashWait, Runs, IInv, CallOK, CallAt, Holds, Looks
<1>1. b \in hashed /\ blk[b] = want[p]
  BY <1>0 DEF IInv, HoldsBlock, Holds
<1>2. /\ pc' = [pc EXCEPT ![p] = "got"] /\ cpu' = p
      /\ count' = [count EXCEPT ![b] = @] /\ bh' = [bh EXCEPT ![p] = b] /\ waiting' = waiting
      /\ UNCHANGED <<blk, dirt, uptodate, lock, data, listVars, disk, sent, want, mode, idx, histVars, calls>>
  BY <1>1 DEF HashWait, Keeps
<1>3. count' = count /\ bh' = bh
  BY <1>2 DEF IInv, Typed, Tables, Procs
<1>4. Flags' /\ Lists'
  BY <1>2 DEF IInv, Typed, Flags, Lists
<1>5. Procs'
  BY <1>2 DEF IInv, Typed, Procs, Pc
<1>6. Typed'
  BY <1>2, <1>3, <1>4, <1>5 DEF IInv, Typed, Tables
<1>7. Others(p) /\ pc'[p] = "got" /\ want'[p] = want[p] /\ mode'[p] = mode[p] /\ bh'[p] = b
  BY <1>2, <1>3 DEF Others, IInv, Typed, Procs
<1>8. Use(p)' = b /\ Use(p) = b
  BY <1>0, <1>7 DEF Use, UseAt, Looks
<1>9. CountStep(p)
  BY <1>3, <1>8, SameCount DEF IInv, Typed
<1>10. OwnCall(p) /\ OwnTaken(p) /\ OwnHolds(p) /\ hashed' = hashed /\ blk' = blk
  BY <1>0, <1>1, <1>2, <1>7 DEF OwnCall, CallAt, OwnTaken, Taken, TakenAt, OwnHolds, Holds, Looks
<1> QED
  BY <1>6, <1>7, <1>8, <1>9, <1>10, ProcIInv

\* The scan counts on no buffer, whatever b_next_free leads it to.
LEMMA NextFreeIInv ==
    ASSUME IInv, NEW p \in Proc, pc[p] \in Looks, NextFree(p),
           UNCHANGED <<bufVars, listVars, disk, sent, want, mode, idx, histVars, calls>>
    PROVE  IInv'
<1> USE DEF bufVars, listVars, histVars
<1>0. bh[p] \in Buf /\ want[p] \in Block /\ mode[p] # "sync" /\ nf[bh[p]] \in Buf
  BY DEF IInv, Typed, Lists, CallOK, CallAt, Looks
<1>1. Others(p) /\ want'[p] = want[p] /\ mode'[p] = mode[p]
  BY DEF NextFree, Keeps, Yields, Others, IInv, Typed, Procs
<1>2. \/ pc'[p] = "scan" /\ bh'[p] = nf[bh[p]]
      \/ pc'[p] = "hash" /\ bh'[p] = NULL
  BY DEF NextFree, Keeps, Yields, IInv, Typed, Procs
<1>3. Typed'
  <2>1. Flags' /\ Lists'
    BY DEF IInv, Typed, Flags, Lists
  <2>2. Tables'
    BY DEF IInv, Typed, Tables
  <2>3. Procs'
    BY <1>0 DEF NextFree, Keeps, Yields, IInv, Typed, Procs, Pc
  <2> QED
    BY <2>1, <2>2, <2>3 DEF Typed
<1>4. Use(p) = NULL /\ Use(p)' = NULL
  BY <1>2 DEF Use, UseAt, Looks
<1>5. CountStep(p)
  BY <1>4, SameCount DEF IInv, Typed
<1>6. OwnCall(p) /\ OwnTaken(p) /\ OwnHolds(p)
  BY <1>0, <1>1, <1>2 DEF OwnCall, CallAt, OwnTaken, Taken, TakenAt, OwnHolds, Holds, Looks
<1> QED
  BY <1>1, <1>3, <1>4, <1>5, <1>6, ProcIInv

LEMMA ScanIInv ==
    ASSUME IInv, NEW p \in Proc, Scan(p)
    PROVE  IInv'
<1> USE DEF bufVars, listVars, histVars
<1>1. CASE NextFree(p)
  BY <1>1, NextFreeIInv DEF Scan, Runs, Looks
<1>2. CASE WaitsOn(p, bh[p], "scanwait") /\ UNCHANGED <<bh, waiting>>
  <2>0. bh[p] \in Buf /\ want[p] \in Block /\ mode[p] # "sync" /\ pc[p] = "scan"
    BY DEF Scan, Runs, IInv, CallOK, CallAt, Looks
  <2>1. Others(p) /\ want'[p] = want[p] /\ mode'[p] = mode[p] /\ pc'[p] = "scanwait" /\ bh'[p] = bh[p]
    BY <1>2 DEF Scan, WaitsOn, Others, IInv, Typed, Procs
  <2>2. Typed'
    <3>1. Flags' /\ Lists'
      BY DEF Scan, IInv, Typed, Flags, Lists
    <3>2. Tables'
      BY DEF Scan, IInv, Typed, Tables
    <3>3. Procs'
      BY <1>2 DEF Scan, WaitsOn, IInv, Typed, Procs, Pc
    <3> QED
      BY <3>1, <3>2, <3>3 DEF Typed
  <2>3. Use(p) = NULL /\ Use(p)' = NULL
    BY <2>0, <2>1 DEF Use, UseAt, Looks
  <2>4. CountStep(p)
    BY <2>3, SameCount DEF Scan, IInv, Typed
  <2>5. OwnCall(p) /\ OwnTaken(p) /\ OwnHolds(p) /\ hashed' = hashed /\ blk' = blk
    BY <2>0, <2>1 DEF Scan, OwnCall, CallAt, OwnTaken, Taken, TakenAt, OwnHolds, Holds, Looks
  <2> QED
    BY <2>1, <2>2, <2>3, <2>4, <2>5, ProcIInv
<1> QED
  BY <1>1, <1>2 DEF Scan

\* getblk takes a buffer that nobody counts on.
Takes(p, b) ==
    /\ count[b] = 0
    /\ count' = [count EXCEPT ![b] = 1]
    /\ RemoveFromQueues(b)
    /\ Keeps(p, IF dirt[b] THEN "sync" ELSE "fill")
    /\ idx' = [idx EXCEPT ![p] = 1]
    /\ UNCHANGED <<bh, waiting, blk, dirt, uptodate, lock, data, disk, sent, want, mode, histVars, calls>>

LEMMA TakesIInv ==
    ASSUME IInv, NEW p \in Proc, pc[p] = "scanwait", Takes(p, bh[p])
    PROVE  IInv'
<1> USE DEF histVars
<1> DEFINE b == bh[p]
<1>0. b \in Buf /\ want[p] \in Block /\ mode[p] # "sync" /\ Use(p) = NULL
  BY DEF IInv, CallOK, CallAt, Looks, Use, UseAt
<1>1. count \in [Buf -> Int] /\ count[b] = 0
  BY DEF Takes, IInv, Typed, Tables
<1>2. count'[b] = 1 /\ count' \in [Buf -> Int] /\ \A c \in Buf : c # b => count'[c] = count[c]
  BY <1>0, <1>1 DEF Takes
<1>3. Others(p) /\ want'[p] = want[p] /\ mode'[p] = mode[p] /\ bh'[p] = b /\ pc'[p] \in {"sync", "fill"} /\ bh' = bh
  BY DEF Takes, Keeps, Others, IInv, Typed, Procs
<1>4. Use(p)' = b
  BY <1>3 DEF Use, UseAt, Looks
<1>5. CountStep(p)
  BY <1>0, <1>1, <1>2, <1>4, Consts DEF CountStep, Is
<1>6. hashed' = hashed \ {b} /\ blk' = blk
  BY DEF Takes, RemoveFromQueues
<1>7. Cardinality(UsersOf(b)) = 0 /\ One(b) = 0
  BY <1>0, <1>1, CountIs DEF IInv
<1>8. b \notin Pinned /\ \A q \in Proc : Use(q) # b
  BY <1>7, NoUser DEF One
<1>9. Typed'
  <2>1. Flags'
    BY DEF Takes, IInv, Typed, Flags
  <2>2. Lists'
    BY <1>0 DEF Takes, RemoveFromQueues, IInv, Typed, Lists
  <2>3. Tables'
    BY <1>2 DEF Takes, IInv, Typed, Tables
  <2>4. Procs'
    BY Consts DEF Takes, Keeps, IInv, Typed, Procs, Pc
  <2> QED
    BY <2>1, <2>2, <2>3, <2>4 DEF Typed
<1>10. CallOK'
  <2>1. OwnCall(p)
    BY <1>0, <1>3 DEF OwnCall, CallAt, Looks, Holds
  <2> QED
    BY <2>1, <1>3 DEF IInv, CallOK, Others, OwnCall
<1>11. Counts'
  BY <1>3, <1>5, CountsKept DEF IInv
<1>12. TakenAlone'
  <2> SUFFICES ASSUME NEW q \in Proc, q # p, Taken(q)'
               PROVE  bh[q] \notin hashed /\ bh[q] # b /\ count'[bh[q]] = 1
    BY <1>2, <1>3, <1>6 DEF TakenAlone
  <2>1. Taken(q)
    BY <1>3 DEF Taken, Others
  <2>2. bh[q] \in Buf /\ bh[q] \notin hashed /\ count[bh[q]] = 1 /\ Use(q) = bh[q]
    BY <2>1, UsesOf DEF IInv, TakenAlone
  <2> QED
    BY <1>2, <1>8, <2>2
<1>13. HoldsBlock'
  <2> SUFFICES ASSUME NEW q \in Proc, q # p, pc[q] \in Holds
               PROVE  bh[q] \in hashed /\ bh[q] # b /\ blk[bh[q]] = want'[q]
    BY <1>3, <1>6 DEF HoldsBlock, Others, Holds
  <2>1. Use(q) = bh[q]
    BY UsesOf DEF IInv
  <2> QED
    BY <1>3, <1>8, <2>1 DEF IInv, HoldsBlock, Others
<1>14. PinnedKept' /\ HashedNamed' /\ OneBuffer'
  BY <1>6, <1>8 DEF IInv, PinnedKept, HashedNamed, OneBuffer
<1> QED
  BY <1>9, <1>10, <1>11, <1>12, <1>13, <1>14 DEF IInv

LEMMA ScanWaitIInv ==
    ASSUME IInv, NEW p \in Proc, ScanWait(p)
    PROVE  IInv'
<1>1. CASE NextFree(p) /\ UNCHANGED <<count, listVars, idx>>
  BY <1>1, NextFreeIInv DEF ScanWait, Runs, Looks, bufVars
<1>2. CASE Takes(p, bh[p])
  BY <1>2, TakesIInv DEF ScanWait, Runs
<1> QED
  BY <1>1, <1>2 DEF ScanWait, Takes

\* A request for a buffer that has a block.
LEMMA StartIoTyped ==
    ASSUME Tables, NEW p \in Proc, NEW b \in Buf, NEW c \in {"read", "write"}, blk[b] # NULL,
           StartIo(p, b, c)
    PROVE  /\ lock' \in [Buf -> {NULL} \union ({"read", "write"} \X Proc \X AllBlocks)]
           /\ sent' \in [Buf -> Version]
BY DEF Tables, StartIo

\* Inside sync_dev and sys_sync nothing is counted or dropped.
LEMMA SyncMove ==
    ASSUME IInv, NEW p \in Proc, pc[p] \in {"sync", "syncio"}, pc'[p] \in {"sync", "syncio"},
           pc'[p] = "syncio" => idx'[p] \in Buf,
           Others(p), want' = want, mode' = mode, bh' = bh, count' = count, hashed' = hashed, blk' = blk,
           Typed'
    PROVE  IInv'
<1>1. Use(p)' = Use(p)
  BY DEF Use, UseAt, Looks
<1>2. CountStep(p)
  BY <1>1, SameCount DEF IInv, Typed
<1>3. OwnCall(p)
  BY DEF OwnCall, IInv, CallOK, CallAt, Looks, Holds
<1>4. OwnTaken(p) /\ OwnHolds(p)
  BY DEF IInv, OwnTaken, TakenAlone, Taken, TakenAt, OwnHolds, Holds
<1> QED
  BY <1>1, <1>2, <1>3, <1>4, ProcIInv

LEMMA SyncDevIInv ==
    ASSUME IInv, NEW p \in Proc, SyncDev(p)
    PROVE  IInv'
<1> USE DEF listVars, histVars
<1> DEFINE i == idx[p]
<1>0. pc[p] = "sync" /\ i \in Buf /\ i + 1 \in 1 .. NrBuffers + 1
  BY Consts DEF SyncDev, Runs, IInv, Typed, Procs, Buf
<1>1. /\ want' = want /\ mode' = mode /\ bh' = bh /\ count' = count /\ hashed' = hashed /\ blk' = blk
      /\ Flags' /\ Lists'
  BY DEF SyncDev, IInv, Typed, Flags, Lists
<1>2. CASE /\ pc' = [pc EXCEPT ![p] = "sync"] /\ cpu' \in {p, NULL}
           /\ SyncNext(p, i) \/ idx' = idx
           /\ UNCHANGED <<lock, sent>>
  <2>1. Others(p) /\ pc'[p] = "sync"
    BY <1>1, <1>2 DEF SyncNext, Others, IInv, Typed, Procs
  <2>2. Tables'
    BY <1>2 DEF SyncDev, IInv, Typed, Tables
  <2>3. Procs'
    BY <1>0, <1>1, <1>2 DEF SyncDev, SyncNext, IInv, Typed, Procs, Pc
  <2> QED
    BY <1>0, <1>1, <2>1, <2>2, <2>3, SyncMove DEF Typed
<1>3. CASE blk[i] # NULL /\ StartIo(p, i, "write") /\ Yields(p, "syncio") /\ UNCHANGED idx
  <2>1. Others(p) /\ pc'[p] = "syncio" /\ idx'[p] = i
    BY <1>1, <1>3 DEF Yields, Others, IInv, Typed, Procs
  <2>2. Tables'
    <3>1. /\ lock' \in [Buf -> {NULL} \union ({"read", "write"} \X Proc \X AllBlocks)]
          /\ sent' \in [Buf -> Version]
      BY <1>0, <1>3, StartIoTyped DEF IInv, Typed
    <3> QED
      BY <3>1 DEF SyncDev, IInv, Typed, Tables
  <2>3. Procs'
    BY <1>0, <1>1, <1>3 DEF SyncDev, Yields, IInv, Typed, Procs, Pc
  <2> QED
    BY <1>0, <1>1, <2>1, <2>2, <2>3, SyncMove DEF Typed
<1> QED
  BY <1>2, <1>3 DEF SyncDev, Keeps, Yields

LEMMA SyncWrittenIInv ==
    ASSUME IInv, NEW p \in Proc, SyncWritten(p)
    PROVE  IInv'
<1> USE DEF bufVars, listVars, histVars
<1>0. pc[p] = "syncio" /\ idx[p] \in Buf
  BY DEF SyncWritten, Runs, IInv, CallOK, CallAt
<1>1. Flags' /\ Lists'
  BY DEF SyncWritten, IInv, Typed, Flags, Lists
<1>2. Tables'
  BY DEF SyncWritten, IInv, Typed, Tables
<1>3. Procs'
  BY <1>0, Consts DEF SyncWritten, Keeps, SyncNext, IInv, Typed, Procs, Pc, Buf
<1>4. Others(p) /\ pc'[p] = "sync"
  BY DEF SyncWritten, Keeps, SyncNext, Others, IInv, Typed, Procs
<1> QED
  BY <1>0, <1>1, <1>2, <1>3, <1>4, SyncMove DEF SyncWritten, Typed

LEMMA SyncEndsIInv ==
    ASSUME IInv, NEW p \in Proc, SyncEnds(p)
    PROVE  IInv'
<1> USE DEF bufVars, listVars, histVars
<1>0. pc[p] = "sync"
  BY DEF SyncEnds, Runs
<1>1. Flags' /\ Lists' /\ hashed' = hashed /\ blk' = blk /\ count' = count
  BY DEF SyncEnds, IInv, Typed, Flags, Lists
<1>2. Tables'
  BY DEF SyncEnds, IInv, Typed, Tables
<1>3. Procs'
  BY Consts DEF SyncEnds, Leave, Keeps, Yields, IInv, Typed, Procs, Pc
<1>4. Others(p)
  BY DEF SyncEnds, Leave, Keeps, Yields, Others, IInv, Typed, Procs
<1>5. CASE mode[p] = "sync" /\ Leave(p)
  <2>1. bh[p] = NULL
    BY <1>0, <1>5 DEF IInv, CallOK, CallAt
  <2>2. pc'[p] = "idle" /\ bh'[p] = NULL
    BY <1>5 DEF Leave, Yields, IInv, Typed, Procs
  <2>3. Use(p) = NULL /\ Use(p)' = NULL
    BY <2>1, <2>2 DEF Use, UseAt
  <2>4. OwnCall(p) /\ OwnTaken(p) /\ OwnHolds(p)
    BY <2>2 DEF OwnCall, CallAt, OwnTaken, Taken, TakenAt, OwnHolds, Holds, Looks
  <2>5. CountStep(p)
    BY <1>1, <2>3, SameCount DEF IInv, Typed
  <2> QED
    BY <1>1, <1>2, <1>3, <1>4, <2>3, <2>4, <2>5, ProcIInv DEF Typed
<1>6. CASE mode[p] # "sync" /\ Keeps(p, "fill") /\ UNCHANGED <<want, mode, bh>>
  <2>1. Taken(p) /\ bh[p] \in Buf /\ want[p] \in Block
    BY <1>0, <1>6 DEF IInv, CallOK, CallAt, Taken, TakenAt
  <2>2. pc'[p] = "fill"
    BY <1>6 DEF Keeps, IInv, Typed, Procs
  <2>3. Use(p)' = Use(p)
    BY <1>0, <1>6, <2>2 DEF Use, UseAt, Looks
  <2>4. OwnCall(p) /\ OwnTaken(p) /\ OwnHolds(p)
    BY <1>1, <1>6, <2>1, <2>2 DEF IInv, TakenAlone, OwnCall, CallAt, OwnTaken, Taken, TakenAt, OwnHolds, Holds, Looks
  <2>5. CountStep(p)
    BY <1>1, <2>3, SameCount DEF IInv, Typed
  <2> QED
    BY <1>1, <1>2, <1>3, <1>4, <2>3, <2>4, <2>5, ProcIInv DEF Typed
<1> QED
  BY <1>5, <1>6 DEF SyncEnds

\* getblk puts its buffer back, as the block's unless somebody was faster: the
\* block is on no hash queue then.
LEMMA FillIInv ==
    ASSUME IInv, NEW p \in Proc, Fill(p)
    PROVE  IInv'
<1> DEFINE b == bh[p]
           k == want[p]
<1>0. pc[p] = "fill" /\ b \in Buf /\ k \in Block /\ mode[p] # "sync"
  BY DEF Fill, Runs, IInv, CallOK, CallAt, Holds, Looks
<1>1. Taken(p) /\ Use(p) = b /\ b \notin hashed /\ count[b] = 1
  BY <1>0, UsesOf DEF IInv, TakenAlone, Taken, TakenAt
<1>2. count \in [Buf -> Int] /\ blk \in [Buf -> AllBlocks \union {NULL}] /\ freeList \in Buf
  BY DEF IInv, Typed, Tables, Lists
<1>3. Cardinality(UsersOf(b)) = 1 /\ b \notin Pinned
  <2>1. Cardinality(UsersOf(b)) >= 1
    BY <1>1, HasUser
  <2> QED
    BY <1>0, <1>1, <2>1, CountIs DEF IInv, One
<1>4. \A q \in Proc : q # p => Use(q) # b
  BY <1>1, <1>3, SoleUser
<1>5. Lists' /\ Flags'
  <2>1. Flags'
    BY DEF Fill, IInv, Typed, Flags
  <2>2. Lists'
    BY <1>0, <1>2 DEF Fill, InsertIntoQueues, IInv, Typed, Lists
  <2> QED
    BY <2>1, <2>2
<1>6. Others(p) /\ want'[p] = k /\ mode'[p] = mode[p] /\ Procs'
  <2>1. Others(p) /\ want'[p] = k /\ mode'[p] = mode[p]
    BY DEF Fill, Keeps, Others, IInv, Typed, Procs
  <2>2. Procs'
    BY <1>0 DEF Fill, Keeps, IInv, Typed, Procs, Pc
  <2> QED
    BY <2>1, <2>2
<1>7. hurt' \in SUBSET {"evict", "modify", "error"}
  BY DEF Fill, IInv, Typed, Tables
<1>11. UNCHANGED <<lock, data, disk, sent, latest, calls, faults>>
  BY DEF Fill
<1>8. \A q \in Proc : q # p /\ (Taken(q) \/ pc[q] \in Holds) => bh[q] \in Buf /\ bh[q] # b
  BY <1>4, UsesOf DEF IInv
<1>9. CASE Found(k) # {}
  <2>1. /\ blk'[b] = NULL /\ hashed' = hashed /\ count'[b] = 0 /\ bh'[p] = NULL /\ pc'[p] = "hash"
        /\ \A c \in Buf : c # b => blk'[c] = blk[c] /\ count'[c] = count[c]
        /\ blk' \in [Buf -> AllBlocks \union {NULL}] /\ count' \in [Buf -> Int]
    BY <1>0, <1>2, <1>9 DEF Fill, Keeps, InsertIntoQueues, IInv, Typed, Procs
  <2>2. Typed'
    <3>1. blk' \in [Buf -> AllBlocks \union {NULL}] /\ count' \in [Buf -> Int]
      BY <1>2, <2>1
    <3>2. Tables
      BY DEF IInv, Typed
    <3>3. Tables'
      BY <1>7, <1>11, <3>1, <3>2 DEF Tables
    <3> QED
      BY <1>5, <1>6, <3>3 DEF Typed
  <2>3. Use(p)' = NULL
    BY <2>1 DEF Use, UseAt
  <2>4. CountStep(p)
    BY <1>0, <1>1, <1>2, <2>1, <2>3, Consts DEF CountStep, Is
  <2>5. Counts'
    BY <1>6, <2>4, CountsKept DEF IInv
  <2>6. CallOK'
    <3>1. OwnCall(p)
      BY <1>0, <1>6, <2>1 DEF OwnCall, CallAt, Holds, Looks
    <3> QED
      BY <1>6, <3>1 DEF IInv, CallOK, Others, OwnCall
  <2>7. TakenAlone'
    BY <1>6, <1>8, <2>1 DEF IInv, TakenAlone, Others, Taken, TakenAt
  <2>8. HoldsBlock'
    BY <1>6, <1>8, <2>1 DEF IInv, HoldsBlock, Others, Holds
  <2>9. PinnedKept' /\ HashedNamed' /\ OneBuffer'
    <3>1. \A c \in hashed : c \in Buf /\ c # b
      BY <1>1 DEF IInv, Typed, Lists
    <3> QED
      BY <1>3, <2>1, <3>1 DEF IInv, PinnedKept, HashedNamed, OneBuffer
  <2> QED
    BY <2>2, <2>5, <2>6, <2>7, <2>8, <2>9 DEF IInv
<1>10. CASE Found(k) = {}
  <2>1. /\ blk'[b] = k /\ hashed' = hashed \union {b} /\ count' = count /\ bh' = bh /\ pc'[p] = "got"
        /\ \A c \in Buf : c # b => blk'[c] = blk[c]
        /\ blk' \in [Buf -> AllBlocks \union {NULL}]
    BY <1>0, <1>2, <1>10, Consts DEF Fill, Keeps, InsertIntoQueues, IInv, Typed, Procs
  <2>2. Typed'
    <3>1. blk' \in [Buf -> AllBlocks \union {NULL}] /\ count' \in [Buf -> Int]
      BY <1>2, <2>1
    <3>2. Tables
      BY DEF IInv, Typed
    <3>3. Tables'
      BY <1>7, <1>11, <3>1, <3>2 DEF Tables
    <3> QED
      BY <1>5, <1>6, <3>3 DEF Typed
  <2>3. Use(p)' = b
    BY <2>1 DEF Use, UseAt, Looks
  <2>4. CountStep(p)
    BY <1>1, <2>1, <2>3, SameCount DEF IInv, Typed
  <2>5. Counts'
    BY <1>6, <2>4, CountsKept DEF IInv
  <2>6. CallOK'
    <3>1. OwnCall(p)
      BY <1>0, <1>6, <2>1 DEF OwnCall, CallAt, Holds, Looks
    <3> QED
      BY <1>6, <3>1 DEF IInv, CallOK, Others, OwnCall
  <2>7. TakenAlone'
    BY <1>6, <1>8, <2>1 DEF IInv, TakenAlone, Others, Taken, TakenAt
  <2>8. HoldsBlock'
    BY <1>6, <1>8, <2>1 DEF IInv, HoldsBlock, Others, Holds
  <2>9. PinnedKept' /\ HashedNamed' /\ OneBuffer'
    <3>1. \A c \in hashed : c \in Buf /\ c # b /\ blk[c] # k
      BY <1>1, <1>10 DEF IInv, Typed, Lists, Found
    <3> QED
      BY <1>0, <1>3, <2>1, <3>1, Consts DEF IInv, PinnedKept, HashedNamed, OneBuffer
  <2> QED
    BY <2>2, <2>5, <2>6, <2>7, <2>8, <2>9 DEF IInv
<1> QED
  BY <1>9, <1>10

\* New contents for a buffer that has a block.
LEMMA NewVersionTyped ==
    ASSUME Flags, Tables, NEW b \in Buf, blk[b] # NULL, NewVersion(b)
    PROVE  /\ latest' \in [AllBlocks -> Version] /\ data' \in [Buf -> Version]
           /\ dirt' \in [Buf -> BOOLEAN]
<1>1. blk[b] \in AllBlocks /\ latest[blk[b]] \in Version
  BY DEF Tables
<1>2. (IF latest[blk[b]] < MaxVersion THEN latest[blk[b]] + 1 ELSE MaxVersion) \in Version
  BY <1>1, Consts DEF Version
<1>3. latest' \in [AllBlocks -> Version] /\ data' \in [Buf -> Version]
  BY <1>1, <1>2 DEF Tables, NewVersion
<1>4. dirt' \in [Buf -> BOOLEAN]
  BY DEF Flags, NewVersion
<1> QED
  BY <1>3, <1>4

LEMMA GotIInv ==
    ASSUME IInv, NEW p \in Proc, Got(p)
    PROVE  IInv'
<1> USE DEF listVars
<1> DEFINE b == bh[p]
<1>0. pc[p] = "got" /\ b \in Buf /\ want[p] \in Block /\ mode[p] # "sync"
  BY DEF Got, Runs, IInv, CallOK, CallAt, Holds, Looks
<1>1. b \in hashed /\ blk[b] = want[p] /\ blk[b] # NULL
  BY <1>0, Consts DEF IInv, HoldsBlock, Holds
<1>2. /\ want' = want /\ mode' = mode /\ bh' = bh /\ count' = count /\ hashed' = hashed /\ blk' = blk
      /\ Lists' /\ idx' = idx
  BY DEF Got, IInv, Typed, Lists
<1>3. Others(p) /\ pc'[p] \in {"hold", "readio"} /\ Procs'
  <2>1. Others(p) /\ pc'[p] \in {"hold", "readio"}
    BY <1>2 DEF Got, Yields, Others, IInv, Typed, Procs
  <2>2. Procs'
    BY <1>2 DEF Got, Yields, IInv, Typed, Procs, Pc
  <2> QED
    BY <2>1, <2>2
<1>4. Typed'
  <2>1. CASE UNCHANGED <<dirt, uptodate, data, latest, lock, sent>>
    BY <1>2, <1>3, <2>1 DEF Got, IInv, Typed, Tables, Flags
  <2>2. CASE StartIo(p, b, "read") /\ UNCHANGED <<dirt, uptodate, data, latest>>
    <3>1. /\ lock' \in [Buf -> {NULL} \union ({"read", "write"} \X Proc \X AllBlocks)]
          /\ sent' \in [Buf -> Version]
      BY <1>0, <1>1, <2>2, StartIoTyped DEF IInv, Typed
    <3>2. Tables'
      BY <2>2, <3>1 DEF Got, IInv, Typed, Tables
    <3> QED
      BY <1>2, <1>3, <2>2, <3>2 DEF IInv, Typed, Flags
  <2>3. CASE NewVersion(b) /\ uptodate' = [uptodate EXCEPT ![b] = TRUE] /\ UNCHANGED <<lock, sent>>
    <3>1. latest' \in [AllBlocks -> Version] /\ data' \in [Buf -> Version] /\ dirt' \in [Buf -> BOOLEAN]
      BY <1>0, <1>1, <2>3, NewVersionTyped DEF IInv, Typed
    <3>2. Flags'
      BY <2>3, <3>1 DEF IInv, Typed, Flags
    <3>3. Tables'
      BY <2>3, <3>1 DEF Got, IInv, Typed, Tables
    <3> QED
      BY <1>2, <1>3, <3>2, <3>3 DEF Typed
  <2> QED
    BY <2>1, <2>2, <2>3 DEF Got
<1>5. Use(p)' = Use(p)
  BY <1>0, <1>2, <1>3 DEF Use, UseAt, Looks
<1>6. CountStep(p)
  BY <1>2, <1>5, SameCount DEF IInv, Typed
<1>7. OwnCall(p) /\ OwnTaken(p) /\ OwnHolds(p)
  BY <1>0, <1>1, <1>2, <1>3 DEF OwnCall, CallAt, OwnTaken, Taken, TakenAt, OwnHolds, Holds, Looks
<1> QED
  BY <1>2, <1>3, <1>4, <1>5, <1>6, <1>7, ProcIInv

\* brelse, and bread that gives up.
LEMMA DropIInv ==
    ASSUME IInv, NEW p \in Proc, pc[p] \in {"readio", "hold"}, Drop(bh[p]), Leave(p),
           UNCHANGED <<blk, dirt, uptodate, lock, data, listVars, disk, sent, idx, histVars, calls>>
    PROVE  IInv'
<1> USE DEF listVars, histVars
<1> DEFINE b == bh[p]
<1>0. b \in Buf /\ Use(p) = b
  BY UsesOf DEF IInv, Holds
<1>1. Others(p) /\ pc'[p] = "idle" /\ bh'[p] = NULL /\ Procs'
  <2>1. Others(p) /\ pc'[p] = "idle" /\ bh'[p] = NULL
    BY DEF Leave, Yields, Others, IInv, Typed, Procs
  <2>2. Procs'
    BY DEF Leave, Yields, Drop, IInv, Typed, Procs, Pc
  <2> QED
    BY <2>1, <2>2
<1>2. Use(p)' = NULL
  BY <1>1 DEF Use, UseAt
<1>3. CountStep(p) /\ count' \in [Buf -> Int]
  BY <1>0, <1>2, OneLess DEF Drop, IInv, Typed
<1>4. Typed'
  BY <1>1, <1>3 DEF IInv, Typed, Flags, Tables, Lists
<1>5. OwnCall(p) /\ OwnTaken(p) /\ OwnHolds(p)
  BY <1>1 DEF OwnCall, CallAt, OwnTaken, Taken, TakenAt, OwnHolds, Holds, Looks
<1> QED
  BY <1>1, <1>2, <1>3, <1>4, <1>5, ProcIInv

LEMMA ReadDoneIInv ==
    ASSUME IInv, NEW p \in Proc, ReadDone(p)
    PROVE  IInv'
<1> USE DEF listVars, histVars
<1>1. CASE Drop(bh[p]) /\ Leave(p)
  BY <1>1, DropIInv DEF ReadDone, Runs
<1>2. CASE Yields(p, "hold") /\ UNCHANGED <<count, waiting, bh, want, mode>>
  <2>0. pc[p] = "readio" /\ bh[p] \in Buf /\ want[p] \in Block /\ mode[p] # "sync"
    BY DEF ReadDone, Runs, IInv, CallOK, CallAt, Holds, Looks
  <2>1. bh[p] \in hashed /\ blk[bh[p]] = want[p]
    BY <2>0 DEF IInv, HoldsBlock, Holds
  <2>2. Others(p) /\ pc'[p] = "hold" /\ Procs'
    <3>1. Others(p) /\ pc'[p] = "hold"
      BY <1>2 DEF ReadDone, Yields, Others, IInv, Typed, Procs
    <3>2. Procs'
      BY <1>2 DEF ReadDone, Yields, IInv, Typed, Procs, Pc
    <3> QED
      BY <3>1, <3>2
  <2>3. Typed'
    BY <1>2, <2>2 DEF ReadDone, IInv, Typed, Flags, Tables, Lists
  <2>4. Use(p)' = Use(p)
    BY <1>2, <2>0, <2>2 DEF Use, UseAt, Looks
  <2>5. CountStep(p)
    BY <1>2, <2>4, SameCount DEF IInv, Typed
  <2>6. OwnCall(p) /\ OwnTaken(p) /\ OwnHolds(p) /\ hashed' = hashed /\ blk' = blk
    BY <1>2, <2>0, <2>1, <2>2 DEF ReadDone, OwnCall, CallAt, OwnTaken, Taken, TakenAt, OwnHolds, Holds, Looks
  <2> QED
    BY <2>2, <2>3, <2>4, <2>5, <2>6, ProcIInv
<1> QED
  BY <1>1, <1>2 DEF ReadDone

LEMMA BrelseIInv ==
    ASSUME IInv, NEW p \in Proc, Brelse(p)
    PROVE  IInv'
BY DropIInv DEF Brelse

\* Neither the holders' stores nor the interrupts touch counts or queues.
LEMMA IdleIInv ==
    ASSUME IInv, Typed', UNCHANGED <<blk, count, hashed, procVars>>
    PROVE  IInv'
<1> USE DEF procVars
<1>1. CallOK' /\ TakenAlone' /\ HoldsBlock'
  BY DEF IInv, CallOK, TakenAlone, HoldsBlock, Taken
<1>2. Counts'
  BY DEF IInv, Counts, Users
<1>3. PinnedKept' /\ HashedNamed' /\ OneBuffer'
  BY DEF IInv, PinnedKept, HashedNamed, OneBuffer
<1> QED
  BY <1>1, <1>2, <1>3 DEF IInv

LEMMA ModifyNamed ==
    ASSUME IInv, NEW b \in Buf, Modify(b)
    PROVE  b \in hashed /\ blk[b] # NULL
BY Consts DEF Modify, IInv, HoldsBlock, Holds, PinnedKept, HashedNamed

LEMMA ModifyIInv ==
    ASSUME IInv, NEW b \in Buf, Modify(b)
    PROVE  IInv'
<1> USE DEF listVars, procVars
<1>1. latest' \in [AllBlocks -> Version] /\ data' \in [Buf -> Version] /\ dirt' \in [Buf -> BOOLEAN]
  BY ModifyNamed, NewVersionTyped DEF Modify, IInv, Typed
<1>2. Flags'
  BY <1>1 DEF Modify, IInv, Typed, Flags
<1>3. Tables'
  BY <1>1 DEF Modify, IInv, Typed, Tables
<1>4. Lists' /\ Procs'
  BY DEF Modify, IInv, Typed, Lists, Procs
<1> QED
  BY <1>2, <1>3, <1>4, IdleIInv DEF Modify, Typed

LEMMA HdInterruptIInv ==
    ASSUME IInv, NEW b \in Buf, HdInterrupt(b)
    PROVE  IInv'
<1> USE DEF listVars, procVars
<1>1. Lists' /\ Procs'
  BY DEF HdInterrupt, IInv, Typed, Lists, Procs
<1>2. Flags'
  BY DEF HdInterrupt, IInv, Typed, Flags
<1>3. lock[b] \in {"read", "write"} \X Proc \X AllBlocks /\ lock[b][3] \in AllBlocks /\ disk[lock[b][3]] \in Version
      /\ sent[b] \in Version /\ data[b] \in Version
  BY DEF HdInterrupt, IInv, Typed, Tables
<1>4. disk' \in [AllBlocks -> Version] /\ data' \in [Buf -> Version]
  BY <1>3 DEF HdInterrupt, IInv, Typed, Tables
<1>5. faults' \in 0 .. MaxFaults /\ hurt' \in SUBSET {"evict", "modify", "error"}
  <2>1. faults' = faults \/ (faults < MaxFaults /\ faults' = faults + 1)
    BY DEF HdInterrupt
  <2>2. hurt' = hurt \/ hurt' = hurt \union {"error"}
    BY DEF HdInterrupt
  <2>3. faults \in 0 .. MaxFaults /\ hurt \in SUBSET {"evict", "modify", "error"}
    BY DEF IInv, Typed, Tables
  <2>4. hurt' \in SUBSET {"evict", "modify", "error"}
    BY <2>2, <2>3
  <2> QED
    BY <2>1, <2>3, <2>4, Consts
<1>6. lock' \in [Buf -> {NULL} \union ({"read", "write"} \X Proc \X AllBlocks)] /\ sent' \in [Buf -> Version]
  BY Consts DEF HdInterrupt, IInv, Typed, Tables, Version
<1>7. Tables'
  BY <1>4, <1>5, <1>6 DEF HdInterrupt, IInv, Typed, Tables
<1> QED
  BY <1>1, <1>2, <1>7, IdleIInv DEF HdInterrupt, Typed

-----------------------------------------------------------------------------
LEMMA InitIInv == Init => IInv
<1> SUFFICES ASSUME Init PROVE IInv
  OBVIOUS
<1> USE DEF Init
<1>1. Typed
  <2>1. Flags
    BY DEF Flags
  <2>2. Tables
    BY Consts DEF Tables, Version
  <2>3. Lists
    <3>1. \A b \in Buf : (b % NrBuffers) + 1 \in Buf
      BY Consts DEF Buf
    <3>2. \A b \in Buf : (IF b = 1 THEN NrBuffers ELSE b - 1) \in Buf
      BY Consts DEF Buf
    <3>3. 1 \in Buf
      BY Consts DEF Buf
    <3> QED
      BY <3>1, <3>2, <3>3, Consts DEF Lists
  <2>4. Procs
    BY Consts DEF Procs, Pc
  <2> QED
    BY <2>1, <2>2, <2>3, <2>4 DEF Typed
<1>2. CallOK /\ TakenAlone /\ HoldsBlock
  BY DEF CallOK, CallAt, TakenAlone, Taken, TakenAt, HoldsBlock, Holds, Looks
<1>3. Counts
  <2> SUFFICES ASSUME NEW b \in Buf PROVE count[b] = Cardinality(Users(b)) + One(b)
    BY DEF Counts
  <2>1. Users(b) = {}
    BY Consts DEF Users
  <2> QED
    BY <2>1, FS_EmptySet DEF One
<1>4. PinnedKept /\ HashedNamed
  BY Consts DEF PinnedKept, HashedNamed
<1>5. OneBuffer
  <2> SUFFICES ASSUME NEW b \in Pinned, NEW c \in Pinned, -b = -c PROVE b = c
    BY Consts DEF OneBuffer
  <2> QED
    BY Consts DEF Buf
<1> QED
  BY <1>1, <1>2, <1>3, <1>4, <1>5 DEF IInv

LEMMA NextIInv == IInv /\ [Next]_vars => IInv'
<1> SUFFICES ASSUME IInv, [Next]_vars PROVE IInv'
  OBVIOUS
<1>1. CASE UNCHANGED vars
  <2>1. Typed'
    BY <1>1 DEF vars, bufVars, listVars, procVars, histVars, IInv, Typed, Flags, Tables, Lists, Procs
  <2> QED
    BY <1>1, <2>1, IdleIInv DEF vars, bufVars, listVars
<1>2. CASE Next
  <2>1. ASSUME NEW p \in Proc, NEW k \in Block, NEW m \in {"bread", "new"}, Start(p, k, m) PROVE IInv'
    BY <2>1, StartIInv
  <2>2. ASSUME NEW p \in Proc, SysSync(p) PROVE IInv'
    BY <2>2, SysSyncIInv
  <2>3. ASSUME NEW p \in Proc, ProcStep(p) PROVE IInv'
    BY <2>3, GetHashTableIInv, HashWaitIInv, ScanIInv, ScanWaitIInv, SyncDevIInv, SyncWrittenIInv,
       SyncEndsIInv, FillIInv, GotIInv, ReadDoneIInv, BrelseIInv DEF ProcStep
  <2>4. ASSUME NEW b \in Buf, Modify(b) \/ HdInterrupt(b) PROVE IInv'
    BY <2>4, ModifyIInv, HdInterruptIInv
  <2> QED
    BY <1>2, <2>1, <2>2, <2>3, <2>4 DEF Next
<1> QED
  BY <1>1, <1>2

\* The bound of b_count: every process uses a buffer at most once.
LEMMA CountBound == IInv => TypeOK
<1> SUFFICES ASSUME IInv PROVE count \in [Buf -> 0 .. Cardinality(Proc) + 1]
  BY DEF IInv, Typed, Flags, Tables, Lists, Procs, TypeOK
<1>1. count \in [Buf -> Int]
  BY DEF IInv, Typed, Tables
<1>2. ASSUME NEW b \in Buf PROVE count[b] \in 0 .. Cardinality(Proc) + 1
  <2>1. UsersOf(b) \in SUBSET Proc
    BY DEF UsersOf
  <2>2. Cardinality(UsersOf(b)) <= Cardinality(Proc) /\ Cardinality(Proc) \in Nat
    BY <2>1, BufferAssumption, FS_Subset, FS_CardinalityType
  <2> QED
    BY <2>2, CountIs DEF IInv
<1> QED
  BY <1>1, <1>2

\* b_count is the number of users of a buffer, whoever sleeps where: brelse does
\* not panic, no buffer stays taken, and a buffer in use keeps its block.
THEOREM UsersCounted == Spec => []CountExact
<1>1. IInv => CountExact
  <2>1. IInv => \A b \in Buf : count[b] = Cardinality(Users(b)) + (IF b \in Pinned THEN 1 ELSE 0)
    BY DEF IInv, Counts, One
  <2> QED
    BY <2>1, CountBound DEF IInv, CountExact, HoldsBlock, Holds
<1> QED
  BY <1>1, InitIInv, NextIInv, PTL DEF Spec

\* A block never enters the hash queues twice: the second look of getblk is
\* enough, since nothing sleeps between it and insert_into_queues.
THEOREM OneBufferPerBlock == Spec => []OneBuffer
<1>1. IInv => OneBuffer
  BY DEF IInv
<1> QED
  BY <1>1, InitIInv, NextIInv, PTL DEF Spec

-----------------------------------------------------------------------------
\* The requests.  A read has its reader, who waits for it.
LEMMA ReadHeldKept ==
    ASSUME ReadHeld, NEW p \in Proc, Others(p),
           pc[p] = "readio" => (pc'[p] = "readio" /\ bh'[p] = bh[p]) \/ lock[bh[p]] = NULL,
           lock' = lock
    PROVE  ReadHeld'
<1> SUFFICES ASSUME NEW b \in Buf, Reads(b)'
             PROVE  \E q \in Proc : pc'[q] = "readio" /\ bh'[q] = b
  BY DEF ReadHeld
<1>1. Reads(b)
  BY DEF Reads
<1>2. PICK q \in Proc : pc[q] = "readio" /\ bh[q] = b
  BY <1>1 DEF ReadHeld
<1> QED
  BY <1>1, <1>2 DEF Reads, Others

\* A step of p that makes only buffers of the queues dirty and starts only
\* requests for dirty buffers or for those of the queues.
Mark(b) ==
    /\ dirt'[b] => dirt[b] \/ b \in hashed
    /\ \/ lock'[b] = lock[b]
       \/ /\ lock'[b] # NULL /\ lock'[b][3] = blk[b] /\ blk[b] # NULL
          /\ dirt[b] \/ b \in hashed
MarksOnly == \A b \in Buf : Mark(b)
OwnGot(p) == pc'[p] = "got" => cpu' = p /\ lock'[bh'[p]] = NULL
CleanAt(b, i, l) ==
    /\ l = "fill" \/ i > b => ~dirt[b] /\ lock[b] = NULL
    /\ l = "syncio" /\ i = b => ~dirt[b] \/ lock[b] # NULL
OwnClean(p) == Taken(p)' => CleanAt(bh[p], idx[p], pc[p])'

LEMMA TakenIsClean == TakenClean <=> \A p \in Proc : Taken(p) => CleanAt(bh[p], idx[p], pc[p])
BY DEF TakenClean, CleanAt

LEMMA TakenIsCleanNext == TakenClean' <=> \A p \in Proc : Taken(p)' => CleanAt(bh[p], idx[p], pc[p])'
BY DEF TakenClean, CleanAt

LEMMA LockKept ==
    ASSUME IInv, LockParts, NEW p \in Proc, cpu \in {p, NULL}, Others(p), blk' = blk, MarksOnly,
           OwnGot(p), OwnClean(p)
    PROVE  LockParts'
<1>1. GotFree'
  <2> SUFFICES ASSUME NEW q \in Proc, q # p, pc'[q] = "got" PROVE FALSE
    BY DEF GotFree, OwnGot
  <2>1. pc[q] = "got"
    BY DEF Others
  <2> QED
    BY <2>1, Consts DEF LockParts, GotFree
<1>2. TakenClean'
  <2> SUFFICES ASSUME NEW q \in Proc, q # p, Taken(q)' PROVE CleanAt(bh[q], idx[q], pc[q])'
    BY TakenIsCleanNext DEF OwnClean
  <2>1. Taken(q) /\ bh'[q] = bh[q] /\ idx'[q] = idx[q] /\ pc'[q] = pc[q]
    BY DEF Others, Taken
  <2>2. CleanAt(bh[q], idx[q], pc[q]) /\ bh[q] \in Buf /\ bh[q] \notin hashed
    BY <2>1, TakenIsClean, UsesOf DEF LockParts, IInv, TakenAlone
  <2>3. Mark(bh[q])
    BY <2>2 DEF MarksOnly
  <2> QED
    BY <2>1, <2>2, <2>3 DEF CleanAt, Mark
<1>3. NullClean'
  BY DEF LockParts, NullClean, MarksOnly, Mark, IInv, HashedNamed
<1>4. LockBlock'
  BY DEF LockParts, LockBlock, MarksOnly, Mark
<1> QED
  BY <1>1, <1>2, <1>3, <1>4 DEF LockParts

LEMMA SameMarks == ASSUME dirt' = dirt, lock' = lock PROVE MarksOnly
BY DEF MarksOnly, Mark

\* The requests are as they were, and p has no buffer of its own.
LEMMA PlainLock ==
    ASSUME IInv, LockParts, NEW p \in Proc, cpu \in {p, NULL}, Others(p), blk' = blk,
           dirt' = dirt, lock' = lock, pc'[p] # "got", ~Taken(p)'
    PROVE  LockParts'
BY LockKept, SameMarks DEF OwnGot, OwnClean

\* The steps that start no request and take no buffer.
LEMMA PlainSteps ==
    ASSUME IInv, LockInv, NEW p \in Proc,
           \/ \E k \in Block, m \in {"bread", "new"} : Start(p, k, m)
           \/ SysSync(p) \/ GetHashTable(p) \/ Scan(p) \/ ReadDone(p) \/ Brelse(p)
           \/ ScanWait(p) /\ NextFree(p)
    PROVE  LockInv'
<1> USE DEF bufVars, listVars, histVars
<1>1. blk' = blk /\ dirt' = dirt /\ lock' = lock /\ hurt' = hurt
  BY DEF Start, SysSync, GetHashTable, Scan, ReadDone, Brelse, ScanWait
<1>2. Others(p) /\ cpu \in {p, NULL}
  <2>1. CASE \E k \in Block, m \in {"bread", "new"} : Start(p, k, m)
    BY <2>1 DEF Start, Keeps, Others, IInv, Typed, Procs
  <2>2. CASE SysSync(p) \/ GetHashTable(p)
    BY <2>2 DEF SysSync, GetHashTable, Runs, Keeps, WaitsOn, Others, IInv, Typed, Procs
  <2>3. CASE Scan(p)
    BY <2>3 DEF Scan, Runs, NextFree, Keeps, Yields, WaitsOn, Others, IInv, Typed, Procs
  <2>4. CASE ReadDone(p) \/ Brelse(p)
    BY <2>4 DEF ReadDone, Brelse, Runs, Yields, Leave, Others, IInv, Typed, Procs
  <2>5. CASE ScanWait(p) /\ NextFree(p)
    <3>1. idx' = idx \/ idx' = [idx EXCEPT ![p] = 1]
      BY <2>5 DEF ScanWait
    <3> QED
      BY <2>5, <3>1 DEF ScanWait, Runs, NextFree, Keeps, Yields, Others, IInv, Typed, Procs
  <2> QED
    BY <2>1, <2>2, <2>3, <2>4, <2>5
<1>3. /\ pc'[p] \in {"hash", "hashwait", "scan", "scanwait", "hold", "idle"}
         \/ (pc'[p] = "sync" /\ mode'[p] = "sync")
      /\ pc[p] = "readio" => lock[bh[p]] = NULL
  <2>1. CASE \E k \in Block, m \in {"bread", "new"} : Start(p, k, m)
    BY <2>1 DEF Start, Keeps, IInv, Typed, Procs
  <2>2. CASE SysSync(p) \/ GetHashTable(p)
    BY <2>2 DEF SysSync, GetHashTable, Runs, Keeps, WaitsOn, IInv, Typed, Procs
  <2>3. CASE Scan(p)
    BY <2>3 DEF Scan, Runs, NextFree, Keeps, Yields, WaitsOn, IInv, Typed, Procs
  <2>4. CASE ReadDone(p) \/ Brelse(p)
    BY <2>4 DEF ReadDone, Brelse, Runs, Yields, Leave, IInv, Typed, Procs
  <2>5. CASE ScanWait(p) /\ NextFree(p)
    BY <2>5 DEF ScanWait, Runs, NextFree, Keeps, Yields, IInv, Typed, Procs
  <2> QED
    BY <2>1, <2>2, <2>3, <2>4, <2>5
<1>4. ReadHeld'
  BY <1>1, <1>2, <1>3, ReadHeldKept DEF LockInv
<1>5. pc'[p] # "got" /\ ~Taken(p)'
  BY <1>3 DEF Taken, TakenAt
<1>6. LockParts => LockParts'
  BY <1>1, <1>2, <1>5, PlainLock
<1> QED
  BY <1>1, <1>4, <1>6 DEF LockInv

LEMMA HashWaitLock ==
    ASSUME IInv, LockInv, NEW p \in Proc, HashWait(p)
    PROVE  LockInv'
<1> USE DEF listVars, histVars
<1>1. blk' = blk /\ dirt' = dirt /\ lock' = lock /\ hurt' = hurt /\ cpu' = p /\ pc[p] = "hashwait"
  BY DEF HashWait, Keeps, Runs
<1>2. Others(p) /\ cpu \in {p, NULL} /\ pc'[p] \in {"got", "hash"}
  BY DEF HashWait, Runs, Keeps, Others, IInv, Typed, Procs
<1>3. OwnGot(p)
  BY Consts DEF HashWait, Keeps, OwnGot, IInv, Typed, Procs
<1>4. OwnClean(p)
  BY <1>2 DEF OwnClean, Taken, TakenAt
<1>5. ReadHeld'
  BY <1>1, <1>2, ReadHeldKept DEF LockInv
<1>6. LockParts => LockParts'
  BY <1>1, <1>2, <1>3, <1>4, SameMarks, LockKept
<1> QED
  BY <1>1, <1>5, <1>6 DEF LockInv

LEMMA TakesLock ==
    ASSUME IInv, LockInv, NEW p \in Proc, ScanWait(p), Takes(p, bh[p])
    PROVE  LockInv'
<1> USE DEF listVars, histVars
<1>0. bh[p] \in Buf /\ pc[p] = "scanwait" /\ lock[bh[p]] = NULL /\ cpu \in {p, NULL}
  BY DEF ScanWait, Runs, IInv, CallOK, CallAt, Looks
<1>1. blk' = blk /\ dirt' = dirt /\ lock' = lock /\ hurt' = hurt /\ bh' = bh
  BY DEF Takes
<1>2. Others(p) /\ pc'[p] = (IF dirt[bh[p]] THEN "sync" ELSE "fill") /\ idx'[p] = 1
  BY DEF Takes, Keeps, Others, IInv, Typed, Procs
<1>3. OwnGot(p)
  BY <1>2 DEF OwnGot
<1>4. OwnClean(p)
  <2>1. ~(1 > bh[p])
    BY <1>0, Consts DEF Buf
  <2> QED
    BY <1>0, <1>1, <1>2, <2>1 DEF OwnClean, CleanAt
<1>5. ReadHeld'
  BY <1>0, <1>1, <1>2, ReadHeldKept DEF LockInv
<1>6. LockParts => LockParts'
  BY <1>0, <1>1, <1>2, <1>3, <1>4, SameMarks, LockKept
<1> QED
  BY <1>1, <1>5, <1>6 DEF LockInv

\* sync_dev leaves nothing behind it that is dirty or being written.
LEMMA SyncDevLock ==
    ASSUME IInv, LockInv, NEW p \in Proc, SyncDev(p)
    PROVE  LockInv'
<1> USE DEF listVars, histVars
<1> DEFINE i == idx[p]
<1>0. pc[p] = "sync" /\ i \in Buf /\ cpu \in {p, NULL}
  BY Consts DEF SyncDev, Runs, IInv, Typed, Procs, Buf
<1>1. blk' = blk /\ dirt' = dirt /\ hurt' = hurt /\ bh' = bh /\ mode' = mode
  BY DEF SyncDev
<1>2. Taken(p) => bh[p] \in Buf
  BY UsesOf DEF IInv
<1>3. CASE /\ pc' = [pc EXCEPT ![p] = "sync"] /\ UNCHANGED <<lock, sent>>
           /\ \/ idx' = idx
              \/ SyncNext(p, i) /\ (blk[i] = NULL \/ (lock[i] = NULL /\ ~dirt[i]))
  <2>1. Others(p) /\ pc'[p] = "sync" /\ idx'[p] \in {i, i + 1}
    BY <1>1, <1>3 DEF SyncDev, SyncNext, Others, IInv, Typed, Procs
  <2>2. idx'[p] = i \/ blk[i] = NULL \/ (lock[i] = NULL /\ ~dirt[i])
    BY <1>3 DEF SyncNext, IInv, Typed, Procs
  <2>3. ReadHeld'
    BY <1>0, <1>3, <2>1, ReadHeldKept DEF LockInv
  <2>4. ASSUME LockParts PROVE LockParts'
    <3>1. OwnGot(p)
      BY <2>1 DEF OwnGot
    <3>2. Taken(p) => (idx'[p] > bh[p] => ~dirt[bh[p]] /\ lock[bh[p]] = NULL)
      <4> SUFFICES ASSUME Taken(p), idx'[p] > bh[p] PROVE ~dirt[bh[p]] /\ lock[bh[p]] = NULL
        OBVIOUS
      <4>1. CASE i > bh[p]
        BY <2>4, <4>1 DEF LockParts, TakenClean
      <4>2. CASE i = bh[p] /\ idx'[p] # i
        BY <1>2, <2>2, <2>4, <4>2 DEF LockParts, NullClean
      <4> QED
        BY <1>0, <1>2, <2>1, <4>1, <4>2 DEF Buf
    <3>3. OwnClean(p)
      BY <1>1, <1>0, <1>3, <2>1, <3>2 DEF OwnClean, CleanAt, Taken, TakenAt
    <3> QED
      BY <1>0, <1>1, <1>3, <2>1, <2>4, <3>1, <3>3, SameMarks, LockKept
  <2> QED
    BY <1>1, <2>3, <2>4 DEF LockInv
<1>4. CASE /\ blk[i] # NULL /\ lock[i] = NULL /\ dirt[i]
           /\ StartIo(p, i, "write") /\ Yields(p, "syncio") /\ UNCHANGED idx
  <2>1. Others(p) /\ pc'[p] = "syncio" /\ idx'[p] = i
    BY <1>1, <1>4 DEF SyncDev, Yields, Others, IInv, Typed, Procs
  <2>2. lock'[i] = <<"write", p, blk[i]>> /\ \A b \in Buf : b # i => lock'[b] = lock[b]
    BY <1>0, <1>4 DEF StartIo, IInv, Typed, Tables
  <2>3. lock'[i] # NULL /\ lock'[i][3] = blk[i] /\ lock'[i][1] = "write"
    <3>1. blk[i] \in AllBlocks
      BY <1>0, <1>4 DEF IInv, Typed, Tables
    <3>2. <<"write", p, blk[i]>> \in {"read", "write"} \X Proc \X AllBlocks
      BY <3>1
    <3> QED
      BY <2>2, <3>2, BufferAssumption
  <2>4. ReadHeld'
    <3> SUFFICES ASSUME NEW b \in Buf, Reads(b)'
                 PROVE  \E q \in Proc : pc'[q] = "readio" /\ bh'[q] = b
      BY DEF ReadHeld
    <3>1. Reads(b)
      BY <2>2, <2>3 DEF Reads
    <3>2. PICK q \in Proc : pc[q] = "readio" /\ bh[q] = b
      BY <3>1 DEF ReadHeld, LockInv
    <3> QED
      BY <1>0, <1>1, <2>1, <3>2 DEF Others
  <2>5. ASSUME LockParts PROVE LockParts'
    <3>1. OwnGot(p)
      BY <2>1 DEF OwnGot
    <3>2. MarksOnly
      BY <1>1, <1>4, <2>2, <2>3 DEF MarksOnly, Mark
    <3>3. Taken(p) => (i > bh[p] => ~dirt[bh[p]] /\ lock[bh[p]] = NULL)
      BY <2>5 DEF LockParts, TakenClean
    <3>4. OwnClean(p)
      BY <1>0, <1>1, <1>2, <2>1, <2>2, <2>3, <3>3 DEF OwnClean, CleanAt, Taken, TakenAt, Buf
    <3> QED
      BY <1>0, <1>1, <2>1, <2>5, <3>1, <3>2, <3>4, LockKept
  <2> QED
    BY <1>1, <2>4, <2>5 DEF LockInv
<1> QED
  BY <1>3, <1>4 DEF SyncDev, Keeps, Yields

LEMMA SyncWrittenLock ==
    ASSUME IInv, LockInv, NEW p \in Proc, SyncWritten(p)
    PROVE  LockInv'
<1> USE DEF bufVars, listVars, histVars
<1> DEFINE i == idx[p]
<1>0. pc[p] = "syncio" /\ i \in Buf /\ cpu \in {p, NULL} /\ lock[i] = NULL
  BY DEF SyncWritten, Runs, IInv, CallOK, CallAt
<1>1. blk' = blk /\ dirt' = dirt /\ lock' = lock /\ hurt' = hurt /\ bh' = bh /\ mode' = mode
  BY DEF SyncWritten
<1>2. Others(p) /\ pc'[p] = "sync" /\ idx'[p] = i + 1
  BY DEF SyncWritten, Keeps, SyncNext, Others, IInv, Typed, Procs
<1>3. ReadHeld'
  BY <1>0, <1>1, <1>2, ReadHeldKept DEF LockInv
<1>4. ASSUME LockParts PROVE LockParts'
  <2>1. OwnGot(p)
    BY <1>2 DEF OwnGot
  <2>2. Taken(p) => (i + 1 > bh[p] => ~dirt[bh[p]] /\ lock[bh[p]] = NULL)
    <3> SUFFICES ASSUME Taken(p), i + 1 > bh[p] PROVE ~dirt[bh[p]] /\ lock[bh[p]] = NULL
      OBVIOUS
    <3>1. bh[p] \in Buf
      BY UsesOf DEF IInv
    <3>2. CASE i > bh[p]
      BY <1>4, <3>2 DEF LockParts, TakenClean
    <3>3. CASE i = bh[p]
      BY <1>0, <1>4, <3>3 DEF LockParts, TakenClean
    <3> QED
      BY <1>0, <3>1, <3>2, <3>3 DEF Buf
  <2>3. OwnClean(p)
    BY <1>0, <1>1, <1>2, <2>2 DEF OwnClean, CleanAt, Taken, TakenAt
  <2> QED
    BY <1>0, <1>1, <1>2, <1>4, <2>1, <2>3, SameMarks, LockKept
<1> QED
  BY <1>1, <1>3, <1>4 DEF LockInv

LEMMA SyncEndsLock ==
    ASSUME IInv, LockInv, NEW p \in Proc, SyncEnds(p)
    PROVE  LockInv'
<1> USE DEF bufVars, listVars, histVars
<1>0. pc[p] = "sync" /\ cpu \in {p, NULL} /\ idx[p] = NrBuffers + 1
  BY DEF SyncEnds, Runs
<1>1. blk' = blk /\ dirt' = dirt /\ lock' = lock /\ hurt' = hurt
  BY DEF SyncEnds
<1>2. Others(p)
  BY DEF SyncEnds, Leave, Keeps, Yields, Others, IInv, Typed, Procs
<1>3. ReadHeld'
  BY <1>0, <1>1, <1>2, ReadHeldKept DEF LockInv
<1>4. ASSUME LockParts PROVE LockParts'
  <2>1. CASE mode[p] = "sync" /\ Leave(p)
    <3>1. pc'[p] = "idle"
      BY <2>1 DEF Leave, Yields, IInv, Typed, Procs
    <3> QED
      BY <1>0, <1>1, <1>2, <1>4, <3>1, PlainLock DEF Taken, TakenAt
  <2>2. CASE mode[p] # "sync" /\ Keeps(p, "fill") /\ UNCHANGED <<want, mode, bh>>
    <3>1. pc'[p] = "fill" /\ Taken(p)
      BY <1>0, <2>2 DEF Keeps, IInv, Typed, Procs, Taken, TakenAt
    <3>2. bh[p] \in Buf
      BY <3>1, UsesOf DEF IInv
    <3>3. idx[p] > bh[p]
      BY <1>0, <3>2, Consts DEF Buf
    <3>4. ~dirt[bh[p]] /\ lock[bh[p]] = NULL
      BY <1>4, <3>1, <3>3 DEF LockParts, TakenClean
    <3>5. OwnGot(p) /\ OwnClean(p)
      BY <1>1, <2>2, <3>1, <3>4 DEF OwnGot, OwnClean, CleanAt
    <3> QED
      BY <1>0, <1>1, <1>2, <1>4, <3>5, SameMarks, LockKept
  <2> QED
    BY <2>1, <2>2 DEF SyncEnds
<1> QED
  BY <1>1, <1>3, <1>4 DEF LockInv

\* bread starts its read on an unlocked buffer.
LEMMA GotLock ==
    ASSUME IInv, LockInv, NEW p \in Proc, Got(p)
    PROVE  LockInv'
<1> USE DEF listVars
<1> DEFINE b == bh[p]
<1>0. pc[p] = "got" /\ b \in Buf /\ b \in hashed /\ blk[b] # NULL /\ cpu \in {p, NULL}
  BY UsesOf DEF Got, Runs, IInv, HoldsBlock, HashedNamed, Holds
<1>1. blk' = blk /\ hurt' = hurt /\ bh' = bh /\ mode' = mode /\ idx' = idx /\ want' = want
  BY DEF Got
<1>2. Others(p) /\ pc'[p] \in {"hold", "readio"}
  BY <1>1 DEF Got, Yields, Others, IInv, Typed, Procs
<1>3. OwnGot(p) /\ OwnClean(p)
  BY <1>2 DEF OwnGot, OwnClean, Taken, TakenAt
<1>4. CASE /\ UNCHANGED lock
           /\ dirt' = dirt \/ dirt' = [dirt EXCEPT ![b] = TRUE]
  <2>1. MarksOnly
    BY <1>0, <1>4 DEF MarksOnly, Mark, IInv, Typed, Flags
  <2>2. LockParts => LockParts'
    BY <1>0, <1>1, <1>2, <1>3, <2>1, LockKept
  <2>3. ReadHeld'
    BY <1>0, <1>2, <1>4, ReadHeldKept DEF LockInv
  <2> QED
    BY <1>1, <2>2, <2>3 DEF LockInv
<1>5. CASE StartIo(p, b, "read") /\ Yields(p, "readio") /\ UNCHANGED <<dirt, uptodate, data, latest>>
  <2>1. lock'[b] = <<"read", p, blk[b]>> /\ \A c \in Buf : c # b => lock'[c] = lock[c]
    BY <1>0, <1>5 DEF StartIo, IInv, Typed, Tables
  <2>2. lock'[b] # NULL /\ lock'[b][3] = blk[b]
    <3>1. blk[b] \in AllBlocks
      BY <1>0 DEF IInv, Typed, Tables
    <3>2. <<"read", p, blk[b]>> \in {"read", "write"} \X Proc \X AllBlocks
      BY <3>1
    <3> QED
      BY <2>1, <3>2, BufferAssumption
  <2>3. pc'[p] = "readio"
    BY <1>5 DEF Yields, IInv, Typed, Procs
  <2>4. ReadHeld'
    <3> SUFFICES ASSUME NEW c \in Buf, Reads(c)', c # b
                 PROVE  \E q \in Proc : pc'[q] = "readio" /\ bh'[q] = c
      BY <1>1, <2>3 DEF ReadHeld
    <3>1. Reads(c)
      BY <2>1 DEF Reads
    <3>2. PICK q \in Proc : pc[q] = "readio" /\ bh[q] = c
      BY <3>1 DEF ReadHeld, LockInv
    <3> QED
      BY <1>0, <1>1, <1>2, <3>2 DEF Others
  <2>5. MarksOnly
    BY <1>0, <1>5, <2>1, <2>2 DEF MarksOnly, Mark
  <2>6. LockParts => LockParts'
    BY <1>0, <1>1, <1>2, <1>3, <2>5, LockKept
  <2> QED
    BY <1>1, <2>4, <2>6 DEF LockInv
<1> QED
  BY <1>4, <1>5 DEF Got, NewVersion

\* The buffer that getblk fills is clean and unlocked by now.
LEMMA FillLock ==
    ASSUME IInv, LockInv, NEW p \in Proc, Fill(p)
    PROVE  LockInv'
<1> DEFINE b == bh[p]
<1>0. pc[p] = "fill" /\ b \in Buf /\ cpu \in {p, NULL} /\ Taken(p) /\ Use(p) = b /\ b \notin hashed
  BY UsesOf DEF Fill, Runs, IInv, CallOK, CallAt, Taken, TakenAt, TakenAlone
<1>1. Others(p) /\ lock' = lock /\ cpu' = p /\ pc'[p] \in {"got", "hash"}
  BY DEF Fill, Keeps, Others, IInv, Typed, Procs
<1>2. (pc'[p] = "got" => bh'[p] = b) /\ hurt \subseteq hurt'
  BY DEF Fill, Keeps, IInv, Typed, Procs
<1>3. ~dirt'[b] /\ \A c \in Buf : c # b => dirt'[c] = dirt[c] /\ blk'[c] = blk[c]
  BY <1>0 DEF Fill, IInv, Typed, Flags, Tables
<1>4. ReadHeld'
  BY <1>0, <1>1, ReadHeldKept DEF LockInv
<1>5. ASSUME LockParts PROVE LockParts'
  <2>1. lock[b] = NULL
    BY <1>0, <1>5 DEF LockParts, TakenClean
  <2>2. GotFree'
    <3> SUFFICES ASSUME NEW q \in Proc, q # p, pc'[q] = "got" PROVE FALSE
      BY <1>1, <1>2, <2>1 DEF GotFree
    <3>1. pc[q] = "got"
      BY <1>1 DEF Others
    <3> QED
      BY <1>0, <1>5, <3>1, Consts DEF LockParts, GotFree
  <2>3. TakenClean'
    <3> SUFFICES ASSUME NEW q \in Proc, q # p, Taken(q)' PROVE CleanAt(bh[q], idx[q], pc[q])'
      BY <1>1, TakenIsCleanNext DEF Taken, TakenAt
    <3>1. Taken(q) /\ bh'[q] = bh[q] /\ idx'[q] = idx[q] /\ pc'[q] = pc[q]
      BY <1>1 DEF Others, Taken
    <3>2. CleanAt(bh[q], idx[q], pc[q]) /\ bh[q] \in Buf /\ bh[q] # b
      BY <1>0, <1>5, <3>1, TakenIsClean, UsesOf, TakenApart DEF LockParts, IInv
    <3> QED
      BY <1>1, <1>3, <3>1, <3>2 DEF CleanAt
  <2>4. NullClean' /\ LockBlock'
    BY <1>1, <1>3, <1>5, <2>1 DEF LockParts, NullClean, LockBlock
  <2> QED
    BY <2>2, <2>3, <2>4 DEF LockParts
<1> QED
  BY <1>2, <1>4, <1>5 DEF LockInv

LEMMA ModifyLock ==
    ASSUME IInv, LockInv, NEW b \in Buf, Modify(b)
    PROVE  LockInv'
<1> USE DEF listVars, procVars
<1>0. b \in hashed /\ blk[b] # NULL
  BY ModifyNamed
<1>1. lock' = lock /\ blk' = blk /\ hurt \subseteq hurt' /\ UNCHANGED procVars
  BY DEF Modify
<1>2. \A c \in Buf : c # b => dirt'[c] = dirt[c]
  BY DEF Modify, NewVersion, IInv, Typed, Flags
<1>3. ReadHeld'
  BY <1>1 DEF LockInv, ReadHeld, Reads
<1>4. ASSUME LockParts PROVE LockParts'
  <2>1. GotFree' /\ LockBlock'
    BY <1>1, <1>4 DEF LockParts, GotFree, LockBlock
  <2>2. NullClean'
    BY <1>0, <1>1, <1>2, <1>4 DEF LockParts, NullClean
  <2>3. TakenClean'
    <3> SUFFICES ASSUME NEW q \in Proc, Taken(q) PROVE CleanAt(bh[q], idx[q], pc[q])'
      BY <1>1, TakenIsCleanNext DEF Taken
    <3>1. CleanAt(bh[q], idx[q], pc[q]) /\ bh[q] \in Buf /\ bh[q] # b
      BY <1>0, <1>4, TakenIsClean, UsesOf DEF LockParts, IInv, TakenAlone
    <3> QED
      BY <1>1, <1>2, <3>1 DEF CleanAt
  <2> QED
    BY <2>1, <2>2, <2>3 DEF LockParts
<1> QED
  BY <1>1, <1>3, <1>4 DEF LockInv

\* A write that fails is an "error"; a read never meets a taken buffer.
LEMMA HdInterruptLock ==
    ASSUME IInv, LockInv, NEW b \in Buf, HdInterrupt(b)
    PROVE  LockInv'
<1> USE DEF listVars, procVars
<1>1. blk' = blk /\ hurt \subseteq hurt' /\ UNCHANGED procVars
  BY DEF HdInterrupt
<1>2. lock'[b] = NULL /\ \A c \in Buf : c # b => lock'[c] = lock[c]
  BY DEF HdInterrupt, IInv, Typed, Tables
<1>3. /\ \A c \in Buf : dirt'[c] => dirt[c]
      /\ ~dirt'[b] \/ "error" \in hurt' \/ Reads(b)
  BY DEF HdInterrupt, IInv, Typed, Flags, Reads
<1>4. ReadHeld'
  BY <1>1, <1>2 DEF LockInv, ReadHeld, Reads
<1>5. ASSUME LockParts, "error" \notin hurt' PROVE LockParts'
  <2>1. GotFree'
    BY <1>1, <1>2, <1>5, UsesOf DEF LockParts, GotFree, IInv, Holds
  <2>2. LockBlock' /\ NullClean'
    BY <1>1, <1>2, <1>3, <1>5 DEF LockParts, LockBlock, NullClean
  <2>3. TakenClean'
    <3> SUFFICES ASSUME NEW q \in Proc, Taken(q) PROVE CleanAt(bh[q], idx[q], pc[q])'
      BY <1>1, TakenIsCleanNext DEF Taken
    <3>1. CleanAt(bh[q], idx[q], pc[q]) /\ bh[q] \in Buf /\ bh[q] \notin hashed
      BY <1>5, TakenIsClean, UsesOf DEF LockParts, IInv, TakenAlone
    <3>2. ~Reads(bh[q])
      BY <3>1 DEF LockInv, ReadHeld, IInv, HoldsBlock, Holds
    <3>3. bh[q] # b \/ ~dirt'[bh[q]]
      BY <1>3, <1>5, <3>2
    <3> QED
      BY <1>1, <1>2, <1>3, <3>1, <3>3 DEF CleanAt
  <2> QED
    BY <2>1, <2>2, <2>3 DEF LockParts
<1> QED
  BY <1>1, <1>4, <1>5 DEF LockInv

LEMMA InitLock == Init => LockInv
<1> SUFFICES ASSUME Init PROVE LockInv
  OBVIOUS
<1>1. ReadHeld /\ GotFree /\ LockBlock
  BY DEF Init, ReadHeld, Reads, GotFree, LockBlock
<1>2. TakenClean /\ NullClean
  BY DEF Init, TakenClean, Taken, TakenAt, NullClean
<1> QED
  BY <1>1, <1>2 DEF LockInv, LockParts

LEMMA NextLock == IInv /\ LockInv /\ [Next]_vars => LockInv'
<1> SUFFICES ASSUME IInv, LockInv, [Next]_vars PROVE LockInv'
  OBVIOUS
<1>1. CASE UNCHANGED vars
  <2>1. UNCHANGED <<lock, dirt, blk, procVars, hurt>>
    BY <1>1 DEF vars, bufVars, histVars
  <2>2. ReadHeld' /\ (LockParts => GotFree' /\ LockBlock')
    BY <2>1 DEF procVars, LockInv, ReadHeld, Reads, LockParts, GotFree, LockBlock
  <2>3. LockParts => TakenClean' /\ NullClean'
    BY <2>1 DEF procVars, LockParts, TakenClean, Taken, NullClean
  <2> QED
    BY <2>1, <2>2, <2>3 DEF LockInv, LockParts
<1>2. CASE Next
  <2>1. ASSUME NEW p \in Proc, NEW k \in Block, NEW m \in {"bread", "new"}, Start(p, k, m) PROVE LockInv'
    BY <2>1, PlainSteps
  <2>2. ASSUME NEW p \in Proc, SysSync(p) PROVE LockInv'
    BY <2>2, PlainSteps
  <2>3. ASSUME NEW p \in Proc, ProcStep(p) PROVE LockInv'
    <3>1. CASE ScanWait(p)
      BY <3>1, PlainSteps, TakesLock DEF ScanWait, Takes
    <3>2. CASE GetHashTable(p) \/ Scan(p) \/ ReadDone(p) \/ Brelse(p)
      BY <3>2, PlainSteps
    <3> QED
      BY <2>3, <3>1, <3>2, HashWaitLock, SyncDevLock, SyncWrittenLock, SyncEndsLock, FillLock, GotLock DEF ProcStep
  <2>4. ASSUME NEW b \in Buf, Modify(b) \/ HdInterrupt(b) PROVE LockInv'
    BY <2>4, ModifyLock, HdInterruptLock
  <2> QED
    BY <1>2, <2>1, <2>2, <2>3, <2>4 DEF Next
<1> QED
  BY <1>1, <1>2

\* What LockHonoured says of a step and a buffer.
Honoured(b) == lock'[b] \in {lock[b], NULL} /\ blk'[b] = blk[b]

LEMMA StepHonoured ==
    ASSUME IInv, LockInv, [Next]_vars, "error" \notin hurt, NEW b \in Buf, lock[b] # NULL
    PROVE  Honoured(b)
<1>0. LockParts
  BY DEF LockInv
<1>1. CASE lock' = lock /\ blk' = blk
  BY <1>1 DEF Honoured
<1>2. ASSUME NEW p \in Proc, SyncDev(p) PROVE Honoured(b)
  <2>1. blk' = blk /\ (lock' = lock \/ (lock[idx[p]] = NULL /\ StartIo(p, idx[p], "write")))
    BY <1>2 DEF SyncDev
  <2> QED
    BY <2>1 DEF Honoured, StartIo, IInv, Typed, Tables
<1>3. ASSUME NEW p \in Proc, Got(p) PROVE Honoured(b)
  <2>1. pc[p] = "got" /\ blk' = blk /\ (lock' = lock \/ StartIo(p, bh[p], "read"))
    BY <1>3 DEF Got, Runs
  <2>2. lock[bh[p]] = NULL
    BY <1>0, <2>1 DEF LockParts, GotFree
  <2> QED
    BY <2>1, <2>2 DEF Honoured, StartIo, IInv, Typed, Tables
<1>4. ASSUME NEW p \in Proc, Fill(p) PROVE Honoured(b)
  <2>1. pc[p] = "fill" /\ lock' = lock /\ \A c \in Buf : c # bh[p] => blk'[c] = blk[c]
    BY <1>4 DEF Fill, Runs, IInv, Typed, Tables
  <2>2. lock[bh[p]] = NULL
    BY <1>0, <2>1 DEF LockParts, TakenClean, Taken, TakenAt
  <2> QED
    BY <2>1, <2>2 DEF Honoured
<1>5. ASSUME NEW c \in Buf, HdInterrupt(c) PROVE Honoured(b)
  BY <1>5 DEF HdInterrupt, Honoured, IInv, Typed, Tables
<1>6. ASSUME NEW c \in Buf, Modify(c) PROVE Honoured(b)
  BY <1>1, <1>6 DEF Modify
<1>7. ASSUME NEW p \in Proc,
             \/ \E k \in Block, m \in {"bread", "new"} : Start(p, k, m)
             \/ SysSync(p) \/ GetHashTable(p) \/ HashWait(p) \/ Scan(p) \/ ScanWait(p)
             \/ SyncWritten(p) \/ SyncEnds(p) \/ ReadDone(p) \/ Brelse(p)
      PROVE  Honoured(b)
  BY <1>1, <1>7 DEF bufVars, Start, SysSync, GetHashTable, HashWait, Scan, ScanWait, SyncWritten,
                    SyncEnds, ReadDone, Brelse
<1>8. CASE UNCHANGED vars
  BY <1>1, <1>8 DEF vars, bufVars
<1> QED
  BY <1>2, <1>3, <1>4, <1>5, <1>6, <1>7, <1>8 DEF Next, ProcStep

\* A request has its buffer to itself until its interrupt comes: no second one
\* is made for it, and the buffer keeps its block, unless a write has failed.
THEOREM RequestsAlone == Spec => LockHonoured
<1>1. IInv /\ LockInv /\ [Next]_vars =>
        [\A b \in Buf : lock[b] # NULL /\ "error" \notin hurt =>
            lock'[b] \in {lock[b], NULL} /\ blk'[b] = blk[b]]_vars
  BY StepHonoured DEF Honoured
<1> QED
  BY <1>1, InitIInv, NextIInv, InitLock, NextLock, PTL DEF Spec, LockHonoured

-----------------------------------------------------------------------------
\* The versions.  A step that moves p, and at most takes buffers off the queues.
LEMMA SameVersions ==
    ASSUME IInv, VersionParts, NEW p \in Proc, Others(p), hashed' \subseteq hashed,
           UNCHANGED <<blk, dirt, uptodate, data, lock, disk, sent, latest>>,
           pc'[p] = "hold" => uptodate[bh'[p]]
    PROVE  VersionParts'
<1>1. DirtyAlone' /\ DirtyLatest' /\ CleanLatest'
  BY DEF VersionParts, DirtyAlone, DirtyLatest, CleanLatest
<1>2. ReadsClean' /\ SentLatest' /\ OnDisk'
  BY DEF VersionParts, ReadsClean, Reads, SentLatest, OnDisk
<1>3. HoldsUp'
  BY DEF VersionParts, HoldsUp, Others
<1> QED
  BY <1>1, <1>2, <1>3 DEF VersionParts

LEMMA PlainVersions ==
    ASSUME IInv, VersionParts, NEW p \in Proc,
           \/ \E k \in Block, m \in {"bread", "new"} : Start(p, k, m)
           \/ SysSync(p) \/ GetHashTable(p) \/ HashWait(p) \/ Scan(p) \/ ScanWait(p)
           \/ SyncWritten(p) \/ SyncEnds(p) \/ ReadDone(p) \/ Brelse(p)
    PROVE  VersionParts'
<1> USE DEF bufVars, listVars, histVars
<1>1. UNCHANGED <<blk, dirt, uptodate, data, lock, disk, sent, latest>>
  BY DEF Start, SysSync, GetHashTable, HashWait, Scan, ScanWait, SyncWritten, SyncEnds, ReadDone, Brelse
<1>2. hashed' \subseteq hashed
  BY DEF Start, SysSync, GetHashTable, HashWait, Scan, ScanWait, RemoveFromQueues, SyncWritten, SyncEnds,
         ReadDone, Brelse
<1>3. Others(p) /\ (pc'[p] = "hold" => uptodate[bh'[p]])
  <2>1. CASE \E k \in Block, m \in {"bread", "new"} : Start(p, k, m)
    BY <2>1 DEF Start, Keeps, Others, IInv, Typed, Procs
  <2>2. CASE SysSync(p) \/ GetHashTable(p)
    BY <2>2 DEF SysSync, GetHashTable, Keeps, WaitsOn, Others, IInv, Typed, Procs
  <2>3. CASE HashWait(p)
    BY <2>3 DEF HashWait, Keeps, Others, IInv, Typed, Procs
  <2>4. CASE Scan(p)
    BY <2>4 DEF Scan, NextFree, Keeps, Yields, WaitsOn, Others, IInv, Typed, Procs
  <2>5. CASE ScanWait(p)
    <3>1. idx' = idx \/ idx' = [idx EXCEPT ![p] = 1]
      BY <2>5 DEF ScanWait
    <3>2. want' = want /\ mode' = mode /\ (NextFree(p) \/ (bh' = bh /\ Keeps(p, IF dirt[bh[p]] THEN "sync" ELSE "fill")))
      BY <2>5 DEF ScanWait
    <3> QED
      BY <3>1, <3>2 DEF NextFree, Keeps, Yields, Others, IInv, Typed, Procs
  <2>6. CASE SyncWritten(p)
    BY <2>6 DEF SyncWritten, SyncNext, Keeps, Others, IInv, Typed, Procs
  <2>7. CASE SyncEnds(p)
    BY <2>7 DEF SyncEnds, Leave, Keeps, Yields, Others, IInv, Typed, Procs
  <2>8. CASE ReadDone(p) \/ Brelse(p)
    BY <2>8 DEF ReadDone, Brelse, Yields, Leave, Others, IInv, Typed, Procs
  <2> QED
    BY <2>1, <2>2, <2>3, <2>4, <2>5, <2>6, <2>7, <2>8
<1> QED
  BY <1>1, <1>2, <1>3, SameVersions

\* A request starts: a write for a dirty buffer, a read for one that is not up
\* to date.
LEMMA StartIoVersions ==
    ASSUME IInv, VersionParts, NEW p \in Proc, Others(p), hashed' = hashed,
           UNCHANGED <<blk, dirt, uptodate, data, disk, latest>>, pc'[p] # "hold",
           NEW b \in Buf, NEW c \in {"read", "write"}, StartIo(p, b, c),
           c = "write" => dirt[b], c = "read" => ~uptodate[b]
    PROVE  VersionParts'
<1>1. lock'[b] = <<c, p, blk[b]>> /\ \A a \in Buf : a # b => lock'[a] = lock[a] /\ sent'[a] = sent[a]
  BY DEF StartIo, IInv, Typed, Tables
<1>2. lock'[b][1] = c /\ (c = "write" => sent'[b] = data[b])
  BY <1>1 DEF StartIo, IInv, Typed, Tables
<1>3. DirtyAlone' /\ DirtyLatest' /\ CleanLatest' /\ OnDisk'
  BY DEF VersionParts, DirtyAlone, DirtyLatest, CleanLatest, OnDisk
<1>4. c = "read" => ~dirt[b]
  BY DEF VersionParts, DirtyLatest
<1>5. ReadsClean'
  BY <1>1, <1>2, <1>4 DEF VersionParts, ReadsClean, Reads
<1>6. SentLatest'
  BY <1>1, <1>2 DEF VersionParts, SentLatest
<1>7. HoldsUp'
  BY DEF VersionParts, HoldsUp, Others
<1> QED
  BY <1>3, <1>5, <1>6, <1>7 DEF VersionParts

\* A new version, in the only buffer of the block.
LEMMA NewVersions ==
    ASSUME IInv, VersionParts, NEW b \in hashed, lock[b] = NULL, NewVersion(b),
           uptodate'[b], \A c \in Buf : c # b => uptodate'[c] = uptodate[c],
           UNCHANGED <<blk, hashed, lock, disk, sent>>, HoldsUp'
    PROVE  VersionParts'
<1> DEFINE k == blk[b]
<1>0. b \in Buf /\ k \in AllBlocks
  BY DEF IInv, Typed, Lists, Tables, HashedNamed
<1>1. /\ dirt'[b] /\ data'[b] = latest'[k]
      /\ \A c \in Buf : c # b => dirt'[c] = dirt[c] /\ data'[c] = data[c]
      /\ \A j \in AllBlocks : j # k => latest'[j] = latest[j]
  BY <1>0 DEF NewVersion, IInv, Typed, Flags, Tables
<1>2. \A c \in Buf : c # b /\ (c \in hashed \/ dirt[c]) => blk[c] # k
  BY <1>0 DEF IInv, OneBuffer, VersionParts, DirtyAlone
<1>3. DirtyAlone'
  BY <1>0, <1>1, <1>2 DEF VersionParts, DirtyAlone
<1>4. DirtyLatest' /\ CleanLatest'
  <2>1. \A c \in Buf : c # b /\ blk[c] # NULL => blk[c] \in AllBlocks
    BY DEF IInv, Typed, Tables
  <2>2. \A c \in hashed : c \in Buf /\ blk[c] # NULL
    BY DEF IInv, Typed, Lists, HashedNamed
  <2>3. \A c \in Buf : c # b /\ c \in hashed => blk[c] \in AllBlocks /\ blk[c] # k
    BY <1>2, <2>1, <2>2
  <2>4. CleanLatest'
    BY <1>0, <1>1, <2>2, <2>3 DEF VersionParts, CleanLatest
  <2>5. ASSUME NEW c \in Buf, dirt'[c], c # b PROVE uptodate'[c] /\ data'[c] = latest'[blk[c]]
    <3>1. dirt[c] /\ uptodate[c] /\ data[c] = latest[blk[c]] /\ blk[c] # k
      BY <1>1, <1>2, <2>5 DEF VersionParts, DirtyLatest
    <3>2. latest'[blk[c]] = latest[blk[c]]
      <4>1. CASE blk[c] \in AllBlocks
        BY <1>1, <3>1, <4>1
      <4>2. CASE blk[c] \notin AllBlocks
        BY <3>1, <4>2 DEF NewVersion, IInv, Typed, Tables
      <4> QED
        BY <4>1, <4>2
    <3> QED
      BY <1>1, <2>5, <3>1, <3>2
  <2>6. DirtyLatest'
    BY <1>1, <2>5 DEF DirtyLatest
  <2> QED
    BY <2>4, <2>6
<1>5. ReadsClean' /\ SentLatest'
  BY <1>1 DEF VersionParts, ReadsClean, Reads, SentLatest
<1>6. OnDisk'
  <2> SUFFICES ASSUME NEW j \in AllBlocks, disk[j] # latest'[j]
               PROVE  \E c \in Buf : blk[c] = j /\ dirt'[c]
    BY DEF OnDisk
  <2>1. CASE j = k
    BY <1>0, <1>1, <2>1
  <2>2. CASE j # k
    <3>1. PICK c \in Buf : blk[c] = j /\ dirt[c]
      BY <1>1, <2>2 DEF VersionParts, OnDisk
    <3> QED
      BY <1>1, <2>2, <3>1
  <2> QED
    BY <2>1, <2>2
<1> QED
  BY <1>3, <1>4, <1>5, <1>6 DEF VersionParts

LEMMA SyncDevVersions ==
    ASSUME IInv, VersionParts, NEW p \in Proc, SyncDev(p)
    PROVE  VersionParts'
<1> USE DEF listVars, histVars
<1>0. idx[p] \in Buf
  BY Consts DEF SyncDev, IInv, Typed, Procs, Buf
<1>1. UNCHANGED <<blk, dirt, uptodate, data, disk, latest, hashed>>
  BY DEF SyncDev
<1>2. Others(p) /\ pc'[p] \in {"sync", "syncio"}
  BY DEF SyncDev, SyncNext, Keeps, Yields, Others, IInv, Typed, Procs
<1>3. CASE UNCHANGED <<lock, sent>>
  BY <1>1, <1>2, <1>3, SameVersions
<1>4. CASE dirt[idx[p]] /\ StartIo(p, idx[p], "write")
  BY <1>0, <1>1, <1>2, <1>4, StartIoVersions
<1> QED
  BY <1>3, <1>4 DEF SyncDev

LEMMA GotVersions ==
    ASSUME IInv, LockParts, VersionParts, NEW p \in Proc, Got(p)
    PROVE  VersionParts'
<1> USE DEF listVars
<1> DEFINE b == bh[p]
<1>0. pc[p] = "got" /\ b \in Buf /\ b \in hashed /\ lock[b] = NULL
  BY UsesOf DEF Got, Runs, IInv, HoldsBlock, Holds, LockParts, GotFree
<1>1. UNCHANGED <<blk, hashed, disk, bh>>
  BY DEF Got
<1>2. Others(p)
  BY DEF Got, Yields, Others, IInv, Typed, Procs
<1>3. CASE uptodate[b] /\ UNCHANGED <<dirt, uptodate, data, latest, lock, sent>>
  BY <1>1, <1>2, <1>3, SameVersions
<1>4. CASE /\ ~uptodate[b] /\ StartIo(p, b, "read") /\ Yields(p, "readio")
           /\ UNCHANGED <<dirt, uptodate, data, latest>>
  <2>1. pc'[p] = "readio"
    BY <1>4 DEF Yields, IInv, Typed, Procs
  <2> QED
    BY <1>0, <1>1, <1>2, <1>4, <2>1, StartIoVersions
<1>5. CASE NewVersion(b) /\ uptodate' = [uptodate EXCEPT ![b] = TRUE] /\ UNCHANGED <<lock, sent>>
  <2>1. uptodate'[b] /\ \A c \in Buf : c # b => uptodate'[c] = uptodate[c]
    BY <1>0, <1>5 DEF IInv, Typed, Flags
  <2>2. HoldsUp'
    <3>1. ASSUME NEW q \in Proc, pc'[q] = "hold", q # p PROVE uptodate'[bh'[q]]
      <4>1. pc[q] = "hold" /\ bh'[q] = bh[q]
        BY <1>2, <3>1 DEF Others
      <4>2. bh[q] \in Buf /\ uptodate[bh[q]]
        BY <4>1, UsesOf DEF IInv, Holds, VersionParts, HoldsUp
      <4> QED
        BY <2>1, <4>1, <4>2
    <3>2. \A c \in Pinned : uptodate'[c]
      BY <2>1, Consts DEF VersionParts, HoldsUp
    <3> QED
      BY <1>1, <2>1, <3>1, <3>2 DEF HoldsUp
  <2> QED
    BY <1>0, <1>1, <1>5, <2>1, <2>2, NewVersions
<1> QED
  BY <1>3, <1>4, <1>5 DEF Got

LEMMA ModifyVersions ==
    ASSUME IInv, VersionParts, NEW b \in Buf, Modify(b), hurt' = {}
    PROVE  VersionParts'
<1> USE DEF listVars, procVars
<1>0. b \in hashed /\ lock[b] = NULL
  BY ModifyNamed DEF Modify
<1>1. UNCHANGED <<blk, uptodate, lock, hashed, disk, sent, procVars>> /\ NewVersion(b)
  BY DEF Modify
<1>2. uptodate[b]
  BY DEF Modify, VersionParts, HoldsUp
<1>3. HoldsUp'
  BY <1>1 DEF VersionParts, HoldsUp
<1> QED
  BY <1>0, <1>1, <1>2, <1>3, NewVersions

\* The buffer that becomes the block's is the block's only dirty one, if there is
\* any; the block that it had is on the disk.
LEMMA FillVersions ==
    ASSUME IInv, LockParts, VersionParts, NEW p \in Proc, Fill(p), hurt' = {}
    PROVE  VersionParts'
<1> DEFINE b == bh[p]
           k == want[p]
<1>0. pc[p] = "fill" /\ b \in Buf /\ Taken(p) /\ Use(p) = b /\ b \notin hashed /\ k \in Block
  BY UsesOf DEF Fill, Runs, IInv, CallOK, CallAt, Taken, TakenAt, TakenAlone, Looks, Holds
<1>1. ~dirt[b] /\ lock[b] = NULL
  BY <1>0 DEF LockParts, TakenClean
<1>2. UNCHANGED <<lock, data, disk, sent, latest>>
  BY DEF Fill
<1>3. Others(p) /\ pc'[p] \in {"got", "hash"}
  BY DEF Fill, Keeps, Others, IInv, Typed, Procs
<1>4. /\ ~dirt'[b] /\ ~uptodate'[b]
      /\ \A c \in Buf : c # b => dirt'[c] = dirt[c] /\ uptodate'[c] = uptodate[c]
  BY <1>0 DEF Fill, IInv, Typed, Flags
<1>5. \A c \in Buf : c # b => blk'[c] = blk[c]
  BY <1>0 DEF Fill, IInv, Typed, Tables
<1>6. \/ hashed' = hashed
      \/ /\ hashed' = hashed \union {b} /\ blk'[b] = k
         /\ \A c \in Buf : c # b /\ blk[c] = k => ~dirt[c]
  <2>1. CASE Found(k) # {}
    BY <2>1 DEF Fill, InsertIntoQueues
  <2>2. CASE Found(k) = {}
    BY <1>0, <2>2 DEF Fill, InsertIntoQueues, IInv, Typed, Tables
  <2> QED
    BY <2>1, <2>2
<1>7. DirtyAlone'
  BY <1>0, <1>4, <1>5, <1>6 DEF VersionParts, DirtyAlone
<1>8. DirtyLatest' /\ CleanLatest'
  <2>1. \A c \in hashed' : c \in Buf /\ (c # b => c \in hashed)
    BY <1>0, <1>6 DEF IInv, Typed, Lists
  <2>2. DirtyLatest'
    BY <1>2, <1>4, <1>5 DEF VersionParts, DirtyLatest
  <2>3. CleanLatest'
    BY <1>2, <1>4, <1>5, <2>1 DEF VersionParts, CleanLatest
  <2> QED
    BY <2>2, <2>3
<1>9. ReadsClean' /\ SentLatest'
  BY <1>1, <1>2, <1>4 DEF VersionParts, ReadsClean, Reads, SentLatest
<1>10. HoldsUp'
  <2>1. ASSUME NEW q \in Proc, pc'[q] = "hold" PROVE uptodate'[bh'[q]]
    <3>1. q # p /\ pc[q] = "hold" /\ bh'[q] = bh[q]
      BY <1>3, <2>1 DEF Others
    <3>2. bh[q] \in hashed /\ bh[q] \in Buf /\ uptodate[bh[q]]
      BY <3>1, UsesOf DEF IInv, HoldsBlock, Holds, VersionParts, HoldsUp
    <3> QED
      BY <1>0, <1>4, <3>1, <3>2
  <2>2. \A c \in Pinned : c \in Buf /\ c # b
    BY <1>0, Consts DEF IInv, PinnedKept
  <2> QED
    BY <1>4, <2>1, <2>2 DEF VersionParts, HoldsUp
<1>11. OnDisk'
  BY <1>1, <1>2, <1>4, <1>5 DEF VersionParts, OnDisk
<1> QED
  BY <1>7, <1>8, <1>9, <1>10, <1>11 DEF VersionParts

\* A request ends: the disk has what the buffer has, or the other way round.
LEMMA HdInterruptVersions ==
    ASSUME IInv, LockInv, LockParts, VersionParts, NEW b \in Buf, HdInterrupt(b), hurt' = {}
    PROVE  VersionParts'
<1> USE DEF listVars, procVars
<1> DEFINE k == blk[b]
<1>0. lock[b] # NULL /\ k \in AllBlocks /\ lock[b][3] = k
  BY Consts DEF HdInterrupt, LockParts, LockBlock, NullClean, IInv, Typed, Tables
<1>1. UNCHANGED <<blk, hashed, latest, procVars>>
  BY DEF HdInterrupt
<1>2. lock'[b] = NULL /\ \A c \in Buf : c # b => lock'[c] = lock[c] /\ sent'[c] = sent[c]
  BY DEF HdInterrupt, IInv, Typed, Tables
<1>3. /\ \A c \in Buf : c # b => dirt'[c] = dirt[c] /\ uptodate'[c] = uptodate[c]
      /\ \A c \in Buf : dirt'[c] => dirt[c]
  BY DEF HdInterrupt, IInv, Typed, Flags
<1>4. \A c \in Buf : c # b => data'[c] = data[c]
  BY DEF HdInterrupt, IInv, Typed, Tables
<1>5. CASE lock[b][1] = "write"
  <2>1. dirt[b] /\ sent[b] = data[b] /\ uptodate[b] /\ data[b] = latest[k]
    BY <1>0, <1>5 DEF VersionParts, SentLatest, DirtyLatest
  <2>2. /\ disk' = [disk EXCEPT ![k] = data[b]] /\ uptodate' = [uptodate EXCEPT ![b] = TRUE]
        /\ dirt' = [dirt EXCEPT ![b] = FALSE] /\ data' = data
    BY <1>0, <1>5, <2>1 DEF HdInterrupt
  <2>3. disk'[k] = latest[k] /\ \A j \in AllBlocks : j # k => disk'[j] = disk[j]
    BY <1>0, <2>1, <2>2 DEF IInv, Typed, Tables
  <2>4. uptodate' = uptodate /\ ~dirt'[b]
    BY <2>1, <2>2 DEF IInv, Typed, Flags
  <2>5. DirtyAlone'
    BY <1>1, <1>3 DEF VersionParts, DirtyAlone
  <2>6. DirtyLatest' /\ CleanLatest'
    BY <1>1, <1>3, <2>2, <2>4 DEF VersionParts, DirtyLatest, CleanLatest
  <2>7. ReadsClean' /\ SentLatest'
    BY <1>2, <1>3, <2>2, <2>4 DEF VersionParts, ReadsClean, Reads, SentLatest
  <2>8. HoldsUp'
    BY <1>1, <2>4 DEF VersionParts, HoldsUp
  <2>9. OnDisk'
    <3> SUFFICES ASSUME NEW j \in AllBlocks, j # k, disk[j] # latest[j]
                 PROVE  \E c \in Buf : blk[c] = j /\ dirt'[c]
      BY <1>1, <2>3 DEF OnDisk
    <3>1. PICK c \in Buf : blk[c] = j /\ dirt[c]
      BY DEF VersionParts, OnDisk
    <3> QED
      BY <1>3, <3>1
  <2> QED
    BY <2>5, <2>6, <2>7, <2>8, <2>9 DEF VersionParts
<1>6. CASE lock[b][1] = "read"
  <2>1. Reads(b) /\ ~uptodate[b] /\ ~dirt[b]
    BY <1>0, <1>6 DEF VersionParts, ReadsClean, Reads
  <2>2. b \in hashed
    BY <2>1 DEF LockInv, ReadHeld, IInv, HoldsBlock, Holds
  <2>3. disk[k] = latest[k]
    BY <1>0, <2>1, <2>2 DEF VersionParts, OnDisk, DirtyAlone
  <2>4. disk' = disk /\ ~dirt'[b] /\ (uptodate'[b] => data'[b] = latest[k])
    BY <1>0, <1>6, <2>1, <2>3 DEF HdInterrupt, IInv, Typed, Flags, Tables
  <2>5. DirtyAlone'
    BY <1>1, <1>3 DEF VersionParts, DirtyAlone
  <2>6. DirtyLatest'
    BY <1>1, <1>3, <1>4, <2>4 DEF VersionParts, DirtyLatest
  <2>7. CleanLatest'
    <3>1. \A c \in hashed : c \in Buf
      BY DEF IInv, Typed, Lists
    <3> QED
      BY <1>1, <1>3, <1>4, <2>4, <3>1 DEF VersionParts, CleanLatest
  <2>8. ReadsClean' /\ SentLatest'
    BY <1>2, <1>3, <1>4, <2>4 DEF VersionParts, ReadsClean, Reads, SentLatest
  <2>9. HoldsUp'
    <3>1. \A q \in Proc : pc[q] = "hold" => bh[q] \in Buf /\ bh[q] # b
      BY <2>1, UsesOf DEF IInv, Holds, VersionParts, HoldsUp
    <3>2. \A c \in Pinned : c \in Buf /\ c # b
      BY <2>1, Consts DEF VersionParts, HoldsUp
    <3> QED
      BY <1>1, <1>3, <3>1, <3>2 DEF VersionParts, HoldsUp
  <2>10. OnDisk'
    BY <1>1, <1>3, <2>1, <2>4 DEF VersionParts, OnDisk
  <2> QED
    BY <2>5, <2>6, <2>7, <2>8, <2>9, <2>10 DEF VersionParts
<1> QED
  BY <1>5, <1>6 DEF HdInterrupt

LEMMA InitVersions == Init => VersionInv
<1> SUFFICES ASSUME Init PROVE VersionParts
  BY DEF VersionInv
<1>1. DirtyAlone /\ DirtyLatest /\ OnDisk
  BY DEF Init, DirtyAlone, DirtyLatest, OnDisk
<1>2. CleanLatest /\ HoldsUp
  BY Consts DEF Init, CleanLatest, HoldsUp
<1>3. ReadsClean /\ SentLatest
  BY DEF Init, ReadsClean, Reads, SentLatest
<1> QED
  BY <1>1, <1>2, <1>3 DEF VersionParts

LEMMA HurtGrows == [Next]_vars /\ hurt' = {} => hurt = {}
<1> USE DEF vars, bufVars, listVars, histVars
<1>1. ASSUME NEW p \in Proc, ProcStep(p) PROVE hurt \subseteq hurt'
  BY <1>1 DEF ProcStep, GetHashTable, HashWait, Scan, ScanWait, SyncDev, SyncWritten, SyncEnds, Fill, Got,
              ReadDone, Brelse
<1>2. ASSUME NEW b \in Buf, Modify(b) \/ HdInterrupt(b) PROVE hurt \subseteq hurt'
  BY <1>2 DEF Modify, HdInterrupt
<1>3. ASSUME NEW p \in Proc, SysSync(p) \/ \E k \in Block, m \in {"bread", "new"} : Start(p, k, m)
      PROVE  hurt \subseteq hurt'
  BY <1>3 DEF SysSync, Start
<1> QED
  BY <1>1, <1>2, <1>3 DEF Next

LEMMA NextVersions == IInv /\ LockInv /\ VersionInv /\ [Next]_vars => VersionInv'
<1> SUFFICES ASSUME IInv, LockInv, VersionInv, [Next]_vars, hurt' = {} PROVE VersionParts'
  BY DEF VersionInv
<1>0. LockParts /\ VersionParts
  BY HurtGrows DEF LockInv, VersionInv
<1>1. CASE UNCHANGED vars
  <2> USE <1>1 DEF vars, bufVars, listVars, procVars, histVars
  <2>1. DirtyAlone' /\ DirtyLatest' /\ CleanLatest'
    BY <1>0 DEF VersionParts, DirtyAlone, DirtyLatest, CleanLatest
  <2>2. ReadsClean' /\ SentLatest' /\ OnDisk'
    BY <1>0 DEF VersionParts, ReadsClean, Reads, SentLatest, OnDisk
  <2>3. HoldsUp'
    BY <1>0 DEF VersionParts, HoldsUp
  <2> QED
    BY <2>1, <2>2, <2>3 DEF VersionParts
<1>2. CASE Next
  <2>1. ASSUME NEW p \in Proc, NEW k \in Block, NEW m \in {"bread", "new"}, Start(p, k, m) PROVE VersionParts'
    BY <1>0, <2>1, PlainVersions
  <2>2. ASSUME NEW p \in Proc, SysSync(p) PROVE VersionParts'
    BY <1>0, <2>2, PlainVersions
  <2>3. ASSUME NEW p \in Proc, ProcStep(p) PROVE VersionParts'
    <3>1. CASE Fill(p) \/ Got(p) \/ SyncDev(p)
      BY <1>0, <3>1, SyncDevVersions, FillVersions, GotVersions
    <3> QED
      BY <1>0, <2>3, <3>1, PlainVersions DEF ProcStep
  <2>4. ASSUME NEW b \in Buf, Modify(b) \/ HdInterrupt(b) PROVE VersionParts'
    BY <1>0, <2>4, ModifyVersions, HdInterruptVersions
  <2> QED
    BY <1>2, <2>1, <2>2, <2>3, <2>4 DEF Next
<1> QED
  BY <1>1, <1>2

\* No version of a block is lost and no reader gets an old one: an up to date
\* buffer has the last version, and what is not on the disk yet is in a dirty
\* buffer - as long as none of the three windows was hit.
THEOREM VersionsKept == Spec => []Coherent
<1>1. IInv /\ LockInv /\ VersionInv => Coherent
  BY DEF VersionInv, VersionParts, CleanLatest, OnDisk, DirtyLatest, Coherent, Kept
<1> QED
  BY <1>1, InitIInv, NextIInv, InitLock, NextLock, InitVersions, NextVersions, PTL DEF Spec

-----------------------------------------------------------------------------
\* The free list is a ring: e names the buffers outside T in their order, h the
\* first of them, n and q are the links.
After(i, m) == IF i = m - 1 THEN 0 ELSE i + 1
Rings(m, e, T, h, n, q) ==
    /\ m \in Nat /\ m > 0 /\ e \in [0 .. m - 1 -> Buf]
    /\ \A i, j \in 0 .. m - 1 : e[i] = e[j] => i = j
    /\ \A b \in Buf : b \notin T <=> \E i \in 0 .. m - 1 : e[i] = b
    /\ e[0] = h
    /\ \A i \in 0 .. m - 1 : n[e[i]] = e[After(i, m)] /\ q[e[After(i, m)]] = e[i]

\* Without its j-th buffer it is a ring, as long as there is another one.
LEMMA RingLoses ==
    ASSUME NEW n \in [Buf -> Buf], NEW q \in [Buf -> Buf], NEW T, NEW h \in Buf,
           NEW m \in Nat, NEW e, Rings(m, e, T, h, n, q), m > 1, NEW j \in 0 .. m - 1
    PROVE  \E f : Rings(m - 1, f, T \union {e[j]}, IF h = e[j] THEN n[e[j]] ELSE h,
                        [n EXCEPT ![q[e[j]]] = n[e[j]]], [q EXCEPT ![n[e[j]]] = q[e[j]]])
<1> DEFINE Old(i) == IF i < j THEN i ELSE i + 1
           f == [i \in 0 .. m - 2 |-> e[Old(i)]]
           b == e[j]
           n2 == [n EXCEPT ![q[b]] = n[b]]
           q2 == [q EXCEPT ![n[b]] = q[b]]
           h2 == IF h = b THEN n[b] ELSE h
           k == IF j = 0 THEN m - 1 ELSE j - 1
           l == After(j, m)
<1>1. /\ e \in [0 .. m - 1 -> Buf] /\ e[0] = h
      /\ \A x, y \in 0 .. m - 1 : e[x] = e[y] => x = y
      /\ \A c \in Buf : c \notin T <=> \E i \in 0 .. m - 1 : e[i] = c
      /\ \A i \in 0 .. m - 1 : n[e[i]] = e[After(i, m)] /\ q[e[After(i, m)]] = e[i]
  BY DEF Rings
<1>2. /\ \A i \in 0 .. m - 2 : Old(i) \in 0 .. m - 1 /\ Old(i) # j
      /\ \A x, y \in 0 .. m - 2 : Old(x) = Old(y) => x = y
      /\ \A i \in 0 .. m - 1 : i # j => \E x \in 0 .. m - 2 : Old(x) = i
  <2>1. ASSUME NEW i \in 0 .. m - 1, i # j PROVE \E x \in 0 .. m - 2 : Old(x) = i
    <3>1. CASE i < j
      <4>1. i \in 0 .. m - 2 /\ Old(i) = i
        BY <3>1
      <4> QED
        BY <4>1
    <3>2. CASE i > j
      <4>1. i - 1 \in 0 .. m - 2 /\ Old(i - 1) = i
        BY <3>2
      <4> QED
        BY <4>1
    <3> QED
      BY <2>1, <3>1, <3>2
  <2> QED
    BY <2>1
<1>3. k \in 0 .. m - 1 /\ l \in 0 .. m - 1 /\ After(k, m) = j /\ k # j /\ l # j
  BY DEF After
<1>4. q[b] = e[k] /\ n[b] = e[l]
  BY <1>1, <1>3
<1>5. \A i \in 0 .. m - 2 : \/ Old(i) # k /\ After(Old(i), m) = Old(After(i, m - 1)) /\ After(Old(i), m) # l
                            \/ Old(i) = k /\ Old(After(i, m - 1)) = l
  BY DEF After
<1>6. \A i \in 0 .. m - 2 : After(i, m - 1) \in 0 .. m - 2
  BY DEF After
<1>7. m - 1 \in Nat /\ m - 1 > 0 /\ (m - 1) - 1 = m - 2
  OBVIOUS
<1>8. f \in [0 .. m - 2 -> Buf]
  BY <1>1, <1>2
<1>9. \A x, y \in 0 .. m - 2 : f[x] = f[y] => x = y
  BY <1>1, <1>2
<1>10. ASSUME NEW c \in Buf PROVE c \notin T \union {b} <=> \E i \in 0 .. m - 2 : f[i] = c
  <2>1. ASSUME c \notin T \union {b} PROVE \E i \in 0 .. m - 2 : f[i] = c
    <3>1. PICK i \in 0 .. m - 1 : e[i] = c
      BY <2>1, <1>1
    <3>2. i # j
      BY <2>1, <3>1
    <3>3. PICK x \in 0 .. m - 2 : Old(x) = i
      BY <3>2, <1>2
    <3> QED
      BY <3>1, <3>3
  <2>2. ASSUME NEW i \in 0 .. m - 2, f[i] = c PROVE c \notin T \union {b}
    BY <2>2, <1>1, <1>2
  <2> QED
    BY <2>1, <2>2
<1>11. f[0] = h2
  <2>1. CASE j = 0
    BY <2>1, <1>1, <1>3, <1>4 DEF After
  <2>2. CASE j # 0
    BY <2>2, <1>1
  <2> QED
    BY <2>1, <2>2
<1>12. ASSUME NEW i \in 0 .. m - 2
       PROVE  n2[f[i]] = f[After(i, m - 1)] /\ q2[f[After(i, m - 1)]] = f[i]
  <2>1. /\ Old(i) \in 0 .. m - 1 /\ f[i] = e[Old(i)] /\ e[Old(i)] \in Buf
        /\ After(i, m - 1) \in 0 .. m - 2 /\ f[After(i, m - 1)] = e[Old(After(i, m - 1))]
        /\ Old(After(i, m - 1)) \in 0 .. m - 1 /\ e[Old(After(i, m - 1))] \in Buf
    BY <1>1, <1>2, <1>6
  <2> HIDE DEF f, Old, k, l
  <2>2. CASE Old(i) # k /\ After(Old(i), m) = Old(After(i, m - 1)) /\ After(Old(i), m) # l
    <3>1. e[Old(i)] # e[k] /\ e[Old(After(i, m - 1))] # e[l]
      BY <2>1, <2>2, <1>1, <1>3
    <3>2. n[e[Old(i)]] = e[Old(After(i, m - 1))] /\ q[e[Old(After(i, m - 1))]] = e[Old(i)]
      BY <2>1, <2>2, <1>1
    <3> QED
      BY <2>1, <3>1, <3>2, <1>4
  <2>3. CASE Old(i) = k /\ Old(After(i, m - 1)) = l
    BY <2>1, <2>3, <1>4
  <2> QED
    BY <2>2, <2>3, <1>5
<1> HIDE DEF f, b, n2, q2, h2
<1>13. Rings(m - 1, f, T \union {b}, h2, n2, q2)
  BY <1>7, <1>8, <1>9, <1>10, <1>11, <1>12 DEF Rings
<1> QED
  BY <1>13 DEF b, n2, q2, h2

\* With b behind its last buffer it is a ring.
LEMMA RingGets ==
    ASSUME NEW n \in [Buf -> Buf], NEW q \in [Buf -> Buf], NEW T, NEW h \in Buf,
           NEW m \in Nat, NEW e, Rings(m, e, T, h, n, q), NEW b \in T, b \in Buf
    PROVE  \E f : Rings(m + 1, f, T \ {b}, h,
                        [n EXCEPT ![b] = h, ![q[h]] = b], [q EXCEPT ![b] = q[h], ![h] = b])
<1> DEFINE f == [i \in 0 .. m |-> IF i = m THEN b ELSE e[i]]
           n2 == [n EXCEPT ![b] = h, ![q[h]] = b]
           q2 == [q EXCEPT ![b] = q[h], ![h] = b]
<1>1. /\ e \in [0 .. m - 1 -> Buf] /\ e[0] = h /\ m > 0
      /\ \A x, y \in 0 .. m - 1 : e[x] = e[y] => x = y
      /\ \A c \in Buf : c \notin T <=> \E i \in 0 .. m - 1 : e[i] = c
      /\ \A i \in 0 .. m - 1 : n[e[i]] = e[After(i, m)] /\ q[e[After(i, m)]] = e[i]
  BY DEF Rings
<1>2. \A i \in 0 .. m - 1 : e[i] # b
  BY <1>1
<1>3. q[h] = e[m - 1] /\ m - 1 \in 0 .. m - 1 /\ 0 \in 0 .. m - 1
  <2>1. m - 1 \in 0 .. m - 1 /\ 0 \in 0 .. m - 1 /\ After(m - 1, m) = 0
    BY <1>1 DEF After
  <2>2. q[e[After(m - 1, m)]] = e[m - 1]
    BY <2>1, <1>1, Zenon
  <2> QED
    BY <2>1, <2>2, <1>1, Zenon
<1>4. m + 1 \in Nat /\ m + 1 > 0 /\ (m + 1) - 1 = m
  OBVIOUS
<1>5. f \in [0 .. m -> Buf]
  BY <1>1
<1>6. \A x, y \in 0 .. m : f[x] = f[y] => x = y
  BY <1>1, <1>2
<1>7. ASSUME NEW c \in Buf PROVE c \notin T \ {b} <=> \E i \in 0 .. m : f[i] = c
  BY <1>1, <1>2
<1>8. f[0] = h
  BY <1>1
<1>9. ASSUME NEW i \in 0 .. m
      PROVE  n2[f[i]] = f[After(i, m + 1)] /\ q2[f[After(i, m + 1)]] = f[i]
  <2>1. CASE i = m
    <3>1. f[i] = b /\ After(i, m + 1) = 0 /\ f[0] = h
      BY <2>1, <1>8 DEF After
    <3>2. h # b /\ q[h] # b /\ q[h] \in Buf
      BY <1>1, <1>2, <1>3
    <3> QED
      BY <3>1, <3>2
  <2>2. CASE i = m - 1
    <3>1. f[i] = q[h] /\ After(i, m + 1) = m /\ f[m] = b
      BY <2>2, <1>1, <1>3 DEF After
    <3>2. h # b /\ q[h] # b /\ q[h] \in Buf
      BY <1>1, <1>2, <1>3
    <3> QED
      BY <3>1, <3>2
  <2>3. CASE i < m - 1
    <3>1. /\ i \in 0 .. m - 1 /\ i + 1 \in 0 .. m - 1 /\ i + 1 # 0 /\ i # m - 1
          /\ After(i, m + 1) = i + 1 /\ After(i, m) = i + 1 /\ f[i] = e[i] /\ f[i + 1] = e[i + 1]
      BY <2>3, <1>1 DEF After
    <3>2. e[i] # b /\ e[i + 1] # b /\ e[i] # q[h] /\ e[i + 1] # h /\ e[i] \in Buf /\ e[i + 1] \in Buf
      BY <3>1, <1>1, <1>2, <1>3
    <3>3. n[e[i]] = e[i + 1] /\ q[e[i + 1]] = e[i]
      BY <3>1, <1>1
    <3> QED
      BY <3>1, <3>2, <3>3
  <2> QED
    BY <2>1, <2>2, <2>3
<1> HIDE DEF f, n2, q2
<1>10. Rings(m + 1, f, T \ {b}, h, n2, q2)
  BY <1>4, <1>5, <1>6, <1>7, <1>8, <1>9 DEF Rings
<1> QED
  BY <1>10 DEF n2, q2

-----------------------------------------------------------------------------
\* The buffers that getblk has taken out of the ring, and the ring of the others.
Off == {b \in Buf : \E p \in Proc : Taken(p) /\ bh[p] = b}
RingIs(m, e) == Rings(m, e, Off, freeList, nf, pf)
Ring == \E m \in Nat : \E e : RingIs(m, e)

\* A process on its way to a brelse, and one other than p.
Serves(p) == p \notin waiting /\ pc[p] # "idle" /\ mode[p] # "sync"
Helped(p) == \E r \in Proc : r # p /\ Serves(r)

\* A scan has passed pinned buffers only, from the beginning of the list on.
PassedPinned(b) ==
    \E m \in Nat : \E e : \E j \in 0 .. m - 1 :
        RingIs(m, e) /\ e[j] = b /\ \A i \in 0 .. j - 1 : e[i] \in Pinned

\* A scan that comes to the end finds nothing only if somebody serves; it does
\* not sleep before it has looked at the next buffer.
LookAt(p) ==
    /\ pc[p] = "scan" => cpu = p /\ (Helped(p) \/ PassedPinned(bh[p]))
    /\ pc[p] = "scanwait" => bh[p] \notin Pinned
LooksOK == \A p \in Proc : LookAt(p)
WaitAtHash == \A p \in waiting : pc[p] = "hash"

FreeInv == Ring /\ WaitAtHash /\ LooksOK /\ SleepersServed

LEMMA UserServes ==
    ASSUME IInv, WaitAtHash, NEW r \in Proc, Use(r) # NULL
    PROVE  Serves(r)
<1>1. Taken(r) \/ pc[r] \in Holds
  BY UsesOf DEF IInv, Typed, Procs
<1>2. pc[r] # "hash" /\ pc[r] # "idle" /\ mode[r] # "sync"
  BY <1>1 DEF Taken, TakenAt, Holds, IInv, CallOK, CallAt
<1> QED
  BY <1>2 DEF Serves, WaitAtHash

\* Whoever counts on a buffer that the scan cannot have will release it.
LEMMA CountHelps ==
    ASSUME IInv, WaitAtHash, NEW p \in Proc, pc[p] \in Looks, NEW b \in Buf, b \notin Pinned, count[b] # 0
    PROVE  Helped(p)
<1>1. Cardinality(UsersOf(b)) # 0
  BY CountIs DEF IInv, One
<1>2. UsersOf(b) # {}
  BY <1>1, FS_EmptySet
<1>3. PICK r \in Proc : Use(r) = b
  BY <1>2 DEF UsersOf
<1>4. Use(r) # NULL /\ Use(p) = NULL
  BY <1>3, Consts DEF Use, UseAt
<1> QED
  BY <1>4, UserServes DEF Helped

\* While one process scans no other one moves.
LEMMA LooksKept ==
    ASSUME LooksOK, NEW p \in Proc, Others(p), cpu \in {p, NULL}, LookAt(p)'
    PROVE  LooksOK'
<1> SUFFICES ASSUME NEW q \in Proc, q # p PROVE LookAt(q)'
  BY DEF LooksOK
<1>1. pc'[q] = pc[q] /\ bh'[q] = bh[q]
  BY DEF Others
<1>2. pc[q] # "scan"
  BY Consts DEF LooksOK, LookAt
<1> QED
  BY <1>1, <1>2 DEF LooksOK, LookAt

LEMMA ServedIs == SleepersServed <=> (waiting # {} => \E r \in Proc : Serves(r))
BY DEF SleepersServed, Serves

LEMMA ServedIsNext == SleepersServed' <=> (waiting' # {} => \E r \in Proc : Serves(r)')
BY DEF SleepersServed, Serves

\* Who serves keeps to it until it wakes everybody.
LEMMA ServedKept ==
    ASSUME SleepersServed, NEW p \in Proc, Others(p), waiting' = waiting,
           Serves(p) => pc'[p] # "idle" /\ mode'[p] # "sync"
    PROVE  SleepersServed'
<1> SUFFICES ASSUME NEW r \in Proc, Serves(r) PROVE Serves(r)'
  BY ServedIs, ServedIsNext
<1> QED
  BY DEF Serves, Others

LEMMA OffKept ==
    ASSUME NEW p \in Proc, Others(p), Taken(p)' <=> Taken(p), Taken(p) => bh'[p] = bh[p]
    PROVE  Off' = Off
<1>1. ASSUME NEW q \in Proc PROVE (Taken(q)' <=> Taken(q)) /\ (Taken(q) => bh'[q] = bh[q])
  <2>1. CASE q # p
    BY <2>1 DEF Others, Taken
  <2> QED
    BY <2>1
<1> QED
  BY <1>1 DEF Off

LEMMA RingKept ==
    ASSUME Off' = Off, UNCHANGED listVars
    PROVE  /\ Ring => Ring'
           /\ \A m, e : RingIs(m, e)' <=> RingIs(m, e)
BY DEF Ring, RingIs, listVars

\* What is beside the ring follows p.
LEMMA RestFree ==
    ASSUME IInv, FreeInv, NEW p \in Proc, Others(p), cpu \in {p, NULL}, p \notin waiting, LookAt(p)',
           \/ waiting' = {}
           \/ waiting' = waiting /\ (Serves(p) => pc'[p] # "idle" /\ mode'[p] # "sync")
    PROVE  WaitAtHash' /\ LooksOK' /\ SleepersServed'
<1>1. WaitAtHash'
  <2> SUFFICES ASSUME NEW q \in waiting' PROVE pc'[q] = "hash"
    BY DEF WaitAtHash
  <2>1. q \in waiting /\ q \in Proc /\ q # p
    BY DEF IInv, Typed, Procs
  <2> QED
    BY <2>1 DEF FreeInv, WaitAtHash, Others
<1>2. LooksOK'
  BY LooksKept DEF FreeInv
<1>3. SleepersServed'
  BY ServedKept, ServedIsNext DEF FreeInv
<1> QED
  BY <1>1, <1>2, <1>3

\* A step of p that leaves the list alone.
LEMMA PlainFree ==
    ASSUME IInv, FreeInv, NEW p \in Proc, Others(p), cpu \in {p, NULL}, p \notin waiting,
           UNCHANGED listVars, Taken(p)' <=> Taken(p), Taken(p) => bh'[p] = bh[p],
           LookAt(p)',
           \/ waiting' = {}
           \/ waiting' = waiting /\ (Serves(p) => pc'[p] # "idle" /\ mode'[p] # "sync")
    PROVE  FreeInv'
<1>1. Ring'
  BY OffKept, RingKept DEF FreeInv
<1> QED
  BY <1>1, RestFree DEF FreeInv

\* The calls that do not look at the free list.
LEMMA CallsFree ==
    ASSUME IInv, FreeInv, NEW p \in Proc,
           \/ \E k \in Block, m \in {"bread", "new"} : Start(p, k, m)
           \/ SysSync(p) \/ HashWait(p) \/ SyncDev(p) \/ SyncWritten(p) \/ SyncEnds(p)
           \/ Got(p) \/ ReadDone(p) \/ Brelse(p)
    PROVE  FreeInv'
<1> DEFINE Goal == /\ Others(p) /\ cpu \in {p, NULL} /\ UNCHANGED listVars
                   /\ pc[p] # "hash" /\ pc'[p] \notin Looks
                   /\ Taken(p)' <=> Taken(p)
                   /\ Taken(p) => bh'[p] = bh[p]
                   /\ \/ waiting' = {}
                      \/ waiting' = waiting /\ (Serves(p) => pc'[p] # "idle" /\ mode'[p] # "sync")
<1> SUFFICES Goal
  <2> SUFFICES ASSUME Goal PROVE FreeInv'
    OBVIOUS
  <2>1. LookAt(p)' /\ p \notin waiting
    BY DEF LookAt, Looks, FreeInv, WaitAtHash
  <2> QED
    BY <2>1, PlainFree
<1> USE DEF bufVars, listVars, histVars
<1>1. CASE \E k \in Block, m \in {"bread", "new"} : Start(p, k, m)
  <2>1. PICK k \in Block, m \in {"bread", "new"} : Start(p, k, m)
    BY <1>1
  <2>2. pc[p] = "idle" /\ cpu = NULL /\ pc'[p] = "hash" /\ waiting' = waiting /\ Others(p) /\ UNCHANGED listVars
    BY <2>1 DEF Start, Keeps, Others, IInv, Typed, Procs
  <2> QED
    BY <2>2 DEF Taken, TakenAt, Serves, Looks
<1>2. CASE SysSync(p)
  <2>1. /\ pc[p] = "idle" /\ cpu = NULL /\ pc'[p] = "sync" /\ mode'[p] = "sync" /\ waiting' = waiting
        /\ Others(p) /\ UNCHANGED listVars
    BY <1>2 DEF SysSync, Keeps, Others, IInv, Typed, Procs
  <2> QED
    BY <2>1 DEF Taken, TakenAt, Serves, Looks
<1>3. CASE HashWait(p)
  <2>1. /\ pc[p] = "hashwait" /\ cpu \in {p, NULL} /\ pc'[p] \in {"got", "hash"} /\ mode'[p] = mode[p]
        /\ waiting' \in {waiting, {}} /\ UNCHANGED listVars
    BY <1>3 DEF HashWait, Runs, Keeps, IInv, Typed, Procs
  <2>2. Others(p)
    BY <1>3 DEF HashWait, Runs, Keeps, Others, IInv, Typed, Procs
  <2> QED
    BY <2>1, <2>2 DEF Taken, TakenAt, Serves, Looks
<1>4. CASE SyncDev(p)
  <2>1. /\ pc[p] = "sync" /\ cpu \in {p, NULL} /\ pc'[p] \in {"sync", "syncio"} /\ mode' = mode /\ bh' = bh
        /\ waiting' = waiting /\ UNCHANGED listVars
    BY <1>4 DEF SyncDev, Runs, Keeps, Yields, IInv, Typed, Procs
  <2>2. Others(p)
    BY <1>4 DEF SyncDev, SyncNext, Keeps, Yields, Others, IInv, Typed, Procs
  <2> QED
    BY <2>1, <2>2 DEF Taken, TakenAt, Serves, Looks
<1>5. CASE SyncWritten(p)
  <2>1. /\ pc[p] = "syncio" /\ cpu \in {p, NULL} /\ pc'[p] = "sync" /\ mode' = mode /\ bh' = bh
        /\ waiting' = waiting /\ UNCHANGED listVars
    BY <1>5 DEF SyncWritten, Runs, Keeps, IInv, Typed, Procs
  <2>2. Others(p)
    BY <1>5 DEF SyncWritten, SyncNext, Keeps, Others, IInv, Typed, Procs
  <2> QED
    BY <2>1, <2>2 DEF Taken, TakenAt, Serves, Looks
<1>6. CASE SyncEnds(p)
  <2>1. /\ pc[p] = "sync" /\ cpu \in {p, NULL} /\ waiting' = waiting /\ UNCHANGED listVars
        /\ \/ mode[p] = "sync" /\ pc'[p] = "idle"
           \/ mode[p] # "sync" /\ pc'[p] = "fill" /\ mode' = mode /\ bh' = bh
    BY <1>6 DEF SyncEnds, Runs, Keeps, Yields, Leave, IInv, Typed, Procs
  <2>2. Others(p)
    BY <1>6 DEF SyncEnds, Keeps, Yields, Leave, Others, IInv, Typed, Procs
  <2> QED
    BY <2>1, <2>2 DEF Taken, TakenAt, Serves, Looks
<1>7. CASE Got(p)
  <2>1. /\ pc[p] = "got" /\ cpu \in {p, NULL} /\ pc'[p] \in {"hold", "readio"} /\ mode' = mode
        /\ waiting' = waiting /\ UNCHANGED listVars
    BY <1>7 DEF Got, Runs, Yields, IInv, Typed, Procs
  <2>2. Others(p)
    BY <1>7 DEF Got, Yields, Others, IInv, Typed, Procs
  <2> QED
    BY <2>1, <2>2 DEF Taken, TakenAt, Serves, Looks
<1>8. CASE ReadDone(p)
  <2>1. /\ pc[p] = "readio" /\ cpu \in {p, NULL} /\ UNCHANGED listVars
        /\ \/ pc'[p] = "hold" /\ mode' = mode /\ waiting' = waiting
           \/ pc'[p] = "idle" /\ waiting' = {}
    BY <1>8 DEF ReadDone, Runs, Yields, Drop, Leave, IInv, Typed, Procs
  <2>2. Others(p)
    BY <1>8 DEF ReadDone, Yields, Leave, Others, IInv, Typed, Procs
  <2> QED
    BY <2>1, <2>2 DEF Taken, TakenAt, Serves, Looks
<1>9. CASE Brelse(p)
  <2>1. pc[p] = "hold" /\ cpu = NULL /\ UNCHANGED listVars /\ pc'[p] = "idle" /\ waiting' = {}
    BY <1>9 DEF Brelse, Yields, Drop, Leave, IInv, Typed, Procs
  <2>2. Others(p)
    BY <1>9 DEF Brelse, Yields, Leave, Others, IInv, Typed, Procs
  <2> QED
    BY <2>1, <2>2 DEF Taken, TakenAt, Serves, Looks
<1> HIDE DEF Goal
<1> QED
  BY <1>1, <1>2, <1>3, <1>4, <1>5, <1>6, <1>7, <1>8, <1>9

LEMMA HelpedKept ==
    ASSUME NEW p \in Proc, Others(p), waiting' \subseteq waiting \union {p}, Helped(p)
    PROVE  Helped(p)'
BY DEF Helped, Serves, Others

LEMMA GetHashTableFree ==
    ASSUME IInv, FreeInv, NEW p \in Proc, GetHashTable(p)
    PROVE  FreeInv'
<1> USE DEF listVars
<1>1. /\ pc[p] = "hash" /\ cpu \in {p, NULL} /\ p \notin waiting /\ waiting' = waiting /\ mode' = mode
      /\ UNCHANGED listVars
      /\ \/ pc'[p] = "hashwait"
         \/ pc'[p] = "scan" /\ cpu' = p /\ bh'[p] = freeList
  BY DEF GetHashTable, Runs, Keeps, WaitsOn, IInv, Typed, Procs
<1>2. Others(p)
  BY DEF GetHashTable, Keeps, WaitsOn, Others, IInv, Typed, Procs
<1>3. ~Taken(p) /\ ~Taken(p)' /\ pc'[p] # "idle"
  BY <1>1 DEF Taken, TakenAt
<1>4. PassedPinned(freeList)'
  <2>1. PICK m \in Nat : \E e : RingIs(m, e)
    BY DEF FreeInv, Ring
  <2>2. PICK e : RingIs(m, e)
    BY <2>1
  <2>3. RingIs(m, e)'
    BY <1>1, <1>2, <1>3, <2>2, OffKept, RingKept
  <2>4. m > 0 /\ e[0] = freeList
    BY <2>2 DEF RingIs, Rings
  <2>5. 0 \in 0 .. m - 1 /\ \A i \in 0 .. 0 - 1 : e[i] \in Pinned
    BY <2>4
  <2> QED
    BY <1>1, <2>3, <2>4, <2>5 DEF PassedPinned
<1>5. LookAt(p)'
  BY <1>1, <1>4 DEF LookAt
<1>6. Serves(p) => mode'[p] # "sync"
  BY <1>1 DEF Serves
<1> QED
  BY <1>1, <1>2, <1>3, <1>5, <1>6, PlainFree

\* The scan goes on, or sleeps: then somebody serves.
LEMMA AllPinnedHelps ==
    ASSUME IInv, WaitAtHash, NEW p \in Proc, pc[p] \in Looks, NEW m \in Nat, NEW e, RingIs(m, e),
           \A i \in 0 .. m - 1 : e[i] \in Pinned
    PROVE  Helped(p)
<1>1. PICK c \in Buf : c \notin Pinned
  BY BufferAssumption
<1>2. c \in Off
  BY <1>1 DEF RingIs, Rings
<1>3. PICK r \in Proc : Taken(r) /\ bh[r] = c
  BY <1>2 DEF Off
<1>4. Use(r) # NULL
  BY <1>3, UsesOf, Consts DEF IInv
<1>5. r # p
  BY <1>3 DEF Taken, TakenAt, Looks
<1> QED
  BY <1>4, <1>5, UserServes DEF Helped

LEMMA NextFreeFree ==
    ASSUME IInv, FreeInv, NEW p \in Proc, pc[p] \in Looks, cpu \in {p, NULL}, count[bh[p]] # 0, NextFree(p),
           UNCHANGED <<bufVars, listVars, disk, sent, want, mode, idx, histVars, calls>>
    PROVE  FreeInv'
<1>0. bh[p] \in Buf
  BY DEF IInv, CallOK, CallAt, Looks
<1>1. Helped(p) \/ (bh[p] \in Pinned /\ PassedPinned(bh[p]))
  <2>1. CASE bh[p] \notin Pinned
    BY <2>1, <1>0, CountHelps DEF FreeInv
  <2>2. CASE bh[p] \in Pinned
    <3>1. pc[p] = "scan"
      BY <2>2 DEF Looks, FreeInv, LooksOK, LookAt
    <3> QED
      BY <2>2, <3>1 DEF FreeInv, LooksOK, LookAt
  <2> QED
    BY <2>1, <2>2
<1>2. Others(p) /\ UNCHANGED listVars /\ mode' = mode
  BY DEF NextFree, Keeps, Yields, Others, IInv, Typed, Procs
<1>3. pc[p] # "hash" /\ pc[p] # "idle" /\ p \notin waiting /\ ~Taken(p)
  BY DEF Looks, FreeInv, WaitAtHash, Taken, TakenAt
<1>4. CASE nf[bh[p]] # freeList
  <2>1. pc'[p] = "scan" /\ cpu' = p /\ bh'[p] = nf[bh[p]] /\ waiting' = waiting
    BY <1>4 DEF NextFree, Keeps, IInv, Typed, Procs
  <2>2. ~Taken(p)'
    BY <2>1 DEF Taken, TakenAt
  <2>3. Helped(p)' \/ PassedPinned(bh[p])'
    <3>1. CASE Helped(p)
      BY <3>1, <1>2, <2>1, HelpedKept
    <3>2. CASE bh[p] \in Pinned /\ PassedPinned(bh[p])
      <4>1. PICK m \in Nat : \E e : \E j \in 0 .. m - 1 :
                RingIs(m, e) /\ e[j] = bh[p] /\ \A i \in 0 .. j - 1 : e[i] \in Pinned
        BY <3>2 DEF PassedPinned
      <4>2. PICK e : \E j \in 0 .. m - 1 :
                RingIs(m, e) /\ e[j] = bh[p] /\ \A i \in 0 .. j - 1 : e[i] \in Pinned
        BY <4>1
      <4>3. PICK j \in 0 .. m - 1 :
                RingIs(m, e) /\ e[j] = bh[p] /\ \A i \in 0 .. j - 1 : e[i] \in Pinned
        BY <4>2
      <4>4. e[After(j, m)] = nf[bh[p]] /\ e[0] = freeList
        BY <4>3 DEF RingIs, Rings
      <4>5. After(j, m) # 0
        BY <1>4, <4>4
      <4>6. After(j, m) = j + 1 /\ j + 1 \in 0 .. m - 1
        BY <4>5 DEF After
      <4>7. \A i \in 0 .. (j + 1) - 1 : e[i] \in Pinned
        BY <4>3, <3>2
      <4>8. RingIs(m, e)'
        BY <1>2, <1>3, <2>2, <4>3, OffKept, RingKept
      <4>9. e[j + 1] = bh'[p]
        BY <2>1, <4>4, <4>6
      <4> QED
        BY <4>6, <4>7, <4>8, <4>9 DEF PassedPinned
    <3> QED
      BY <3>1, <3>2, <1>1
  <2>4. LookAt(p)'
    BY <2>1, <2>3 DEF LookAt
  <2>5. Serves(p) => pc'[p] # "idle" /\ mode'[p] # "sync"
    BY <1>2, <2>1 DEF Serves
  <2> QED
    BY <1>2, <1>3, <2>1, <2>2, <2>4, <2>5, PlainFree
<1>5. CASE nf[bh[p]] = freeList
  <2>1. pc'[p] = "hash" /\ waiting' = waiting \union {p}
    BY <1>5 DEF NextFree, Yields, IInv, Typed, Procs
  <2>2. ~Taken(p)' /\ LookAt(p)'
    BY <2>1 DEF Taken, TakenAt, LookAt
  <2>3. Helped(p)
    <3> SUFFICES ASSUME bh[p] \in Pinned, PassedPinned(bh[p]) PROVE Helped(p)
      BY <1>1
    <3>1. PICK m \in Nat : \E e : \E j \in 0 .. m - 1 :
              RingIs(m, e) /\ e[j] = bh[p] /\ \A i \in 0 .. j - 1 : e[i] \in Pinned
      BY DEF PassedPinned
    <3>2. PICK e : \E j \in 0 .. m - 1 :
              RingIs(m, e) /\ e[j] = bh[p] /\ \A i \in 0 .. j - 1 : e[i] \in Pinned
      BY <3>1
    <3>3. PICK j \in 0 .. m - 1 :
              RingIs(m, e) /\ e[j] = bh[p] /\ \A i \in 0 .. j - 1 : e[i] \in Pinned
      BY <3>2
    <3>4. e[After(j, m)] = e[0]
      BY <1>5, <3>3 DEF RingIs, Rings
    <3>5. After(j, m) \in 0 .. m - 1 /\ 0 \in 0 .. m - 1
      BY DEF After
    <3>6. After(j, m) = 0
      BY <3>3, <3>4, <3>5 DEF RingIs, Rings
    <3>7. j = m - 1
      BY <3>6 DEF After
    <3>8. \A i \in 0 .. m - 1 : e[i] \in Pinned
      BY <3>3, <3>7
    <3> QED
      BY <3>3, <3>8, AllPinnedHelps DEF FreeInv
  <2>4. Helped(p)'
    BY <1>2, <2>1, <2>3, HelpedKept
  <2>5. SleepersServed'
    BY <2>4, ServedIsNext DEF Helped
  <2>6. WaitAtHash'
    <3> SUFFICES ASSUME NEW q \in waiting' PROVE pc'[q] = "hash"
      BY DEF WaitAtHash
    <3>1. q = p \/ (q \in waiting /\ q \in Proc /\ q # p)
      BY <2>1 DEF IInv, Typed, Procs
    <3> QED
      BY <1>2, <2>1, <3>1 DEF FreeInv, WaitAtHash, Others
  <2>7. Ring'
    BY <1>2, <1>3, <2>2, OffKept, RingKept DEF FreeInv
  <2>8. LooksOK'
    BY <1>2, <2>2, LooksKept DEF FreeInv
  <2> QED
    BY <2>5, <2>6, <2>7, <2>8 DEF FreeInv
<1> QED
  BY <1>4, <1>5

LEMMA ScanFree ==
    ASSUME IInv, FreeInv, NEW p \in Proc, Scan(p)
    PROVE  FreeInv'
<1>1. pc[p] = "scan" /\ cpu \in {p, NULL} /\ pc[p] \in Looks
  BY DEF Scan, Runs, Looks
<1>2. CASE count[bh[p]] # 0
  <2>1. NextFree(p) /\ UNCHANGED <<bufVars, listVars, disk, sent, want, mode, idx, histVars, calls>>
    BY <1>2 DEF Scan
  <2> QED
    BY <1>1, <1>2, <2>1, NextFreeFree
<1>3. CASE count[bh[p]] = 0
  <2>1. /\ pc'[p] = "scanwait" /\ bh' = bh /\ waiting' = waiting /\ mode' = mode /\ UNCHANGED listVars
    BY <1>3 DEF Scan, WaitsOn, IInv, Typed, Procs
  <2>2. Others(p)
    BY <1>3 DEF Scan, WaitsOn, Others, IInv, Typed, Procs
  <2>3. bh[p] \in Buf /\ bh[p] \notin Pinned
    <3>1. bh[p] \in Buf
      BY <1>1 DEF IInv, CallOK, CallAt, Looks
    <3> QED
      BY <3>1, <1>3, CountIs DEF IInv, One
  <2>4. LookAt(p)' /\ ~Taken(p) /\ ~Taken(p)' /\ p \notin waiting
    BY <1>1, <2>1, <2>3 DEF LookAt, Taken, TakenAt, FreeInv, WaitAtHash
  <2>5. Serves(p) => pc'[p] # "idle" /\ mode'[p] # "sync"
    BY <2>1 DEF Serves
  <2> QED
    BY <1>1, <2>1, <2>2, <2>4, <2>5, PlainFree
<1> QED
  BY <1>2, <1>3

LEMMA OffIs ==
    ASSUME IInv, NEW b \in Off
    PROVE  b \in Buf /\ b \notin Pinned /\ count[b] = 1 /\ \E p \in Proc : Use(p) = b
<1>1. PICK r \in Proc : Taken(r) /\ bh[r] = b
  BY DEF Off
<1>2. b \in Buf /\ Use(r) = b /\ count[b] = 1
  BY <1>1, UsesOf DEF IInv, TakenAlone
<1>3. Cardinality(UsersOf(b)) >= 1
  BY <1>2, HasUser
<1> QED
  BY <1>2, <1>3, CountIs DEF IInv, One

\* getblk takes a buffer out of the ring.
LEMMA TakesFree ==
    ASSUME IInv, FreeInv, NEW p \in Proc, pc[p] = "scanwait", cpu \in {p, NULL}, Takes(p, bh[p])
    PROVE  FreeInv'
<1> DEFINE b == bh[p]
<1>1. /\ b \in Buf /\ mode[p] # "sync" /\ count[b] = 0 /\ b \notin Pinned /\ ~Taken(p) /\ p \notin waiting
      /\ nf \in [Buf -> Buf] /\ pf \in [Buf -> Buf] /\ freeList \in Buf
  BY DEF IInv, CallOK, CallAt, Looks, Takes, FreeInv, LooksOK, LookAt, WaitAtHash, Taken, TakenAt, Typed, Lists
<1>2. /\ nf' = [nf EXCEPT ![pf[b]] = nf[b]] /\ pf' = [pf EXCEPT ![nf[b]] = pf[b]]
      /\ freeList' = IF freeList = b THEN nf[b] ELSE freeList
  BY DEF Takes, RemoveFromQueues
<1>3. Others(p) /\ pc'[p] \in {"sync", "fill"} /\ mode' = mode /\ bh' = bh /\ waiting' = waiting
  BY DEF Takes, Keeps, Others, IInv, Typed, Procs
<1>4. Off' = Off \union {b}
  <2>1. Taken(p)'
    BY <1>1, <1>3 DEF Taken, TakenAt
  <2>2. \A q \in Proc : q # p => (Taken(q)' <=> Taken(q))
    BY <1>3 DEF Taken, Others
  <2> QED
    BY <1>1, <1>3, <2>1, <2>2 DEF Off
<1>5. b \notin Off
  BY <1>1, OffIs
<1>6. PICK m \in Nat : \E e : RingIs(m, e)
  BY DEF FreeInv, Ring
<1>7. PICK e : RingIs(m, e)
  BY <1>6
<1>8. PICK j \in 0 .. m - 1 : e[j] = b
  BY <1>1, <1>5, <1>7 DEF RingIs, Rings
<1>9. m > 1
  <2>1. PICK c \in Pinned : TRUE
    BY BufferAssumption
  <2>2. c \in Buf /\ c \notin Off
    BY <2>1, OffIs, Consts
  <2>3. PICK i \in 0 .. m - 1 : e[i] = c
    BY <2>2, <1>7 DEF RingIs, Rings
  <2>4. i # j
    BY <1>1, <1>8, <2>1, <2>3
  <2> QED
    BY <2>4
<1>10. Rings(m, e, Off, freeList, nf, pf)
  BY <1>7 DEF RingIs
<1>11. \E f : Rings(m - 1, f, Off \union {e[j]}, IF freeList = e[j] THEN nf[e[j]] ELSE freeList,
                   [nf EXCEPT ![pf[e[j]]] = nf[e[j]]], [pf EXCEPT ![nf[e[j]]] = pf[e[j]]])
  BY <1>1, <1>9, <1>10, RingLoses
<1>12. PICK f : Rings(m - 1, f, Off', freeList', nf', pf')
  BY <1>2, <1>4, <1>8, <1>11
<1>13. Ring'
  <2>1. m - 1 \in Nat
    BY <1>9
  <2> QED
    BY <1>12, <2>1 DEF Ring, RingIs
<1>14. LookAt(p)' /\ (Serves(p) => pc'[p] # "idle" /\ mode'[p] # "sync")
  BY <1>1, <1>3 DEF LookAt
<1> QED
  BY <1>1, <1>3, <1>13, <1>14, RestFree DEF FreeInv

LEMMA ScanWaitFree ==
    ASSUME IInv, FreeInv, NEW p \in Proc, ScanWait(p)
    PROVE  FreeInv'
<1>1. pc[p] = "scanwait" /\ cpu \in {p, NULL} /\ pc[p] \in Looks
  BY DEF ScanWait, Runs, Looks
<1>2. CASE count[bh[p]] # 0
  <2>1. NextFree(p) /\ UNCHANGED <<bufVars, listVars, disk, sent, want, mode, idx, histVars, calls>>
    BY <1>2 DEF ScanWait, bufVars
  <2> QED
    BY <1>1, <1>2, <2>1, NextFreeFree
<1>3. CASE count[bh[p]] = 0
  <2>1. Takes(p, bh[p])
    BY <1>3 DEF ScanWait, Takes
  <2> QED
    BY <1>1, <2>1, TakesFree
<1> QED
  BY <1>2, <1>3

\* getblk puts its buffer back at the end of the ring, for a block or unused.
LEMMA FillFree ==
    ASSUME IInv, FreeInv, NEW p \in Proc, Fill(p)
    PROVE  FreeInv'
<1> DEFINE b == bh[p]
<1>1. /\ pc[p] = "fill" /\ cpu \in {p, NULL} /\ b \in Buf /\ mode[p] # "sync" /\ Taken(p) /\ p \notin waiting
      /\ nf \in [Buf -> Buf] /\ pf \in [Buf -> Buf] /\ freeList \in Buf
  BY DEF Fill, Runs, IInv, CallOK, CallAt, Looks, Holds, FreeInv, WaitAtHash, Taken, TakenAt, Typed, Lists
<1>2. /\ nf' = [nf EXCEPT ![b] = freeList, ![pf[freeList]] = b]
      /\ pf' = [pf EXCEPT ![b] = pf[freeList], ![freeList] = b]
      /\ freeList' = freeList
  BY DEF Fill, InsertIntoQueues
<1>3. pc'[p] \in {"hash", "got"} /\ mode' = mode /\ waiting' = waiting
  BY DEF Fill, Keeps, IInv, Typed, Procs
<1>4. Others(p)
  BY DEF Fill, Keeps, Others, IInv, Typed, Procs
<1>5. b \in Off
  BY <1>1 DEF Off
<1>6. Off' = Off \ {b}
  <2>1. ~Taken(p)'
    BY <1>3 DEF Taken, TakenAt
  <2>2. ASSUME NEW q \in Proc, q # p PROVE (Taken(q)' <=> Taken(q)) /\ bh'[q] = bh[q]
    BY <2>2, <1>4 DEF Taken, Others
  <2>3. ASSUME NEW q \in Proc, q # p, Taken(q) PROVE bh[q] # b
    BY <2>3, <1>1, TakenApart, UsesOf DEF IInv
  <2> QED
    BY <1>1, <2>1, <2>2, <2>3 DEF Off
<1>7. PICK m \in Nat : \E e : RingIs(m, e)
  BY DEF FreeInv, Ring
<1>8. PICK e : RingIs(m, e)
  BY <1>7
<1>9. Rings(m, e, Off, freeList, nf, pf)
  BY <1>8 DEF RingIs
<1>10. PICK f : Rings(m + 1, f, Off \ {b}, freeList, [nf EXCEPT ![b] = freeList, ![pf[freeList]] = b],
                      [pf EXCEPT ![b] = pf[freeList], ![freeList] = b])
  BY <1>1, <1>5, <1>9, RingGets
<1>11. Rings(m + 1, f, Off', freeList', nf', pf')
  BY <1>2, <1>6, <1>10
<1>12. Ring'
  <2>1. m + 1 \in Nat
    OBVIOUS
  <2> QED
    BY <1>11, <2>1 DEF Ring, RingIs
<1>13. LookAt(p)' /\ (Serves(p) => pc'[p] # "idle" /\ mode'[p] # "sync")
  BY <1>1, <1>3 DEF LookAt
<1> QED
  BY <1>1, <1>3, <1>4, <1>12, <1>13, RestFree DEF FreeInv

LEMMA IdleFree ==
    ASSUME FreeInv, UNCHANGED <<listVars, procVars>>
    PROVE  FreeInv'
<1> USE DEF listVars, procVars
<1>1. Off' = Off
  BY DEF Off, Taken
<1>2. Ring' /\ \A m, e : RingIs(m, e)' <=> RingIs(m, e)
  BY <1>1, RingKept DEF FreeInv
<1>3. \A b : PassedPinned(b) => PassedPinned(b)'
  BY <1>2 DEF PassedPinned
<1>4. LooksOK'
  <2> SUFFICES ASSUME NEW p \in Proc PROVE LookAt(p)'
    BY DEF LooksOK
  <2>1. LookAt(p)
    BY DEF FreeInv, LooksOK
  <2>2. Helped(p) => Helped(p)'
    BY DEF Helped, Serves
  <2>3. PassedPinned(bh[p]) => PassedPinned(bh[p])'
    BY <1>2 DEF PassedPinned
  <2> QED
    BY <2>1, <2>2, <2>3 DEF LookAt
<1>5. WaitAtHash' /\ SleepersServed'
  BY DEF FreeInv, WaitAtHash, SleepersServed
<1> QED
  BY <1>2, <1>4, <1>5 DEF FreeInv

LEMMA Wraps ==
    ASSUME NEW m \in Nat, m > 0
    PROVE  /\ 0 % m = 0
           /\ \A i \in 0 .. m - 1 : i % m = i
           /\ m % m = 0
           /\ \A i \in Nat : i % m \in 0 .. m - 1
OBVIOUS

LEMMA WrapsOn ==
    ASSUME NEW m \in Nat, m > 0, NEW i \in Nat
    PROVE  (i + 1) % m = After(i % m, m)
<1> DEFINE d == i \div m
           r == i % m
<1>1. d \in Nat /\ r \in 0 .. m - 1 /\ i = m * d + r
  OBVIOUS
<1> HIDE DEF d, r
<1>2. ASSUME NEW x \in Nat, NEW y \in 0 .. m - 1 PROVE (m * x + y) % m = y
  OBVIOUS
<1>3. CASE r = m - 1
  <2>1. d + 1 \in Nat /\ m * (d + 1) = m * d + m /\ 0 \in 0 .. m - 1
    BY <1>1
  <2>2. i + 1 = m * (d + 1) + 0
    BY <1>1, <1>3, <2>1
  <2> QED
    BY <1>2, <1>3, <2>1, <2>2 DEF After, r
<1>4. CASE r # m - 1
  <2>1. r + 1 \in 0 .. m - 1 /\ i + 1 = m * d + (r + 1)
    BY <1>1, <1>4
  <2> QED
    BY <1>1, <1>2, <1>4, <2>1 DEF After, r
<1> QED
  BY <1>3, <1>4

LEMMA InitFree == Init => FreeInv
<1> SUFFICES ASSUME Init PROVE FreeInv
  OBVIOUS
<1> DEFINE m == NrBuffers
           e == [i \in 0 .. m - 1 |-> i + 1]
<1>1. Off = {} /\ WaitAtHash /\ LooksOK /\ SleepersServed
  BY DEF Init, Off, Taken, TakenAt, WaitAtHash, LooksOK, LookAt, SleepersServed
<1>2. m \in Nat /\ m > 0 /\ e \in [0 .. m - 1 -> Buf] /\ \A x, y \in 0 .. m - 1 : e[x] = e[y] => x = y
  BY Consts DEF Buf
<1>3. ASSUME NEW b \in Buf PROVE \E i \in 0 .. m - 1 : e[i] = b
  <2>1. b - 1 \in 0 .. m - 1 /\ e[b - 1] = b
    BY Consts DEF Buf
  <2> QED
    BY <2>1
<1>4. e[0] = freeList
  BY Consts DEF Init
<1>5. ASSUME NEW i \in 0 .. m - 1
      PROVE  nf[e[i]] = e[After(i, m)] /\ pf[e[After(i, m)]] = e[i]
  <2>1. e[i] = i + 1 /\ i + 1 \in Buf /\ After(i, m) \in 0 .. m - 1 /\ e[After(i, m)] = After(i, m) + 1
        /\ After(i, m) + 1 \in Buf
    BY Consts DEF Buf, After
  <2>2. nf[i + 1] = ((i + 1) % m) + 1
    BY <2>1 DEF Init
  <2>3. (i + 1) % m = After(i, m)
    BY <1>2, Wraps DEF After
  <2>4. pf[After(i, m) + 1] = IF After(i, m) + 1 = 1 THEN m ELSE After(i, m) + 1 - 1
    BY <2>1 DEF Init
  <2>5. pf[After(i, m) + 1] = i + 1
    BY <2>4, Consts DEF After
  <2> QED
    BY <2>1, <2>2, <2>3, <2>5
<1> HIDE DEF e, m
<1>6. RingIs(m, e)
  BY <1>1, <1>2, <1>3, <1>4, <1>5 DEF RingIs, Rings
<1> QED
  BY <1>1, <1>2, <1>6 DEF FreeInv, Ring

LEMMA NextFreeInv == IInv /\ FreeInv /\ [Next]_vars => FreeInv'
<1> SUFFICES ASSUME IInv, FreeInv, [Next]_vars PROVE FreeInv'
  OBVIOUS
<1>1. CASE UNCHANGED vars
  BY <1>1, IdleFree DEF vars
<1>2. CASE Next
  <2>1. ASSUME NEW p \in Proc, NEW k \in Block, NEW m \in {"bread", "new"}, Start(p, k, m) PROVE FreeInv'
    BY <2>1, CallsFree
  <2>2. ASSUME NEW p \in Proc, SysSync(p) PROVE FreeInv'
    BY <2>2, CallsFree
  <2>3. ASSUME NEW p \in Proc, ProcStep(p) PROVE FreeInv'
    BY <2>3, CallsFree, GetHashTableFree, ScanFree, ScanWaitFree, FillFree DEF ProcStep
  <2>4. ASSUME NEW b \in Buf, Modify(b) PROVE FreeInv'
    BY <2>4, IdleFree DEF Modify
  <2>5. ASSUME NEW b \in Buf, HdInterrupt(b) PROVE FreeInv'
    BY <2>5, IdleFree DEF HdInterrupt
  <2> QED
    BY <1>2, <2>1, <2>2, <2>3, <2>4, <2>5 DEF Next
<1> QED
  BY <1>1, <1>2

\* The ring has no more buffers than there are.
LEMMA RingSize ==
    ASSUME NEW m \in Nat, NEW e, RingIs(m, e)
    PROVE  m <= NrBuffers
<1> SUFFICES ASSUME m > NrBuffers PROVE FALSE
  BY Consts
<1> DEFINE A == 0 .. m - 1
<1>1. e \in [A -> Buf] /\ \A x, y \in A : e[x] = e[y] => x = y
  BY DEF RingIs, Rings
<1>2. IsFiniteSet(A) /\ Cardinality(A) = m
  <2>1. 0 \in Int /\ m - 1 \in Int /\ ~(0 > m - 1) /\ (m - 1) - 0 + 1 = m
    BY Consts
  <2> QED
    BY <2>1, FS_Interval
<1>3. IsFiniteSet(Buf) /\ Cardinality(Buf) = NrBuffers
  <2>1. 1 \in Int /\ NrBuffers \in Int /\ ~(1 > NrBuffers) /\ NrBuffers - 1 + 1 = NrBuffers
    BY Consts
  <2> QED
    BY <2>1, FS_Interval DEF Buf
<1>4. Cardinality(Buf) < Cardinality(A)
  BY <1>2, <1>3, Consts
<1> HIDE DEF A
<1>5. \E x, y \in A : x # y /\ e[x] = e[y]
  BY <1>1, <1>2, <1>3, <1>4, FS_PigeonHole
<1> QED
  BY <1>1, <1>5

\* The walk along the list goes round the ring.
LEMMA NthOf ==
    ASSUME Lists, NEW m \in Nat, NEW e, RingIs(m, e), NEW n \in 0 .. NrBuffers
    PROVE  FreeNth[n] = e[n % m]
<1> DEFINE F(f) == [i \in 0 .. NrBuffers |-> IF i = 0 THEN freeList ELSE nf[f[i - 1]]]
           g == [i \in 0 .. NrBuffers |-> e[i % m]]
<1>1. /\ m > 0 /\ e[0] = freeList
      /\ \A i \in 0 .. m - 1 : nf[e[i]] = e[After(i, m)]
  BY DEF RingIs, Rings
<1>2. g[0] = freeList
  BY <1>1, Wraps, Consts
<1>3. ASSUME NEW i \in 1 .. NrBuffers PROVE g[i] = nf[g[i - 1]]
  <2>1. i - 1 \in Nat /\ i - 1 \in 0 .. NrBuffers /\ i \in 0 .. NrBuffers /\ (i - 1) + 1 = i
    BY Consts
  <2>2. ((i - 1) + 1) % m = After((i - 1) % m, m)
    BY <1>1, <2>1, WrapsOn
  <2>3. i % m = After((i - 1) % m, m) /\ (i - 1) % m \in 0 .. m - 1
    BY <1>1, <2>1, <2>2, Wraps
  <2>4. g[i] = e[i % m] /\ g[i - 1] = e[(i - 1) % m]
    BY <2>1
  <2> QED
    BY <1>1, <2>3, <2>4
<1> DEFINE G == g
<1>4. G[0] = freeList /\ (\A i \in 1 .. NrBuffers : G[i] = nf[G[i - 1]])
      /\ G = [i \in 0 .. NrBuffers |-> G[i]] /\ G[n] = e[n % m]
  BY <1>2, <1>3
<1> HIDE DEF G
<1>5. G = F(G)
  <2>1. ASSUME NEW i \in 0 .. NrBuffers PROVE G[i] = F(G)[i]
    <3>1. CASE i = 0
      BY <3>1, <1>4
    <3>2. CASE i # 0
      <4>1. i \in 1 .. NrBuffers
        BY <3>2, Consts
      <4> QED
        BY <4>1, <3>2, <1>4
    <3> QED
      BY <3>1, <3>2
  <2> QED
    BY <2>1, <1>4
<1>6. FreeNth = CHOOSE f : f = F(f)
  BY DEF FreeNth
<1> HIDE DEF F
<1>7. FreeNth = F(FreeNth)
  BY <1>5, <1>6
<1> DEFINE f == FreeNth
<1> HIDE DEF f
<1>8. f[0] = freeList /\ \A i \in 1 .. NrBuffers : f[i] = nf[f[i - 1]]
  <2>1. F(f)[0] = freeList /\ \A i \in 1 .. NrBuffers : F(f)[i] = nf[f[i - 1]]
    BY Consts DEF F
  <2>2. f = F(f)
    BY <1>7 DEF f
  <2> QED
    BY <2>1, <2>2
<1>9. f[n] = G[n]
  <2> DEFINE D == {k \in 0 .. NrBuffers : f[k] # G[k]}
  <2> SUFFICES ASSUME D # {} PROVE FALSE
    OBVIOUS
  <2> DEFINE x == Min(D)
  <2>1. x \in D /\ \A y \in D : x <= y
    <3>1. D \in SUBSET Nat
      OBVIOUS
    <3> HIDE DEF D
    <3> QED
      BY <3>1, MinIsLeast
  <2> HIDE DEF x
  <2>2. x \in 0 .. NrBuffers /\ f[x] # G[x]
    BY <2>1
  <2>3. x # 0
    BY <2>2, <1>4, <1>8
  <2>4. x \in 1 .. NrBuffers /\ x - 1 \in 0 .. NrBuffers /\ x - 1 \notin D
    BY <2>1, <2>2, <2>3, Consts
  <2>5. f[x - 1] = G[x - 1]
    BY <2>4
  <2> QED
    BY <2>2, <2>4, <2>5, <1>4, <1>8
<1> QED
  BY <1>4, <1>9 DEF f

\* The free list stays one ring of all buffers that getblk has not taken out of
\* it, with its two links inverse to each other, and nobody sleeps on
\* buffer_wait while no other process is on its way to a brelse.
THEOREM FreeListKept == Spec => []FreeListWhole
<1>1. IInv /\ FreeInv => FreeListWhole
  <2> SUFFICES ASSUME IInv, FreeInv PROVE FreeListWhole
    OBVIOUS
  <2> DEFINE taken == {b \in Buf : \E p \in Users(b) : pc[p] \in {"sync", "syncio", "fill"}}
             ring == {FreeNth[n] : n \in 0 .. NrBuffers}
  <2>1. taken = Off
    BY Consts DEF Users, Off, Taken, TakenAt, IInv, CallOK, CallAt
  <2>2. PICK m \in Nat : \E e : RingIs(m, e)
    BY DEF FreeInv, Ring
  <2>3. PICK e : RingIs(m, e)
    BY <2>2
  <2>4. /\ m > 0 /\ e \in [0 .. m - 1 -> Buf]
        /\ \A b \in Buf : b \notin Off <=> \E i \in 0 .. m - 1 : e[i] = b
        /\ \A i \in 0 .. m - 1 : nf[e[i]] = e[After(i, m)] /\ pf[e[After(i, m)]] = e[i]
    BY <2>3 DEF RingIs, Rings
  <2>5. ASSUME NEW n \in 0 .. NrBuffers PROVE FreeNth[n] = e[n % m] /\ n % m \in 0 .. m - 1
    <3>1. n \in Nat /\ Lists
      BY DEF IInv, Typed
    <3> QED
      BY <3>1, <2>3, <2>4, NthOf, Wraps
  <2>6. ASSUME NEW i \in 0 .. m - 1 PROVE e[i] \in ring
    <3>1. i \in 0 .. NrBuffers
      BY <2>3, RingSize, Consts
    <3>2. i % m = i
      BY <2>4, Wraps
    <3>3. FreeNth[i] = e[i]
      BY <3>1, <3>2, <2>5
    <3> QED
      BY <3>1, <3>3
  <2>7. ASSUME NEW b \in ring PROVE \E i \in 0 .. m - 1 : e[i] = b
    BY <2>5
  <2> HIDE DEF ring, taken
  <2>8. ring = Buf \ Off
    BY <2>4, <2>6, <2>7
  <2>9. ASSUME NEW b \in ring PROVE pf[nf[b]] = b /\ nf[pf[b]] = b
    <3>1. PICK i \in 0 .. m - 1 : e[i] = b
      BY <2>7
    <3> DEFINE k == IF i = 0 THEN m - 1 ELSE i - 1
    <3>2. k \in 0 .. m - 1 /\ After(k, m) = i
      BY DEF After
    <3> HIDE DEF k
    <3>3. pf[nf[b]] = b
      BY <2>4, <3>1
    <3>4. pf[b] = e[k] /\ nf[e[k]] = b
      BY <2>4, <3>1, <3>2
    <3> QED
      BY <3>3, <3>4
  <2>10. SleepersServed
    BY DEF FreeInv
  <2> QED
    BY <2>1, <2>8, <2>9, <2>10 DEF FreeListWhole, taken, ring
<1> QED
  BY <1>1, InitIInv, NextIInv, InitFree, NextFreeInv, PTL DEF Spec
=============================================================================
