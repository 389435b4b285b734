---------------------------- MODULE BufferCache ----------------------------
(***************************************************************************)
(* fs/buffer.c: getblk(), bread(), brelse() and sync over a fixed set of   *)
(* buffer heads of one device.                                             *)
(*                                                                         *)
(* One process at a time is awake in the cache (cpu); it gives the         *)
(* processor away in wait_on_buffer, in sleep_on(&buffer_wait) and when it *)
(* has its buffer.  The disk is module HardDisk seen from outside: a       *)
(* locked buffer has a request under way, and requests end in any order.   *)
(*                                                                         *)
(* The contents of a block are a version number: every modification makes  *)
(* a new one up to a bound, latest is the last one made.  The hash queues  *)
(* are the set hashed; the free list keeps its pointers, which a sleeper   *)
(* may follow from a buffer that has left the list.                        *)
(***************************************************************************)
EXTENDS Integers, FiniteSets

CONSTANTS Proc,
          NrBuffers,   \* NR_BUFFERS
          Pinned,      \* buffers that mount_root holds for good: super block, bitmaps
          Block,       \* block numbers; buffer b of Pinned holds block -b
          MaxVersion,  \* bound: versions of a block; the last one repeats
          MaxCalls,    \* bound: calls in all
          MaxFaults,   \* bound: disk errors in all
          NULL

Buf == 1 .. NrBuffers
AllBlocks == Block \union {-b : b \in Pinned}

ASSUME BufferAssumption ==
    /\ NrBuffers \in Nat \ {0}
    /\ Pinned \subseteq Buf /\ Pinned # {} /\ Pinned # Buf
    /\ \A b \in Buf : -b \notin Block
    /\ {MaxVersion, MaxCalls, MaxFaults} \subseteq Nat
    /\ NULL \notin Proc /\ NULL \notin Block /\ NULL \notin Int
    /\ NULL \notin {"read", "write"} \X Proc \X AllBlocks
    /\ IsFiniteSet(Proc)

VARIABLES
    blk,       \* b_blocknr; NULL if b_dev = 0
    count,     \* b_count
    dirt,      \* b_dirt
    uptodate,  \* b_uptodate
    lock,      \* b_lock: NULL, or the request under way: command, process, block
    data,      \* the version in b_data
    hashed,    \* the buffers on the hash queues
    nf, pf,    \* b_next_free, b_prev_free
    freeList,  \* free_list
    disk,      \* the version on the disk
    sent,      \* the version that a write request found in the buffer
    cpu,       \* the process that is awake in the cache, or NULL
    pc,        \* where a process is
    want,      \* the block it asks for
    mode,      \* "bread": getblk and read; "new": getblk and overwrite; "sync"
    bh,        \* its buffer: tmp of getblk, bh of its callers
    idx,       \* i of sync_dev and sys_sync
    calls,     \* calls so far
    waiting,   \* the sleepers of buffer_wait that no wake_up has released
    latest,    \* history: the last version of each block
    faults,    \* disk errors so far
    hurt       \* history: the windows that were hit, see Coherent

bufVars == <<blk, count, dirt, uptodate, lock, data>>
listVars == <<hashed, nf, pf, freeList>>
procVars == <<cpu, pc, want, mode, bh, idx, waiting, calls>>
histVars == <<latest, faults, hurt>>
vars == <<bufVars, listVars, disk, sent, procVars, histVars>>

Version == 0 .. MaxVersion
Pc == {"idle", "hash", "hashwait", "scan", "scanwait", "sync", "syncio",
       "fill", "got", "readio", "hold"}

TypeOK ==
    /\ blk \in [Buf -> AllBlocks \union {NULL}]
    /\ count \in [Buf -> 0 .. Cardinality(Proc) + 1]
    /\ dirt \in [Buf -> BOOLEAN]
    /\ uptodate \in [Buf -> BOOLEAN]
    /\ lock \in [Buf -> {NULL} \union ({"read", "write"} \X Proc \X AllBlocks)]
    /\ data \in [Buf -> Version]
    /\ hashed \in SUBSET Buf
    /\ nf \in [Buf -> Buf] /\ pf \in [Buf -> Buf]
    /\ freeList \in Buf
    /\ disk \in [AllBlocks -> Version]
    /\ sent \in [Buf -> Version]
    /\ cpu \in Proc \union {NULL}
    /\ pc \in [Proc -> Pc]
    /\ want \in [Proc -> Block \union {NULL}]
    /\ mode \in [Proc -> {"bread", "new", "sync"}]
    /\ bh \in [Proc -> Buf \union {NULL}]
    /\ idx \in [Proc -> 1 .. NrBuffers + 1]
    /\ waiting \in SUBSET Proc
    /\ calls \in 0 .. MaxCalls
    /\ latest \in [AllBlocks -> Version]
    /\ faults \in 0 .. MaxFaults
    /\ hurt \in SUBSET {"evict", "modify", "error"}

\* After mount_root: the pinned buffers are held, the others are unused, in
\* the ring that buffer_init has made.
Init ==
    /\ blk = [b \in Buf |-> IF b \in Pinned THEN -b ELSE NULL]
    /\ count = [b \in Buf |-> IF b \in Pinned THEN 1 ELSE 0]
    /\ dirt = [b \in Buf |-> FALSE]
    /\ uptodate = [b \in Buf |-> b \in Pinned]
    /\ lock = [b \in Buf |-> NULL]
    /\ data = [b \in Buf |-> 0]
    /\ hashed = Pinned
    /\ nf = [b \in Buf |-> (b % NrBuffers) + 1]
    /\ pf = [b \in Buf |-> IF b = 1 THEN NrBuffers ELSE b - 1]
    /\ freeList = 1
    /\ disk = [k \in AllBlocks |-> 0]
    /\ sent = [b \in Buf |-> 0]
    /\ cpu = NULL
    /\ pc = [p \in Proc |-> "idle"]
    /\ want = [p \in Proc |-> NULL]
    /\ mode = [p \in Proc |-> "bread"]
    /\ bh = [p \in Proc |-> NULL]
    /\ idx = [p \in Proc |-> 1]
    /\ waiting = {}
    /\ calls = 0
    /\ latest = [k \in AllBlocks |-> 0]
    /\ faults = 0
    /\ hurt = {}

-----------------------------------------------------------------------------
\* p is running, or can go on from where it gave the processor away.
Runs(p, c) == cpu \in {p, NULL} /\ pc[p] = c
Keeps(p, c) == pc' = [pc EXCEPT ![p] = c] /\ cpu' = p
Yields(p, c) == pc' = [pc EXCEPT ![p] = c] /\ cpu' = NULL

\* wait_on_buffer(b) follows: it sleeps if the buffer is locked now.
WaitsOn(p, b, c) ==
    /\ pc' = [pc EXCEPT ![p] = c]
    /\ cpu' = IF lock[b] = NULL THEN p ELSE NULL

\* find_buffer.
Found(k) == {b \in hashed : blk[b] = k}

\* Mutant: free_list is left at a buffer that is taken out.
RemoveFromQueuesKeepsHead(b) ==
    /\ hashed' = hashed \ {b}
    /\ nf' = [nf EXCEPT ![pf[b]] = nf[b]]
    /\ pf' = [pf EXCEPT ![nf[b]] = pf[b]]
    /\ UNCHANGED freeList

\* remove_from_queues.
RemoveFromQueues(b) ==
    /\ hashed' = hashed \ {b}
    /\ nf' = [nf EXCEPT ![pf[b]] = nf[b]]
    /\ pf' = [pf EXCEPT ![nf[b]] = pf[b]]
    /\ freeList' = IF freeList = b THEN nf[b] ELSE freeList

\* insert_into_queues, at the end of the free list; onto a hash queue if the
\* buffer has a device.
InsertIntoQueues(b, dev) ==
    LET last == pf[freeList]
    IN /\ nf' = [nf EXCEPT ![b] = freeList, ![last] = b]
       /\ pf' = [pf EXCEPT ![b] = last, ![freeList] = b]
       /\ hashed' = IF dev THEN hashed \union {b} ELSE hashed
       /\ UNCHANGED freeList

\* ll_rw_block: rw_abs_hd locks the buffer and waits for it.
StartIo(p, b, cmd) ==
    /\ lock' = [lock EXCEPT ![b] = <<cmd, p, blk[b]>>]
    /\ sent' = [sent EXCEPT ![b] = IF cmd = "write" THEN data[b] ELSE @]

\* brelse once the buffer is unlocked.
Drop(b) ==
    /\ count' = [count EXCEPT ![b] = @ - 1]
    /\ waiting' = {}

\* The call is over.
Leave(p) ==
    /\ Yields(p, "idle")
    /\ bh' = [bh EXCEPT ![p] = NULL]
    /\ want' = [want EXCEPT ![p] = NULL]
    /\ mode' = [mode EXCEPT ![p] = "bread"]

\* New contents, and b_dirt = 1, as in file_write; new_block, add_entry,
\* write_inode and the others that change a block do the same.
NewVersion(b) ==
    LET k == blk[b]
        v == IF latest[k] < MaxVersion THEN latest[k] + 1 ELSE MaxVersion
    IN /\ latest' = [latest EXCEPT ![k] = v]
       /\ data' = [data EXCEPT ![b] = v]
       /\ dirt' = [dirt EXCEPT ![b] = TRUE]

-----------------------------------------------------------------------------
\* A system call asks for block k: getblk starts with get_hash_table.
Start(p, k, m) ==
    /\ cpu = NULL
    /\ pc[p] = "idle"
    /\ calls < MaxCalls
    /\ calls' = calls + 1
    /\ Keeps(p, "hash")
    /\ want' = [want EXCEPT ![p] = k]
    /\ mode' = [mode EXCEPT ![p] = m]
    /\ UNCHANGED <<bufVars, listVars, disk, sent, bh, idx, waiting, histVars>>

\* get_hash_table: the buffer is counted before the wait.
GetHashTable(p) ==
    /\ Runs(p, "hash")
    /\ p \notin waiting
    /\ \/ \E b \in Found(want[p]) :
            /\ count' = [count EXCEPT ![b] = @ + 1]
            /\ bh' = [bh EXCEPT ![p] = b]
            /\ WaitsOn(p, b, "hashwait")
       \/ /\ Found(want[p]) = {}
          /\ bh' = [bh EXCEPT ![p] = freeList]
          /\ Keeps(p, "scan")
          /\ UNCHANGED count
    /\ UNCHANGED <<blk, dirt, uptodate, lock, data, listVars, disk, sent, want, mode,
                   idx, waiting, histVars, calls>>

\* The buffer may have become another block's while the process slept.
HashWait(p) ==
    LET b == bh[p]
        ok == blk[b] = want[p]
    IN /\ Runs(p, "hashwait")
       /\ lock[b] = NULL
       /\ Keeps(p, IF ok THEN "got" ELSE "hash")
       /\ count' = [count EXCEPT ![b] = IF ok THEN @ ELSE @ - 1]
       /\ bh' = [bh EXCEPT ![p] = IF ok THEN b ELSE NULL]
       /\ waiting' = IF ok THEN waiting ELSE {}
       /\ UNCHANGED <<blk, dirt, uptodate, lock, data, listVars, disk, sent, want, mode,
                      idx, histVars, calls>>

\* The scan of the free list: on to the next buffer, or to sleep_on(&buffer_wait)
\* when the scan is back where the list begins now.
NextFree(p) ==
    IF nf[bh[p]] # freeList
      THEN /\ bh' = [bh EXCEPT ![p] = nf[bh[p]]]
           /\ Keeps(p, "scan")
           /\ UNCHANGED waiting
      ELSE /\ bh' = [bh EXCEPT ![p] = NULL]
           /\ waiting' = waiting \union {p}
           /\ Yields(p, "hash")

Scan(p) ==
    /\ Runs(p, "scan")
    /\ \/ /\ count[bh[p]] = 0
          /\ WaitsOn(p, bh[p], "scanwait")
          /\ UNCHANGED <<bh, waiting>>
       \/ /\ count[bh[p]] # 0
          /\ NextFree(p)
    /\ UNCHANGED <<bufVars, listVars, disk, sent, want, mode, idx, histVars, calls>>

\* Mutant: getblk does not write a dirty buffer out.
ScanWaitNoSync(p) ==
    LET b == bh[p]
    IN /\ Runs(p, "scanwait")
       /\ lock[b] = NULL
       /\ \/ /\ count[b] # 0
             /\ NextFree(p)
             /\ UNCHANGED <<count, listVars, idx>>
          \/ /\ count[b] = 0
             /\ count' = [count EXCEPT ![b] = 1]
             /\ RemoveFromQueues(b)
             /\ Keeps(p, "fill")
             /\ idx' = [idx EXCEPT ![p] = 1]
             /\ UNCHANGED <<bh, waiting>>
       /\ UNCHANGED <<blk, dirt, uptodate, lock, data, disk, sent, want, mode, histVars, calls>>

\* After the wait the buffer may be in use.  If not, take it: lines 166-174.
ScanWait(p) ==
    LET b == bh[p]
    IN /\ Runs(p, "scanwait")
       /\ lock[b] = NULL
       /\ \/ /\ count[b] # 0
             /\ NextFree(p)
             /\ UNCHANGED <<count, listVars, idx>>
          \/ /\ count[b] = 0
             /\ count' = [count EXCEPT ![b] = 1]
             /\ RemoveFromQueues(b)
             /\ Keeps(p, IF dirt[b] THEN "sync" ELSE "fill")
             /\ idx' = [idx EXCEPT ![p] = 1]
             /\ UNCHANGED <<bh, waiting>>
       /\ UNCHANGED <<blk, dirt, uptodate, lock, data, disk, sent, want, mode, histVars, calls>>

\* sys_sync without its sync_inodes, and sync_dev: every buffer of the device
\* in turn, dirty ones written and waited for.
SysSync(p) ==
    /\ cpu = NULL
    /\ pc[p] = "idle"
    /\ calls < MaxCalls
    /\ calls' = calls + 1
    /\ Keeps(p, "sync")
    /\ mode' = [mode EXCEPT ![p] = "sync"]
    /\ idx' = [idx EXCEPT ![p] = 1]
    /\ UNCHANGED <<bufVars, listVars, disk, sent, want, bh, waiting, histVars>>

SyncNext(p, i) == idx' = [idx EXCEPT ![p] = i + 1]

\* Mutant: a locked buffer is written again.
SyncDevNoWait(p) ==
    LET i == idx[p]
    IN /\ Runs(p, "sync")
       /\ i <= NrBuffers
       /\ \/ /\ blk[i] = NULL
             /\ Keeps(p, "sync")
             /\ SyncNext(p, i)
             /\ UNCHANGED <<lock, sent>>
          \/ /\ blk[i] # NULL /\ dirt[i]
             /\ StartIo(p, i, "write")
             /\ Yields(p, "syncio")
             /\ UNCHANGED idx
          \/ /\ blk[i] # NULL /\ ~dirt[i]
             /\ Keeps(p, "sync")
             /\ SyncNext(p, i)
             /\ UNCHANGED <<lock, sent>>
       /\ UNCHANGED <<blk, count, dirt, uptodate, data, listVars, disk, want, mode, bh,
                      waiting, histVars, calls>>

SyncDev(p) ==
    LET i == idx[p]
    IN /\ Runs(p, "sync")
       /\ i <= NrBuffers
       /\ \/ /\ blk[i] = NULL
             /\ Keeps(p, "sync")
             /\ SyncNext(p, i)
             /\ UNCHANGED <<lock, sent>>
          \/ /\ blk[i] # NULL /\ lock[i] # NULL
             /\ cpu = p
             /\ Yields(p, "sync")
             /\ UNCHANGED <<lock, sent, idx>>
          \/ /\ blk[i] # NULL /\ lock[i] = NULL /\ dirt[i]
             /\ StartIo(p, i, "write")
             /\ Yields(p, "syncio")
             /\ UNCHANGED idx
          \/ /\ blk[i] # NULL /\ lock[i] = NULL /\ ~dirt[i]
             /\ Keeps(p, "sync")
             /\ SyncNext(p, i)
             /\ UNCHANGED <<lock, sent>>
       /\ UNCHANGED <<blk, count, dirt, uptodate, data, listVars, disk, want, mode, bh,
                      waiting, histVars, calls>>

SyncWritten(p) ==
    LET i == idx[p]
    IN /\ Runs(p, "syncio")
       /\ lock[i] = NULL
       /\ Keeps(p, "sync")
       /\ SyncNext(p, i)
       /\ UNCHANGED <<bufVars, listVars, disk, sent, want, mode, bh, waiting, histVars, calls>>

SyncEnds(p) ==
    /\ Runs(p, "sync")
    /\ idx[p] = NrBuffers + 1
    /\ \/ mode[p] = "sync" /\ Leave(p)
       \/ mode[p] # "sync" /\ Keeps(p, "fill") /\ UNCHANGED <<want, mode, bh>>
    /\ idx' = [idx EXCEPT ![p] = 1]
    /\ UNCHANGED <<bufVars, listVars, disk, sent, waiting, histVars, calls>>

\* Mutant: no second look for the block.
FillNoSecondLook(p) ==
    LET b == bh[p]
        beaten == FALSE
    IN /\ Runs(p, "fill")
       /\ blk' = [blk EXCEPT ![b] = IF beaten THEN NULL ELSE want[p]]
       /\ dirt' = [dirt EXCEPT ![b] = FALSE]
       /\ uptodate' = [uptodate EXCEPT ![b] = FALSE]
       /\ InsertIntoQueues(b, ~beaten)
       /\ count' = [count EXCEPT ![b] = IF beaten THEN 0 ELSE @]
       /\ bh' = [bh EXCEPT ![p] = IF beaten THEN NULL ELSE b]
       /\ Keeps(p, IF beaten THEN "hash" ELSE "got")
       /\ hurt' = hurt \union
            (IF ~beaten /\ \E c \in Buf \ {b} : blk[c] = want[p] /\ dirt[c]
               THEN {"evict"} ELSE {})
       /\ UNCHANGED <<lock, data, disk, sent, want, mode, idx, waiting, latest, faults, calls>>

\* Mutant: the buffer that is not needed stays taken.
FillKeepsCount(p) ==
    LET b == bh[p]
        beaten == Found(want[p]) # {}
    IN /\ Runs(p, "fill")
       /\ blk' = [blk EXCEPT ![b] = IF beaten THEN NULL ELSE want[p]]
       /\ dirt' = [dirt EXCEPT ![b] = FALSE]
       /\ uptodate' = [uptodate EXCEPT ![b] = FALSE]
       /\ InsertIntoQueues(b, ~beaten)
       /\ bh' = [bh EXCEPT ![p] = IF beaten THEN NULL ELSE b]
       /\ Keeps(p, IF beaten THEN "hash" ELSE "got")
       /\ hurt' = hurt \union
            (IF ~beaten /\ \E c \in Buf \ {b} : blk[c] = want[p] /\ dirt[c]
               THEN {"evict"} ELSE {})
       /\ UNCHANGED <<count, lock, data, disk, sent, want, mode, idx, waiting, latest, faults, calls>>

\* Lines 175-193: the buffer becomes the block's, unless the block has been
\* added by another process meanwhile.  A block whose old buffer is off the
\* hash queues and still being written is not found, and is read too early.
Fill(p) ==
    LET b == bh[p]
        beaten == Found(want[p]) # {}
    IN /\ Runs(p, "fill")
       /\ blk' = [blk EXCEPT ![b] = IF beaten THEN NULL ELSE want[p]]
       /\ dirt' = [dirt EXCEPT ![b] = FALSE]
       /\ uptodate' = [uptodate EXCEPT ![b] = FALSE]
       /\ InsertIntoQueues(b, ~beaten)
       /\ count' = [count EXCEPT ![b] = IF beaten THEN 0 ELSE @]
       /\ bh' = [bh EXCEPT ![p] = IF beaten THEN NULL ELSE b]
       /\ Keeps(p, IF beaten THEN "hash" ELSE "got")
       /\ hurt' = hurt \union
            (IF ~beaten /\ \E c \in Buf \ {b} : blk[c] = want[p] /\ dirt[c]
               THEN {"evict"} ELSE {})
       /\ UNCHANGED <<lock, data, disk, sent, want, mode, idx, waiting, latest, faults, calls>>

\* bread reads what is not up to date; the callers that overwrite a block
\* (new_block) mark it up to date and dirty at once.
Got(p) ==
    LET b == bh[p]
    IN /\ Runs(p, "got")
       /\ \/ /\ mode[p] = "bread" /\ uptodate[b]
             /\ Yields(p, "hold")
             /\ UNCHANGED <<dirt, uptodate, data, latest, lock, sent>>
          \/ /\ mode[p] = "bread" /\ ~uptodate[b]
             /\ StartIo(p, b, "read")
             /\ Yields(p, "readio")
             /\ UNCHANGED <<dirt, uptodate, data, latest>>
          \/ /\ mode[p] = "new"
             /\ NewVersion(b)
             /\ uptodate' = [uptodate EXCEPT ![b] = TRUE]
             /\ Yields(p, "hold")
             /\ UNCHANGED <<lock, sent>>
       /\ UNCHANGED <<blk, count, listVars, disk, want, mode, bh, idx, waiting, faults, hurt, calls>>

\* bread after the read: NULL, and the buffer released, if it failed.
ReadDone(p) ==
    LET b == bh[p]
    IN /\ Runs(p, "readio")
       /\ lock[b] = NULL
       /\ \/ /\ uptodate[b]
             /\ Yields(p, "hold")
             /\ UNCHANGED <<count, waiting, bh, want, mode>>
          \/ /\ ~uptodate[b]
             /\ Drop(b)
             /\ Leave(p)
       /\ UNCHANGED <<blk, dirt, uptodate, lock, data, listVars, disk, sent, idx, histVars, calls>>

\* The holder, or for the pinned buffers any process, changes the contents and
\* sets b_dirt, without a look at b_lock.
Modify(b) ==
    /\ cpu = NULL
    /\ b \in Pinned \/ \E p \in Proc : pc[p] = "hold" /\ bh[p] = b
    /\ NewVersion(b)
    /\ hurt' = hurt \union (IF lock[b] # NULL THEN {"modify"} ELSE {})
    /\ UNCHANGED <<blk, count, uptodate, lock, listVars, disk, sent, procVars, faults>>

Brelse(p) ==
    /\ cpu = NULL
    /\ pc[p] = "hold"
    /\ lock[bh[p]] = NULL
    /\ Drop(bh[p])
    /\ Leave(p)
    /\ UNCHANGED <<blk, dirt, uptodate, lock, data, listVars, disk, sent, idx, histVars, calls>>

\* The handlers of hd.c end a request: write_intr and read_intr mark the buffer
\* up to date and clean, bad_rw_intr leaves it not up to date and as dirty as it
\* was.  A write has sent what the buffer held at its beginning or what it
\* holds now; one that fails may have sent it too.
HdInterrupt(b) ==
    /\ lock[b] # NULL
    /\ lock' = [lock EXCEPT ![b] = NULL]
    /\ \/ /\ lock[b][1] = "write"
          /\ \E v \in {sent[b], data[b]} : disk' = [disk EXCEPT ![lock[b][3]] = v]
          /\ uptodate' = [uptodate EXCEPT ![b] = TRUE]
          /\ dirt' = [dirt EXCEPT ![b] = FALSE]
          /\ UNCHANGED <<data, faults, hurt>>
       \/ /\ lock[b][1] = "write"
          /\ faults < MaxFaults
          /\ faults' = faults + 1
          /\ \E v \in {disk[lock[b][3]], sent[b], data[b]} : disk' = [disk EXCEPT ![lock[b][3]] = v]
          /\ uptodate' = [uptodate EXCEPT ![b] = FALSE]
          /\ hurt' = hurt \union {"error"}
          /\ UNCHANGED <<data, dirt>>
       \/ /\ lock[b][1] = "read"
          /\ data' = [data EXCEPT ![b] = disk[lock[b][3]]]
          /\ uptodate' = [uptodate EXCEPT ![b] = TRUE]
          /\ dirt' = [dirt EXCEPT ![b] = FALSE]
          /\ UNCHANGED <<disk, faults, hurt>>
       \/ /\ lock[b][1] = "read"
          /\ faults < MaxFaults
          /\ faults' = faults + 1
          /\ uptodate' = [uptodate EXCEPT ![b] = FALSE]
          /\ UNCHANGED <<data, disk, dirt, hurt>>
    /\ sent' = [sent EXCEPT ![b] = 0]
    /\ UNCHANGED <<blk, count, listVars, procVars, latest>>

ProcStep(p) ==
    \/ GetHashTable(p)
    \/ HashWait(p)
    \/ Scan(p)
    \/ ScanWait(p)
    \/ SyncDev(p)
    \/ SyncWritten(p)
    \/ SyncEnds(p)
    \/ Fill(p)
    \/ Got(p)
    \/ ReadDone(p)
    \/ Brelse(p)

Next ==
    \/ \E p \in Proc, k \in Block, m \in {"bread", "new"} : Start(p, k, m)
    \/ \E p \in Proc : SysSync(p)
    \/ \E p \in Proc : ProcStep(p)
    \/ \E b \in Buf : Modify(b)
    \/ \E b \in Buf : HdInterrupt(b)

Spec == Init /\ [][Next]_vars

-----------------------------------------------------------------------------
\* A block has one buffer: the second look of getblk, after it may have slept
\* in sync_dev, keeps a block from entering the hash queues twice.
OneBuffer ==
    \A b, c \in hashed : blk[b] = blk[c] => b = c

\* Who counts on buffer b: its place in getblk, its holders.
Users(b) ==
    {p \in Proc : bh[p] = b /\ pc[p] \notin {"scan", "scanwait"}}

\* b_count is the number of processes that use the buffer: brelse never panics
\* with "Trying to free free buffer", no buffer stays taken for ever, and a
\* buffer in use keeps its block.
CountExact ==
    /\ TypeOK
    /\ \A b \in Buf :
        count[b] = Cardinality(Users(b)) + (IF b \in Pinned THEN 1 ELSE 0)
    /\ \A p \in Proc :
        pc[p] \in {"hashwait", "got", "readio", "hold"} =>
            bh[p] \in hashed /\ blk[bh[p]] = want[p]

\* The n-th buffer of the free list.
FreeNth ==
    LET f[n \in 0 .. NrBuffers] == IF n = 0 THEN freeList ELSE nf[f[n - 1]]
    IN f

\* Nobody sleeps for a free buffer alone: another process is on its way to the
\* brelse whose wake_up will reach the sleepers, although getblk frees the
\* buffer it cannot use without a wake_up.
SleepersServed ==
    waiting # {} => \E p \in Proc \ waiting : pc[p] # "idle" /\ mode[p] # "sync"

\* The free list is one ring of all buffers but those that a getblk has taken
\* out of it: no buffer is lost from it, however the sleepers interleave, and
\* whoever found no buffer in it is woken when one is free again.
FreeListWhole ==
    LET taken == {b \in Buf : \E p \in Users(b) : pc[p] \in {"sync", "syncio", "fill"}}
        ring == {FreeNth[n] : n \in 0 .. NrBuffers}
    IN /\ ring = Buf \ taken
       /\ \A b \in ring : pf[nf[b]] = b /\ nf[pf[b]] = b
       /\ SleepersServed

\* What a block holds for its readers and for the disk: an up to date buffer
\* has the last version, and a version that is not on the disk yet is in a
\* dirty buffer.
Kept ==
    /\ \A b \in hashed :
        uptodate[b] /\ lock[b] = NULL => data[b] = latest[blk[b]]
    /\ \A k \in AllBlocks :
        disk[k] # latest[k] =>
            \E b \in Buf : blk[b] = k /\ dirt[b] /\ data[b] = latest[k]

\* No version is lost and none read too late, unless one of three things has
\* happened: a block was asked for while getblk wrote its old buffer out, a
\* buffer was changed while it was being written, or a write failed.
Coherent == hurt = {} => Kept

\* A request has its buffer to itself: as long as it is locked no second
\* request is made for it, and it does not become another block's - unless a
\* write failed: getblk takes the buffer sync_dev could not clean as it is, and
\* another sync may be writing it again.
LockHonoured ==
    [][\A b \in Buf :
        lock[b] # NULL /\ "error" \notin hurt =>
            lock'[b] \in {lock[b], NULL} /\ blk'[b] = blk[b]]_vars
=============================================================================
