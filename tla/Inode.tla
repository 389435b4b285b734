------------------------------- MODULE Inode -------------------------------
(***************************************************************************)
(* The inode table: iget, iput, get_empty_inode, read_inode, write_inode   *)
(* and sync_inodes of fs/inode.c with new_inode and free_inode of          *)
(* fs/bitmap.c, between processes that open, create, close and unlink the  *)
(* files of one directory.                                                 *)
(*                                                                         *)
(* One process at a time is awake in here (cpu); it gives the processor    *)
(* away while it waits for i_lock, in the bread of an inode block, in      *)
(* truncate and in add_entry.  Of an inode the link count is kept: it      *)
(* decides the fate of the file.  The inodes of the directory and of pipes *)
(* have slots of their own and are left out.                               *)
(***************************************************************************)
EXTENDS Integers, FiniteSets, FiniteSetsExt

CONSTANTS Proc,
          Name,        \* the names in the directory
          NrInode,     \* NR_INODE
          NInodes,     \* s_ninodes; the inodes of one block of the inode table
          MaxCalls     \* bound: calls in all

ASSUME InodeAssumption ==
    /\ {NrInode, NInodes} \subseteq Nat \ {0}
    /\ MaxCalls \in Nat
    /\ Proc \cap Nat = {}
    /\ IsFiniteSet(Proc) /\ IsFiniteSet(Name)

Slot == 1 .. NrInode
Num == 1 .. NInodes
None == 0

VARIABLES
    num,      \* i_num, None if i_dev = 0
    count,    \* i_count
    links,    \* i_nlinks
    dirt,     \* i_dirt
    lock,     \* i_lock
    dlinks,   \* i_nlinks in the block of the inode table
    imap,     \* the bits that are set in s_imap
    last,     \* last_allocated_inode
    dir,      \* the directory: the inode number of each name, or None
    cpu, pc,  \* the process that is awake, and where each one is
    call,     \* the arguments and the locals of its call
    fd,       \* the inode behind its open file
    calls,
    raced,    \* history: "stale" and "late" inodes of iget, "memset" of a locked one
    panic

table == <<num, count, links, dirt, lock>>
disk == <<dlinks, imap, dir>>
vars == <<table, disk, last, cpu, pc, call, fd, calls, raced, panic>>

Entered(op, x, n, s) == [op |-> op, name |-> x, nr |-> n, slot |-> s, empty |-> None]
Idle == Entered("idle", None, None, None)

Init ==
    /\ num = [s \in Slot |-> None]
    /\ count = [s \in Slot |-> 0]
    /\ links = [s \in Slot |-> 0]
    /\ dirt = [s \in Slot |-> FALSE]
    /\ lock = [s \in Slot |-> FALSE]
    /\ dlinks = [n \in Num |-> 0]
    /\ imap = {}
    /\ last = 1
    /\ dir = [x \in Name |-> None]
    /\ cpu = None
    /\ pc = [p \in Proc |-> "idle"]
    /\ call = [p \in Proc |-> Idle]
    /\ fd = [p \in Proc |-> None]
    /\ calls = 0
    /\ raced = {}
    /\ panic = "no"

-----------------------------------------------------------------------------
Runs(p, c) == panic = "no" /\ cpu \in {p, None} /\ pc[p] = c
Keeps(p, c) == pc' = [pc EXCEPT ![p] = c] /\ cpu' = p
Sleeps(p, c) == pc' = [pc EXCEPT ![p] = c] /\ cpu' = None
Leave(p) == Sleeps(p, "idle") /\ call' = [call EXCEPT ![p] = Idle]
Panics(why) == panic' = why /\ UNCHANGED <<table, disk, last, cpu, pc, call, fd, raced>>

\* wait_on_inode(s) follows: it sleeps if the inode is locked now.
WaitsOn(p, s, c) ==
    /\ pc' = [pc EXCEPT ![p] = c]
    /\ cpu' = IF lock[s] THEN None ELSE p

\* memset(inode,0,sizeof(*inode)), i_lock included.
Memset(s, c) ==
    /\ num' = [num EXCEPT ![s] = None]
    /\ count' = [count EXCEPT ![s] = c]
    /\ links' = [links EXCEPT ![s] = 0]
    /\ dirt' = [dirt EXCEPT ![s] = FALSE]
    /\ lock' = [lock EXCEPT ![s] = FALSE]

\* write_inode locks the inode and sleeps in bread ...
WriteInode(p, s, c) ==
    /\ lock' = [lock EXCEPT ![s] = TRUE]
    /\ Sleeps(p, c)

\* ... and goes on with what the inode holds then.  If it was freed meanwhile,
\* (i_num-1)%INODES_PER_BLOCK is the last inode of the block.
WroteInode(s) ==
    /\ dlinks' = [dlinks EXCEPT ![IF num[s] = None THEN NInodes ELSE num[s]] = links[s]]
    /\ dirt' = [dirt EXCEPT ![s] = FALSE]
    /\ lock' = [lock EXCEPT ![s] = FALSE]

-----------------------------------------------------------------------------
Begin(p, op, x, c) ==
    /\ panic = "no" /\ cpu = None /\ pc[p] = "idle"
    /\ calls < MaxCalls
    /\ calls' = calls + 1
    /\ call' = [call EXCEPT ![p] =
                   Entered(op, x, IF x \in Name THEN dir[x] ELSE None, fd[p])]
    /\ UNCHANGED <<table, disk, last, raced, panic>>

\* open_namei and sys_unlink read the number in the entry, then call iget; in
\* between open_namei gives up the directory, and its iput may sleep.
Lookup(p, op, x) ==
    /\ Begin(p, op, x, "empty")
    /\ dir[x] # None
    /\ \/ op = "open" /\ fd[p] = None /\ Sleeps(p, "empty")
       \/ op = "unlink" /\ Keeps(p, "empty")
    /\ UNCHANGED fd

\* open_namei, with O_CREAT and no entry of that name.
Creat(p, x) ==
    /\ Begin(p, "creat", x, "empty")
    /\ dir[x] = None /\ fd[p] = None
    /\ Keeps(p, "empty")
    /\ UNCHANGED fd

\* sys_close of the last descriptor of the file.
Close(p) ==
    /\ Begin(p, "close", None, "iput")
    /\ fd[p] # None
    /\ fd' = [fd EXCEPT ![p] = None]
    /\ WaitsOn(p, fd[p], "iput")

\* sys_sync; call.slot counts through the table.
Sync(p) ==
    /\ panic = "no" /\ cpu = None /\ pc[p] = "idle"
    /\ calls < MaxCalls
    /\ calls' = calls + 1
    /\ call' = [call EXCEPT ![p] = Entered("sync", None, None, 1)]
    /\ Keeps(p, "sync")
    /\ UNCHANGED <<table, disk, last, fd, raced, panic>>

-----------------------------------------------------------------------------
\* get_empty_inode: the first unused slot from last_allocated_inode on.  The code
\* would wait for its lock, write it if it is dirty and then look at i_count
\* again; an unused slot is neither locked nor dirty (CountExact), so it does
\* not come to that.
GetEmptyInode(p) ==
    LET free == {s \in Slot : count[s] = 0}
        s == IF \E t \in free : t >= last THEN Min({t \in free : t >= last}) ELSE Min(free)
    IN /\ Runs(p, "empty")
       /\ \/ /\ free = {} /\ Panics("full")
          \/ /\ free # {}
             /\ last' = s
             /\ call' = [call EXCEPT ![p].empty = s]
             /\ Memset(s, 1)
             /\ Keeps(p, IF call[p].op = "creat" THEN "new" ELSE "scan")
             /\ UNCHANGED <<disk, fd, raced, panic>>
       /\ UNCHANGED calls

-----------------------------------------------------------------------------
\* iget: the slot that has the number, or else the empty one and a read from
\* the disk.  Stale: the number has been freed since it was read from the
\* directory.
Stale(n) == IF n \in imap THEN {} ELSE {"stale"}

\* Late: the inode that is handed out is being truncated by its last iput.
Late(s) == IF \E q \in Proc : pc[q] = "trunc" /\ call[q].slot = s THEN {"late"} ELSE {}

\* Mutant: a locked inode is passed over.
IgetScanUnlocked(p) ==
    LET c == call[p]
        found == {s \in Slot : num[s] = c.nr /\ ~lock[s]}
    IN /\ Runs(p, "scan")
       /\ \/ /\ found # {}
             /\ call' = [call EXCEPT ![p].slot = Min(found)]
             /\ WaitsOn(p, Min(found), "match")
             /\ UNCHANGED <<table, raced>>
          \/ /\ found = {}
             /\ num' = [num EXCEPT ![c.empty] = c.nr]
             /\ lock' = [lock EXCEPT ![c.empty] = TRUE]
             /\ call' = [call EXCEPT ![p].slot = c.empty, ![p].empty = None]
             /\ raced' = raced \union Stale(c.nr)
             /\ Sleeps(p, "read")
             /\ UNCHANGED <<count, links, dirt>>
       /\ UNCHANGED <<disk, last, fd, calls, panic>>

IgetScan(p) ==
    LET c == call[p]
        found == {s \in Slot : num[s] = c.nr}
    IN /\ Runs(p, "scan")
       /\ \/ /\ found # {}
             /\ call' = [call EXCEPT ![p].slot = Min(found)]
             /\ WaitsOn(p, Min(found), "match")
             /\ UNCHANGED <<table, raced>>
          \/ /\ found = {}
             /\ num' = [num EXCEPT ![c.empty] = c.nr]
             /\ lock' = [lock EXCEPT ![c.empty] = TRUE]
             /\ call' = [call EXCEPT ![p].slot = c.empty, ![p].empty = None]
             /\ raced' = raced \union Stale(c.nr)
             /\ Sleeps(p, "read")
             /\ UNCHANGED <<count, links, dirt>>
       /\ UNCHANGED <<disk, last, fd, calls, panic>>

\* Mutant: the empty slot is not given back.
IgetMatchKeepsEmpty(p) ==
    LET c == call[p]
    IN /\ Runs(p, "match") /\ ~lock[c.slot]
       /\ \/ /\ num[c.slot] = c.nr
             /\ count' = [count EXCEPT ![c.slot] = @ + 1]
             /\ call' = [call EXCEPT ![p].empty = None]
             /\ raced' = raced \union Stale(c.nr) \union Late(c.slot)
             /\ Keeps(p, "got")
          \/ /\ num[c.slot] # c.nr
             /\ Keeps(p, "scan")
             /\ UNCHANGED <<count, call, raced>>
       /\ UNCHANGED <<num, links, dirt, lock, disk, last, fd, calls, panic>>

\* The slot is locked no more: it may have become another inode's.  iput(empty)
\* gives the empty slot back.
IgetMatch(p) ==
    LET c == call[p]
    IN /\ Runs(p, "match") /\ ~lock[c.slot]
       /\ \/ /\ num[c.slot] = c.nr
             /\ count' = [count EXCEPT ![c.slot] = @ + 1, ![c.empty] = @ - 1]
             /\ call' = [call EXCEPT ![p].empty = None]
             /\ raced' = raced \union Stale(c.nr) \union Late(c.slot)
             /\ Keeps(p, "got")
          \/ /\ num[c.slot] # c.nr
             /\ Keeps(p, "scan")
             /\ UNCHANGED <<count, call, raced>>
       /\ UNCHANGED <<num, links, dirt, lock, disk, last, fd, calls, panic>>

\* read_inode after its bread.
ReadInode(p) ==
    LET s == call[p].slot
    IN /\ Runs(p, "read")
       /\ links' = [links EXCEPT ![s] = dlinks[num[s]]]
       /\ lock' = [lock EXCEPT ![s] = FALSE]
       /\ Keeps(p, "got")
       /\ UNCHANGED <<num, count, dirt, disk, last, call, fd, calls, raced, panic>>

\* open_namei hands the inode to sys_open, or gives it back: permission refuses a
\* file without links to everyone, and others by their mode.  O_TRUNC is in Zones.
Opened(p) ==
    LET s == call[p].slot
    IN /\ Runs(p, "got")
       /\ call[p].op = "open"
       /\ \/ /\ links[s] # 0
             /\ fd' = [fd EXCEPT ![p] = s]
             /\ Leave(p)
          \/ /\ WaitsOn(p, s, "iput")
             /\ UNCHANGED <<fd, call>>
       /\ UNCHANGED <<table, disk, last, calls, raced, panic>>

\* sys_unlink, lines 603-618: whatever the entry holds by now is cleared.
Unlink(p) ==
    LET c == call[p]
        s == c.slot
    IN /\ Runs(p, "got")
       /\ c.op = "unlink"
       /\ dir' = [dir EXCEPT ![c.name] = None]
       /\ links' = [links EXCEPT ![s] = IF @ = 0 THEN 0 ELSE @ - 1]
       /\ dirt' = [dirt EXCEPT ![s] = TRUE]
       /\ raced' = raced \union (IF dir[c.name] = c.nr THEN {} ELSE {"stale"})
       /\ WaitsOn(p, s, "iput")
       /\ UNCHANGED <<num, count, lock, dlinks, imap, last, call, fd, calls, panic>>

-----------------------------------------------------------------------------
\* new_inode: the first zero bit, or the empty slot back.
NewInode(p) ==
    LET s == call[p].empty
        n == Min(Num \ imap)
    IN /\ Runs(p, "new")
       /\ \/ /\ Num \subseteq imap
             /\ count' = [count EXCEPT ![s] = @ - 1]
             /\ Leave(p)
             /\ UNCHANGED <<num, links, dirt, imap>>
          \/ /\ ~(Num \subseteq imap)
             /\ imap' = imap \union {n}
             /\ num' = [num EXCEPT ![s] = n]
             /\ count' = [count EXCEPT ![s] = 1]
             /\ links' = [links EXCEPT ![s] = 1]
             /\ dirt' = [dirt EXCEPT ![s] = TRUE]
             /\ call' = [call EXCEPT ![p].slot = s, ![p].empty = None, ![p].nr = n]
             /\ Sleeps(p, "add")
       /\ UNCHANGED <<lock, dlinks, dir, last, fd, calls, raced, panic>>

\* open_namei after add_entry, which may find no room.  Names that two processes
\* add at a time are the subject of module Namei.
AddEntry(p) ==
    LET c == call[p]
    IN /\ Runs(p, "add")
       /\ \/ /\ dir[c.name] = None
             /\ dir' = [dir EXCEPT ![c.name] = c.nr]
             /\ fd' = [fd EXCEPT ![p] = c.slot]
             /\ Leave(p)
             /\ UNCHANGED links
          \/ /\ links' = [links EXCEPT ![c.slot] = @ - 1]
             /\ WaitsOn(p, c.slot, "iput")
             /\ UNCHANGED <<dir, fd, call>>
       /\ UNCHANGED <<num, count, dirt, lock, dlinks, imap, last, calls, raced, panic>>

-----------------------------------------------------------------------------
\* iput: not the last user, or the last one.
Iput(p) ==
    LET s == call[p].slot
    IN /\ Runs(p, "iput") /\ ~lock[s]
       /\ \/ /\ count[s] = 0 /\ Panics("free inode")
          \/ /\ count[s] > 1
             /\ count' = [count EXCEPT ![s] = @ - 1]
             /\ Leave(p)
             /\ UNCHANGED <<num, links, dirt, lock, disk, last, fd, raced, panic>>
          \/ /\ count[s] = 1
             /\ Keeps(p, "last")
             /\ UNCHANGED <<table, disk, last, call, fd, raced, panic>>
       /\ UNCHANGED calls

\* Mutant: a dirty inode is given up as it is.
IputLastUnwritten(p) ==
    LET s == call[p].slot
    IN /\ Runs(p, "last") /\ ~lock[s]
       /\ \/ /\ links[s] = 0
             /\ Sleeps(p, "trunc")
             /\ UNCHANGED <<table, call>>
          \/ /\ links[s] # 0
             /\ count' = [count EXCEPT ![s] = @ - 1]
             /\ dirt' = [dirt EXCEPT ![s] = FALSE]
             /\ Leave(p)
             /\ UNCHANGED <<num, links, lock>>
       /\ UNCHANGED <<disk, last, fd, calls, raced, panic>>

\* The label repeat.  i_count is not looked at again after write_inode has
\* slept, and need not be: the lock keeps the inode from others, unless a
\* memset has let a sync loose on it.
IputLast(p) ==
    LET s == call[p].slot
    IN /\ Runs(p, "last") /\ ~lock[s]
       /\ \/ /\ links[s] = 0
             /\ Sleeps(p, "trunc")
             /\ UNCHANGED <<table, call>>
          \/ /\ links[s] # 0 /\ dirt[s]
             /\ WriteInode(p, s, "iputwrite")
             /\ UNCHANGED <<num, count, links, dirt, call>>
          \/ /\ links[s] # 0 /\ ~dirt[s]
             /\ count' = [count EXCEPT ![s] = @ - 1]
             /\ Leave(p)
             /\ UNCHANGED <<num, links, dirt, lock>>
       /\ UNCHANGED <<disk, last, fd, calls, raced, panic>>

IputWritten(p) ==
    /\ Runs(p, "iputwrite")
    /\ WroteInode(call[p].slot)
    /\ Keeps(p, "last")
    /\ UNCHANGED <<num, count, links, imap, dir, last, call, fd, calls, raced, panic>>

\* truncate has slept; free_inode.  A sync may be writing the inode at this
\* moment: its lock is wiped, and it goes on with an inode without a number.
FreeInode(p) ==
    LET s == call[p].slot
    IN /\ Runs(p, "trunc")
       /\ \/ /\ count[s] > 1 \/ links[s] # 0
             /\ Panics(IF count[s] > 1 THEN "count" ELSE "links")
          \/ /\ count[s] = 1 /\ links[s] = 0
             /\ num[s] \notin imap /\ Panics("bit")
          \/ /\ count[s] = 1 /\ links[s] = 0 /\ num[s] \in imap
             /\ imap' = imap \ {num[s]}
             /\ Memset(s, 0)
             /\ raced' = raced \union (IF lock[s] THEN {"memset"} ELSE {})
             /\ Leave(p)
             /\ UNCHANGED <<dlinks, dir, last, fd, panic>>
       /\ UNCHANGED calls

-----------------------------------------------------------------------------
\* sync_inodes at one slot: on, or write_inode.
SyncInodes(p) ==
    LET s == call[p].slot
    IN /\ Runs(p, "sync")
       /\ \/ /\ s > NrInode
             /\ Leave(p)
             /\ UNCHANGED lock
          \/ /\ s <= NrInode /\ lock[s]
             /\ cpu = p
             /\ Sleeps(p, "sync")
             /\ UNCHANGED <<lock, call>>
          \/ /\ s <= NrInode /\ ~lock[s] /\ dirt[s]
             /\ WriteInode(p, s, "syncwrite")
             /\ UNCHANGED call
          \/ /\ s <= NrInode /\ ~lock[s] /\ ~dirt[s]
             /\ call' = [call EXCEPT ![p].slot = @ + 1]
             /\ Keeps(p, "sync")
             /\ UNCHANGED lock
       /\ UNCHANGED <<num, count, links, dirt, disk, last, fd, calls, raced, panic>>

SyncWritten(p) ==
    /\ Runs(p, "syncwrite")
    /\ WroteInode(call[p].slot)
    /\ call' = [call EXCEPT ![p].slot = @ + 1]
    /\ Keeps(p, "sync")
    /\ UNCHANGED <<num, count, links, imap, dir, last, fd, calls, raced, panic>>

Step(p) ==
    \/ GetEmptyInode(p)
    \/ IgetScan(p) \/ IgetMatch(p) \/ ReadInode(p) \/ Opened(p) \/ Unlink(p)
    \/ NewInode(p) \/ AddEntry(p)
    \/ Iput(p) \/ IputLast(p) \/ IputWritten(p) \/ FreeInode(p)
    \/ SyncInodes(p) \/ SyncWritten(p)

Next ==
    \E p \in Proc :
        \/ \E x \in Name : \E op \in {"open", "unlink"} : Lookup(p, op, x)
        \/ \E x \in Name : Creat(p, x)
        \/ Close(p)
        \/ Sync(p)
        \/ Step(p)

Spec == Init /\ [][Next]_vars

-----------------------------------------------------------------------------
\* An inode number has one inode in core, so that all users of a file see one
\* link count: iget, which sleeps for the empty slot first, looks through the
\* table and takes it without sleeping in between.  A number that was freed
\* after its entry was read spoils this: new_inode does not look for it.
OneInode ==
    "stale" \notin raced =>
        \A s, t \in Slot : num[s] = num[t] /\ num[s] # None => s = t

\* The references to slot s: open files and the calls that have got it.
Users(s) ==
    {<<p, "fd">> : p \in {q \in Proc : fd[q] = s}} \union
    {<<p, "call">> : p \in {q \in Proc :
        \/ call[q].empty = s /\ pc[q] \in {"scan", "match", "new"}
        \/ call[q].slot = s /\ pc[q] \in {"read", "got", "add", "iput", "last", "iputwrite", "trunc"}}}

\* i_count is the number of its users, whatever mixes: a slot in use is never
\* taken for another inode, none stays taken, and iput never meets a free one.
\* A slot without users is clean and unlocked: get_empty_inode need not sleep.
CountExact ==
    /\ \A s \in Slot :
        /\ count[s] = Cardinality(Users(s))
        /\ count[s] = 0 => ~dirt[s] /\ ~lock[s]
    /\ panic # "free inode"

\* The link count of inode n, wherever it is.
Links(n) ==
    LET core == {s \in Slot : num[s] = n /\ ~\E p \in Proc : pc[p] = "read" /\ call[p].slot = s}
    IN IF core = {} THEN dlinks[n] ELSE links[CHOOSE s \in core : TRUE]

\* The entries of inode n, and the creat that is about to make one.
Entries(n) ==
    Cardinality({x \in Name : dir[x] = n}) +
    Cardinality({p \in Proc : pc[p] = "add" /\ call[p].nr = n})

\* No update of a link count is lost on its way between slots and disk, and a
\* file lives as long as it has entries or users: without one of the three races
\* the link count is the number of entries, an inode with entries keeps its
\* number, a number without entries is free or somebody still has to free it, and
\* free_inode does not panic.
LinksExact ==
    raced = {} =>
        /\ panic \notin {"count", "links", "bit"}
        /\ \A n \in Num :
            /\ n \in imap => Links(n) = Entries(n)
            /\ Entries(n) > 0 => n \in imap
            /\ n \in imap /\ Entries(n) = 0 =>
                  \E s \in Slot : num[s] = n /\ count[s] > 0

=============================================================================
