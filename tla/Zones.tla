------------------------------- MODULE Zones -------------------------------
(***************************************************************************)
(* The blocks of files: _bmap and its callers in fs/inode.c, new_block and *)
(* free_block of fs/bitmap.c, fs/truncate.c, and file_read and file_write  *)
(* of fs/file_dev.c, over one device with its zone bitmap.                 *)
(*                                                                         *)
(* One process at a time is awake in here (cpu).  It gives the processor   *)
(* away in new_block (getblk), in bread and in free_block (get_hash_table),*)
(* each of which may sleep, holding the buffers it has got.  Nothing locks *)
(* a file, so calls on one file mix.  The buffer cache is module           *)
(* BufferCache seen from outside: a block has one contents.  Positions and *)
(* counts are in blocks.                                                   *)
(***************************************************************************)
EXTENDS Integers, Sequences, FiniteSets, FiniteSetsExt

CONSTANTS Proc,
          File,        \* the inodes, all of them regular files and in core
          NDirect,     \* the 7 of i_zone[7]
          Fanout,      \* the 512 pointers of an indirect block
          NZones,      \* data zones of the device
          MapBits,     \* bits of s_zmap, which comes in whole blocks
          FileBlock,   \* the positions that calls use
          MaxCount,    \* blocks of one read or write
          MaxCalls,    \* bound: calls in all
          MaxFaults    \* bound: breads that fail

ASSUME ZonesAssumption ==
    /\ {NDirect, Fanout, NZones, MaxCount} \subseteq Nat \ {0}
    /\ {MaxCalls, MaxFaults} \subseteq Nat
    /\ MapBits \in Nat /\ MapBits >= NZones
    /\ FileBlock \subseteq 0 .. NDirect + Fanout + Fanout * Fanout - 1
    /\ Proc \cap Nat = {}

Zone == 1 .. NZones
Bit == 1 .. MapBits
Big == NDirect + Fanout + Fanout * Fanout   \* a file has fewer blocks
Ind == NDirect          \* i_zone[7]
Dind == NDirect + 1     \* i_zone[8]
Slot == 0 .. Dind
Entry == 0 .. Fanout - 1
None == 0               \* no zone, no process
Zeros == << >>          \* the contents of a cleared block

VARIABLES
    zmap,     \* the bits that are set in s_zmap
    izone,    \* i_zone of each file
    isize,    \* i_size of each file
    f_pos,    \* of the struct file that the processes share for it, over fork or dup
    ptr,      \* a block read as an indirect block
    data,     \* a block read as contents: Zeros or the <<file, position>> written there
    cpu, pc,  \* the process that is awake, and where each one is
    call,     \* the arguments and the locals of its call
    out,      \* what its last file_read has copied out
    calls, faults,
    written,  \* history: the positions written since the last truncate
    raced,    \* history, with the file: "hole" two calls filled one hole, "unread" an
              \* indirect block was not read, "torn" a truncate met another call on its file
    panic     \* which one

disk == <<zmap, izone, isize, ptr, data>>
vars == <<disk, f_pos, cpu, pc, call, out, calls, faults, written, raced, panic>>

Idle == [op |-> "idle", file |-> None, shared |-> FALSE, pos |-> 0, left |-> 0, level |-> 1,
         held |-> None, zone |-> None, todo |-> << >>]

Init ==
    /\ zmap = {}
    /\ izone = [f \in File |-> [s \in Slot |-> None]]
    /\ isize = [f \in File |-> 0] /\ f_pos = [f \in File |-> 0]
    /\ ptr = [z \in Zone |-> [e \in Entry |-> None]]
    /\ data = [z \in Zone |-> Zeros]
    /\ cpu = None
    /\ pc = [p \in Proc |-> "idle"]
    /\ call = [p \in Proc |-> Idle]
    /\ out = [p \in Proc |-> Zeros]
    /\ calls = 0 /\ faults = 0
    /\ written = [f \in File |-> {}]
    /\ raced = {}
    /\ panic = "none"

-----------------------------------------------------------------------------
Runs(p, c) == panic = "none" /\ cpu \in {p, None} /\ pc[p] = c
Keeps(p, c) == pc' = [pc EXCEPT ![p] = c] /\ cpu' = p
Sleeps(p, c) == pc' = [pc EXCEPT ![p] = c] /\ cpu' = None
Leave(p) == Sleeps(p, "idle") /\ call' = [call EXCEPT ![p] = Idle]

\* Mutant: the double indirect part begins one block late.
PathLate(b) ==
    LET i == b - NDirect
        d == i - Fanout - 1
    IN IF b < NDirect THEN <<b>>
       ELSE IF i <= Fanout THEN <<Ind, i % Fanout>>
       ELSE <<Dind, d \div Fanout, d % Fanout>>

\* _bmap: where the pointer to block b is found, slot of i_zone first.
Path(b) ==
    LET i == b - NDirect
        d == i - Fanout
    IN IF b < NDirect THEN <<b>>
       ELSE IF i < Fanout THEN <<Ind, i>>
       ELSE <<Dind, d \div Fanout, d % Fanout>>

\* The buffers that process q has counted on for sure while it sleeps.
Held(q) ==
    {call[q].held} \union {t[2] : t \in {call[q].todo[i] : i \in DOMAIN call[q].todo}}

\* Those it may have: bread counts a buffer before or after it sleeps.
MayHold(q) == Held(q) \union
    IF pc[q] \in {"bread", "copy", "tread"} THEN {call[q].zone} ELSE {}

-----------------------------------------------------------------------------
\* A process inside a call on file f.
Inside(q, f) == pc[q] # "idle" /\ call[q].file = f

\* A call on a file that truncate is working on, or a truncate of a file that
\* another process is working on.
Tears(p, f, op) ==
    \E q \in Proc \ {p} : Inside(q, f) /\ "truncate" \in {op, call[q].op}

Start(p, f, op, b, n) ==
    /\ panic = "none" /\ cpu = None /\ pc[p] = "idle"
    /\ calls < MaxCalls
    /\ calls' = calls + 1
    /\ raced' = raced \union (IF Tears(p, f, op) THEN {<<"torn", f>>} ELSE {})
    /\ out' = [out EXCEPT ![p] = Zeros]
    /\ UNCHANGED <<disk, faults, written, panic>>

\* sys_read, which stops at i_size, and file_read; sys_write and file_write, at
\* f_pos or, with O_APPEND, at i_size.  The process has opened the file itself,
\* or uses the struct file that others use too; an lseek to b comes first.
StartFile(p, f, op, b, n, shared) ==
    /\ Start(p, f, op, b, n)
    /\ b .. b + n - 1 \subseteq FileBlock
    /\ op = "read" => b + n <= isize[f]
    /\ op = "append" => b = isize[f] /\ ~shared      \* f_pos is not used
    /\ f_pos' = IF shared THEN [f_pos EXCEPT ![f] = b] ELSE f_pos
    /\ Keeps(p, "walk")
    /\ call' = [call EXCEPT ![p] = [Idle EXCEPT !.op = op, !.file = f, !.shared = shared,
                                                !.pos = b, !.left = n]]

\* truncate: the direct zones one by one, then the two trees.  A job <<d, h, e>>
\* is to free what entry e of block h (of i_zone, if h = None) points to, a tree
\* of depth d; a job <<0, h, None, z>> is to free block z itself.
StartTruncate(p, f) ==
    /\ Start(p, f, "truncate", 0, 0)
    /\ UNCHANGED f_pos
    /\ Keeps(p, "trunc")
    /\ call' = [call EXCEPT ![p] = [Idle EXCEPT !.op = "truncate", !.file = f,
                   !.todo = [i \in 1 .. Dind + 1 |->
                                <<IF i - 1 < Ind THEN 0 ELSE i - Ind, None, i - 1>>]]]

-----------------------------------------------------------------------------
\* _bmap, at one pointer of the path: in i_zone, or in the buffer it holds.
Creates(p) == call[p].op \in {"write", "append"}
Where(p) == Path(call[p].pos)
Pointer(p) ==
    LET c == call[p]
    IN IF c.level = 1 THEN izone[c.file][Where(p)[1]] ELSE ptr[c.held][Where(p)[c.level]]

\* What _bmap returns, after its brelse, goes to its caller: bread, the zeros of
\* a hole, or the end of a write that got no block.
Mapped(p, z) ==
    /\ call' = [call EXCEPT ![p].held = None, ![p].level = 1, ![p].zone = z]
    /\ IF z # None THEN Sleeps(p, "copy")
       ELSE Keeps(p, IF Creates(p) THEN "end" ELSE "copy")

\* Down to the next level, or up with the result.
Follow(p, z) ==
    LET c == call[p]
    IN IF z = None \/ c.level = Len(Where(p)) THEN Mapped(p, z)
       ELSE /\ Sleeps(p, "bread")
            /\ call' = [call EXCEPT ![p].held = None, ![p].zone = z, ![p].level = @ + 1]

Bmap(p) ==
    /\ Runs(p, "walk") /\ call[p].pos < Big
    /\ Pointer(p) # None \/ ~Creates(p)
    /\ Follow(p, Pointer(p))
    /\ UNCHANGED <<disk, f_pos, out, calls, faults, written, raced, panic>>

\* panic("_bmap: block>big"): a shared position went on over the end.
BmapPanics(p) ==
    /\ Runs(p, "walk") /\ call[p].pos >= Big
    /\ panic' = "big"
    /\ UNCHANGED <<disk, f_pos, cpu, pc, call, out, calls, faults, written, raced>>

\* bread of an indirect block.
BmapRead(p) ==
    /\ Runs(p, "bread")
    /\ Keeps(p, "walk")
    /\ call' = [call EXCEPT ![p].held = call[p].zone, ![p].zone = None]
    /\ UNCHANGED <<disk, f_pos, out, calls, faults, written, raced, panic>>

\* Mutant: the bit is found but not set.
NewBlockUnset(p) ==
    LET z == Min(Bit \ zmap)
    IN /\ Runs(p, "walk") /\ call[p].pos < Big
       /\ Pointer(p) = None /\ Creates(p)
       /\ IF Bit \ zmap = {} \/ z \notin Zone THEN Mapped(p, None)
          ELSE Sleeps(p, "new") /\ call' = [call EXCEPT ![p].zone = z]
       /\ UNCHANGED <<disk, f_pos, out, calls, faults, written, raced, panic>>

\* new_block: the first zero bit, set before getblk sleeps, and before the look
\* whether the device has such a zone.
NewBlock(p) ==
    LET z == Min(Bit \ zmap)
    IN /\ Runs(p, "walk") /\ call[p].pos < Big
       /\ Pointer(p) = None /\ Creates(p)
       /\ \/ Bit \ zmap = {} /\ Mapped(p, None) /\ UNCHANGED zmap
          \/ /\ Bit \ zmap # {}
             /\ zmap' = zmap \union {z}
             /\ IF z \notin Zone THEN Mapped(p, None)
                ELSE Sleeps(p, "new") /\ call' = [call EXCEPT ![p].zone = z]
       /\ UNCHANGED <<izone, isize, ptr, data, f_pos, out, calls, faults, written, raced, panic>>

\* clear_block; the pointers are set by Link.
ClearBlock(z) ==
    data' = [data EXCEPT ![z] = Zeros]

\* _bmap stores the new block without a second look at the pointer: another
\* call may have filled the hole while this one slept, its block is lost then.
Link(p, z) ==
    LET c == call[p]
        e == Where(p)[c.level]
    IN /\ IF c.level = 1
            THEN /\ izone' = [izone EXCEPT ![c.file][e] = z]
                 /\ ptr' = [ptr EXCEPT ![z] = [i \in Entry |-> None]]
            ELSE /\ ptr' = [ptr EXCEPT ![z] = [i \in Entry |-> None], ![c.held][e] = z]
                 /\ UNCHANGED izone
       /\ raced' = raced \union (IF Pointer(p) # None THEN {<<"hole", c.file>>} ELSE {})

NewBlockGot(p) ==
    LET z == call[p].zone
    IN /\ Runs(p, "new")
       /\ \A q \in Proc \ {p} : z \notin Held(q)
       /\ ClearBlock(z)
       /\ Link(p, z)
       /\ Follow(p, z)
       /\ UNCHANGED <<zmap, isize, f_pos, out, calls, faults, written, panic>>

\* panic("new block: count is != 1").
NewBlockPanics(p) ==
    /\ Runs(p, "new")
    /\ \E q \in Proc \ {p} : call[p].zone \in MayHold(q)
    /\ panic' = "count"
    /\ UNCHANGED <<disk, f_pos, cpu, pc, call, out, calls, faults, written, raced>>

-----------------------------------------------------------------------------
\* The loop of file_read and file_write, once the block is there: on to block b.
Continue(p, b) ==
    /\ Keeps(p, IF call[p].left = 1 THEN "end" ELSE "walk")
    /\ call' = [call EXCEPT ![p].pos = b, ![p].left = @ - 1, ![p].zone = None]

\* The block is the one at the position before the sleeps, but f_pos goes on from
\* where it is now.
FileRead(p) ==
    LET c == call[p]
        b == IF c.shared THEN f_pos[c.file] + 1 ELSE c.pos + 1
    IN /\ Runs(p, "copy")
       /\ ~Creates(p)
       /\ out' = [out EXCEPT ![p] = IF c.zone = None THEN Zeros ELSE data[c.zone]]
       /\ f_pos' = IF c.shared THEN [f_pos EXCEPT ![c.file] = b] ELSE f_pos
       /\ Continue(p, b)
       /\ UNCHANGED <<disk, calls, faults, written, raced, panic>>

FileWrite(p) ==
    LET c == call[p]
    IN /\ Runs(p, "copy")
       /\ Creates(p)
       /\ data' = [data EXCEPT ![c.zone] = <<c.file, c.pos>>]
       /\ isize' = [isize EXCEPT ![c.file] = IF c.pos + 1 > @ THEN c.pos + 1 ELSE @]
       /\ written' = [written EXCEPT ![c.file] = @ \union {c.pos}]
       /\ Continue(p, c.pos + 1)
       /\ UNCHANGED <<zmap, izone, ptr, f_pos, out, calls, faults, raced, panic>>

\* The call ends, after its last block or when it got none; a write that does
\* not append puts its own position into f_pos.  A position that no call uses
\* is not kept, as every call begins with an lseek.
FileEnd(p) ==
    LET c == call[p]
        others == \E q \in Proc \ {p} : Inside(q, c.file) /\ call[q].shared
    IN /\ Runs(p, "end")
       /\ f_pos' = CASE ~c.shared -> f_pos
                    [] c.shared /\ ~others -> [f_pos EXCEPT ![c.file] = 0]
                    [] OTHER -> [f_pos EXCEPT ![c.file] = IF c.op = "write" THEN c.pos ELSE @]
       /\ Leave(p)
       /\ UNCHANGED <<disk, out, calls, faults, written, raced, panic>>

\* A bread fails: _bmap returns 0, which file_read takes for a hole; file_read
\* and file_write stop at a block they cannot read.
BreadFails(p) ==
    /\ \/ /\ Runs(p, "bread")
          /\ Mapped(p, None)
          /\ raced' = raced \union {<<"unread", call[p].file>>}
       \/ /\ Runs(p, "copy") /\ call[p].zone # None
          /\ Keeps(p, "end")
          /\ UNCHANGED <<call, raced>>
    /\ faults < MaxFaults
    /\ faults' = faults + 1
    /\ UNCHANGED <<disk, f_pos, out, calls, written, panic>>

-----------------------------------------------------------------------------
\* What a job of truncate points to now.
Target(f, t) ==
    IF Len(t) = 4 THEN t[4] ELSE IF t[2] = None THEN izone[f][t[3]] ELSE ptr[t[2]][t[3]]

\* The next job: nothing there, a block, or a tree.
TruncNext(p) ==
    LET c == call[p]
        t == Head(c.todo)
        z == Target(c.file, t)
    IN /\ Runs(p, "trunc")
       /\ c.todo # << >>
       /\ IF z = None
            THEN Keeps(p, "trunc") /\ call' = [call EXCEPT ![p].todo = Tail(@)]
            ELSE /\ Sleeps(p, IF t[1] = 0 THEN "free" ELSE "tread")
                 /\ call' = [call EXCEPT ![p].zone = z]
       /\ UNCHANGED <<disk, f_pos, out, calls, faults, written, raced, panic>>

\* Mutant: the indirect block itself is not freed.
JobsChildren(t, z) ==
    [e \in 1 .. Fanout |-> <<t[1] - 1, z, e - 1>>]

\* free_ind and free_dind: the entries in order, then the block.
Jobs(t, z) ==
    [e \in 1 .. Fanout |-> <<t[1] - 1, z, e - 1>>] \o << <<0, t[2], None, z>> >>

\* With the buffer in hand; without it the block alone is freed.
FreeInd(p) ==
    LET c == call[p]
        more(js) == [call EXCEPT ![p].todo = js \o Tail(@), ![p].zone = None]
    IN /\ Runs(p, "tread")
       /\ Keeps(p, "trunc")
       /\ \/ /\ call' = more(Jobs(Head(c.todo), c.zone))
             /\ UNCHANGED <<faults, raced>>
          \/ /\ faults < MaxFaults
             /\ faults' = faults + 1
             /\ raced' = raced \union {<<"unread", c.file>>}
             /\ call' = more(<< <<0, Head(c.todo)[2], None, c.zone>> >>)
       /\ UNCHANGED <<disk, f_pos, out, calls, written, panic>>

\* free_block after get_hash_table, and i_zone[i] = 0 for a direct zone.  A
\* block whose buffer somebody else holds is not freed.
FreeBlock(p) ==
    LET c == call[p]
        t == Head(c.todo)
        used == \E q \in Proc \ {p} : c.zone \in Held(q)
        maybe == \E q \in Proc \ {p} : c.zone \in MayHold(q)
    IN /\ Runs(p, "free")
       /\ \/ ~used /\ c.zone \in zmap /\ zmap' = zmap \ {c.zone}
          \/ maybe /\ UNCHANGED zmap
       /\ izone' = IF Len(t) = 3 /\ t[2] = None
                     THEN [izone EXCEPT ![c.file][t[3]] = None] ELSE izone
       /\ Keeps(p, "trunc")
       /\ call' = [call EXCEPT ![p].todo = Tail(@), ![p].zone = None]
       /\ UNCHANGED <<isize, ptr, data, f_pos, out, calls, faults, written, raced, panic>>

\* panic("free_block: bit already cleared").
FreeBlockPanics(p) ==
    /\ Runs(p, "free")
    /\ call[p].zone \notin zmap
    /\ panic' = "cleared"
    /\ UNCHANGED <<disk, f_pos, cpu, pc, call, out, calls, faults, written, raced>>

\* The end of truncate.
TruncEnd(p) ==
    LET f == call[p].file
    IN /\ Runs(p, "trunc")
       /\ call[p].todo = << >>
       /\ izone' = [izone EXCEPT ![f][Ind] = None, ![f][Dind] = None]
       /\ isize' = [isize EXCEPT ![f] = 0]
       /\ written' = [written EXCEPT ![f] = {}]
       /\ Leave(p)
       /\ UNCHANGED <<zmap, ptr, data, f_pos, out, calls, faults, raced, panic>>

Step(p) ==
    \/ Bmap(p) \/ BmapRead(p) \/ NewBlock(p) \/ NewBlockGot(p) \/ NewBlockPanics(p)
    \/ BmapPanics(p) \/ FileRead(p) \/ FileWrite(p) \/ FileEnd(p) \/ BreadFails(p)
    \/ TruncNext(p) \/ FreeInd(p) \/ FreeBlock(p) \/ FreeBlockPanics(p) \/ TruncEnd(p)

Next ==
    \E p \in Proc :
        \/ \E f \in File, b \in FileBlock, n \in 1 .. MaxCount, op \in {"read", "write", "append"},
              shared \in BOOLEAN : StartFile(p, f, op, b, n, shared)
        \/ \E f \in File : StartTruncate(p, f)
        \/ Step(p)

Spec == Init /\ [][Next]_vars

-----------------------------------------------------------------------------
\* The pointers that are still somebody's, each with the block it points to: those
\* of a file, or those that the truncate of the file has not come to yet.
Jobs0(f) ==
    LET ps == {p \in Proc : Inside(p, f) /\ call[p].op = "truncate"}
    IN IF ps = {} THEN {<<IF s < Ind THEN 0 ELSE s - Ind + 1, None, s>> : s \in Slot}
       ELSE UNION {{call[p].todo[i] : i \in DOMAIN call[p].todo} : p \in ps}
Owns(f) ==
    LET used(js) == {x \in {<<f, j, Target(f, j)>> : j \in js} : x[3] # None}
        below(xs) == used(UNION {{<<x[2][1] - 1, x[3], e>> : e \in Entry} :
                                 x \in {y \in xs : y[2][1] > 0}})
        top == used(Jobs0(f))
    IN top \union below(top) \union below(below(top))
Owned == UNION {Owns(f) : f \in File}
InFlight == {call[p].zone : p \in {q \in Proc : pc[q] = "new"}}

\* A block that a file reaches belongs to nothing else: no two pointers lead to
\* it, of one file or of two, it is not free in the bitmap and not given to a
\* sleeper in new_block, no two sleepers there have the same block, and neither
\* new_block nor free_block panics - as long as no truncate mixes with another
\* call on its file.  Two writers that fill the same hole lose a block, they
\* never share one.
NoSharedBlock ==
    (\A f \in File : <<"torn", f>> \notin raced) =>
        /\ \A x, y \in Owned : x[3] = y[3] => x = y
        /\ \A x \in Owned : x[3] \in zmap \ InFlight
        /\ InFlight \subseteq zmap
        /\ \A p, q \in Proc :
              pc[p] = "new" /\ pc[q] = "new" /\ call[p].zone = call[q].zone => p = q
        /\ panic \in {"none", "big"}

\* No block is lost: the bit of a zone that is set belongs to a pointer or to a
\* call in new_block, unless two calls filled one hole, an indirect block could
\* not be read, or a truncate was torn.
BitsExact ==
    raced = {} => zmap \intersect Zone = {x[3] : x \in Owned} \union InFlight

\* file_read copies out what was last written at the position it had when it
\* called bmap, zeros in a hole and after a truncate, and not the contents of
\* another position or file, while other calls allocate, free, read, write and
\* move a shared f_pos in its sleeps.  Stated up to the first truncate that
\* meets another call on its file, as a block freed under a call may become any
\* file's, and for a file up to a hole filled twice, which loses one of the two
\* writes, or an indirect block that was not read, which reads as a hole.
ReadsCurrent ==
    [][\A p \in Proc :
        LET c == call[p]
            spoilt == \E x \in raced : x[1] = "torn" \/ x[2] = c.file
        IN (c.op = "read" /\ pc[p] = "copy" /\ call'[p].left < c.left /\ ~spoilt) =>
             out'[p] = IF c.pos \in written[c.file] THEN <<c.file, c.pos>> ELSE Zeros]_vars
=============================================================================
