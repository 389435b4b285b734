------------------------------- MODULE Namei -------------------------------
(***************************************************************************)
(* Names: fs/namei.c and the calls of fs/open.c, over the directory tree   *)
(* of one device.  The caller is root, so permission() refuses only what   *)
(* has been deleted.                                                       *)
(*                                                                         *)
(* One process at a time is awake in here (cpu); it gives the processor    *)
(* away in find_entry, add_entry and empty_dir (bread), in iget, and where *)
(* it says so.  It holds inodes meanwhile, and pointers into directory     *)
(* blocks, but nothing locks a directory.  The inode table is module Inode *)
(* seen from outside: an inode is there while it has links or holders, and *)
(* iput frees it with the last of both.  Zones are in module Zones.        *)
(***************************************************************************)
EXTENDS Integers, Sequences, FiniteSets, FiniteSetsExt

CONSTANTS Proc,
          Name,        \* file names, without the names of Dots
          Path,        \* pathnames: sequences over Name and Dots, perhaps with Empty at the end
          NewPath,     \* those that link is given as new names
          NInodes,     \* s_ninodes; number 1 is the root
          NEntries,    \* the entries that a directory can grow to, without "." and ".."
          MaxCalls     \* bound: calls in all

Dots == {"dot", "dotdot"}
Empty == "empty"       \* the last component of a pathname that ends in a slash

ASSUME NameiAssumption ==
    /\ NInodes \in Nat /\ NInodes > 2 /\ NEntries \in Nat /\ NEntries > 1
    /\ MaxCalls \in Nat
    /\ Path \subseteq Seq(Name \union Dots \union {Empty}) \ {<< >>} /\ NewPath \subseteq Path
    /\ Name \cap (Dots \union {Empty}) = {} /\ Proc \cap Nat = {}

Num == 1 .. NInodes
Root == 1
None == 0
Unused == [name |-> None, nr |-> None]

VARIABLES
    imap,     \* the inodes that are in use
    kind,     \* i_mode: "none" (0), "file" or "dir"
    nlinks,   \* i_nlinks
    ent,      \* the entries of a directory
    dotdot,   \* its entry ".."
    pwd, fd,  \* of each process: the current directory, one open file
    cpu, pc,  \* the process that is awake, and where each one is
    call,     \* the arguments and the locals of its call
    calls,
    adds,     \* history: how many entries were added to a directory
    raced,    \* history: see AddEntry, RemoveEntry, Unlink and Iget
    panic

tree == <<kind, nlinks, ent, dotdot, adds>>
vars == <<imap, tree, pwd, fd, cpu, pc, call, calls, raced, panic>>

\* path and next: what is left to look up; dir and ino: the inodes it holds;
\* nr and pos: the number and the place of the entry it has found; seen, history:
\* adds of the directory when the name was not found in it.
Idle == [op |-> "idle", path |-> << >>, next |-> << >>, dir |-> None, ino |-> None,
         nr |-> None, pos |-> 0, seen |-> 0]
NewEntries == [i \in 1 .. NEntries |-> Unused]

\* The device that was mounted: a directory x and a file y in the root, and
\* perhaps a second link to the file in the directory.
Mounted(x, y, second) ==
    /\ imap = {Root, 2, 3}
    /\ kind = [n \in Num |-> CASE n \in {Root, 2} -> "dir" [] n = 3 -> "file" [] OTHER -> "none"]
    /\ nlinks = [n \in Num |-> CASE n = Root -> 3 [] n = 2 -> 2 [] n = 3 -> (IF second THEN 2 ELSE 1)
                                 [] OTHER -> 0]
    /\ ent = [n \in Num |->
                CASE n = Root -> [NewEntries EXCEPT ![1] = [name |-> x, nr |-> 2],
                                                    ![2] = [name |-> y, nr |-> 3]]
                  [] n = 2 /\ second -> [NewEntries EXCEPT ![1] = [name |-> y, nr |-> 3]]
                  [] OTHER -> NewEntries]
    /\ dotdot = [n \in Num |-> IF n \in {Root, 2} THEN Root ELSE None]

Init ==
    /\ \E x, y \in Name, second \in BOOLEAN : x # y /\ Mounted(x, y, second)
    /\ pwd = [p \in Proc |-> Root]
    /\ fd = [p \in Proc |-> None]
    /\ cpu = None
    /\ pc = [p \in Proc |-> "idle"]
    /\ call = [p \in Proc |-> Idle]
    /\ calls = 0 /\ adds = [n \in Num |-> 0]
    /\ raced = {}
    /\ panic = FALSE

-----------------------------------------------------------------------------
Runs(p, c) == ~panic /\ cpu \in {p, None} /\ pc[p] = c
Keeps(p, c) == pc' = [pc EXCEPT ![p] = c] /\ cpu' = p
Sleeps(p, c) == pc' = [pc EXCEPT ![p] = c] /\ cpu' = None

\* i_count of n, less the 3 that mount_root adds to the root's.
Holders(n) == {p \in Proc : n \in {pwd[p], fd[p], call[p].dir, call[p].ino}}

\* iput of what the step has let go of, with inodes in use before that.
Iput(used) == imap' = {n \in used : n = Root \/ nlinks'[n] # 0 \/ Holders(n)' # {}}

\* The call returns, and gives back what it holds.
Leave(p) == Sleeps(p, "idle") /\ call' = [call EXCEPT ![p] = Idle]
Fail(p) ==
    /\ Leave(p)
    /\ UNCHANGED <<tree, pwd, fd>>
    /\ Iput(imap)

\* permission(inode,mask) of root.
Permission(n) == nlinks[n] # 0

\* match and find_entry: the places of name x in directory d, 0 for "." and "..".
Find(d, x) ==
    IF x \in Dots THEN {0} ELSE {i \in 1 .. NEntries : ent[d][i].nr # None /\ ent[d][i].name = x}
At(d, i, x) ==
    IF i # 0 THEN ent[d][i].nr ELSE IF x = "dot" THEN d ELSE dotdot[d]

Makers == {"creat", "mkdir"}
Users == {"open", "creat", "chdir", "link"}

-----------------------------------------------------------------------------
\* A system call with a pathname, or two: get_dir starts at the root or at pwd.
Start(p, op, path, next, from) ==
    /\ ~panic /\ cpu = None /\ pc[p] = "idle"
    /\ calls < MaxCalls
    /\ calls' = calls + 1
    /\ op \in {"open", "creat"} => fd[p] = None
    /\ call' = [call EXCEPT ![p] = [Idle EXCEPT !.op = op, !.path = path, !.next = next,
                                               !.dir = from]]
    /\ Keeps(p, "walk")
    /\ UNCHANGED <<imap, tree, pwd, fd, raced, panic>>

\* sys_close of the last descriptor of the file.
Close(p) ==
    /\ ~panic /\ cpu = None /\ pc[p] = "idle"
    /\ fd[p] # None
    /\ fd' = [fd EXCEPT ![p] = None]
    /\ UNCHANGED <<tree, pwd, cpu, pc, call, calls, raced, panic>>
    /\ Iput(imap)

\* get_dir at one directory, and, at the last, the permission that mkdir, unlink
\* and link ask for before they look.  An empty last component is the directory
\* itself to namei and to open for reading, and an error to the others.
GetDir(p) ==
    LET d == call[p].dir
        ok == kind[d] = "dir" /\ Permission(d)
        bare == call[p].path = <<Empty>>
        takes == call[p].op \in Users \ {"creat"}
    IN /\ Runs(p, "walk")
       /\ \/ ok /\ ~bare /\ Sleeps(p, "find") /\ UNCHANGED <<imap, tree, pwd, fd, call>>
          \/ /\ ok /\ bare /\ takes
             /\ call' = [call EXCEPT ![p].ino = d, ![p].dir = None]
             /\ Keeps(p, "got")
             /\ UNCHANGED <<imap, tree, pwd, fd>>
          \/ (~ok \/ (bare /\ ~takes)) /\ Fail(p)
       /\ UNCHANGED <<calls, raced, panic>>

\* The number in the entry; brelse and iput(dir) before iget.
Descend(p, i) ==
    LET c == call[p]
    IN /\ call' = [call EXCEPT ![p].nr = At(c.dir, i, Head(c.path)), ![p].dir = None]
       /\ Sleeps(p, "iget")
       /\ UNCHANGED <<tree, pwd, fd, raced>>
       /\ Iput(imap)

\* unlink and rmdir keep the directory and the place of the entry.
KeepEntry(p, i) ==
    LET c == call[p]
    IN /\ call' = [call EXCEPT ![p].nr = At(c.dir, i, Head(c.path)), ![p].pos = i]
       /\ Sleeps(p, "iget")
       /\ UNCHANGED <<imap, tree, pwd, fd, raced>>

\* new_inode of open_namei and sys_mkdir.
NewInode(p) ==
    LET n == Min(Num \ imap)
        c == call[p]
    IN /\ imap' = imap \union {n}
       /\ kind' = [kind EXCEPT ![n] = IF c.op = "mkdir" THEN "none" ELSE "file"]
       /\ nlinks' = [nlinks EXCEPT ![n] = 1]
       /\ call' = [call EXCEPT ![p].ino = n, ![p].seen = adds[c.dir]]
       /\ Sleeps(p, IF c.op = "mkdir" THEN "block" ELSE "add")
       /\ UNCHANGED <<ent, dotdot, adds, pwd, fd, raced>>


\* find_entry has found the name: on with get_dir, or with the call.  mkdir and
\* link fail, and open with O_EXCL.
Found(p, i) ==
    LET c == call[p]
        last == Len(c.path) = 1
        keeps == c.op = "unlink" \/ (c.op = "rmdir" /\ Permission(c.dir))
    IN \/ (~last \/ c.op \in Users) /\ Descend(p, i)
       \/ last /\ keeps /\ KeepEntry(p, i)
       \/ /\ last /\ ~keeps /\ c.op \notin Users \ {"creat"}
          /\ Fail(p)
          /\ UNCHANGED raced

\* It has not: open_namei asks for permission here, sys_mkdir and sys_link have
\* asked before they slept.
NotFound(p) ==
    LET c == call[p]
        may == Len(c.path) = 1 /\ (c.op = "creat" => Permission(c.dir))
        makes == may /\ c.op \in Makers /\ ~(Num \subseteq imap)
        links == may /\ c.op = "linkto"
    IN \/ makes /\ NewInode(p)
       \/ /\ links
          /\ Sleeps(p, "add")
          /\ call' = [call EXCEPT ![p].seen = adds[c.dir]]
          /\ UNCHANGED <<imap, tree, pwd, fd, raced>>
       \/ /\ ~makes /\ ~links
          /\ Fail(p)
          /\ UNCHANGED raced

FindEntry(p) ==
    LET c == call[p]
        places == Find(c.dir, Head(c.path))
    IN /\ Runs(p, "find")
       /\ IF places # {} THEN Found(p, Min(places)) ELSE NotFound(p)
       /\ UNCHANGED <<calls, panic>>

\* iget.  The code goes on with whatever inode a number gives that has been freed
\* meanwhile, see module Inode; here the call ends, and every property is stated
\* up to there ("stale").
Iget(p) ==
    LET c == call[p]
    IN /\ Runs(p, "iget")
       /\ \/ /\ c.nr \notin imap
             /\ raced' = raced \union {"stale"}
             /\ Fail(p)
          \/ /\ c.nr \in imap /\ Len(c.path) > 1
             /\ call' = [call EXCEPT ![p].dir = c.nr, ![p].path = Tail(@), ![p].nr = None]
             /\ Keeps(p, "walk")
             /\ UNCHANGED <<imap, tree, pwd, fd, raced>>
          \/ /\ c.nr \in imap /\ Len(c.path) = 1
             /\ call' = [call EXCEPT ![p].ino = c.nr]
             /\ Keeps(p, "got")
             /\ UNCHANGED <<imap, tree, pwd, fd, raced>>
       /\ UNCHANGED <<calls, panic>>

-----------------------------------------------------------------------------
\* open_namei and sys_open with an inode that was there.
Open(p) ==
    LET n == call[p].ino
        ok == Permission(n) /\ (call[p].op = "creat" => kind[n] # "dir")
    IN /\ Runs(p, "got")
       /\ call[p].op \in {"open", "creat"}
       /\ \/ /\ ok
             /\ fd' = [fd EXCEPT ![p] = n]
             /\ Leave(p)
             /\ UNCHANGED <<tree, pwd>>
             /\ Iput(imap)
          \/ ~ok /\ Fail(p)
       /\ UNCHANGED <<calls, raced, panic>>

\* The callers of namei that change or report times, modes and owners (utime,
\* access, chmod, chown, stat) come here like an open, and let go.
Stat(p) ==
    /\ Runs(p, "got")
    /\ call[p].op = "open"
    /\ Fail(p)
    /\ UNCHANGED <<calls, raced, panic>>

\* sys_chdir.
Chdir(p) ==
    LET n == call[p].ino
    IN /\ Runs(p, "got")
       /\ call[p].op = "chdir"
       /\ \/ /\ kind[n] = "dir"
             /\ pwd' = [pwd EXCEPT ![p] = n]
             /\ Leave(p)
             /\ UNCHANGED <<tree, fd>>
             /\ Iput(imap)
          \/ kind[n] # "dir" /\ Fail(p)
       /\ UNCHANGED <<calls, raced, panic>>

\* sys_link has its old inode and looks up the new name.
LinkOld(p, from) ==
    LET c == call[p]
    IN /\ Runs(p, "got")
       /\ c.op = "link"
       /\ \/ /\ kind[c.ino] = "file"
             /\ call' = [call EXCEPT ![p].op = "linkto", ![p].path = c.next,
                                     ![p].next = << >>, ![p].dir = from, ![p].nr = None]
             /\ Keeps(p, "walk")
             /\ UNCHANGED <<imap, tree, pwd, fd>>
          \/ kind[c.ino] # "file" /\ Fail(p)
       /\ UNCHANGED <<calls, raced, panic>>

\* de->inode = 0 at the place that was found before iget slept.  The entry may be
\* another by now, or gone.
RemoveEntry(d, i, x, n, gone) ==
    /\ ent' = IF i = 0 THEN ent ELSE [ent EXCEPT ![d][i].nr = None]
    /\ dotdot' = IF i = 0 THEN [dotdot EXCEPT ![d] = None] ELSE dotdot
    /\ raced' = raced \union gone \union
        (IF i # 0 /\ ent[d][i] = [name |-> x, nr |-> n] /\ Permission(d) THEN {} ELSE {"entry"})

\* Mutant: the entry outlives the link.
UnlinkKeepsEntry(p) ==
    LET c == call[p]
        n == c.ino
    IN /\ Runs(p, "got")
       /\ c.op = "unlink"
       /\ \/ /\ kind[n] = "file"
             /\ nlinks' = [nlinks EXCEPT ![n] = IF @ = 0 THEN 0 ELSE @ - 1]
             /\ Leave(p)
             /\ UNCHANGED <<kind, ent, dotdot, adds, pwd, fd, raced>>
             /\ Iput(imap)
          \/ /\ kind[n] # "file"
             /\ Fail(p)
             /\ UNCHANGED raced
       /\ UNCHANGED <<calls, panic>>

\* sys_unlink.  A file without links is given one to take away: sys_link may
\* have made this entry and not counted it yet.
Unlink(p) ==
    LET c == call[p]
        n == c.ino
        gone == IF nlinks[n] = 0 THEN {"gone"} ELSE {}
    IN /\ Runs(p, "got")
       /\ c.op = "unlink"
       /\ \/ /\ kind[n] = "file"
             /\ RemoveEntry(c.dir, c.pos, Head(c.path), n, gone)
             /\ nlinks' = [nlinks EXCEPT ![n] = IF @ = 0 THEN 0 ELSE @ - 1]
             /\ Leave(p)
             /\ UNCHANGED <<kind, adds, pwd, fd>>
             /\ Iput(imap)
          \/ /\ kind[n] # "file"
             /\ Fail(p)
             /\ UNCHANGED raced
       /\ UNCHANGED <<calls, panic>>

\* sys_rmdir up to empty_dir.
Rmdir(p) ==
    LET c == call[p]
        ok == c.ino # c.dir /\ kind[c.ino] = "dir"
    IN /\ Runs(p, "got")
       /\ c.op = "rmdir"
       /\ \/ ok /\ Sleeps(p, "empty") /\ UNCHANGED <<imap, tree, pwd, fd, call>>
          \/ ~ok /\ Fail(p)
       /\ UNCHANGED <<calls, raced, panic>>

\* empty_dir, and the end of sys_rmdir.
EmptyDir(p) ==
    LET c == call[p]
        n == c.ino
        empty == \A i \in 1 .. NEntries : ent[n][i].nr = None
    IN /\ Runs(p, "empty")
       /\ \/ /\ empty
             /\ RemoveEntry(c.dir, c.pos, Head(c.path), n, {})
             /\ nlinks' = [nlinks EXCEPT ![n] = 0, ![c.dir] = @ - 1]
             /\ Leave(p)
             /\ UNCHANGED <<kind, adds, pwd, fd>>
             /\ Iput(imap)
          \/ /\ ~empty
             /\ Fail(p)
             /\ UNCHANGED raced
       /\ UNCHANGED <<calls, panic>>

-----------------------------------------------------------------------------
\* sys_mkdir: the block of the new directory, or none.
MkdirBlock(p) ==
    LET n == call[p].ino
    IN /\ Runs(p, "block")
       /\ \/ Sleeps(p, "dirblock") /\ UNCHANGED <<imap, tree, pwd, fd, call>>
          \/ /\ nlinks' = [nlinks EXCEPT ![n] = @ - 1]
             /\ Leave(p)
             /\ UNCHANGED <<kind, ent, dotdot, adds, pwd, fd>>
             /\ Iput(imap)
       /\ UNCHANGED <<calls, raced, panic>>

\* "." and "..", or the block cannot be read; i_mode is still 0 then, so that
\* iput does not free the block a second time.
MkdirFill(p) ==
    LET n == call[p].ino
    IN /\ Runs(p, "dirblock")
       /\ \/ /\ kind' = [kind EXCEPT ![n] = "dir"]
             /\ nlinks' = [nlinks EXCEPT ![n] = 2]
             /\ ent' = [ent EXCEPT ![n] = NewEntries]
             /\ dotdot' = [dotdot EXCEPT ![n] = call[p].dir]
             /\ Sleeps(p, "add")
             /\ UNCHANGED <<imap, adds, pwd, fd, call>>
          \/ /\ nlinks' = [nlinks EXCEPT ![n] = @ - 1]
             /\ Leave(p)
             /\ UNCHANGED <<kind, ent, dotdot, adds, pwd, fd>>
             /\ Iput(imap)
       /\ UNCHANGED <<calls, raced, panic>>

\* add_entry: the first unused place, without a look at the names, and the
\* caller's de->inode, before anything sleeps.  Since the caller looked, another
\* call may have added to the directory, the same name perhaps, and the directory
\* may have gone.
AddEntry(d, x, n, seen) ==
    LET free == {i \in 1 .. NEntries : ent[d][i].nr = None}
    IN /\ free # {}
       /\ ent' = [ent EXCEPT ![d][Min(free)] = [name |-> x, nr |-> n]]
       /\ adds' = [adds EXCEPT ![d] = @ + 1]
       /\ raced' = raced \union (IF adds[d] = seen THEN {} ELSE {"twin"})
                         \union (IF Permission(d) THEN {} ELSE {"removed"})

\* open_namei and sys_open with a new file.
AddFile(p) ==
    LET c == call[p]
    IN /\ Runs(p, "add")
       /\ c.op = "creat"
       /\ AddEntry(c.dir, Head(c.path), c.ino, c.seen)
       /\ fd' = [fd EXCEPT ![p] = c.ino]
       /\ Leave(p)
       /\ UNCHANGED <<kind, nlinks, dotdot, pwd, calls, panic>>
       /\ Iput(imap)

AddDir(p) ==
    LET c == call[p]
    IN /\ Runs(p, "add")
       /\ c.op = "mkdir"
       /\ AddEntry(c.dir, Head(c.path), c.ino, c.seen)
       /\ nlinks' = [nlinks EXCEPT ![c.dir] = @ + 1]
       /\ Leave(p)
       /\ UNCHANGED <<kind, dotdot, pwd, fd, calls, panic>>
       /\ Iput(imap)

\* sys_link: the entry is there, the link is counted after iput(dir).
AddLink(p) ==
    LET c == call[p]
    IN /\ Runs(p, "add")
       /\ c.op = "linkto"
       /\ AddEntry(c.dir, Head(c.path), c.ino, c.seen)
       /\ call' = [call EXCEPT ![p].dir = None]
       /\ Sleeps(p, "linked")
       /\ UNCHANGED <<kind, nlinks, dotdot, pwd, fd, calls, panic>>
       /\ Iput(imap)


CountLink(p) ==
    /\ Runs(p, "linked")
    /\ nlinks' = [nlinks EXCEPT ![call[p].ino] = @ + 1]
    /\ Leave(p)
    /\ UNCHANGED <<kind, ent, dotdot, adds, pwd, fd, calls, raced, panic>>
    /\ Iput(imap)

\* add_entry fails: no block, or one that cannot be read.  sys_mkdir frees the
\* block of the new directory and iput frees it again: "bit already cleared".
AddFails(p) ==
    LET c == call[p]
    IN /\ Runs(p, "add")
       /\ \/ /\ c.op = "creat"
             /\ nlinks' = [nlinks EXCEPT ![c.ino] = @ - 1]
             /\ Leave(p)
             /\ UNCHANGED <<kind, ent, dotdot, adds, pwd, fd, panic>>
             /\ Iput(imap)
          \/ c.op = "linkto" /\ Fail(p) /\ UNCHANGED panic
          \/ /\ c.op = "mkdir"
             /\ panic' = TRUE
             /\ UNCHANGED <<imap, tree, pwd, fd, cpu, pc, call>>
       /\ UNCHANGED <<calls, raced>>

Step(p) ==
    \/ GetDir(p) \/ FindEntry(p) \/ Iget(p)
    \/ Open(p) \/ Stat(p) \/ Chdir(p) \/ Unlink(p) \/ Rmdir(p) \/ EmptyDir(p)
    \/ MkdirBlock(p) \/ MkdirFill(p) \/ AddFile(p) \/ AddDir(p) \/ AddLink(p)
    \/ CountLink(p) \/ AddFails(p)

Next ==
    \E p \in Proc :
        \/ \E op \in {"open", "creat", "chdir", "mkdir", "rmdir", "unlink"},
              path \in Path, from \in {Root, pwd[p]} : Start(p, op, path, << >>, from)
        \/ \E path \in Path, next \in NewPath, from \in {Root, pwd[p]} : Start(p, "link", path, next, from)
        \/ \E from \in {Root, pwd[p]} : LinkOld(p, from)
        \/ Close(p)
        \/ Step(p)

Spec == Init /\ [][Next]_vars

-----------------------------------------------------------------------------
\* The directories of the tree, and the entries in them that lead to inode n.
Live(d) == d \in imap /\ kind[d] = "dir" /\ nlinks[d] # 0
Entries(n) ==
    {e \in {d \in Num : Live(d)} \X (1 .. NEntries) : ent[e[1]][e[2]].nr = n}
At2(c, ops, n) == Cardinality({p \in Proc : pc[p] = c /\ call[p].op \in ops /\ call[p].ino = n})


\* An entry of the tree leads to an inode in use, although the inode goes with
\* its last link or user - unless a call removed an entry that was not the one
\* it had found any more, or went on with an inode that was gone.
NoDangling ==
    raced \cap {"entry", "stale"} = {} =>
        \A d \in Num : Live(d) => \A i \in 1 .. NEntries : ent[d][i].nr \in imap \union {None}

=============================================================================
