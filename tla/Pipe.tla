-------------------------------- MODULE Pipe --------------------------------
(***************************************************************************)
(* fs/pipe.c: a pipe inode, its ring buffer of one page, and the processes *)
(* that share its two ends after sys_pipe() and fork().                    *)
(*                                                                         *)
(* Readers and writers sleep on one queue, inode->i_wait, and test i_count *)
(* to learn whether the other end is still open.  A process runs from one  *)
(* sleep_on to the next in one step.  That is the rule pipe.c is written   *)
(* for, no interrupt handler touches a pipe; a tick that ends the slice of *)
(* a process inside the kernel breaks it, as module Sched shows, and is    *)
(* left out here.  sleep_on and wake_up are those of WaitSet: wake_up      *)
(* releases every sleeper.                                                 *)
(***************************************************************************)
EXTENDS Integers, Sequences, FiniteSets

CONSTANTS Proc,       \* the processes
          Byte,       \* the byte values a writer may send
          Size,       \* PAGE_SIZE, a power of two: 4096 in the code
          MaxCount    \* bound: the largest count of a read or write

ASSUME PipeAssumption ==
    /\ Size \in Nat \ {0, 1}
    /\ 0 \in Byte
    /\ MaxCount \in Nat \ {0}

VARIABLES
    head,      \* PIPE_HEAD: where the next byte goes
    tail,      \* PIPE_TAIL: where the next byte comes from
    page,      \* the page at i_size
    iCount,    \* i_count: open ends
    rd,        \* the processes that hold the read end: its f_count descriptors
    wr,        \* the same for the write end
    pc,        \* "read", "write": inside the call, asleep; "idle": outside
    want,      \* count of the read under way
    left,      \* bytes the write under way has still to send
    waiting,   \* the sleepers of i_wait that no wake_up has released
    ret        \* how the call that the last step ended, if any, returned

ringVars == <<head, tail, page>>
endVars == <<iCount, rd, wr>>
vars == <<ringVars, endVars, pc, want, left, waiting, ret>>

Slot == 0 .. Size - 1

Data == UNION {[1 .. n -> Byte] : n \in 1 .. MaxCount}

TypeOK ==
    /\ head \in Slot
    /\ tail \in Slot
    /\ page \in [Slot -> Byte]
    /\ iCount \in 0 .. 2
    /\ rd \in SUBSET Proc
    /\ wr \in SUBSET Proc
    /\ pc \in [Proc -> {"idle", "read", "write"}]
    /\ want \in [Proc -> 0 .. MaxCount]
    /\ left \in [Proc -> Seq(Byte)]
    /\ waiting \in SUBSET Proc
    /\ ret \in {"none", "bytes", "eof", "sigpipe"}

\* PIPE_SIZE masks the difference with PAGE_SIZE - 1; PIPE_EMPTY, PIPE_FULL.
PipeSize == (head - tail) % Size
PipeEmpty == head = tail

\* Mutant: PIPE_FULL one byte too late, so that a full ring looks empty.
RoomOffByOne == Size - PipeSize

\* How many bytes fit: one slot stays free, to tell a full ring from an empty one.
Room == Size - 1 - PipeSize

Init ==
    /\ head = 0
    /\ tail = 0
    /\ page = [i \in Slot |-> 0]
    /\ iCount = 0
    /\ rd = {}
    /\ wr = {}
    /\ pc = [p \in Proc |-> "idle"]
    /\ want = [p \in Proc |-> 0]
    /\ left = [p \in Proc |-> <<>>]
    /\ waiting = {}
    /\ ret = "none"

Least(a, b) == IF a <= b THEN a ELSE b

-----------------------------------------------------------------------------
\* How a call ends or goes to sleep.  Every path of read_pipe and write_pipe
\* calls wake_up first, so the sleepers are released on each of them.

Return(p, how) ==
    /\ pc' = [pc EXCEPT ![p] = "idle"]
    /\ want' = [want EXCEPT ![p] = 0]
    /\ left' = [left EXCEPT ![p] = <<>>]
    /\ ret' = how
    /\ waiting' = {}

SleepIn(p, call, n, data) ==
    /\ pc' = [pc EXCEPT ![p] = call]
    /\ want' = [want EXCEPT ![p] = n]
    /\ left' = [left EXCEPT ![p] = data]
    /\ waiting' = {p}
    /\ ret' = "none"

-----------------------------------------------------------------------------
\* Mutants.

\* iput of a pipe inode that does not wake the other end.
IputSilent ==
    /\ iCount' = iCount - 1
    /\ UNCHANGED waiting

\* A reader that gives up on an empty pipe without asking for writers.
ReadPipeNoWait(p, n) ==
    \/ /\ PipeEmpty
       /\ Return(p, "eof")
       /\ UNCHANGED tail
    \/ /\ ~PipeEmpty
       /\ tail' = (tail + Least(n, PipeSize)) % Size
       /\ Return(p, "bytes")

-----------------------------------------------------------------------------
\* INC_PIPE, k times.
Advance(i, k) == (i + k) % Size

\* The body of read_pipe from the top of its loop: lines 11-23.
ReadPipe(p, n) ==
    \/ /\ PipeEmpty
       /\ iCount # 2
       /\ Return(p, "eof")
       /\ UNCHANGED tail
    \/ /\ PipeEmpty
       /\ iCount = 2
       /\ SleepIn(p, "read", n, <<>>)
       /\ UNCHANGED tail
    \/ /\ ~PipeEmpty
       /\ tail' = Advance(tail, Least(n, PipeSize))
       /\ Return(p, "bytes")

\* The loop of write_pipe, lines 35-49: it stores what fits, and when the ring
\* is full it fails if the read end is closed and sleeps if it is open.
WritePipe(p, data) ==
    LET k == Least(Len(data), Room)
    IN /\ page' = [i \in Slot |->
                     LET j == (i - head) % Size
                     IN IF j < k THEN data[j + 1] ELSE page[i]]
       /\ head' = Advance(head, k)
       /\ \/ /\ k = Len(data)
             /\ Return(p, "bytes")
          \/ /\ k < Len(data)
             /\ iCount # 2
             /\ Return(p, "sigpipe")
          \/ /\ k < Len(data)
             /\ iCount = 2
             /\ SleepIn(p, "write", 0, SubSeq(data, k + 1, Len(data)))

\* sys_read and sys_write on a pipe; a count of 0 returns at once.
Read(p, n) ==
    /\ pc[p] = "idle"
    /\ p \in rd
    /\ ReadPipe(p, n)
    /\ UNCHANGED <<head, page, endVars>>

ReadAgain(p) ==
    /\ pc[p] = "read"
    /\ p \notin waiting
    /\ ReadPipe(p, want[p])
    /\ UNCHANGED <<head, page, endVars>>

Write(p, data) ==
    /\ pc[p] = "idle"
    /\ p \in wr
    /\ \/ /\ iCount # 2
          /\ Return(p, "sigpipe")
          /\ UNCHANGED <<head, page>>
       \/ /\ iCount = 2
          /\ WritePipe(p, data)
    /\ UNCHANGED <<tail, endVars>>

WriteAgain(p) ==
    /\ pc[p] = "write"
    /\ p \notin waiting
    /\ WritePipe(p, left[p])
    /\ UNCHANGED <<tail, endVars>>

-----------------------------------------------------------------------------
\* iput() of a pipe inode, once the last descriptor of an end is closed.
Iput ==
    /\ waiting' = {}
    /\ iCount' = iCount - 1

\* sys_close of a descriptor of the read end, of the write end; do_exit closes
\* the descriptors in the same way.
CloseRead(p) ==
    /\ pc[p] = "idle"
    /\ p \in rd
    /\ rd' = rd \ {p}
    /\ IF rd' = {} THEN Iput ELSE UNCHANGED <<waiting, iCount>>
    /\ ret' = "none"
    /\ UNCHANGED <<ringVars, wr, pc, want, left>>

CloseWrite(p) ==
    /\ pc[p] = "idle"
    /\ p \in wr
    /\ wr' = wr \ {p}
    /\ IF wr' = {} THEN Iput ELSE UNCHANGED <<waiting, iCount>>
    /\ ret' = "none"
    /\ UNCHANGED <<ringVars, rd, pc, want, left>>

\* sys_pipe: get_pipe_inode takes a page, which get_free_page has cleared, and
\* sets i_count to 2.
SysPipe(p) ==
    /\ iCount = 0
    /\ pc[p] = "idle"
    /\ iCount' = 2
    /\ rd' = {p}
    /\ wr' = {p}
    /\ head' = 0
    /\ tail' = 0
    /\ ret' = "none"
    /\ page' = [i \in Slot |-> 0]
    /\ UNCHANGED <<pc, want, left, waiting>>

\* sys_pipe finds no two files, no two descriptors or no inode with a page: it
\* returns -1 and has put back what it took.
SysPipeFails(p) ==
    /\ pc[p] = "idle"
    /\ ret' = "none"
    /\ UNCHANGED <<ringVars, endVars, pc, want, left, waiting>>

\* copy_process: the child inherits every descriptor and f_count grows.
Fork(p, c) ==
    /\ pc[p] = "idle"
    /\ pc[c] = "idle"
    /\ c \notin rd \union wr
    /\ p \in rd \union wr
    /\ rd' = IF p \in rd THEN rd \union {c} ELSE rd
    /\ wr' = IF p \in wr THEN wr \union {c} ELSE wr
    /\ ret' = "none"
    /\ UNCHANGED <<ringVars, iCount, pc, want, left, waiting>>

Next ==
    \E p \in Proc :
        \/ SysPipe(p) \/ SysPipeFails(p)
        \/ \E c \in Proc : Fork(p, c)
        \/ \E n \in 1 .. MaxCount : Read(p, n)
        \/ ReadAgain(p)
        \/ \E data \in Data : Write(p, data)
        \/ WriteAgain(p)
        \/ CloseRead(p)
        \/ CloseWrite(p)

Spec == Init /\ [][Next]_vars

\* A released sleeper is scheduled again: RunnableRuns of module Sched.
Fairness == \A p \in Proc : WF_vars(ReadAgain(p)) /\ WF_vars(WriteAgain(p))

FairSpec == Spec /\ Fairness

-----------------------------------------------------------------------------
\* No lost wake-up: a process that sleeps in a pipe, with no wake-up on its
\* way, has a reason to.  A reader waits for an empty pipe, a writer for a full
\* one, and the other end is open.
NoMissedWake ==
    \A p \in waiting :
        /\ iCount = 2
        /\ pc[p] = "read" => PipeEmpty
        /\ pc[p] = "write" => Room = 0

\* read_pipe reports end of file, and write_pipe raises SIGPIPE, only if the
\* other end is closed: i_count # 2 never means anything else.
EndsHonest ==
    /\ ret = "eof" => wr = {} /\ PipeEmpty
    /\ ret = "sigpipe" => rd = {}

\* A reader blocked in an empty pipe returns once the last writer is gone, and
\* a writer blocked in a full pipe once the last reader is gone.
BlockedReturns ==
    \A p \in Proc :
        /\ pc[p] = "read" /\ wr = {} ~> pc[p] = "idle"
        /\ pc[p] = "write" /\ rd = {} ~> pc[p] = "idle"

\* The ring buffer implements a bounded first-in first-out sequence.
Content == [i \in 1 .. PipeSize |-> page[(tail + i - 1) % Size]]

Fifo ==
    INSTANCE PipeFifo WITH
        Capacity <- Size - 1,
        fifo <- IF rd \union wr = {} THEN <<>> ELSE Content,
        ends <- (IF rd = {} THEN {} ELSE {"read"}) \union (IF wr = {} THEN {} ELSE {"write"})

ImplementsFifo == Fifo!Spec
=============================================================================
