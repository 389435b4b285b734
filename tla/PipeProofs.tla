----------------------------- MODULE PipeProofs -----------------------------
(***************************************************************************)
(* For every set of processes, every set of bytes and every page size: no  *)
(* process sleeps in a pipe without a reason, end of file and SIGPIPE tell *)
(* the truth about the other end, and the ring is a first-in first-out     *)
(* sequence of bytes.                                                      *)
(***************************************************************************)
EXTENDS Pipe, TLAPS, SequenceTheorems

\* i_count counts the ends that some process holds.
CountIsEnds ==
    iCount = (IF rd = {} THEN 0 ELSE 1) + (IF wr = {} THEN 0 ELSE 1)

\* A process inside a call holds the end it uses; a sleeper is inside a call.
CallsHold ==
    /\ \A p \in Proc : pc[p] = "read" => p \in rd /\ want[p] > 0
    /\ \A p \in Proc : pc[p] = "write" => p \in wr
    /\ \A p \in waiting : pc[p] # "idle"

\* The inductive invariant.
IInv == TypeOK /\ CountIsEnds /\ CallsHold /\ NoMissedWake /\ EndsHonest

\* A call that has ended has no bytes left to send.
LEMMA NoBytesLeft == <<>> \in Seq(Byte)
OBVIOUS

\* A masked index is a slot of the page.
LEMMA InSlot == \A i \in Int : i % Size \in Slot
BY PipeAssumption DEF Slot

\* PIPE_SIZE is less than the page, however head and tail lie.
LEMMA SizeInRange == head \in Slot /\ tail \in Slot => PipeSize \in 0 .. Size - 1
BY InSlot DEF Slot, PipeSize

\* So is the room.
LEMMA RoomInRange == head \in Slot /\ tail \in Slot => Room \in 0 .. Size - 1
BY SizeInRange, PipeAssumption DEF Room

\* An empty ring has room: the pipe is never empty and full at once.
LEMMA EmptyHasRoom == head \in Slot /\ PipeEmpty => Room = Size - 1
<1> SUFFICES ASSUME head \in Slot, PipeEmpty PROVE Room = Size - 1
  OBVIOUS
<1>1. head - tail = 0
  BY DEF PipeEmpty, Slot
<1>2. 0 % Size = 0
  BY PipeAssumption
<1> QED
  BY <1>1, <1>2, PipeAssumption DEF Room, PipeSize

\* Masking a difference of two slots, or a sum of two, adds or takes Size once.
LEMMA MaskedOnce ==
    /\ \A i \in 0 .. Size - 1 : i % Size = i
    /\ \A i \in Size .. 2 * Size - 1 : i % Size = i - Size
    /\ \A i \in -Size .. -1 : i % Size = i + Size
BY PipeAssumption

\* Storing as many bytes as fit fills the ring.
LEMMA FillsUp ==
    ASSUME head \in Slot, tail \in Slot, tail' = tail, head' = (head + Room) % Size
    PROVE  Room' = 0
<1> USE PipeAssumption
<1>1. CASE head >= tail
  <2>1. Room = Size - 1 - (head - tail)
    BY <1>1, MaskedOnce DEF Slot, Room, PipeSize
  <2>2. CASE tail = 0
    BY <1>1, <2>1, <2>2, MaskedOnce DEF Slot, Room, PipeSize
  <2>3. CASE tail # 0
    <3>1. head' = tail - 1
      BY <1>1, <2>1, <2>3, MaskedOnce DEF Slot
    <3> QED
      BY <2>3, <3>1, MaskedOnce DEF Slot, Room, PipeSize
  <2> QED
    BY <2>2, <2>3
<1>2. CASE head < tail
  <2>1. Room = tail - head - 1
    BY <1>2, MaskedOnce DEF Slot, Room, PipeSize
  <2>2. head' = tail - 1
    BY <1>2, <2>1, MaskedOnce DEF Slot
  <2> QED
    BY <1>2, <2>2, MaskedOnce DEF Slot, Room, PipeSize
<1> QED
  BY <1>1, <1>2 DEF Slot

\* Before the first sys_pipe nothing is open and nobody sleeps.
LEMMA InitIInv == Init => IInv
BY PipeAssumption
   DEF Init, IInv, TypeOK, CountIsEnds, CallsHold, NoMissedWake, EndsHonest, Slot

\* read_pipe from the top of its loop, in a process that holds the read end.
LEMMA ReadPipeIInv ==
    ASSUME IInv, NEW p \in Proc, NEW n \in 1 .. MaxCount, p \in rd,
           ReadPipe(p, n), UNCHANGED <<head, page, endVars>>
    PROVE  IInv'
<1> USE PipeAssumption
<1>1. CASE PipeEmpty /\ iCount # 2 /\ Return(p, "eof") /\ UNCHANGED tail
  <2>0. wr = {}
    BY <1>1 DEF IInv, CountIsEnds
  <2> USE <1>1 DEF IInv, Return, endVars
  <2>1. TypeOK'
    BY NoBytesLeft DEF TypeOK
  <2>2. CountIsEnds'
    BY DEF CountIsEnds
  <2>3. CallsHold'
    BY DEF TypeOK, CallsHold
  <2>4. NoMissedWake' /\ EndsHonest'
    BY <2>0 DEF NoMissedWake, EndsHonest, PipeEmpty
  <2> QED
    BY <2>1, <2>2, <2>3, <2>4
<1>2. CASE PipeEmpty /\ iCount = 2 /\ SleepIn(p, "read", n, <<>>) /\ UNCHANGED tail
  <2> USE <1>2 DEF IInv, SleepIn, endVars
  <2>1. TypeOK'
    BY NoBytesLeft DEF TypeOK
  <2>2. CountIsEnds'
    BY DEF CountIsEnds
  <2>3. CallsHold'
    BY DEF TypeOK, CallsHold
  <2>4. NoMissedWake'
    BY DEF TypeOK, NoMissedWake, PipeEmpty
  <2>5. EndsHonest'
    BY DEF EndsHonest
  <2> QED
    BY <2>1, <2>2, <2>3, <2>4, <2>5
<1>3. CASE ~PipeEmpty /\ tail' = Advance(tail, Least(n, PipeSize)) /\ Return(p, "bytes")
  <2>1. tail + Least(n, PipeSize) \in Int
    BY SizeInRange DEF IInv, TypeOK, Least, Slot
  <2>2. tail' \in Slot
    BY <1>3, <2>1, InSlot DEF Advance
  <2> USE <1>3 DEF IInv, Return, endVars
  <2>3. TypeOK'
    BY <2>2, NoBytesLeft DEF TypeOK
  <2>4. CountIsEnds'
    BY DEF CountIsEnds
  <2>5. CallsHold'
    BY DEF TypeOK, CallsHold
  <2>6. NoMissedWake' /\ EndsHonest'
    BY DEF NoMissedWake, EndsHonest
  <2> QED
    BY <2>3, <2>4, <2>5, <2>6
<1> QED
  BY <1>1, <1>2, <1>3 DEF ReadPipe

\* write_pipe from the top of its loop, in a process that holds the write end.
LEMMA WritePipeIInv ==
    ASSUME IInv, NEW p \in Proc, NEW data \in Seq(Byte), p \in wr,
           WritePipe(p, data), UNCHANGED <<tail, endVars>>
    PROVE  IInv'
<1> USE PipeAssumption
<1> DEFINE k == Least(Len(data), Room)
<1>1. k \in 0 .. Len(data) /\ k <= Room /\ Room \in 0 .. Size - 1
  BY RoomInRange DEF IInv, TypeOK, Least
<1>2. head' \in Slot
  <2>1. head + k \in Int
    BY <1>1 DEF IInv, TypeOK, Slot
  <2> QED
    BY <2>1, InSlot DEF WritePipe, Advance
<1>3. page' \in [Slot -> Byte]
  <2> SUFFICES ASSUME NEW i \in Slot
               PROVE  (IF (i - head) % Size < k THEN data[((i - head) % Size) + 1] ELSE page[i]) \in Byte
    BY DEF WritePipe
  <2>0. i - head \in Int
    BY DEF IInv, TypeOK, Slot
  <2>1. (i - head) % Size \in Slot
    BY <2>0, InSlot
  <2>2. CASE (i - head) % Size < k
    <3>1. ((i - head) % Size) + 1 \in 1 .. Len(data)
      BY <1>1, <2>1, <2>2 DEF Slot
    <3> QED
      BY <2>2, <3>1
  <2> QED
    BY <2>2 DEF IInv, TypeOK
<1>4. CASE k = Len(data) /\ Return(p, "bytes")
  <2> USE <1>4 DEF IInv, Return, endVars
  <2>1. TypeOK'
    BY <1>2, <1>3, NoBytesLeft DEF TypeOK
  <2>2. CountIsEnds'
    BY DEF CountIsEnds
  <2>3. CallsHold'
    BY DEF TypeOK, CallsHold
  <2>4. NoMissedWake' /\ EndsHonest'
    BY DEF NoMissedWake, EndsHonest
  <2> QED
    BY <2>1, <2>2, <2>3, <2>4
<1>5. CASE k < Len(data) /\ iCount # 2 /\ Return(p, "sigpipe")
  <2>0. rd = {}
    BY <1>5 DEF IInv, CountIsEnds
  <2> USE <1>5 DEF IInv, Return, endVars
  <2>1. TypeOK'
    BY <1>2, <1>3, NoBytesLeft DEF TypeOK
  <2>2. CountIsEnds'
    BY DEF CountIsEnds
  <2>3. CallsHold'
    BY DEF TypeOK, CallsHold
  <2>4. NoMissedWake' /\ EndsHonest'
    BY <2>0 DEF NoMissedWake, EndsHonest
  <2> QED
    BY <2>1, <2>2, <2>3, <2>4
<1>6. CASE k < Len(data) /\ iCount = 2 /\ SleepIn(p, "write", 0, SubSeq(data, k + 1, Len(data)))
  <2>1. SubSeq(data, k + 1, Len(data)) \in Seq(Byte)
    BY <1>1
  <2>2. k = Room
    BY <1>1, <1>6 DEF Least
  <2>3. Room' = 0
    BY <1>2, <2>2, FillsUp DEF WritePipe, Advance, IInv, TypeOK
  <2> USE <1>6 DEF IInv, SleepIn, endVars
  <2>4. TypeOK'
    BY <1>2, <1>3, <2>1 DEF TypeOK
  <2>5. CountIsEnds'
    BY DEF CountIsEnds
  <2>6. CallsHold'
    BY DEF TypeOK, CallsHold
  <2>7. NoMissedWake'
    BY <2>3 DEF TypeOK, NoMissedWake
  <2>8. EndsHonest'
    BY DEF EndsHonest
  <2> QED
    BY <2>4, <2>5, <2>6, <2>7, <2>8
<1> QED
  BY <1>4, <1>5, <1>6 DEF WritePipe

\* The last descriptor of an end is closed, or one of several.
LEMMA CloseIInv ==
    ASSUME IInv, NEW p \in Proc, CloseRead(p) \/ CloseWrite(p)
    PROVE  IInv'
<1> USE DEF IInv, ringVars
<1>1. iCount' \in 0 .. 2 /\ CountIsEnds'
  <2>1. CASE CloseRead(p) /\ rd' = {}
    <3>1. iCount' = iCount - 1 /\ rd # {} /\ wr' = wr
      BY <2>1 DEF CloseRead, Iput
    <3> QED
      BY <2>1, <3>1 DEF CountIsEnds
  <2>2. CASE CloseRead(p) /\ rd' # {}
    <3>1. iCount' = iCount /\ rd # {} /\ wr' = wr
      BY <2>2 DEF CloseRead
    <3> QED
      BY <2>2, <3>1 DEF CountIsEnds
  <2>3. CASE CloseWrite(p) /\ wr' = {}
    <3>1. iCount' = iCount - 1 /\ wr # {} /\ rd' = rd
      BY <2>3 DEF CloseWrite, Iput
    <3> QED
      BY <2>3, <3>1 DEF CountIsEnds
  <2>4. CASE CloseWrite(p) /\ wr' # {}
    <3>1. iCount' = iCount /\ wr # {} /\ rd' = rd
      BY <2>4 DEF CloseWrite
    <3> QED
      BY <2>4, <3>1 DEF CountIsEnds
  <2> QED
    BY <2>1, <2>2, <2>3, <2>4
<1> USE DEF CloseRead, CloseWrite, Iput
<1>2. TypeOK'
  BY <1>1 DEF TypeOK
<1>3. CallsHold'
  BY DEF TypeOK, CallsHold
<1>4. NoMissedWake'
  BY DEF TypeOK, NoMissedWake, PipeEmpty, Room, PipeSize
<1>5. EndsHonest'
  BY DEF EndsHonest
<1> QED
  BY <1>1, <1>2, <1>3, <1>4, <1>5

\* sys_pipe opens both ends at once, with i_count at 2.
LEMMA SysPipeIInv ==
    ASSUME IInv, NEW p \in Proc, SysPipe(p)
    PROVE  IInv'
<1> USE PipeAssumption DEF IInv, SysPipe
<1>1. TypeOK'
  BY DEF TypeOK, Slot
<1>2. CountIsEnds'
  BY DEF CountIsEnds
<1>3. rd = {} /\ wr = {}
  BY DEF CountIsEnds
<1>4. CallsHold'
  BY <1>3 DEF TypeOK, CallsHold
<1>5. NoMissedWake'
  BY <1>3 DEF TypeOK, CallsHold, NoMissedWake
<1>6. EndsHonest'
  BY DEF EndsHonest
<1> QED
  BY <1>1, <1>2, <1>4, <1>5, <1>6

\* A sys_pipe that fails leaves the ends as they are.
LEMMA SysPipeFailsIInv ==
    ASSUME IInv, NEW p \in Proc, SysPipeFails(p)
    PROVE  IInv'
<1> USE DEF IInv, SysPipeFails, ringVars, endVars
<1>1. TypeOK'
  BY DEF TypeOK
<1>2. CountIsEnds' /\ CallsHold'
  BY DEF CountIsEnds, CallsHold
<1>3. NoMissedWake'
  BY DEF NoMissedWake, PipeEmpty, Room, PipeSize
<1>4. EndsHonest'
  BY DEF EndsHonest
<1> QED
  BY <1>1, <1>2, <1>3, <1>4

\* fork adds holders to open ends only, so i_count still counts the ends.
LEMMA ForkIInv ==
    ASSUME IInv, NEW p \in Proc, NEW c \in Proc, Fork(p, c)
    PROVE  IInv'
<1> USE DEF IInv, Fork, ringVars
<1>1. TypeOK'
  BY DEF TypeOK
<1>2. CountIsEnds'
  BY DEF TypeOK, CountIsEnds
<1>3. CallsHold'
  BY DEF TypeOK, CallsHold
<1>4. NoMissedWake'
  BY DEF TypeOK, NoMissedWake, PipeEmpty, Room, PipeSize
<1>5. EndsHonest'
  BY DEF EndsHonest
<1> QED
  BY <1>1, <1>2, <1>3, <1>4, <1>5

\* sys_read, and read_pipe when it has been woken.
LEMMA ReadIInv ==
    ASSUME IInv, NEW p \in Proc,
           (\E n \in 1 .. MaxCount : Read(p, n)) \/ ReadAgain(p)
    PROVE  IInv'
<1>1. CASE \E n \in 1 .. MaxCount : Read(p, n)
  BY <1>1, ReadPipeIInv DEF Read
<1>2. CASE ReadAgain(p)
  <2>1. want[p] \in 1 .. MaxCount /\ p \in rd
    BY <1>2, PipeAssumption DEF ReadAgain, IInv, TypeOK, CallsHold
  <2> QED
    BY <1>2, <2>1, ReadPipeIInv DEF ReadAgain
<1> QED
  BY <1>1, <1>2

\* sys_write, and write_pipe when it has been woken.
LEMMA WriteIInv ==
    ASSUME IInv, NEW p \in Proc,
           (\E data \in Data : Write(p, data)) \/ WriteAgain(p)
    PROVE  IInv'
<1>1. ASSUME NEW data \in Data, Write(p, data)
      PROVE  IInv'
  <2>1. data \in Seq(Byte)
    BY PipeAssumption DEF Data
  <2>2. CASE iCount # 2 /\ Return(p, "sigpipe") /\ UNCHANGED <<head, page>>
    <3>0. p \in wr /\ UNCHANGED <<tail, iCount, rd, wr>>
      BY <1>1 DEF Write, endVars
    <3> USE <2>2, <3>0 DEF IInv, Return
    <3>1. rd = {}
      BY DEF CountIsEnds
    <3>2. TypeOK'
      BY NoBytesLeft, PipeAssumption DEF TypeOK
    <3>3. CountIsEnds'
      BY DEF CountIsEnds
    <3>4. CallsHold'
      BY DEF TypeOK, CallsHold
    <3>5. NoMissedWake' /\ EndsHonest'
      BY <3>1 DEF NoMissedWake, EndsHonest
    <3> QED
      BY <3>2, <3>3, <3>4, <3>5
  <2>3. CASE iCount = 2 /\ WritePipe(p, data)
    BY <1>1, <2>1, <2>3, WritePipeIInv DEF Write
  <2> QED
    BY <1>1, <2>2, <2>3 DEF Write
<1>2. CASE WriteAgain(p)
  <2>1. left[p] \in Seq(Byte) /\ p \in wr
    BY <1>2 DEF WriteAgain, IInv, TypeOK, CallsHold
  <2> QED
    BY <1>2, <2>1, WritePipeIInv DEF WriteAgain
<1> QED
  BY <1>1, <1>2

\* A step of nothing keeps it.
LEMMA StutterIInv == IInv /\ UNCHANGED vars => IInv'
BY DEF IInv, vars, ringVars, endVars, TypeOK, CountIsEnds, CallsHold, NoMissedWake,
       EndsHonest, PipeEmpty, Room, PipeSize

\* The inductive invariant holds in every reachable state.
THEOREM Invariance == Spec => []IInv
<1>1. Init => IInv
  BY InitIInv
<1>2. IInv /\ [Next]_vars => IInv'
  BY CloseIInv, SysPipeIInv, SysPipeFailsIInv, ForkIInv, ReadIInv, WriteIInv, StutterIInv DEF Next
<1> QED
  BY <1>1, <1>2, PTL DEF Spec

\* Indices, ring, descriptors and calls stay of their types; in particular the
\* masked indices never leave the page.
THEOREM TypeCorrect == Spec => []TypeOK
<1>1. IInv => TypeOK
  BY DEF IInv
<1> QED
  BY <1>1, Invariance, PTL

\* No wake-up of a pipe is ever lost.
THEOREM WakesKept == Spec => []NoMissedWake
<1>1. IInv => NoMissedWake
  BY DEF IInv
<1> QED
  BY <1>1, Invariance, PTL

\* End of file and SIGPIPE tell the truth about the other end.
THEOREM EndsTold == Spec => []EndsHonest
<1>1. IInv => EndsHonest
  BY DEF IInv
<1> QED
  BY <1>1, Invariance, PTL

-----------------------------------------------------------------------------
\* The ring maps to the sequence of PipeFifo.

\* The distance between two slots.
LEMMA MaskedDifference ==
    \A h, t \in Slot : (h - t) % Size = IF h >= t THEN h - t ELSE h - t + Size
BY PipeAssumption, MaskedOnce DEF Slot

\* What PIPE_SIZE and an index that wraps at most once come to.
LEMMA Unmasked ==
    ASSUME head \in Slot, tail \in Slot
    PROVE  /\ PipeSize = IF head >= tail THEN head - tail ELSE head - tail + Size
           /\ PipeSize \in 0 .. Size - 1
           /\ \A i \in 0 .. Size - 1 :
                /\ (tail + i) % Size = IF tail + i < Size THEN tail + i ELSE tail + i - Size
                /\ (head + i) % Size = IF head + i < Size THEN head + i ELSE head + i - Size
<1> USE PipeAssumption
<1>1. PipeSize = IF head >= tail THEN head - tail ELSE head - tail + Size
  BY MaskedOnce DEF PipeSize, Slot
<1>2. ASSUME NEW i \in 0 .. Size - 1, NEW t \in Slot
      PROVE  (t + i) % Size = IF t + i < Size THEN t + i ELSE t + i - Size
  BY MaskedOnce DEF Slot
<1> QED
  BY <1>1, <1>2, SizeInRange

\* A read of k bytes leaves the ring k bytes shorter, and the byte that was at
\* place k + i from the tail is at place i.
LEMMA ReadShifts ==
    ASSUME head \in Slot, tail \in Slot, NEW k \in 0 .. PipeSize,
           tail' = (tail + k) % Size, UNCHANGED <<head, page>>
    PROVE  /\ PipeSize' = PipeSize - k
           /\ \A i \in 1 .. PipeSize - k :
                page'[(tail' + i - 1) % Size] = page[(tail + (k + i) - 1) % Size]
<1> USE PipeAssumption
<1>0. PipeSize \in 0 .. Size - 1 /\ k \in 0 .. Size - 1
  BY Unmasked
<1>1. tail' = IF tail + k < Size THEN tail + k ELSE tail + k - Size
  BY <1>0, Unmasked
<1>2. tail' \in Slot /\ head' \in Slot
  BY <1>0, <1>1 DEF Slot
<1>3. PipeSize' = IF head >= tail' THEN head - tail' ELSE head - tail' + Size
  BY <1>2, MaskedOnce DEF PipeSize, Slot
<1>4. PipeSize' = PipeSize - k
  BY <1>0, <1>1, <1>3, Unmasked DEF Slot
<1>5. ASSUME NEW i \in 1 .. PipeSize - k
      PROVE  (tail' + i - 1) % Size = (tail + (k + i) - 1) % Size
  <2>1. (tail + (k + i - 1)) % Size
           = IF tail + (k + i - 1) < Size THEN tail + (k + i - 1) ELSE tail + (k + i - 1) - Size
    BY <1>0, Unmasked
  <2>2. (tail' + (i - 1)) % Size
           = IF tail' + (i - 1) < Size THEN tail' + (i - 1) ELSE tail' + (i - 1) - Size
    BY <1>0, <1>2, MaskedOnce DEF Slot
  <2>3. tail' + i - 1 = tail' + (i - 1) /\ tail + (k + i) - 1 = tail + (k + i - 1)
    BY <1>0, <1>2 DEF Slot
  <2> QED
    BY <1>0, <1>1, <2>1, <2>2, <2>3 DEF Slot
<1> QED
  BY <1>4, <1>5

\* A write of k bytes makes the ring k bytes longer and leaves the bytes that
\* are in it alone: the slots it fills are outside tail .. head.
LEMMA WriteKeeps ==
    ASSUME head \in Slot, tail \in Slot, NEW k \in 0 .. Room, NEW data,
           head' = (head + k) % Size, UNCHANGED tail,
           page' = [i \in Slot |->
                      LET j == (i - head) % Size
                      IN IF j < k THEN data[j + 1] ELSE page[i]]
    PROVE  /\ PipeSize' = PipeSize + k
           /\ PipeSize + k \in 0 .. Size - 1
           /\ \A i \in 1 .. PipeSize :
                page'[(tail' + i - 1) % Size] = page[(tail + i - 1) % Size]
<1> USE PipeAssumption
<1>0. PipeSize \in 0 .. Size - 1 /\ k \in 0 .. Size - 1 /\ PipeSize + k \in 0 .. Size - 1
  BY Unmasked DEF Room
<1>1. head' = IF head + k < Size THEN head + k ELSE head + k - Size
  BY <1>0, Unmasked
<1>2. head' \in Slot /\ tail' \in Slot
  BY <1>0, <1>1 DEF Slot
<1>3. PipeSize' = IF head' >= tail THEN head' - tail ELSE head' - tail + Size
  <2>1. PipeSize' = (head' - tail) % Size
    BY DEF PipeSize
  <2> QED
    BY <1>2, <2>1, MaskedDifference
<1>4. PipeSize' = PipeSize + k
  BY <1>0, <1>1, <1>3, Unmasked DEF Slot
<1>5. ASSUME NEW i \in 1 .. PipeSize
      PROVE  page'[(tail' + i - 1) % Size] = page[(tail + i - 1) % Size]
  <2> DEFINE s == (tail + (i - 1)) % Size
  <2>1. s = IF tail + (i - 1) < Size THEN tail + (i - 1) ELSE tail + (i - 1) - Size
    BY <1>0, Unmasked
  <2>2. s \in Slot
    BY <1>0, <2>1 DEF Slot
  <2> HIDE DEF s
  <2>3. (s - head) % Size = IF s >= head THEN s - head ELSE s - head + Size
    BY <2>2, MaskedOnce DEF Slot
  <2>4. ~((s - head) % Size < k)
    BY <1>0, <2>1, <2>2, <2>3, Unmasked DEF Slot
  <2>5. page'[s] = page[s]
    BY <2>2, <2>4
  <2>6. (tail' + i - 1) % Size = s /\ (tail + i - 1) % Size = s
    BY <1>0 DEF s, Slot
  <2> QED
    BY <2>5, <2>6
<1> QED
  BY <1>0, <1>4, <1>5

\* The state of PipeFifo that a pipe stands for.
Bytes == IF rd \union wr = {} THEN <<>> ELSE Content
Ends == (IF rd = {} THEN {} ELSE {"read"}) \union (IF wr = {} THEN {} ELSE {"write"})

\* The content of the ring is a sequence of PIPE_SIZE bytes.
ContentSeq ==
    /\ Content \in Seq(Byte)
    /\ Len(Content) = PipeSize
    /\ \A i \in 1 .. PipeSize : Content[i] = page[(tail + i - 1) % Size]

\* It follows from the types.
LEMMA ContentIsSeq == TypeOK => ContentSeq
<1> SUFFICES ASSUME TypeOK PROVE ContentSeq
  OBVIOUS
<1>1. PipeSize \in 0 .. Size - 1
  BY SizeInRange DEF TypeOK
<1>2. ASSUME NEW i \in 1 .. PipeSize PROVE page[(tail + i - 1) % Size] \in Byte
  <2>1. tail + i - 1 \in Int
    BY <1>1 DEF TypeOK, Slot
  <2>2. (tail + i - 1) % Size \in Slot
    BY <2>1, InSlot
  <2> QED
    BY <2>2 DEF TypeOK
<1>3. Content = [i \in 1 .. PipeSize |-> page[(tail + i - 1) % Size]]
  BY DEF Content
<1> HIDE DEF Content, PipeSize
<1>4. Content \in [1 .. PipeSize -> Byte]
  BY <1>2, <1>3
<1>5. PipeSize \in Nat
  BY <1>1
<1> QED
  BY <1>3, <1>4, <1>5 DEF ContentSeq

\* The same after a step.
LEMMA ContentIsSeqNext == TypeOK' => ContentSeq'
BY ContentIsSeq, PTL

\* A longer sequence that begins alike.
LEMMA PrefixOf ==
    ASSUME NEW S, NEW s \in Seq(S), NEW t \in Seq(S), Len(s) < Len(t),
           \A i \in 1 .. Len(s) : s[i] = t[i]
    PROVE  Fifo!IsStrictPrefix(s, t)
<1>1. Len(s) \in Nat /\ Len(t) \in Nat
  OBVIOUS
<1>2. SubSeq(s, 1, Len(s)) = SubSeq(t, 1, Len(s))
  <2>1. SubSeq(s, 1, Len(s)) = [i \in 1 .. Len(s) |-> s[i]]
    BY <1>1
  <2>2. SubSeq(t, 1, Len(s)) = [i \in 1 .. Len(s) |-> t[i]]
    BY <1>1
  <2> QED
    BY <2>1, <2>2
<1>3. s # t
  BY <1>1
<1> QED
  BY <1>1, <1>2, <1>3 DEF Fifo!IsStrictPrefix, Fifo!IsPrefix

\* A longer sequence that ends alike.
LEMMA SuffixOf ==
    ASSUME NEW S, NEW s \in Seq(S), NEW t \in Seq(S), Len(s) < Len(t),
           \A i \in 1 .. Len(s) : s[i] = t[Len(t) - Len(s) + i]
    PROVE  Fifo!IsStrictSuffix(s, t)
<1> DEFINE rs == Fifo!Reverse(s)
<1> DEFINE rt == Fifo!Reverse(t)
<1>1. Len(s) \in Nat /\ Len(t) \in Nat
  OBVIOUS
<1>2. rs \in Seq(S) /\ Len(rs) = Len(s) /\ \A i \in 1 .. Len(s) : rs[i] = s[(Len(s) - i) + 1]
  <2>1. rs \in [1 .. Len(s) -> S]
    BY <1>1 DEF Fifo!Reverse
  <2> QED
    BY <1>1, <2>1 DEF Fifo!Reverse
<1>3. rt \in Seq(S) /\ Len(rt) = Len(t) /\ \A i \in 1 .. Len(t) : rt[i] = t[(Len(t) - i) + 1]
  <2>1. rt \in [1 .. Len(t) -> S]
    BY <1>1 DEF Fifo!Reverse
  <2> QED
    BY <1>1, <2>1 DEF Fifo!Reverse
<1>4. ASSUME NEW i \in 1 .. Len(s) PROVE rs[i] = rt[i]
  <2>1. (Len(s) - i) + 1 \in 1 .. Len(s) /\ Len(t) - Len(s) + ((Len(s) - i) + 1) = (Len(t) - i) + 1
    BY <1>1
  <2>2. rs[i] = t[(Len(t) - i) + 1]
    BY <1>2, <2>1
  <2>3. i \in 1 .. Len(t)
    BY <1>1
  <2> QED
    BY <1>3, <2>2, <2>3
<1> HIDE DEF rs, rt
<1>5. Fifo!IsStrictPrefix(rs, rt)
  BY <1>1, <1>2, <1>3, <1>4, PrefixOf
<1>6. s # t
  BY <1>1
<1> QED
  BY <1>5, <1>6 DEF rs, rt, Fifo!IsStrictSuffix, Fifo!IsSuffix, Fifo!IsStrictPrefix

\* Nothing open and nothing in the ring.
LEMMA InitFifo == Init => Fifo!Init
BY DEF Init, Fifo!Init

\* A read that finds bytes takes some from the front, one that does not leaves
\* the sequence alone.
LEMMA ReadPipeFifo ==
    ASSUME IInv, NEW p \in Proc, NEW n \in 1 .. MaxCount, p \in rd,
           ReadPipe(p, n), UNCHANGED <<head, page, endVars>>
    PROVE  [Fifo!Next]_(Fifo!vars)
<1> USE PipeAssumption
<1>e. UNCHANGED <<head, page, rd, wr>>
  BY DEF endVars
<1>t. TypeOK /\ TypeOK'
  BY ReadPipeIInv DEF IInv
<1>1. CASE tail' = tail
  <2>1. Bytes' = Bytes /\ Ends' = Ends
    BY <1>1, <1>e DEF Bytes, Ends, Content, PipeSize
  <2> QED
    BY <2>1 DEF Fifo!vars, Bytes, Ends
<1>2. CASE ~PipeEmpty /\ tail' = Advance(tail, Least(n, PipeSize))
  <2> DEFINE k == Least(n, PipeSize)
  <2>1. head \in Slot /\ tail \in Slot /\ PipeSize \in 0 .. Size - 1
    BY <1>t, SizeInRange DEF TypeOK
  <2>2. PipeSize # 0
    BY <1>2, <2>1, Unmasked DEF PipeEmpty, Slot
  <2>3. k \in 1 .. PipeSize
    BY <2>1, <2>2 DEF Least
  <2>4. tail' = (tail + k) % Size
    BY <1>2 DEF Advance
  <2> HIDE DEF k
  <2>5. /\ PipeSize' = PipeSize - k
        /\ \A i \in 1 .. PipeSize - k :
             page'[(tail' + i - 1) % Size] = page[(tail + (k + i) - 1) % Size]
    BY <2>1, <2>3, <2>4, <1>e, ReadShifts
  <2>6. /\ Content \in Seq(Byte) /\ Len(Content) = PipeSize
        /\ \A i \in 1 .. PipeSize : Content[i] = page[(tail + i - 1) % Size]
    BY <1>t, ContentIsSeq DEF ContentSeq
  <2>7. /\ Content' \in Seq(Byte) /\ Len(Content') = PipeSize'
        /\ \A i \in 1 .. PipeSize' : Content'[i] = page'[(tail' + i - 1) % Size]
    BY <1>t, ContentIsSeqNext DEF ContentSeq
  <2>8. ASSUME NEW i \in 1 .. PipeSize - k
        PROVE  Content'[i] = Content[Len(Content) - Len(Content') + i]
    <3>1. k + i \in 1 .. PipeSize /\ Len(Content) - Len(Content') + i = k + i
      BY <2>1, <2>3, <2>5, <2>6, <2>7
    <3> QED
      BY <3>1, <2>5, <2>6, <2>7
  <2>9. Fifo!IsStrictSuffix(Content', Content)
    <3>1. Len(Content') < Len(Content) /\ Len(Content') = PipeSize - k
      BY <2>1, <2>3, <2>5, <2>6, <2>7
    <3>2. \A i \in 1 .. Len(Content') : Content'[i] = Content[Len(Content) - Len(Content') + i]
      BY <2>8, <3>1
    <3> QED
      BY <2>6, <2>7, <3>1, <3>2, SuffixOf, Zenon
  <2>10. Bytes = Content /\ Bytes' = Content' /\ Ends' = Ends /\ "read" \in Ends
    BY <1>e DEF Bytes, Ends
  <2>11. Fifo!Take
    BY <2>9, <2>10 DEF Fifo!Take, Bytes, Ends
  <2> QED
    BY <2>11 DEF Fifo!Next
<1> QED
  BY <1>1, <1>2 DEF ReadPipe

\* A write appends what fits, which may be nothing.
LEMMA WritePipeFifo ==
    ASSUME IInv, NEW p \in Proc, NEW data \in Seq(Byte), p \in wr,
           WritePipe(p, data), UNCHANGED <<tail, endVars>>
    PROVE  [Fifo!Next]_(Fifo!vars)
<1> USE PipeAssumption
<1> DEFINE k == Least(Len(data), Room)
<1>e. UNCHANGED <<tail, rd, wr>>
  BY DEF endVars
<1>t. TypeOK /\ TypeOK'
  BY WritePipeIInv DEF IInv
<1>1. k \in 0 .. Room /\ Room \in 0 .. Size - 1
  BY <1>t, RoomInRange DEF TypeOK, Least
<1>2. head \in Slot /\ tail \in Slot /\ page \in [Slot -> Byte]
  BY <1>t DEF TypeOK
<1>3. /\ head' = (head + k) % Size
      /\ page' = [i \in Slot |->
                    LET j == (i - head) % Size
                    IN IF j < k THEN data[j + 1] ELSE page[i]]
  BY DEF WritePipe, Advance
<1>4. Bytes = Content /\ Bytes' = Content' /\ Ends' = Ends /\ "write" \in Ends
  BY <1>e DEF Bytes, Ends
<1> HIDE DEF k
<1>5. /\ PipeSize' = PipeSize + k
      /\ PipeSize + k \in 0 .. Size - 1
      /\ \A i \in 1 .. PipeSize :
           page'[(tail' + i - 1) % Size] = page[(tail + i - 1) % Size]
  BY <1>1, <1>2, <1>3, <1>e, WriteKeeps
<1>6. /\ Content \in Seq(Byte) /\ Len(Content) = PipeSize
      /\ \A i \in 1 .. PipeSize : Content[i] = page[(tail + i - 1) % Size]
  BY <1>t, ContentIsSeq DEF ContentSeq
<1>7. /\ Content' \in Seq(Byte) /\ Len(Content') = PipeSize'
      /\ \A i \in 1 .. PipeSize' : Content'[i] = page'[(tail' + i - 1) % Size]
  BY <1>t, ContentIsSeqNext DEF ContentSeq
<1>8. PipeSize \in 0 .. Size - 1
  BY <1>2, SizeInRange
<1>9. \A i \in 1 .. PipeSize : Content'[i] = Content[i]
  <2> SUFFICES ASSUME NEW i \in 1 .. PipeSize PROVE Content'[i] = Content[i]
    OBVIOUS
  <2>1. i \in 1 .. PipeSize'
    BY <1>1, <1>5, <1>8
  <2> QED
    BY <2>1, <1>5, <1>6, <1>7
<1>10. CASE k = 0
  <2>1. Len(Content') = Len(Content) /\ Len(Content) = PipeSize
    BY <1>10, <1>5, <1>6, <1>7, <1>8
  <2>2. Content' = Content
    BY <2>1, <1>6, <1>7, <1>9
  <2> QED
    BY <2>2, <1>4 DEF Fifo!vars, Bytes, Ends
<1>11. CASE k # 0
  <2>1. Len(Content) < Len(Content') /\ Len(Content') <= Size - 1
    BY <1>11, <1>1, <1>5, <1>6, <1>7, <1>8
  <2>2. \A i \in 1 .. Len(Content) : Content[i] = Content'[i]
    BY <1>6, <1>9
  <2>3. Fifo!IsStrictPrefix(Content, Content')
    BY <2>1, <2>2, <1>6, <1>7, PrefixOf, Zenon
  <2>4. Fifo!AppendBytes
    BY <2>1, <2>3, <1>4 DEF Fifo!AppendBytes, Bytes, Ends
  <2> QED
    BY <2>4 DEF Fifo!Next
<1> QED
  BY <1>10, <1>11

\* sys_read and sys_write, at the start of a call and after a sleep.
LEMMA CallsFifo ==
    ASSUME IInv, NEW p \in Proc,
           \/ \E n \in 1 .. MaxCount : Read(p, n)
           \/ ReadAgain(p)
           \/ \E data \in Data : Write(p, data)
           \/ WriteAgain(p)
    PROVE  [Fifo!Next]_(Fifo!vars)
<1>1. CASE \E n \in 1 .. MaxCount : Read(p, n)
  BY <1>1, ReadPipeFifo DEF Read
<1>2. CASE ReadAgain(p)
  <2>1. want[p] \in 1 .. MaxCount /\ p \in rd
    BY <1>2, PipeAssumption DEF ReadAgain, IInv, TypeOK, CallsHold
  <2> QED
    BY <1>2, <2>1, ReadPipeFifo DEF ReadAgain
<1>3. ASSUME NEW data \in Data, Write(p, data)
      PROVE  [Fifo!Next]_(Fifo!vars)
  <2>1. data \in Seq(Byte)
    BY PipeAssumption DEF Data
  <2>2. CASE UNCHANGED <<head, page>>
    <3>1. UNCHANGED <<head, page, tail, rd, wr>>
      BY <1>3, <2>2 DEF Write, endVars
    <3>2. Bytes' = Bytes /\ Ends' = Ends
      BY <3>1 DEF Bytes, Ends, Content, PipeSize
    <3> QED
      BY <3>2 DEF Fifo!vars, Bytes, Ends
  <2>3. CASE WritePipe(p, data)
    BY <1>3, <2>1, <2>3, WritePipeFifo DEF Write
  <2> QED
    BY <1>3, <2>2, <2>3 DEF Write
<1>4. CASE WriteAgain(p)
  <2>1. left[p] \in Seq(Byte) /\ p \in wr
    BY <1>4 DEF WriteAgain, IInv, TypeOK, CallsHold
  <2> QED
    BY <1>4, <2>1, WritePipeFifo DEF WriteAgain
<1> QED
  BY <1>1, <1>2, <1>3, <1>4

\* The last close of an end takes the end away, any other is a step of nothing.
LEMMA CloseFifo ==
    ASSUME IInv, NEW p \in Proc, CloseRead(p) \/ CloseWrite(p)
    PROVE  [Fifo!Next]_(Fifo!vars)
<1>1. UNCHANGED <<head, tail, page>>
  BY DEF CloseRead, CloseWrite, ringVars
<1>2. Content' = Content
  BY <1>1 DEF Content, PipeSize
<1>3. /\ \/ p \in rd /\ rd' = rd \ {p} /\ wr' = wr
         \/ p \in wr /\ wr' = wr \ {p} /\ rd' = rd
  BY DEF CloseRead, CloseWrite
<1>4. CASE Ends' = Ends
  <2>1. Bytes' = Bytes
    BY <1>2, <1>3, <1>4 DEF Bytes, Ends
  <2> QED
    BY <1>4, <2>1 DEF Fifo!vars, Bytes, Ends
<1>5. CASE Ends' # Ends
  <2>1. \E e \in Ends : Ends' = Ends \ {e}
    BY <1>3, <1>5 DEF Ends
  <2>2. Bytes' = IF Ends' = {} THEN <<>> ELSE Bytes
    BY <1>2, <1>3 DEF Bytes, Ends
  <2>3. Fifo!Close
    BY <2>1, <2>2 DEF Fifo!Close, Bytes, Ends
  <2> QED
    BY <2>3 DEF Fifo!Next
<1> QED
  BY <1>4, <1>5

\* sys_pipe opens an empty pipe.
LEMMA SysPipeFifo ==
    ASSUME IInv, NEW p \in Proc, SysPipe(p)
    PROVE  [Fifo!Next]_(Fifo!vars)
<1>1. rd = {} /\ wr = {}
  BY DEF IInv, CountIsEnds, SysPipe
<1>2. Ends = {} /\ Ends' = {"read", "write"}
  BY <1>1 DEF Ends, SysPipe
<1>3. TypeOK' /\ PipeSize' = 0
  <2>1. head' = 0 /\ tail' = 0
    BY DEF SysPipe
  <2>2. 0 % Size = 0
    BY PipeAssumption
  <2> QED
    BY <2>1, <2>2, SysPipeIInv DEF IInv, PipeSize
<1>4. Content' = <<>>
  BY <1>3, ContentIsSeqNext DEF ContentSeq
<1>5. Bytes' = <<>>
  BY <1>4 DEF Bytes
<1>6. Fifo!Open
  BY <1>2, <1>5 DEF Fifo!Open, Bytes, Ends
<1> QED
  BY <1>6 DEF Fifo!Next

\* A sys_pipe that fails changes nothing in the pipe.
LEMMA SysPipeFailsFifo ==
    ASSUME NEW p \in Proc, SysPipeFails(p)
    PROVE  UNCHANGED Fifo!vars
<1>1. Content' = Content /\ rd' = rd /\ wr' = wr
  BY DEF SysPipeFails, ringVars, endVars, Content, PipeSize
<1> QED
  BY <1>1 DEF Fifo!vars

\* fork opens no end and closes none.
LEMMA ForkFifo ==
    ASSUME IInv, NEW p \in Proc, NEW c \in Proc, Fork(p, c)
    PROVE  UNCHANGED Fifo!vars
<1>1. Content' = Content
  BY DEF Fork, ringVars, Content, PipeSize
<1>2. Bytes' = Bytes /\ Ends' = Ends
  BY <1>1 DEF Fork, Bytes, Ends
<1> QED
  BY <1>2 DEF Fifo!vars, Bytes, Ends

\* A step of nothing is one of PipeFifo.
LEMMA StutterFifo == UNCHANGED vars => UNCHANGED Fifo!vars
<1> SUFFICES ASSUME UNCHANGED vars PROVE UNCHANGED Fifo!vars
  OBVIOUS
<1>1. Content' = Content /\ rd' = rd /\ wr' = wr
  BY DEF vars, ringVars, endVars, Content, PipeSize
<1> QED
  BY <1>1 DEF Fifo!vars

\* For every page size the ring with its masked indices is a first-in first-out
\* sequence of at most Size - 1 bytes: no byte is overwritten before it is read,
\* none is read twice or out of order, wherever head and tail wrap.
THEOREM RingImplementsFifo == Spec => ImplementsFifo
<1>1. Init => Fifo!Init
  BY InitFifo
<1>2. IInv /\ [Next]_vars => [Fifo!Next]_(Fifo!vars)
  BY CallsFifo, CloseFifo, SysPipeFifo, SysPipeFailsFifo, ForkFifo, StutterFifo DEF Next
<1> QED
  BY <1>1, <1>2, Invariance, PTL DEF Spec, ImplementsFifo, Fifo!Spec
=============================================================================
