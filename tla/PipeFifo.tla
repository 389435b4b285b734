------------------------------ MODULE PipeFifo ------------------------------
(***************************************************************************)
(* What a pipe promises: a bounded first-in first-out sequence of bytes    *)
(* with two ends.  Bytes are appended only while both ends are open or to  *)
(* finish a write that began while they were; a read takes a prefix.       *)
(***************************************************************************)
EXTENDS Integers, SequencesExt

CONSTANT Capacity

VARIABLES fifo,      \* the bytes written and not yet read
          ends       \* the open ends, a subset of {"read", "write"}

vars == <<fifo, ends>>

Init == fifo = <<>> /\ ends = {}

Open ==
    /\ ends = {}
    /\ ends' = {"read", "write"}
    /\ fifo' = <<>>

\* Some bytes are appended, never beyond the capacity.
AppendBytes ==
    /\ "write" \in ends
    /\ IsStrictPrefix(fifo, fifo')
    /\ Len(fifo') <= Capacity
    /\ UNCHANGED ends

\* Some bytes are taken from the front.
Take ==
    /\ "read" \in ends
    /\ IsStrictSuffix(fifo', fifo)
    /\ UNCHANGED ends

\* An end is closed; what nobody can read any more is lost.
Close ==
    /\ \E e \in ends : ends' = ends \ {e}
    /\ fifo' = IF ends' = {} THEN <<>> ELSE fifo

Next == Open \/ AppendBytes \/ Take \/ Close

Spec == Init /\ [][Next]_vars
=============================================================================
