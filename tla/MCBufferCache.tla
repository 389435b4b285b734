--------------------------- MODULE MCBufferCache ---------------------------
(* BufferCache with interchangeable processes and interchangeable blocks.   *)
EXTENDS BufferCache, TLC

CacheSymmetry == Permutations(Proc) \union Permutations(Block)
=============================================================================
