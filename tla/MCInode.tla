------------------------------ MODULE MCInode ------------------------------
(* The processes and the names of Inode are alike: symmetry for TLC. *)
EXTENDS Inode, TLC
Symmetry == Permutations(Proc) \union Permutations(Name)
=============================================================================
