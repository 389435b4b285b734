------------------------------ MODULE MCZones ------------------------------
(* The processes and the files of Zones are alike: symmetry for TLC. *)
EXTENDS Zones, TLC
Symmetry == Permutations(Proc) \union Permutations(File)
=============================================================================
