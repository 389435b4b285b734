------------------------------ MODULE MCNamei ------------------------------
(* Pathnames of one and two components, some that end in a slash, and symmetry, for TLC. *)
EXTENDS Namei, TLC
MCPath ==
    {<<x>> : x \in Name \union {"dot"}} \union {<<x, y>> \in Name \X (Name \union {"dotdot", Empty}) : x # y}
MCNewPath == {<<x>> : x \in Name}
Symmetry == Permutations(Proc) \union Permutations(Name)
=============================================================================
