------------------------------ MODULE MCSessions ------------------------------
(* Sessions for TLC: runs are interchangeable.                                 *)
EXTENDS Sessions, TLC

Symmetry == Permutations(Run)
=============================================================================
