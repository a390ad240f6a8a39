------------------------------ MODULE MCRegistry ------------------------------
(* Registry for TLC: handlers are interchangeable, and so are the names of    *)
(* environments other than the Library.                                       *)
EXTENDS Registry, TLC

Symmetry == Permutations(Handler) \cup Permutations(EnvName \ {Library})
=============================================================================
