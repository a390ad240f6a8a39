------------------------------- MODULE MCMirrors -------------------------------
(* Small instances of Mirrors for TLC. *)
EXTENDS Mirrors, TLC

Symmetry == Permutations(Handler) \cup Permutations(Job) \cup Permutations(Settings)
=============================================================================
