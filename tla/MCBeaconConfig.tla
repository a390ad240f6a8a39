---------------------------- MODULE MCBeaconConfig ----------------------------
(* Small instances of BeaconConfig for TLC. *)
EXTENDS BeaconConfig, TLC

Symmetry == Permutations(Editor) \cup Permutations(View)
=============================================================================
