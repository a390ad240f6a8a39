-------------------------- MODULE MCContentPromotion --------------------------
(* Small instances of ContentPromotion for TLC. *)
EXTENDS ContentPromotion, TLC

\* Handlers are interchangeable, so are environments.
Symmetry == Permutations(Proc) \cup Permutations(Env)
=============================================================================
