------------------------------- MODULE MCRelays -------------------------------
(* Relays for TLC: one site, and runs that overlap on its relay.               *)
EXTENDS Relays

CONSTANTS s1, r1, r2

One == {s1}
Overlapping == {r1, r2}
=============================================================================
