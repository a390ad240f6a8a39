---------------------------- MODULE MCJobDispatch ----------------------------
(* Small instances of JobDispatch for TLC. *)
EXTENDS JobDispatch

CONSTANTS s1, b1

\* One host over SSH, one with a beacon.
Two == {s1, b1}
OneBeacon == {b1}
Requests == {[kind |-> "updates", targets |-> {b1}],
             [kind |-> "updates", targets |-> {s1, b1}],
             [kind |-> "command", targets |-> {s1}]}
=============================================================================
