------------------------------- MODULE Follower -------------------------------
(***************************************************************************)
(* What the beacon channel promises about one host, whatever the serials    *)
(* say: the host follows the configurations it is asked to have.  It only   *)
(* ever has one that was asked for, it never goes back to an older one, and *)
(* once nobody asks for another it gets to the last one and stays there.    *)
(***************************************************************************)
EXTENDS Naturals, Sequences

VARIABLES
  asked,   \* the configurations asked for so far, oldest first
  at       \* the one the host has: an index of asked, 0 for none

Init == Len(asked) = 1 /\ at = 0

\* Another configuration is asked for.
Ask ==
  /\ Len(asked') = Len(asked) + 1
  /\ \A i \in DOMAIN asked : asked'[i] = asked[i]
  /\ UNCHANGED at

\* The host takes one up that is not older than what it has.
Follow ==
  /\ at' \in at..Len(asked)
  /\ UNCHANGED asked

Next == Ask \/ Follow

Spec == Init /\ [][Next]_<<asked, at>>

CatchesUp == <>[](at = Len(asked))
=============================================================================
