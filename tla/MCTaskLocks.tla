----------------------------- MODULE MCTaskLocks -----------------------------
(* Small instances of TaskLocks for TLC. *)
EXTENDS TaskLocks, TLC

\* Server keys 1, 2 and 3, as the multi skeleton takes them, one or several.
ServerRequests == {{1}, {1, 2}, {2, 3}}
=============================================================================
