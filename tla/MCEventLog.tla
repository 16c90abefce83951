----------------------------- MODULE MCEventLog -----------------------------
(* EventLog for TLC: three competing sessions, interchangeable. *)
EXTENDS EventLog, TLC

SessionSymmetry == Permutations(Sessions)
=============================================================================
