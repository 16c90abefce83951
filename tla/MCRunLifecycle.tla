--------------------------- MODULE MCRunLifecycle ---------------------------
(* RunLifecycle for TLC: interchangeable workers and files. *)
EXTENDS RunLifecycle, TLC

LifecycleSymmetry == Permutations(Workers) \cup Permutations(Files)
=============================================================================
