---------------------------- MODULE MCPublishing ----------------------------
(* Publishing for TLC: interchangeable workers. *)
EXTENDS Publishing, TLC

PublishingSymmetry == Permutations(Workers)
=============================================================================
