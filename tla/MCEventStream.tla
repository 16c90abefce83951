---------------------------- MODULE MCEventStream ----------------------------
(* EventStream for TLC.  No symmetry: the run checks a liveness property.    *)
(* One run has a timeline long enough for its history to be cut, the other   *)
(* is there to be looked at before or after.                                 *)
EXTENDS EventStream, TLC

CONSTANTS r1, r2

LongAndShort == r1 :> 3 @@ r2 :> 2
=============================================================================
