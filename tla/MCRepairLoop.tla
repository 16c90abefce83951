---------------------------- MODULE MCRepairLoop ----------------------------
(* RepairLoop for TLC. *)
EXTENDS RepairLoop
=============================================================================
