----------------------------- MODULE MCChangeSet -----------------------------
(* ChangeSet for TLC: a tracked file with CRLF, one without, and new ones in *)
(* a directory git knows and in one it does not.                             *)
EXTENDS ChangeSet, TLC

CONSTANTS tracked, windows, new, hidden, t1, t2

Clone == tracked :> [text |-> t1, crlf |-> FALSE] @@ windows :> [text |-> t1, crlf |-> TRUE]
         @@ new :> None @@ hidden :> None
=============================================================================
