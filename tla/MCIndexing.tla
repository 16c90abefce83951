----------------------------- MODULE MCIndexing -----------------------------
(* Indexing for TLC: two commits, which keep a file, change one, and replace *)
(* one that has no chunk by one that cannot be read; a fourth is not there   *)
(* any more in the second.                                                   *)
EXTENDS Indexing, TLC

CONSTANTS f1, f2, f3, f4, v1, v2, blank, binary

TwoCommits == << f1 :> v1 @@ f2 :> v1 @@ f3 :> blank @@ f4 :> v2,
                 f1 :> v1 @@ f2 :> v2 @@ f3 :> binary @@ f4 :> None >>

=============================================================================
