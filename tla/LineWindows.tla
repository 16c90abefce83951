---------------------------- MODULE LineWindows ----------------------------
(***************************************************************************)
(* How `chunk.py` cuts a stretch of lines into windows: side by side when  *)
(* a declaration is too large for one chunk, overlapping when a file has   *)
(* no parser.  It is a module of its own because nothing in it recurs, so  *)
(* that what it promises can be proved for every size.                     *)
(***************************************************************************)
EXTENDS Integers

\* The n-th window reaches the last line: the loop stops, or what follows has no new line.
Reaches(first, last, size, step, n) == first + (n - 1) * step + size > last

\* Windows of `size` lines from every `step`-th line of first..last, up to the first that
\* reaches the end.
Windows(first, last, size, step) ==
    LET count == CHOOSE n \in 1..(last - first + 1) :
                    /\ Reaches(first, last, size, step, n)
                    /\ \A m \in 1..(n - 1) : ~Reaches(first, last, size, step, m)
        end(n) == IF Reaches(first, last, size, step, n) THEN last
                  ELSE first + (n - 1) * step + size - 1
    IN  [n \in 1..count |-> [first |-> first + (n - 1) * step, last |-> end(n)]]
=============================================================================
