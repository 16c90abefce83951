---------------------------- MODULE TimelineFeed ----------------------------
(***************************************************************************)
(* What the pages that show a run rely on: its timeline has a length,      *)
(* which only grows, and it has an end once one of its events has ended    *)
(* the run.  EventLog implements this, and EventStream is built on it.     *)
(***************************************************************************)
EXTENDS Naturals

VARIABLES
    last,   \* the last committed event
    end     \* the event that ended the run, 0 while it is not over

vars == <<last, end>>

\* The event create_run has committed with the run.
Init == last = 1 /\ end = 0

\* Where the run may have ended once it has n events: one that is over stays as it is, and
\* another one may have been ended by any of the new events.
Ends(n) == {end} \cup {final \in last + 1 .. n : end = 0}

\* One or more events are committed together.
Grow == last < last' /\ end' \in Ends(last')

Spec == Init /\ [][Grow]_vars

\* The run's row says that it is over, when it has n events.
Over(n) == end > 0 /\ end <= n
=============================================================================
