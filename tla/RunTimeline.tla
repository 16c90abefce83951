----------------------------- MODULE RunTimeline -----------------------------
(***************************************************************************)
(* What the event service promises about one run, with no sessions, locks  *)
(* or caches in sight: the run has a state and a timeline, and both grow   *)
(* together, in one step, along the edges of the transition table.         *)
(***************************************************************************)
EXTENDS Naturals, RunStates

VARIABLES
    state,      \* the run's state
    timeline    \* the run's events: a sequence of [kind, state] records

vars == <<state, timeline>>

EventKind == {"state_changed", "info"}
Event == [kind : EventKind, state : RunState]

\* An event may follow another one if it reports a legal transition out of
\* the state the earlier one left the run in, or leaves that state alone.
MayFollow(earlier, later) ==
    \/ /\ later.kind = "state_changed"
       /\ CanTransition(earlier.state, later.state)
    \/ /\ later.kind = "info"
       /\ later.state = earlier.state

Created == [kind |-> "info", state |-> "CREATED"]

Init ==
    /\ state = "CREATED"
    /\ timeline = [n \in {1} |-> Created]

\* One or more events are added at the end, each legal after the one before
\* it, and the run ends up in the state the last of them reports.
Extend ==
    \E last \in DOMAIN timeline' :
        /\ DOMAIN timeline' = 1 .. last
        /\ last \notin DOMAIN timeline
        /\ \A n \in DOMAIN timeline :
              n \in DOMAIN timeline' /\ timeline'[n] = timeline[n]
        /\ \A n \in DOMAIN timeline' \ DOMAIN timeline :
              MayFollow(timeline'[n - 1], timeline'[n])
        /\ state' = timeline'[last].state

Spec == Init /\ [][Extend]_vars
==============================================================================
