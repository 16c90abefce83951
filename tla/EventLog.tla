------------------------------ MODULE EventLog ------------------------------
(***************************************************************************)
(* How the event service (`services/event_service.py`) keeps one run's     *)
(* state and its timeline, at the grain of database transactions.          *)
(*                                                                         *)
(* Every worker execution and every HTTP request owns one SQLAlchemy       *)
(* session.  A session reads the run once, with a plain SELECT, and from   *)
(* then on works on that object: `SELECT ... FOR UPDATE` takes the row     *)
(* lock but does not overwrite the attributes of an object the session     *)
(* already holds, and sessions are made with expire_on_commit=False, so a  *)
(* commit does not forget it either.  A session may therefore hold the row *)
(* lock and still decide on what the run looked like some transactions     *)
(* ago.                                                                    *)
(*                                                                         *)
(* A step of this module is what happens between two points at which       *)
(* another session can interfere: a plain read, one transition or          *)
(* append_event (lock, check, flush), a commit, and the end of a session   *)
(* for whatever reason (rollback, exception, crash of the process).        *)
(***************************************************************************)
EXTENDS Naturals, RunStates

CONSTANTS
    Sessions,      \* database sessions of the API and of the workers
    NoSession,     \* nobody holds the row lock
    NoRow,         \* the session has not read the run
    MaxSequence    \* bound on event sequences, to keep TLC's runs finite

ASSUME SessionsAssumption == NoSession \notin Sessions
ASSUME RowAssumption == NoRow \notin [state : RunState, seq : Nat]
ASSUME BoundAssumption == MaxSequence \in Nat

VARIABLES
    row,        \* committed agent_run row: state and last_event_sequence
    events,     \* committed agent_event rows of the run, by sequence
    holder,     \* session holding the row lock
    phase,      \* per session: no transaction, in use, or broken by a flush
    cached,     \* per session: the run object in its identity map
    pending     \* per session: flushed, uncommitted events, by sequence

vars == <<row, events, holder, phase, cached, pending>>

Timeline == INSTANCE RunTimeline WITH state <- row.state, timeline <- events

Event == Timeline!Event
NoEvents == [n \in {} |-> Timeline!Created]

\* f overridden by g, as rows g are added to a table f.
Merge(f, g) ==
    [n \in DOMAIN f \cup DOMAIN g |-> IF n \in DOMAIN g THEN g[n] ELSE f[n]]

-----------------------------------------------------------------------------
\* create_run has committed the run together with its first event.
Init ==
    /\ row = [state |-> "CREATED", seq |-> 1]
    /\ events = [n \in {1} |-> Timeline!Created]
    /\ holder = NoSession
    /\ phase = [s \in Sessions |-> "idle"]
    /\ cached = [s \in Sessions |-> NoRow]
    /\ pending = [s \in Sessions |-> NoEvents]

\* get_run and the worker's _load_run: a plain SELECT of the committed row.
LoadRun(s) ==
    /\ phase[s] = "idle"
    /\ phase' = [phase EXCEPT ![s] = "open"]
    /\ cached' = [cached EXCEPT ![s] = row]
    /\ UNCHANGED <<row, events, holder, pending>>

\* SELECT ... FOR UPDATE waits until no other transaction holds the row.
CanLockRun(s) == holder \in {s, NoSession}

\* Mutant of SequenceIsFree: the constraint does not exist.
SequenceUnconstrained(s, n) == TRUE

\* The unique constraint on (run_id, sequence) of agent_event.
SequenceIsFree(s, n) == n \notin DOMAIN events

\* The flush of _append_event_for violates the unique constraint: SQLAlchemy
\* rolls the transaction back, which releases the lock and expires the run
\* object, and the session is of no use until it is closed.
FlushFails(s) ==
    /\ holder' = NoSession
    /\ phase' = [phase EXCEPT ![s] = "broken"]
    /\ cached' = [cached EXCEPT ![s] = NoRow]
    /\ pending' = [pending EXCEPT ![s] = NoEvents]
    /\ UNCHANGED <<row, events>>

\* Mutant of NewEvent: the event is built before run.state is assigned.
NewEventOfOldState(s, kind, target) ==
    [kind |-> kind, state |-> cached[s].state]

\* The event row: its state is the run's after the change it reports.
NewEvent(s, kind, target) == [kind |-> kind, state |-> target]

\* The next sequence comes from the session's own copy of the run.
AppendEventFor(s, kind, target) ==
    LET n == cached[s].seq + 1
    IN  /\ n <= MaxSequence
        /\ \/ /\ SequenceIsFree(s, n)
              /\ cached' = [cached EXCEPT ![s] = [state |-> target, seq |-> n]]
              /\ pending' = [pending EXCEPT ![s] =
                                Merge(@, [m \in {n} |-> NewEvent(s, kind, target)])]
              /\ holder' = s
              /\ UNCHANGED <<row, events, phase>>
           \/ /\ ~SequenceIsFree(s, n)
              /\ FlushFails(s)

\* append_event: any kind but state_changed; the event repeats run.state.
AppendEvent(s) ==
    /\ phase[s] = "open"
    /\ CanLockRun(s)
    /\ AppendEventFor(s, "info", cached[s].state)

\* transition to a target the table allows from the state the session saw.
Transition(s, target) ==
    /\ phase[s] = "open"
    /\ CanLockRun(s)
    /\ CanTransition(cached[s].state, target)
    /\ AppendEventFor(s, "state_changed", target)

\* IllegalTransitionError: raised after the lock, before anything is changed.
RefuseTransition(s, target) ==
    /\ phase[s] = "open"
    /\ CanLockRun(s)
    /\ ~CanTransition(cached[s].state, target)
    /\ holder' = s
    /\ UNCHANGED <<row, events, phase, cached, pending>>

\* session.commit(): the changed attributes and the new events become visible
\* together, the lock goes, the run object stays as it is.
Commit(s) ==
    /\ phase[s] = "open"
    /\ holder = s
    /\ row' = IF DOMAIN pending[s] = {} THEN row ELSE cached[s]
    /\ events' = Merge(events, pending[s])
    /\ pending' = [pending EXCEPT ![s] = NoEvents]
    /\ holder' = NoSession
    /\ UNCHANGED <<phase, cached>>

\* The end of a session: normal, by an exception, or with its process.
\* Whatever it had not committed is rolled back.
CloseSession(s) ==
    /\ phase[s] # "idle"
    /\ phase' = [phase EXCEPT ![s] = "idle"]
    /\ cached' = [cached EXCEPT ![s] = NoRow]
    /\ pending' = [pending EXCEPT ![s] = NoEvents]
    /\ holder' = IF holder = s THEN NoSession ELSE holder
    /\ UNCHANGED <<row, events>>

Next ==
    \E s \in Sessions :
        \/ LoadRun(s)
        \/ AppendEvent(s)
        \/ \E target \in RunState : Transition(s, target)
        \/ \E target \in RunState : RefuseTransition(s, target)
        \/ Commit(s)
        \/ CloseSession(s)

Spec == Init /\ [][Next]_vars
-----------------------------------------------------------------------------
RunRow == [state : RunState, seq : Nat]

\* The committed row and every session's copy of it are rows, the events are
\* events, and only a session can hold the lock.
TypeOK ==
    /\ row \in RunRow
    /\ events \in [1 .. row.seq -> Event]
    /\ holder \in Sessions \cup {NoSession}
    /\ phase \in [Sessions -> {"idle", "open", "broken"}]
    /\ cached \in [Sessions -> RunRow \cup {NoRow}]
    /\ pending = [s \in Sessions |-> pending[s]]
    /\ \A s \in Sessions :
          /\ DOMAIN pending[s] \subseteq Nat
          /\ pending[s] \in [DOMAIN pending[s] -> Event]

\* Sequences are gap-free: the committed events are numbered 1, 2, ... up to
\* agent_run.last_event_sequence, however many sessions compete to append and
\* however stale the copies they number from (event_service.py:8).
GapFree == DOMAIN events = 1 .. row.seq

\* The timeline never disagrees with the run: the last committed event reports
\* the state the run row has (event_service.py:5).
TimelineAgrees == row.seq \in DOMAIN events /\ events[row.seq].state = row.state

\* Every committed event was legal after the one committed before it, although
\* assert_transition looked at the session's copy of the run and not at the
\* row: a transition decided on a stale copy never gets committed.
LegalHistory ==
    \A n \in DOMAIN events : n # 1 => Timeline!MayFollow(events[n - 1], events[n])

\* Committed events are neither renumbered, replaced nor removed.
AppendOnly ==
    [][\A n \in DOMAIN events : n \in DOMAIN events' /\ events'[n] = events[n]]_vars

\* A terminal run keeps its state, whichever session still works on a copy of
\* the run from before it ended (states.py:53).
TerminalIsFinal == [][IsTerminal(row.state) => row'.state = row.state]_vars

\* The first event of a transaction is flushed exactly when the session's copy is the row
\* that is committed: every session that decided on an older one is broken, none that is up
\* to date is.  (RunLifecycle and Publishing keep a run by this rule alone.)
StaleIsRefused ==
    [][\A s \in Sessions :
          /\ DOMAIN pending[s] = {} /\ DOMAIN pending'[s] # {} => cached[s] = row
          /\ phase[s] = "open" /\ phase'[s] = "broken" => cached[s] # row]_vars

\* The transactions implement the atomic timeline.
RefinesTimeline == Timeline!Spec

\* The first event of a log that leaves the run in a terminal state, 0 if there is none.
EndOf(log) ==
    LET ended == {n \in DOMAIN log : IsTerminal(log[n].state)}
    IN  IF ended = {} THEN 0 ELSE CHOOSE n \in ended : \A m \in ended : n <= m

Feed == INSTANCE TimelineFeed WITH last <- row.seq, end <- EndOf(events)

\* What the pages are told of the run only grows and ends once: a history or a stream that
\* was read up to some event goes on after it, whichever sessions commit meanwhile.
RefinesFeed == Feed!Spec
=============================================================================
