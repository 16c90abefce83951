---------------------------- MODULE EventLogProofs ----------------------------
(***************************************************************************)
(* Theorems about EventLog, for any number of sessions and any bound on    *)
(* the sequences.                                                          *)
(*                                                                         *)
(* The properties are not inductive by themselves: they say nothing about  *)
(* the copies sessions work on.  Inv adds what makes them so.  A session   *)
(* without uncommitted events holds the run as it was after some event of  *)
(* the committed timeline, possibly not the last one (Snapshots); a        *)
(* session with uncommitted events holds the lock, and its events continue *)
(* the committed timeline without a gap (Continuation).                    *)
(***************************************************************************)
EXTENDS EventLog, WellFoundedInduction, TLAPS

\* The timeline as session s would commit it.
View(s) == Merge(events, pending[s])

Quiet(s) == DOMAIN pending[s] = {}

Snapshots ==
    \A s \in Sessions :
        phase[s] = "open" /\ Quiet(s) =>
            /\ cached[s].seq \in DOMAIN events
            /\ cached[s].state = events[cached[s].seq].state

Continuation ==
    \A s \in Sessions : ~Quiet(s) =>
        /\ holder = s
        /\ phase[s] = "open"
        /\ cached[s].seq > row.seq
        /\ DOMAIN pending[s] = (row.seq + 1) .. cached[s].seq
        /\ cached[s].state = View(s)[cached[s].seq].state
        /\ \A n \in DOMAIN pending[s] :
              Timeline!MayFollow(View(s)[n - 1], View(s)[n])

CopiesAreRows == \A s \in Sessions : phase[s] = "open" => cached[s] \in RunRow

Inv ==
    /\ TypeOK
    /\ row.seq >= 1
    /\ TimelineAgrees
    /\ LegalHistory
    /\ CopiesAreRows
    /\ Snapshots
    /\ Continuation

-----------------------------------------------------------------------------
\* The states the transition table can lead to are states.
LEMMA TargetsAreStates ==
    ASSUME NEW current, NEW target, CanTransition(current, target)
    PROVE  target \in RunState
BY DEF CanTransition, AllowedTargets

\* The abstract timeline speaks of the same states and the same transitions.
LEMMA SameStates ==
    /\ Timeline!RunState = RunState
    /\ \A a, b : Timeline!CanTransition(a, b) <=> CanTransition(a, b)
<1>1. Timeline!RunState = RunState
  BY DEF RunState, WORKING_STATES, HUMAN_GATE_STATES, TERMINAL_STATES,
         Timeline!RunState, Timeline!WORKING_STATES,
         Timeline!HUMAN_GATE_STATES, Timeline!TERMINAL_STATES
<1>2. Timeline!TransitionTable = TransitionTable
  BY DEF Timeline!TransitionTable, TransitionTable
<1>3. Timeline!TERMINAL_STATES = TERMINAL_STATES
  BY DEF Timeline!TERMINAL_STATES, TERMINAL_STATES
<1> QED
  BY <1>1, <1>2, <1>3 DEF Timeline!CanTransition, CanTransition,
         Timeline!AllowedTargets, AllowedTargets

\* What an event is, in the terms of this module.
LEMMA EventFacts ==
    /\ Event = [kind : {"state_changed", "info"}, state : RunState]
    /\ Timeline!Created \in Event
    /\ Timeline!Created.state = "CREATED"
    /\ \A a, b : Timeline!MayFollow(a, b) <=>
          \/ b.kind = "state_changed" /\ CanTransition(a.state, b.state)
          \/ b.kind = "info" /\ b.state = a.state
<1>1. Event = [kind : {"state_changed", "info"}, state : RunState]
  BY SameStates DEF Event, Timeline!Event, Timeline!EventKind
<1>2. "CREATED" \in RunState
  BY DEF RunState, WORKING_STATES
<1> QED
  BY <1>1, <1>2, SameStates DEF Timeline!Created, Timeline!MayFollow

\* What a merged table contains.
LEMMA MergeFacts ==
    ASSUME NEW f, NEW g
    PROVE  /\ DOMAIN Merge(f, g) = DOMAIN f \cup DOMAIN g
           /\ \A n : n \in DOMAIN g => Merge(f, g)[n] = g[n]
           /\ \A n : n \in DOMAIN f /\ n \notin DOMAIN g => Merge(f, g)[n] = f[n]
BY DEF Merge

\* The initial state satisfies the invariant.
LEMMA InitInv == Init => Inv
<1> SUFFICES ASSUME Init PROVE Inv
  OBVIOUS
<1> USE DEF Init
<1>1. row \in RunRow /\ row.seq = 1 /\ row.state = "CREATED"
  BY DEF RunRow, RunState, WORKING_STATES
<1>2. Timeline!Created \in Event /\ Timeline!Created.state = "CREATED"
  BY EventFacts
<1>3. events \in [1 .. row.seq -> Event] /\ DOMAIN events = {1}
  BY <1>1, <1>2
<1>4. \A s \in Sessions : DOMAIN pending[s] = {} /\ pending[s] \in [{} -> Event]
  BY DEF NoEvents
<1>5. TypeOK
  BY <1>1, <1>3, <1>4 DEF TypeOK
<1>6. TimelineAgrees /\ LegalHistory
  BY <1>1, <1>2, <1>3 DEF TimelineAgrees, LegalHistory
<1>7. CopiesAreRows /\ Snapshots /\ Continuation
  BY <1>4 DEF CopiesAreRows, Snapshots, Continuation, Quiet
<1> QED
  BY <1>1, <1>5, <1>6, <1>7 DEF Inv

\* Appending in session s extends what s would commit by one legal event, or
\* breaks the session: the common part of append_event and transition.
LEMMA AppendInv ==
    ASSUME Inv, NEW s \in Sessions, NEW kind, NEW target,
           phase[s] = "open", CanLockRun(s),
           AppendEventFor(s, kind, target),
           target \in RunState,
           \/ kind = "state_changed" /\ CanTransition(cached[s].state, target)
           \/ kind = "info" /\ target = cached[s].state
    PROVE  Inv'
<1> DEFINE n == cached[s].seq + 1
           e == NewEvent(s, kind, target)
<1>1. TypeOK /\ cached[s] \in RunRow /\ n \in Nat /\ row.seq \in Nat /\ row \in RunRow
  BY DEF Inv, TypeOK, CopiesAreRows, RunRow
<1>2. UNCHANGED <<row, events>>
  BY DEF AppendEventFor, FlushFails
<1>3. ASSUME NEW u \in Sessions, u # s
      PROVE  /\ phase'[u] = phase[u] /\ cached'[u] = cached[u]
             /\ pending'[u] = pending[u] /\ Quiet(u)
  <2>1. phase'[u] = phase[u] /\ cached'[u] = cached[u] /\ pending'[u] = pending[u]
    BY <1>1, <1>3 DEF AppendEventFor, FlushFails, TypeOK
  <2>2. Quiet(u)
    BY <1>3, <1>1, SessionsAssumption DEF Inv, Continuation, CanLockRun
  <2> QED
    BY <2>1, <2>2
<1>4. CASE /\ SequenceIsFree(s, n)
           /\ cached' = [cached EXCEPT ![s] = [state |-> target, seq |-> n]]
           /\ pending' = [pending EXCEPT ![s] = Merge(@, [m \in {n} |-> e])]
           /\ holder' = s
           /\ UNCHANGED <<row, events, phase>>
  <2>1. PICK one : one = [m \in {n} |-> e]
    OBVIOUS
  <2>2. DOMAIN one = {n} /\ one[n] = e /\ e \in Event
    BY <2>1, EventFacts DEF NewEvent
  <2>3. pending'[s] = Merge(pending[s], one) /\ cached'[s] = [state |-> target, seq |-> n]
    BY <1>1, <1>4, <2>1 DEF TypeOK
  <2>4. /\ DOMAIN pending'[s] = DOMAIN pending[s] \cup {n}
        /\ pending'[s][n] = e
        /\ \A m \in DOMAIN pending[s] : m # n => pending'[s][m] = pending[s][m]
    <3>1. pending'[s] = [m \in DOMAIN pending[s] \cup {n} |->
                            IF m \in {n} THEN one[m] ELSE pending[s][m]]
      BY <2>2, <2>3 DEF Merge
    <3> QED
      BY <3>1, <2>2
  <2>5. /\ n = row.seq + 1 \/ ~Quiet(s)
        /\ Quiet(s) => n = row.seq + 1
    BY <1>1, <1>4 DEF Inv, Snapshots, SequenceIsFree, TypeOK, RunRow
  <2>6. DOMAIN pending'[s] = (row.seq + 1) .. n
    BY <1>1, <2>4, <2>5 DEF Inv, Continuation, Quiet, RunRow
  <2>7. n \notin DOMAIN pending[s] /\ n \notin DOMAIN events
    BY <1>1, <1>4, <2>5 DEF Inv, Continuation, Quiet, RunRow, SequenceIsFree
  <2>a. /\ DOMAIN View(s) = DOMAIN events \cup DOMAIN pending[s]
        /\ \A m : m \in DOMAIN pending[s] => View(s)[m] = pending[s][m]
        /\ \A m : m \in DOMAIN events /\ m \notin DOMAIN pending[s]
                  => View(s)[m] = events[m]
    BY MergeFacts DEF View
  <2>b. /\ \A m : m \in DOMAIN pending'[s] => View(s)'[m] = pending'[s][m]
        /\ \A m : m \in DOMAIN events /\ m \notin DOMAIN pending'[s]
                  => View(s)'[m] = events[m]
    BY <1>2 DEF View, Merge
  <2>8. \A m \in DOMAIN View(s) : View(s)'[m] = View(s)[m]
    BY <2>4, <2>7, <2>a, <2>b
  <2>9. View(s)'[n] = e
    BY <2>4, <2>b
  <2>10. cached[s].state = View(s)[cached[s].seq].state /\ n - 1 = cached[s].seq
         /\ cached[s].seq \in DOMAIN View(s)
    <3>1. CASE Quiet(s)
      BY <1>1, <2>a, <3>1 DEF Inv, Snapshots, Quiet, RunRow
    <3>2. CASE ~Quiet(s)
      BY <1>1, <2>a, <3>2 DEF Inv, Continuation, RunRow
    <3> QED
      BY <3>1, <3>2
  <2>11. Timeline!MayFollow(View(s)'[n - 1], View(s)'[n])
    BY <2>8, <2>9, <2>10, EventFacts DEF NewEvent
  <2>12. ASSUME NEW m \in DOMAIN pending'[s]
         PROVE  Timeline!MayFollow(View(s)'[m - 1], View(s)'[m])
    <3>1. CASE m = n
      BY <3>1, <2>11
    <3>2. CASE m # n
      <4>1. m \in DOMAIN pending[s] /\ ~Quiet(s)
        BY <2>4, <2>12, <3>2 DEF Quiet
      <4>2. m - 1 \in DOMAIN View(s) /\ m \in DOMAIN View(s)
        <5>1. DOMAIN pending[s] = (row.seq + 1) .. cached[s].seq
              /\ DOMAIN events = 1 .. row.seq /\ row.seq >= 1
          BY <4>1, <1>1 DEF Inv, Continuation, TypeOK
        <5> QED
          BY <5>1, <4>1, <1>1, <2>a DEF RunRow
      <4>3. Timeline!MayFollow(View(s)[m - 1], View(s)[m])
        BY <4>1 DEF Inv, Continuation
      <4> QED
        BY <4>2, <4>3, <2>8
    <3> QED
      BY <3>1, <3>2
  <2>13. TypeOK'
    <3>1. cached' \in [Sessions -> RunRow \cup {NoRow}]
      BY <1>1, <1>4, <2>3 DEF TypeOK, RunRow
    <3>2. pending' = [u \in Sessions |-> pending'[u]]
      BY <1>1, <1>4 DEF TypeOK
    <3>3. ASSUME NEW u \in Sessions
          PROVE  DOMAIN pending'[u] \subseteq Nat
                 /\ pending'[u] \in [DOMAIN pending'[u] -> Event]
      <4>1. CASE u # s
        BY <4>1, <1>3, <1>1 DEF TypeOK
      <4>2. CASE u = s
        <5>1. pending'[s] = [m \in DOMAIN pending'[s] |-> pending'[s][m]]
          BY <2>3, <2>4 DEF Merge
        <5>2. \A m \in DOMAIN pending[s] : pending[s][m] \in Event
          BY <1>1 DEF TypeOK
        <5>3. \A m \in DOMAIN pending'[s] : pending'[s][m] \in Event
          BY <5>2, <2>2, <2>4
        <5>4. DOMAIN pending'[s] \subseteq Nat
          BY <1>1, <2>4 DEF TypeOK
        <5> QED
          BY <5>1, <5>3, <5>4, <4>2
      <4> QED
        BY <4>1, <4>2
    <3> QED
      BY <1>1, <1>4, <3>1, <3>2, <3>3 DEF TypeOK
  <2>14. TimelineAgrees' /\ LegalHistory'
    BY <1>2 DEF Inv, TimelineAgrees, LegalHistory
  <2>15. CopiesAreRows'
    BY <1>1, <1>3, <1>4, <2>3 DEF Inv, CopiesAreRows, RunRow
  <2>16. ~Quiet(s)'
    BY <2>4 DEF Quiet
  <2>17. Snapshots'
    BY <1>2, <1>3, <2>16 DEF Inv, Snapshots, Quiet
  <2>18. Continuation'
    <3>1. \A u \in Sessions : ~Quiet(u)' => u = s
      BY <1>3 DEF Quiet
    <3>2. cached'[s].seq = n /\ cached'[s].state = e.state
      BY <2>3 DEF NewEvent
    <3>3. n > row.seq
      BY <2>6, <2>4, <1>1
    <3> QED
      BY <1>2, <1>4, <2>6, <2>9, <2>12, <3>1, <3>2, <3>3 DEF Continuation
  <2> QED
    BY <1>2, <2>13, <2>14, <2>15, <2>17, <2>18 DEF Inv
<1>5. CASE ~SequenceIsFree(s, n) /\ FlushFails(s)
  <2>1. pending'[s] = NoEvents /\ phase'[s] = "broken" /\ Quiet(s)'
    BY <1>1, <1>5 DEF FlushFails, TypeOK, Quiet, NoEvents
  <2>2. TypeOK'
    BY <1>1, <1>2, <1>5 DEF TypeOK, FlushFails, NoEvents
  <2>3. TimelineAgrees' /\ LegalHistory'
    BY <1>2 DEF Inv, TimelineAgrees, LegalHistory
  <2>4. CopiesAreRows' /\ Snapshots'
    BY <1>2, <1>3, <2>1 DEF Inv, CopiesAreRows, Snapshots, Quiet
  <2>5. Continuation'
    BY <1>3, <2>1 DEF Continuation, Quiet
  <2> QED
    BY <1>2, <2>2, <2>3, <2>4, <2>5 DEF Inv
<1> QED
  BY <1>4, <1>5 DEF AppendEventFor

\* A plain read makes a session's copy a snapshot of the committed row.
LEMMA LoadInv ==
    ASSUME Inv, NEW s \in Sessions, LoadRun(s)
    PROVE  Inv'
<1> USE DEF LoadRun
<1>1. TypeOK /\ row \in RunRow /\ row.seq \in Nat
  BY DEF Inv, TypeOK, RunRow
<1>2. TypeOK'
  BY <1>1 DEF TypeOK
<1>3. TimelineAgrees' /\ LegalHistory' /\ CopiesAreRows'
  BY <1>1 DEF Inv, TimelineAgrees, LegalHistory, CopiesAreRows, TypeOK
<1>4. Snapshots'
  BY <1>1 DEF Inv, Snapshots, Quiet, TypeOK, TimelineAgrees
<1>5. ASSUME NEW u \in Sessions, ~Quiet(u)
      PROVE  u # s /\ cached'[u] = cached[u] /\ phase'[u] = phase[u]
  BY <1>1, <1>5 DEF Inv, Continuation, TypeOK
<1>6. Continuation'
  BY <1>1, <1>5 DEF Inv, Continuation, Quiet, View
<1> QED
  BY <1>1, <1>2, <1>3, <1>4, <1>6 DEF Inv

\* A session that ends takes only its own uncommitted work with it.
LEMMA CloseInv ==
    ASSUME Inv, NEW s \in Sessions, CloseSession(s)
    PROVE  Inv'
<1> USE DEF CloseSession
<1>1. TypeOK /\ row.seq \in Nat
  BY DEF Inv, TypeOK, RunRow
<1>2. pending'[s] = NoEvents /\ phase'[s] = "idle" /\ Quiet(s)'
  BY <1>1 DEF TypeOK, Quiet, NoEvents
<1>3. TypeOK'
  BY <1>1 DEF TypeOK, NoEvents
<1>4. TimelineAgrees' /\ LegalHistory' /\ CopiesAreRows' /\ Snapshots'
  BY <1>1, <1>2 DEF Inv, TimelineAgrees, LegalHistory, CopiesAreRows,
                    Snapshots, Quiet, TypeOK
<1>5. Continuation'
  BY <1>1, <1>2 DEF Inv, Continuation, Quiet, View, TypeOK
<1> QED
  BY <1>1, <1>3, <1>4, <1>5 DEF Inv

\* A refused transition takes the lock and nothing else.
LEMMA RefuseInv ==
    ASSUME Inv, NEW s \in Sessions, NEW target, RefuseTransition(s, target)
    PROVE  Inv'
<1> USE DEF RefuseTransition, CanLockRun
<1>1. TypeOK' /\ TimelineAgrees' /\ LegalHistory' /\ CopiesAreRows' /\ Snapshots'
  BY DEF Inv, TypeOK, TimelineAgrees, LegalHistory, CopiesAreRows, Snapshots, Quiet
<1>2. Continuation'
  BY SessionsAssumption DEF Inv, Continuation, Quiet, View
<1> QED
  BY <1>1, <1>2 DEF Inv

\* A commit publishes the session's view; what other sessions hold copies of
\* stays in the timeline.
LEMMA CommitInv ==
    ASSUME Inv, NEW s \in Sessions, Commit(s)
    PROVE  Inv' /\ [Timeline!Extend]_(Timeline!vars)
<1> USE DEF Commit
<1>1. /\ TypeOK /\ row \in RunRow /\ row.seq \in Nat /\ row.seq >= 1
      /\ DOMAIN events = 1 .. row.seq
      /\ cached[s] \in RunRow /\ cached[s].seq \in Nat
  BY DEF Inv, TypeOK, RunRow, CopiesAreRows
<1>2. /\ events' = View(s)
      /\ DOMAIN View(s) = DOMAIN events \cup DOMAIN pending[s]
      /\ \A m : m \in DOMAIN pending[s] => View(s)[m] = pending[s][m]
      /\ \A m : m \in DOMAIN events /\ m \notin DOMAIN pending[s]
                => View(s)[m] = events[m]
  BY DEF View, Merge
<1>3. \A u \in Sessions : Quiet(u)' /\ (u # s => pending'[u] = pending[u] /\ Quiet(u))
  BY <1>1, SessionsAssumption DEF Inv, Continuation, Quiet, NoEvents, TypeOK
<1>4. CASE Quiet(s)
  <2>1. row' = row /\ events' = events
    <3>1. events = [m \in DOMAIN events |-> events[m]]
      BY <1>1 DEF TypeOK
    <3>2. View(s) = [m \in DOMAIN events |-> events[m]]
      BY <1>4 DEF Quiet, View, Merge
    <3> QED
      BY <1>2, <1>4, <3>1, <3>2 DEF Quiet
  <2>2. TypeOK'
    BY <1>1, <2>1 DEF TypeOK, NoEvents
  <2>3. TimelineAgrees' /\ LegalHistory' /\ CopiesAreRows' /\ Snapshots'
    BY <1>1, <1>3, <1>4, <2>1 DEF Inv, TimelineAgrees, LegalHistory,
                                  CopiesAreRows, Snapshots
  <2>4. Continuation'
    BY <1>3 DEF Continuation
  <2> QED
    BY <1>1, <2>1, <2>2, <2>3, <2>4 DEF Inv, Timeline!vars
<1>5. CASE ~Quiet(s)
  <2>1. /\ row' = cached[s] /\ cached[s].seq > row.seq
        /\ DOMAIN pending[s] = (row.seq + 1) .. cached[s].seq
        /\ cached[s].state = View(s)[cached[s].seq].state
        /\ \A n \in DOMAIN pending[s] :
              Timeline!MayFollow(View(s)[n - 1], View(s)[n])
    BY <1>5 DEF Inv, Continuation, Quiet
  <2>2. DOMAIN events' = 1 .. row'.seq /\ row'.seq \in Nat /\ row'.seq >= 1
    BY <1>1, <1>2, <2>1
  <2>3. \A n \in DOMAIN events : n \notin DOMAIN pending[s] /\ events'[n] = events[n]
    BY <1>1, <1>2, <2>1
  <2>4. events' \in [1 .. row'.seq -> Event]
    <3>1. events' = [n \in DOMAIN events' |-> events'[n]]
      BY <1>2 DEF View, Merge
    <3>2. \A n \in DOMAIN events' : events'[n] \in Event
      BY <1>1, <1>2 DEF TypeOK
    <3> QED
      BY <2>2, <3>1, <3>2
  <2>5. TypeOK'
    BY <1>1, <2>1, <2>4 DEF TypeOK, NoEvents
  <2>6. TimelineAgrees'
    BY <1>1, <1>2, <2>1, <2>2 DEF TimelineAgrees
  <2>7. LegalHistory'
    <3>1. SUFFICES ASSUME NEW n \in DOMAIN events', n # 1
                   PROVE  Timeline!MayFollow(events'[n - 1], events'[n])
      BY DEF LegalHistory
    <3>2. CASE n \in DOMAIN pending[s]
      BY <1>2, <2>1, <3>2
    <3>3. CASE n \notin DOMAIN pending[s]
      <4>1. n \in DOMAIN events /\ n - 1 \in DOMAIN events
        BY <1>1, <1>2, <3>1, <3>3
      <4>2. Timeline!MayFollow(events[n - 1], events[n])
        BY <4>1, <3>1 DEF Inv, LegalHistory
      <4> QED
        BY <4>1, <4>2, <2>3
    <3> QED
      BY <3>2, <3>3
  <2>8. CopiesAreRows'
    BY DEF Inv, CopiesAreRows
  <2>9. Snapshots'
    <3>1. SUFFICES ASSUME NEW u \in Sessions, phase[u] = "open"
                   PROVE  /\ cached[u].seq \in DOMAIN events'
                          /\ cached[u].state = events'[cached[u].seq].state
      BY DEF Snapshots
    <3>2. CASE u = s
      BY <1>1, <1>2, <2>1, <2>2, <3>2
    <3>3. CASE u # s
      <4>1. /\ cached[u].seq \in DOMAIN events
            /\ cached[u].state = events[cached[u].seq].state
        BY <1>3, <3>1, <3>3 DEF Inv, Snapshots
      <4> QED
        BY <4>1, <1>2, <2>3
    <3> QED
      BY <3>2, <3>3
  <2>10. Continuation'
    BY <1>3 DEF Continuation
  <2>11. Timeline!Extend
    <3>1. /\ row'.seq \in DOMAIN events' /\ row'.seq \notin DOMAIN events
          /\ row'.state = events'[row'.seq].state
      BY <1>1, <1>2, <2>1, <2>2
    <3>2. \A n \in DOMAIN events : n \in DOMAIN events' /\ events'[n] = events[n]
      BY <1>2, <2>3
    <3>3. \A n \in DOMAIN events' \ DOMAIN events :
              Timeline!MayFollow(events'[n - 1], events'[n])
      BY <1>2, <2>1
    <3> QED
      BY <2>2, <3>1, <3>2, <3>3 DEF Timeline!Extend
  <2> QED
    BY <2>2, <2>5, <2>6, <2>7, <2>8, <2>9, <2>10, <2>11 DEF Inv
<1> QED
  BY <1>4, <1>5

-----------------------------------------------------------------------------
\* Every step keeps the invariant and maps to a step of the atomic timeline.
LEMMA NextInv == Inv /\ [Next]_vars => Inv' /\ [Timeline!Extend]_(Timeline!vars)
<1> SUFFICES ASSUME Inv, [Next]_vars
             PROVE  Inv' /\ [Timeline!Extend]_(Timeline!vars)
  OBVIOUS
<1>1. CASE UNCHANGED vars
  BY <1>1 DEF vars, Timeline!vars, Inv, TypeOK, TimelineAgrees, LegalHistory,
              CopiesAreRows, Snapshots, Continuation, Quiet, View
<1>2. ASSUME NEW s \in Sessions, LoadRun(s)
      PROVE  Inv' /\ UNCHANGED Timeline!vars
  BY <1>2, LoadInv DEF LoadRun, Timeline!vars
<1>3. ASSUME NEW s \in Sessions, AppendEvent(s)
      PROVE  Inv' /\ UNCHANGED Timeline!vars
  <2>1. cached[s].state \in RunState
    BY <1>3 DEF AppendEvent, Inv, CopiesAreRows, RunRow
  <2>2. UNCHANGED Timeline!vars
    BY <1>3 DEF AppendEvent, AppendEventFor, FlushFails, Timeline!vars
  <2> QED
    BY <1>3, <2>1, <2>2, AppendInv DEF AppendEvent
<1>4. ASSUME NEW s \in Sessions, NEW target \in RunState, Transition(s, target)
      PROVE  Inv' /\ UNCHANGED Timeline!vars
  <2>1. UNCHANGED Timeline!vars
    BY <1>4 DEF Transition, AppendEventFor, FlushFails, Timeline!vars
  <2> QED
    BY <1>4, <2>1, AppendInv DEF Transition
<1>5. ASSUME NEW s \in Sessions, NEW target \in RunState, RefuseTransition(s, target)
      PROVE  Inv' /\ UNCHANGED Timeline!vars
  BY <1>5, RefuseInv DEF RefuseTransition, Timeline!vars
<1>6. ASSUME NEW s \in Sessions, CloseSession(s)
      PROVE  Inv' /\ UNCHANGED Timeline!vars
  BY <1>6, CloseInv DEF CloseSession, Timeline!vars
<1> QED
  BY <1>1, <1>2, <1>3, <1>4, <1>5, <1>6, CommitInv DEF Next

\* The committed row, the copies and the events keep their types.
THEOREM TypeCorrect == Spec => []TypeOK
<1>1. Inv => TypeOK
  BY DEF Inv
<1> QED
  BY <1>1, InitInv, NextInv, PTL DEF Spec

\* Committed sequences are gap-free, whatever sessions raced for them.
THEOREM SequencesGapFree == Spec => []GapFree
<1>1. Inv => GapFree
  BY DEF Inv, TypeOK, GapFree
<1> QED
  BY <1>1, InitInv, NextInv, PTL DEF Spec

\* The run's state is the one its last committed event reports.
THEOREM TimelineAgreesWithRun == Spec => []TimelineAgrees
<1>1. Inv => TimelineAgrees
  BY DEF Inv
<1> QED
  BY <1>1, InitInv, NextInv, PTL DEF Spec

\* Only legal transitions are ever committed, although they are checked
\* against copies that may be stale.
THEOREM HistoryLegal == Spec => []LegalHistory
<1>1. Inv => LegalHistory
  BY DEF Inv
<1> QED
  BY <1>1, InitInv, NextInv, PTL DEF Spec

\* The sessions, their caches and the row lock implement the atomic timeline.
THEOREM ImplementsTimeline == Spec => RefinesTimeline
<1>1. Init => Timeline!Init
  BY DEF Init, Timeline!Init
<1> QED
  BY <1>1, InitInv, NextInv, PTL DEF Spec, RefinesTimeline, Timeline!Spec

\* Committed events are never replaced or lost.
THEOREM EventsAppendOnly == Spec => AppendOnly
<1>1. Inv /\ [Next]_vars =>
        [\A n \in DOMAIN events : n \in DOMAIN events' /\ events'[n] = events[n]]_vars
  BY NextInv DEF Timeline!Extend, Timeline!vars, vars
<1> QED
  BY <1>1, InitInv, NextInv, PTL DEF Spec, AppendOnly

\* Uncommitted events of a finished run do not change its state either: what
\* a session builds on top of a terminal state stays in that state.
FinalStateKept ==
    \A s \in Sessions :
        ~Quiet(s) /\ IsTerminal(row.state) => cached[s].state = row.state

\* That is kept by every step.
LEMMA FinalInv == Inv /\ FinalStateKept /\ [Next]_vars => FinalStateKept'
<1> SUFFICES ASSUME Inv, FinalStateKept, [Next]_vars,
                    NEW s \in Sessions, ~Quiet(s)', IsTerminal(row'.state)
             PROVE  cached'[s].state = row'.state
  BY DEF FinalStateKept
<1>1. TypeOK /\ row \in RunRow /\ row.seq \in Nat
  BY DEF Inv, TypeOK, RunRow
<1>2. CASE UNCHANGED vars
  BY <1>2 DEF vars, FinalStateKept, Quiet
<1>3. ASSUME NEW u \in Sessions, LoadRun(u) \/ CloseSession(u) \/ Commit(u)
      PROVE  cached'[s].state = row'.state
  <2>1. u # s
    BY <1>1, <1>3, SessionsAssumption
       DEF LoadRun, CloseSession, Commit, Quiet, TypeOK, NoEvents, Inv, Continuation
  <2>2. ~Quiet(s) /\ cached'[s] = cached[s]
    BY <1>1, <1>3, <2>1 DEF LoadRun, CloseSession, Commit, Quiet, TypeOK
  <2>3. row' = row
    BY <1>3, <2>1, <2>2, SessionsAssumption
       DEF LoadRun, CloseSession, Commit, Inv, Continuation
  <2> QED
    BY <2>2, <2>3 DEF FinalStateKept
<1>4. ASSUME NEW u \in Sessions, NEW target, RefuseTransition(u, target)
      PROVE  cached'[s].state = row'.state
  BY <1>4 DEF RefuseTransition, FinalStateKept, Quiet
<1>5. ASSUME NEW u \in Sessions, NEW kind, NEW target,
             phase[u] = "open", CanLockRun(u), AppendEventFor(u, kind, target),
             \/ CanTransition(cached[u].state, target)
             \/ target = cached[u].state
      PROVE  cached'[s].state = row'.state
  <2>1. row' = row
    BY <1>5 DEF AppendEventFor, FlushFails
  <2>2. CASE u # s
    <3>1. pending'[s] = pending[s] /\ cached'[s] = cached[s]
      BY <1>1, <1>5, <2>2 DEF AppendEventFor, FlushFails, TypeOK
    <3> QED
      BY <2>1, <3>1 DEF FinalStateKept, Quiet
  <2>3. CASE u = s
    <3>1. SequenceIsFree(s, cached[s].seq + 1) /\ cached'[s].state = target
      BY <1>1, <1>5, <2>3
         DEF AppendEventFor, FlushFails, Quiet, NoEvents, TypeOK
    <3>2. cached[s].state = row.state
      <4>1. CASE Quiet(s)
        <5>1. cached[s].seq = row.seq
          BY <1>1, <1>5, <2>3, <3>1, <4>1
             DEF Inv, Snapshots, SequenceIsFree, TypeOK, CopiesAreRows, RunRow
        <5> QED
          BY <1>5, <2>3, <4>1, <5>1 DEF Inv, Snapshots, TimelineAgrees
      <4>2. CASE ~Quiet(s)
        BY <2>1, <4>2 DEF FinalStateKept
      <4> QED
        BY <4>1, <4>2
    <3>3. target = row.state
      BY <1>5, <2>1, <2>3, <3>2 DEF CanTransition, AllowedTargets, IsTerminal
    <3> QED
      BY <2>1, <3>1, <3>3
  <2> QED
    BY <2>2, <2>3
<1> QED
  BY <1>2, <1>3, <1>4, <1>5 DEF Next, AppendEvent, Transition

\* A finished run never comes back to life.
THEOREM TerminalAbsorbing == Spec => TerminalIsFinal
<1>1. Init => FinalStateKept
  BY DEF Init, FinalStateKept, IsTerminal, TERMINAL_STATES
<1>2. Inv /\ FinalStateKept /\ [Next]_vars =>
        [IsTerminal(row.state) => row'.state = row.state]_vars
  <2> SUFFICES ASSUME Inv, FinalStateKept, Next, IsTerminal(row.state)
               PROVE  row'.state = row.state
    OBVIOUS
  <2>1. ASSUME NEW s \in Sessions, Commit(s)
        PROVE  row'.state = row.state
    BY <2>1 DEF Commit, FinalStateKept, Quiet
  <2> QED
    BY <2>1 DEF Next, LoadRun, AppendEvent, Transition, AppendEventFor,
       FlushFails, RefuseTransition, CloseSession
<1> QED
  BY <1>1, <1>2, InitInv, NextInv, FinalInv, PTL DEF Spec, TerminalIsFinal

\* What a session may build on is told by the constraint: its copy is as old as its sequence.
THEOREM StaleCopiesAreRefused == Spec => StaleIsRefused
<1> DEFINE Refused(s) ==
              /\ DOMAIN pending[s] = {} /\ DOMAIN pending'[s] # {} => cached[s] = row
              /\ phase[s] = "open" /\ phase'[s] = "broken" => cached[s] # row
<1>1. ASSUME Inv, Next, NEW s \in Sessions
      PROVE  Refused(s)
  <2>1. /\ TypeOK /\ row \in RunRow /\ row.seq \in Nat /\ DOMAIN events = 1 .. row.seq
        /\ phase[s] = "open" => cached[s] \in RunRow /\ cached[s].seq \in Nat
    BY <1>1 DEF Inv, TypeOK, CopiesAreRows, RunRow
  <2>2. ASSUME NEW u \in Sessions, LoadRun(u) \/ CloseSession(u) \/ Commit(u)
        PROVE  Refused(s)
    <3>1. DOMAIN pending'[s] = {} \/ pending'[s] = pending[s]
      BY <2>1, <2>2 DEF LoadRun, CloseSession, Commit, TypeOK, NoEvents
    <3>2. phase'[s] # "broken" \/ phase'[s] = phase[s]
      BY <2>1, <2>2 DEF LoadRun, CloseSession, Commit, TypeOK
    <3> QED
      BY <3>1, <3>2
  <2>3. ASSUME NEW u \in Sessions, NEW target, RefuseTransition(u, target)
        PROVE  Refused(s)
    BY <2>3 DEF RefuseTransition
  <2>4. ASSUME NEW u \in Sessions, NEW kind, NEW target, phase[u] = "open",
               AppendEventFor(u, kind, target)
        PROVE  Refused(s)
    <3>1. CASE u # s
      BY <2>1, <2>4, <3>1 DEF AppendEventFor, FlushFails, TypeOK
    <3>2. CASE u = s /\ SequenceIsFree(s, cached[s].seq + 1)
      <4>1. phase' = phase
        BY <2>4, <3>2 DEF AppendEventFor
      <4>2. phase[s] = "open" /\ cached[s] \in RunRow /\ cached[s].seq \in Nat
        BY <2>1, <2>4, <3>2
      <4>3. ASSUME DOMAIN pending[s] = {} PROVE cached[s] = row
        <5>1. /\ cached[s].seq \in DOMAIN events
              /\ cached[s].state = events[cached[s].seq].state
          <6>1. Snapshots /\ Quiet(s)
            BY <1>1, <4>3 DEF Inv, Quiet
          <6> QED
            BY <4>2, <6>1 DEF Snapshots
        <5>2. cached[s].seq = row.seq
          BY <2>1, <3>2, <4>2, <5>1 DEF SequenceIsFree
        <5>3. cached[s].state = row.state
          BY <1>1, <5>1, <5>2 DEF Inv, TimelineAgrees
        <5> QED
          BY <2>1, <4>2, <5>2, <5>3 DEF RunRow
      <4> QED
        BY <4>1, <4>3
    <3>3. CASE u = s /\ ~SequenceIsFree(s, cached[s].seq + 1)
      <4>1. pending'[s] = NoEvents
        BY <2>1, <2>4, <3>3 DEF AppendEventFor, FlushFails, TypeOK
      <4>2. cached[s].seq # row.seq
        BY <2>1, <2>4, <3>3 DEF SequenceIsFree
      <4> QED
        BY <4>1, <4>2 DEF NoEvents
    <3> QED
      BY <3>1, <3>2, <3>3
  <2> QED
    BY <1>1, <2>2, <2>3, <2>4 DEF Next, AppendEvent, Transition
<1>2. Inv /\ [Next]_vars => [\A s \in Sessions : Refused(s)]_vars
  BY <1>1
<1> QED
  BY <1>2, InitInv, NextInv, PTL DEF Spec, StaleIsRefused

-----------------------------------------------------------------------------
(* The timeline as the pages rely on it.                                   *)

\* A set of numbers has a least one.
LEMMA Least ==
    ASSUME NEW T, T \subseteq Nat, T # {}
    PROVE  \E n \in T : \A m \in T : n <= m
<1> DEFINE before == OpToRel(<, Nat)
<1>1. PICK n \in T : \A m \in T : ~(<<m, n>> \in before)
  BY WFMin, NatLessThanWellFounded, Zenon
<1>2. \A m \in T : ~(m < n)
  BY <1>1 DEF OpToRel
<1> QED
  BY <1>2

\* EndOf is the first event that ends the run.
LEMMA EndFacts ==
    ASSUME NEW N \in Nat, NEW log, DOMAIN log = 1 .. N
    PROVE  /\ EndOf(log) \in 0 .. N
           /\ EndOf(log) = 0 => \A n \in DOMAIN log : ~IsTerminal(log[n].state)
           /\ EndOf(log) # 0 =>
                 /\ EndOf(log) \in DOMAIN log
                 /\ IsTerminal(log[EndOf(log)].state)
                 /\ \A n \in DOMAIN log : IsTerminal(log[n].state) => EndOf(log) <= n
<1> DEFINE ended == {n \in DOMAIN log : IsTerminal(log[n].state)}
<1>1. CASE ended = {}
  BY <1>1 DEF EndOf
<1>2. CASE ended # {}
  <2>1. \E n \in ended : \A m \in ended : n <= m
    <3>1. ended \subseteq Nat
      OBVIOUS
    <3> HIDE DEF ended
    <3> QED
      BY <1>2, <3>1, Least
  <2>2. EndOf(log) = CHOOSE n \in ended : \A m \in ended : n <= m
    BY <1>2 DEF EndOf
  <2>3. EndOf(log) \in ended /\ \A m \in ended : EndOf(log) <= m
    BY <2>1, <2>2
  <2> QED
    BY <2>3
<1> QED
  BY <1>1, <1>2

\* What follows an event that ended the run are annotations: a first one that is not would
\* have followed illegally.
LEMMA TerminalTail ==
    ASSUME Inv, NEW m \in DOMAIN events, IsTerminal(events[m].state),
           NEW n \in DOMAIN events, m <= n
    PROVE  IsTerminal(events[n].state)
<1> DEFINE open == {k \in DOMAIN events : m <= k /\ ~IsTerminal(events[k].state)}
<1>1. DOMAIN events = 1 .. row.seq /\ row.seq \in Nat
  BY DEF Inv, TypeOK, RunRow
<1>2. SUFFICES ASSUME open # {} PROVE FALSE
  OBVIOUS
<1>3. PICK k \in open : \A l \in open : k <= l
  <2>1. open \subseteq Nat
    BY <1>1
  <2> HIDE DEF open
  <2> QED
    BY <1>2, <2>1, Least
<1>4. k # m /\ k - 1 \in DOMAIN events /\ k - 1 \notin open
  BY <1>1, <1>3
<1>5. IsTerminal(events[k - 1].state) /\ k # 1
  BY <1>1, <1>3, <1>4
<1>6. Timeline!MayFollow(events[k - 1], events[k])
  BY <1>5 DEF Inv, LegalHistory
<1> QED
  BY <1>3, <1>5, <1>6, EventFacts DEF CanTransition, AllowedTargets, IsTerminal

\* A commit adds to the end of the feed, and may end it; nothing else is seen of a step.
LEMMA FeedStep ==
    ASSUME Inv, [Next]_vars
    PROVE  [Feed!Grow]_(Feed!vars)
<1>1. Inv' /\ [Timeline!Extend]_(Timeline!vars)
  BY NextInv
<1>2. /\ row.seq \in Nat /\ row.seq >= 1 /\ DOMAIN events = 1 .. row.seq
      /\ row'.seq \in Nat /\ row'.seq >= 1 /\ DOMAIN events' = 1 .. row'.seq
  BY <1>1 DEF Inv, TypeOK, RunRow
<1>3. CASE UNCHANGED Timeline!vars
  <2>1. events' = events /\ row'.seq = row.seq
    BY <1>2, <1>3 DEF Timeline!vars
  <2> QED
    BY <2>1 DEF Feed!vars
<1>4. CASE Timeline!Extend
  <2>1. /\ row.seq < row'.seq
        /\ \A n \in DOMAIN events : n \in DOMAIN events' /\ events'[n] = events[n]
    BY <1>2, <1>4 DEF Timeline!Extend
  <2> DEFINE old == EndOf(events)
             new == EndOf(events')
  <2>2. /\ old \in 0 .. row.seq
        /\ old = 0 => \A n \in DOMAIN events : ~IsTerminal(events[n].state)
        /\ old # 0 => /\ old \in DOMAIN events
                      /\ IsTerminal(events[old].state)
                      /\ \A n \in DOMAIN events : IsTerminal(events[n].state) => old <= n
    BY <1>2, EndFacts
  <2>3. /\ new \in 0 .. row'.seq
        /\ new = 0 => \A n \in DOMAIN events' : ~IsTerminal(events'[n].state)
        /\ new # 0 => /\ new \in DOMAIN events'
                      /\ IsTerminal(events'[new].state)
                      /\ \A n \in DOMAIN events' : IsTerminal(events'[n].state) => new <= n
    BY <1>2, EndFacts
  <2> HIDE DEF old, new
  <2>4. CASE old # 0
    <3>1. new # 0 /\ new <= old
      BY <2>1, <2>2, <2>3, <2>4
    <3>2. new \in DOMAIN events
      BY <1>2, <2>2, <2>3, <3>1
    <3>3. new = old
      BY <1>2, <2>1, <2>2, <2>3, <2>4, <3>1, <3>2
    <3> QED
      BY <2>1, <3>3 DEF Feed!Grow, Feed!Ends, old, new
  <2>5. CASE old = 0
    <3>1. new = 0 \/ new \in row.seq + 1 .. row'.seq
      BY <1>2, <2>1, <2>2, <2>3, <2>5
    <3> QED
      BY <2>1, <2>5, <3>1 DEF Feed!Grow, Feed!Ends, old, new
  <2> QED
    BY <2>4, <2>5
<1> QED
  BY <1>1, <1>3, <1>4

\* The pages can rely on the event log for what EventStream supposes of a timeline.
THEOREM FeedsThePages == Spec => RefinesFeed
<1>1. Init => Feed!Init
  <2> SUFFICES ASSUME Init PROVE Feed!Init
    OBVIOUS
  <2>1. DOMAIN events = 1 .. 1 /\ events[1].state = "CREATED" /\ row.seq = 1
    BY DEF Init, Timeline!Created
  <2>2. \A n \in DOMAIN events : ~IsTerminal(events[n].state)
    BY <2>1 DEF IsTerminal, TERMINAL_STATES
  <2>3. EndOf(events) = 0
    BY <2>2 DEF EndOf
  <2> QED
    BY <2>1, <2>3 DEF Feed!Init
<1> QED
  BY <1>1, FeedStep, InitInv, NextInv, PTL DEF Spec, RefinesFeed, Feed!Spec

\* And a row says that the run is over exactly if it was read after the event that ended it,
\* although a terminal run is still annotated: EventStream may tell rows by their length.
THEOREM RowsTellTheEnd ==
    Spec => [](\A n \in DOMAIN events : IsTerminal(events[n].state) <=> Feed!Over(n))
<1>1. Inv => \A n \in DOMAIN events : IsTerminal(events[n].state) <=> Feed!Over(n)
  <2> SUFFICES ASSUME Inv, NEW n \in DOMAIN events
               PROVE  IsTerminal(events[n].state) <=> Feed!Over(n)
    OBVIOUS
  <2>1. row.seq \in Nat /\ DOMAIN events = 1 .. row.seq
    BY DEF Inv, TypeOK, RunRow
  <2>2. CASE EndOf(events) = 0
    BY <2>1, <2>2, EndFacts DEF Feed!Over
  <2>3. CASE EndOf(events) # 0
    BY <2>1, <2>3, EndFacts, TerminalTail DEF Feed!Over
  <2> QED
    BY <2>2, <2>3
<1> QED
  BY <1>1, InitInv, NextInv, PTL DEF Spec
=============================================================================
