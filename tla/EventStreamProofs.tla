------------------------- MODULE EventStreamProofs -------------------------
(***************************************************************************)
(* Theorems about EventStream, for any runs, any number of watches, any    *)
(* limit on what one answer lists and any number of visits and drops.      *)
(*                                                                         *)
(* OneStream holds because a stream belongs to a watch its page still      *)
(* wants, and there is one such watch at most (Owned).  NoHoles needs to   *)
(* know how far a stream is: the store has exactly the events up to the    *)
(* one its stream has handled (InStep), and nobody was told of an event    *)
(* that does not exist (Known).                                            *)
(***************************************************************************)
EXTENDS EventStream, TLAPS

StreamPhase == {"connecting", "reading", "read", "finished"}

\* A watch that is wanted is for the page, and the only one.
Owned ==
    \A w \in Watches :
        /\ watch[w].wanted => page # NoRun /\ watch[w].run = page
        /\ \A v \in Watches : watch[v].wanted /\ watch[w].wanted => v = w
        /\ Streaming(w) => watch[w].wanted

\* What a watch was told of its run exists.
ToldTruly(x) ==
    /\ x.row <= last[x.run]
    /\ x.history <= last[x.run]
    /\ x.handled <= last[x.run]
    /\ x.yielded <= last[x.run]
    /\ x.batch <= last[x.run]

Known == \A w \in Watches : watch[w].phase # "free" => ToldTruly(watch[w])

InStep ==
    ~overwritten =>
        \A w \in Watches : Streaming(w) =>
            view.events = [n \in 1 .. watch[w].handled |-> page]

Inv ==
    /\ TypeOK
    /\ Owned
    /\ Known
    /\ NoHoles
    /\ InStep

-----------------------------------------------------------------------------
\* The empty store is a store, a new watch is a watch.
LEMMA NewFacts ==
    /\ ViewFromStart.run = NoRun /\ ViewFromStart.at = 0
    /\ ViewFromStart = [run |-> ViewFromStart.run, at |-> ViewFromStart.at,
                        events |-> ViewFromStart.events]
    /\ \A r : ViewFromStart.events = [n \in 1 .. 0 |-> r]
    /\ ViewFromStart.events \in [DOMAIN ViewFromStart.events -> Runs]
    /\ Unused \in Watch /\ Unused.run = NoRun /\ Unused.phase = "free"
    /\ Unused.wanted = FALSE
BY DEF ViewFromStart, WatchOf, Watch, Phase, Unused

\* list_events never lists an event that does not exist.
LEMMA ListedExists ==
    ASSUME TypeOK, NEW r \in Runs, NEW cursor \in Nat
    PROVE  LastListed(r, cursor) \in Nat /\ LastListed(r, cursor) <= last[r]
BY LimitAssumption DEF TypeOK, LastListed

\* A store without a run, and no watch.
THEOREM InitInv == Init => Inv
<1> SUFFICES ASSUME Init PROVE Inv
  OBVIOUS
<1>1. TypeOK
  <2>1. watch \in [Watches -> Watch]
    BY NewFacts DEF Init
  <2>2. \A w \in Watches : watch[w].run = NoRun <=> watch[w].phase = "free"
    BY NewFacts DEF Init
  <2>3. /\ last \in [Runs -> Nat \ {0}] /\ end \in [Runs -> Nat]
        /\ visits \in 0 .. MaxVisits /\ drops \in 0 .. MaxDrops
    BY BoundsAssumption DEF Init
  <2>4. /\ view = [run |-> view.run, at |-> view.at, events |-> view.events]
        /\ view.run \in Runs \cup {NoRun} /\ view.at \in Nat
        /\ view.events \in [DOMAIN view.events -> Runs]
    BY NewFacts DEF Init
  <2> QED
    BY <2>1, <2>2, <2>3, <2>4 DEF Init, TypeOK
<1>2. \A w \in Watches : watch[w].phase = "free" /\ watch[w].wanted = FALSE
  BY NewFacts DEF Init
<1>3. Owned /\ Known /\ InStep
  BY <1>2 DEF Owned, Known, InStep, Streaming
<1>4. NoHoles
  BY DEF Init, NoHoles
<1> QED
  BY <1>1, <1>3, <1>4 DEF Inv

\* A step that changes one watch and nothing else the invariant speaks of:
\* the watch keeps its run and, while it streams, its place.
LEMMA WatchStep ==
    ASSUME Inv, NEW w \in Watches, NEW x \in Watch,
           watch' = [watch EXCEPT ![w] = x],
           UNCHANGED <<last, end, page, view, overwritten, visits>>,
           answers' \subseteq Runs, refused' \in BOOLEAN, drops' \in 0 .. MaxDrops,
           x.run = NoRun <=> x.phase = "free",
           x.wanted => watch[w].wanted /\ x.phase # "free",
           x.phase # "free" => x.run = watch[w].run /\ ToldTruly(x),
           x.phase \in StreamPhase =>
               Streaming(w) /\ x.wanted /\ x.handled = watch[w].handled
    PROVE  Inv'
<1>1. /\ watch'[w] = x
      /\ \A v \in Watches : v # w => watch'[v] = watch[v]
  BY DEF Inv, TypeOK
<1>2. watch' \in [Watches -> Watch]
  BY DEF Inv, TypeOK
<1>3. TypeOK'
  BY <1>1, <1>2 DEF Inv, TypeOK
<1>4. Owned'
  BY <1>1 DEF Inv, Owned, Streaming, StreamPhase
<1>5. Known'
  BY <1>1 DEF Inv, Known, ToldTruly
<1>6. NoHoles'
  BY DEF Inv, NoHoles
<1>7. InStep'
  BY <1>1 DEF Inv, InStep, Streaming, StreamPhase
<1> QED
  BY <1>3, <1>4, <1>5, <1>6, <1>7 DEF Inv

-----------------------------------------------------------------------------
\* A step after which the store is empty and one watch is wanted at most.
LEMMA MountInv ==
    ASSUME Inv, NEW r \in Runs, NEW w \in Watches, NEW others,
           \A v \in Watches :
               /\ others[v] \in Watch
               /\ others[v].wanted = FALSE
               /\ others[v].phase \notin StreamPhase
               /\ others[v].run = NoRun <=> others[v].phase = "free"
               /\ others[v].phase # "free" => ToldTruly(others[v]),
           Mount(r, w, others), answers' \subseteq Runs,
           UNCHANGED <<last, end, drops>>
    PROVE  Inv'
<1> DEFINE new == WatchOf(r, "fetching", TRUE)
<1>0. r # NoRun /\ last[r] \in Nat /\ last \in [Runs -> Nat]
  BY RunAssumption DEF Inv, TypeOK
<1>1. /\ new \in Watch /\ new.run = r /\ new.phase = "fetching"
      /\ new.wanted = TRUE /\ ToldTruly(new)
  BY <1>0 DEF WatchOf, Watch, Phase, ToldTruly
<1> HIDE DEF new
<1>2. /\ watch'[w] = new
      /\ \A v \in Watches : v # w => watch'[v] = others[v]
      /\ watch' \in [Watches -> Watch]
  BY <1>1 DEF Mount, new
<1>3. view' = ViewFromStart /\ page' = r
  BY DEF Mount
<1>4. TypeOK'
  <2>1. visits' \in 0 .. MaxVisits
    BY BoundsAssumption DEF Mount, Inv, TypeOK
  <2>2. \A v \in Watches : watch'[v].run = NoRun <=> watch'[v].phase = "free"
    BY <1>0, <1>1, <1>2
  <2>3. /\ overwritten' \in BOOLEAN /\ refused' \in BOOLEAN
    BY DEF Mount
  <2>4. /\ view' = [run |-> view'.run, at |-> view'.at, events |-> view'.events]
        /\ view'.run \in Runs \cup {NoRun} /\ view'.at \in Nat
        /\ view'.events \in [DOMAIN view'.events -> Runs]
    BY <1>3, NewFacts
  <2> QED
    BY <1>2, <1>3, <2>1, <2>2, <2>3, <2>4 DEF Inv, TypeOK
<1>5. Owned'
  BY <1>0, <1>1, <1>2, <1>3 DEF Owned, Streaming, StreamPhase
<1>6. Known'
  BY <1>1, <1>2 DEF Known, ToldTruly
<1>7. NoHoles'
  <2>1. 0 \in 0 .. last[r] /\ view'.events = [n \in 1 .. 0 |-> r]
    BY <1>0, <1>3, NewFacts
  <2> QED
    BY <1>3, <2>1 DEF NoHoles
<1>8. InStep'
  BY <1>1, <1>2 DEF InStep, Streaming, StreamPhase
<1> QED
  BY <1>4, <1>5, <1>6, <1>7, <1>8 DEF Inv

\* What the cleanup makes of a watch: nobody's, and not a stream.
LEMMA UnmountedFacts ==
    ASSUME Inv, NEW w \in Watches
    PROVE  /\ Unmounted(w) \in Watch
           /\ Unmounted(w).wanted = FALSE
           /\ Unmounted(w).phase \notin StreamPhase
           /\ Unmounted(w).run = NoRun <=> Unmounted(w).phase = "free"
           /\ Unmounted(w).phase # "free" => ToldTruly(Unmounted(w))
<1>1. CASE watch[w].phase = "fetching"
  <2>1. /\ watch[w] \in Watch /\ ToldTruly(watch[w]) /\ watch[w].run # NoRun
    BY <1>1 DEF Inv, TypeOK, Known
  <2>2. Unmounted(w) = [watch[w] EXCEPT !.wanted = FALSE]
    BY <1>1 DEF Unmounted
  <2> QED
    BY <1>1, <2>1, <2>2 DEF Watch, StreamPhase, ToldTruly
<1>2. CASE watch[w].phase # "fetching"
  BY <1>2, NewFacts DEF Unmounted, StreamPhase
<1> QED
  BY <1>1, <1>2

LEMMA VisitInv ==
    ASSUME Inv, NEW r \in Runs, NEW w \in Watches, Visit(r, w)
    PROVE  Inv'
<1> DEFINE others == [v \in Watches |-> Unmounted(v)]
<1>1. \A v \in Watches : others[v] = Unmounted(v)
  OBVIOUS
<1>2. /\ Mount(r, w, others)
      /\ answers' \subseteq Runs /\ UNCHANGED <<last, end, drops>>
  BY DEF Visit, Inv, TypeOK
<1> HIDE DEF others
<1> QED
  BY <1>1, <1>2, UnmountedFacts, MountInv

LEMMA ReloadInv ==
    ASSUME Inv, NEW w \in Watches, Reload(w)
    PROVE  Inv'
<1> DEFINE others == [v \in Watches |-> Unused]
<1>1. page \in Runs
  BY DEF Reload, Inv, TypeOK
<1>2. \A v \in Watches : others[v] = Unused
  OBVIOUS
<1>3. /\ Mount(page, w, others)
      /\ answers' \subseteq Runs /\ UNCHANGED <<last, end, drops>>
  BY DEF Reload
<1> HIDE DEF others
<1>4. \A v \in Watches :
         /\ others[v] \in Watch /\ others[v].wanted = FALSE
         /\ others[v].phase \notin StreamPhase
         /\ others[v].run = NoRun <=> others[v].phase = "free"
         /\ others[v].phase # "free" => ToldTruly(others[v])
  BY <1>2, NewFacts DEF StreamPhase
<1> QED
  BY <1>1, <1>3, <1>4, MountInv

LEMMA LeaveInv == ASSUME Inv, Leave PROVE Inv'
<1>1. \A w \in Watches : watch'[w] = Unmounted(w)
  BY DEF Leave
<1>2. \A w \in Watches :
         /\ watch'[w] \in Watch
         /\ watch'[w].wanted = FALSE
         /\ watch'[w].phase \notin StreamPhase
         /\ watch'[w].run = NoRun <=> watch'[w].phase = "free"
         /\ watch'[w].phase # "free" => ToldTruly(watch'[w])
  BY <1>1, UnmountedFacts
<1>3. TypeOK'
  BY <1>1, <1>2 DEF Leave, Inv, TypeOK
<1>4. Owned' /\ Known' /\ InStep' /\ NoHoles'
  BY <1>2 DEF Leave, Owned, Known, InStep, NoHoles, Streaming, StreamPhase, ToldTruly
<1> QED
  BY <1>3, <1>4 DEF Inv

-----------------------------------------------------------------------------
\* Events are only added, so whatever was told of them stays true.
LEMMA GrowInv ==
    ASSUME Inv, NEW r \in Runs, last[r] < last'[r],
           last' \in [Runs -> Nat \ {0}], end' \in [Runs -> Nat],
           \A s \in Runs : s # r => last'[s] = last[s],
           UNCHANGED <<page, view, overwritten, refused, visits, watch, drops>>,
           answers' \subseteq Runs
    PROVE  Inv'
<1>1. \A s \in Runs : last[s] \in Nat /\ last'[s] \in Nat /\ last[s] <= last'[s]
  BY DEF Inv, TypeOK
<1>2. TypeOK'
  BY DEF Inv, TypeOK
<1>3. Owned' /\ InStep'
  BY DEF Inv, Owned, InStep, Streaming
<1>4. Known'
  <2> SUFFICES ASSUME NEW w \in Watches, watch[w].phase # "free"
               PROVE  ToldTruly(watch[w])'
    BY DEF Known
  <2>1. watch[w] \in Watch /\ watch[w].run \in Runs /\ ToldTruly(watch[w])
    BY DEF Inv, TypeOK, Known, Watch
  <2> QED
    BY <1>1, <2>1 DEF ToldTruly, Watch
<1>5. NoHoles'
  <2> SUFFICES ASSUME page # NoRun, ~overwritten
               PROVE  \E k \in 0 .. last'[page] : view.events = [n \in 1 .. k |-> page]
    BY DEF NoHoles
  <2>1. PICK k \in 0 .. last[page] : view.events = [n \in 1 .. k |-> page]
    BY DEF Inv, NoHoles
  <2>2. page \in Runs
    BY DEF Inv, TypeOK
  <2>3. k \in 0 .. last'[page]
    BY <1>1, <2>2
  <2> QED
    BY <2>1, <2>3
<1> QED
  BY <1>2, <1>3, <1>4, <1>5 DEF Inv

LEMMA CommitInv ==
    ASSUME Inv, NEW r \in Runs, NEW n \in 1 .. MaxSequence[r], Commit(r, n)
    PROVE  Inv'
<1>1. last' \in [Runs -> Nat \ {0}] /\ end' \in [Runs -> Nat]
  BY BoundsAssumption DEF Commit, Feed!Ends, Inv, TypeOK
<1> QED
  BY <1>1, GrowInv DEF Commit, browser, Inv, TypeOK

LEMMA CancelRunInv == ASSUME Inv, CancelRun PROVE Inv'
<1>1. page \in Runs
  BY DEF CancelRun, Inv, TypeOK
<1>2. /\ last' \in [Runs -> Nat \ {0}] /\ end' \in [Runs -> Nat]
      /\ last[page] < last'[page]
  BY <1>1 DEF CancelRun, Inv, TypeOK
<1> QED
  BY <1>1, <1>2, GrowInv DEF CancelRun, Inv, TypeOK

-----------------------------------------------------------------------------
\* The steps that only move one watch along.
LEMMA MoveInv ==
    ASSUME Inv, NEW w \in Watches,
           \/ AnswerRow(w) \/ AnswerHistory(w) \/ FetchFails(w)
           \/ Connect(w) \/ ConnectRefused(w) \/ Drop(w)
           \/ ReadEvents(w) \/ ReadRun(w) \/ DeliverFinish(w)
    PROVE  Inv'
<1> DEFINE x == watch[w]
<1>0. /\ x \in Watch
      /\ x.phase # "free" => x.run \in Runs /\ x.run # NoRun /\ ToldTruly(x)
      /\ x.wanted => x.phase # "free" \/ x.run = page
      /\ x.phase \in StreamPhase => Streaming(w) /\ x.wanted
  BY RunAssumption DEF Inv, TypeOK, Known, Owned, Watch, Streaming, StreamPhase
<1>00. ASSUME \/ AnswerRow(w) \/ AnswerHistory(w) \/ Connect(w)
              \/ ReadEvents(w) \/ ReadRun(w)
       PROVE  /\ UNCHANGED <<last, end, page, view, overwritten, visits>>
              /\ answers' \subseteq Runs /\ refused' \in BOOLEAN
              /\ drops' \in 0 .. MaxDrops
  BY <1>00 DEF AnswerRow, AnswerHistory, Connect, ReadEvents, ReadRun, browser, Inv, TypeOK
<1>1. CASE AnswerRow(w)
  <2> DEFINE y == [x EXCEPT !.row = last[x.run]]
  <2>1. watch' = [watch EXCEPT ![w] = y]
    BY <1>1 DEF AnswerRow
  <2>2. /\ y \in Watch /\ y.phase = "fetching" /\ y.run = x.run
        /\ y.wanted = x.wanted /\ ToldTruly(y)
    BY <1>0, <1>1 DEF AnswerRow, Watch, ToldTruly, Inv, TypeOK
  <2> HIDE DEF y
  <2>5. x.phase # "free" /\ x.run # NoRun
    BY <1>0, <1>1 DEF AnswerRow
  <2> QED
    BY <1>0, <1>00, <1>1, <2>1, <2>2, <2>5, WatchStep DEF AnswerRow, StreamPhase
<1>2. CASE AnswerHistory(w)
  <2> DEFINE y == [x EXCEPT !.history = LastListed(x.run, 0)]
  <2>1. watch' = [watch EXCEPT ![w] = y]
    BY <1>2 DEF AnswerHistory
  <2>2. LastListed(x.run, 0) \in Nat /\ LastListed(x.run, 0) <= last[x.run]
    BY <1>0, <1>2, ListedExists DEF AnswerHistory, Inv
  <2>3. /\ y \in Watch /\ y.phase = "fetching" /\ y.run = x.run
        /\ y.wanted = x.wanted /\ ToldTruly(y)
    BY <1>0, <1>2, <2>2 DEF AnswerHistory, Watch, ToldTruly
  <2> HIDE DEF y
  <2>5. x.phase # "free" /\ x.run # NoRun
    BY <1>0, <1>2 DEF AnswerHistory
  <2> QED
    BY <1>0, <1>00, <1>2, <2>1, <2>3, <2>5, WatchStep DEF AnswerHistory, StreamPhase
<1>3. CASE FetchFails(w) \/ ConnectRefused(w) \/ DeliverFinish(w)
  <2>1. watch' = [watch EXCEPT ![w] = Unused]
    BY <1>3 DEF FetchFails, ConnectRefused, DeliverFinish
  <2>2. answers' \subseteq Runs /\ refused' \in BOOLEAN
    BY <1>0, <1>3 DEF FetchFails, ConnectRefused, DeliverFinish, Inv, TypeOK
  <2>3. UNCHANGED <<last, end, page, view, overwritten, visits, drops>>
    BY <1>3 DEF FetchFails, ConnectRefused, DeliverFinish
  <2> QED
    BY <2>1, <2>2, <2>3, NewFacts, WatchStep DEF StreamPhase, Inv, TypeOK
<1>4. CASE Connect(w)
  <2> DEFINE y == [x EXCEPT !.phase = "reading", !.handled = StartAfter(w),
                            !.yielded = StartAfter(w), !.batch = StartAfter(w)]
  <2>1. watch' = [watch EXCEPT ![w] = y]
    BY <1>4 DEF Connect
  <2>2. /\ y \in Watch /\ y.phase = "reading" /\ y.run = x.run
        /\ y.wanted = x.wanted /\ y.handled = x.handled /\ ToldTruly(y)
    BY <1>0, <1>4 DEF Connect, StartAfter, Watch, ToldTruly, Phase
  <2> HIDE DEF y
  <2>5. x.phase # "free" /\ x.run # NoRun
    BY <1>0, <1>4 DEF Connect
  <2> QED
    BY <1>0, <1>00, <1>4, <2>1, <2>2, <2>5, WatchStep DEF Connect, StreamPhase
<1>5. CASE Drop(w)
  <2> DEFINE y == [x EXCEPT !.phase = "connecting", !.yielded = 0, !.batch = 0]
  <2>1. watch' = [watch EXCEPT ![w] = y]
    BY <1>5 DEF Drop
  <2>2. /\ y \in Watch /\ y.phase = "connecting" /\ y.run = x.run
        /\ y.wanted = x.wanted /\ y.handled = x.handled
    BY <1>0, <1>5 DEF Drop, Watch, Phase
  <2>3. ToldTruly(y)
    BY <1>0, <1>5, <2>2 DEF Drop, Watch, ToldTruly, Inv, TypeOK
  <2>4. drops' \in 0 .. MaxDrops
    BY <1>5, BoundsAssumption DEF Drop, Inv, TypeOK
  <2> HIDE DEF y
  <2>5. x.phase # "free" /\ x.run # NoRun
    BY <1>0, <1>5 DEF Drop
  <2>6. /\ UNCHANGED <<last, end, page, view, overwritten, visits>>
        /\ answers' \subseteq Runs /\ refused' \in BOOLEAN
    BY <1>5 DEF Drop, browser, Inv, TypeOK
  <2> QED
    BY <1>0, <1>5, <2>1, <2>2, <2>3, <2>4, <2>5, <2>6, WatchStep DEF Drop, StreamPhase
<1>6. CASE ReadEvents(w)
  <2> DEFINE y == [x EXCEPT !.phase = "read", !.batch = LastListed(x.run, x.yielded)]
  <2>1. watch' = [watch EXCEPT ![w] = y]
    BY <1>6 DEF ReadEvents
  <2>2. LastListed(x.run, x.yielded) \in Nat /\ LastListed(x.run, x.yielded) <= last[x.run]
    BY <1>0, <1>6, ListedExists DEF ReadEvents, Inv, Watch
  <2>3. /\ y \in Watch /\ y.phase = "read" /\ y.run = x.run
        /\ y.wanted = x.wanted /\ y.handled = x.handled /\ ToldTruly(y)
    BY <1>0, <1>6, <2>2 DEF ReadEvents, Watch, ToldTruly, Phase
  <2> HIDE DEF y
  <2>5. x.phase # "free" /\ x.run # NoRun
    BY <1>0, <1>6 DEF ReadEvents
  <2> QED
    BY <1>0, <1>00, <1>6, <2>1, <2>3, <2>5, WatchStep DEF ReadEvents, StreamPhase
<1>7. CASE ReadRun(w)
  <2> DEFINE next == IF PollEnds(w) THEN "finished" ELSE "reading"
             y == [x EXCEPT !.phase = next, !.yielded = x.batch]
  <2>1. watch' = [watch EXCEPT ![w] = y]
    BY <1>7 DEF ReadRun
  <2>2. next \in {"finished", "reading"}
    OBVIOUS
  <2> HIDE DEF next
  <2>3. /\ y \in Watch /\ y.phase = next /\ y.run = x.run
        /\ y.wanted = x.wanted /\ y.handled = x.handled /\ ToldTruly(y)
    BY <1>0, <1>7, <2>2 DEF ReadRun, Watch, ToldTruly, Phase
  <2> HIDE DEF y
  <2>5. x.phase # "free" /\ x.run # NoRun
    BY <1>0, <1>7 DEF ReadRun
  <2> QED
    BY <1>0, <1>00, <1>7, <2>1, <2>2, <2>3, <2>5, WatchStep DEF ReadRun, StreamPhase
<1> QED
  BY <1>1, <1>2, <1>3, <1>4, <1>5, <1>6, <1>7

\* Both requests of w were answered: the store is set to what they were told.
LEMMA ResolveInv == ASSUME Inv, NEW w \in Watches, Resolve(w) PROVE Inv'
<1> DEFINE x == watch[w]
           k == x.history
           started == [WatchOf(x.run, "connecting", TRUE) EXCEPT !.handled = Cursor(w)]
           y == IF StreamWanted(w) THEN started ELSE Unused
<1>1. /\ x \in Watch /\ x.run \in Runs /\ x.run # NoRun /\ ToldTruly(x)
      /\ k \in Nat /\ x.row \in Nat /\ last[x.run] \in Nat
  BY RunAssumption DEF Resolve, Inv, TypeOK, Known, Watch
<1>2. /\ started \in Watch /\ started.run = x.run /\ started.phase = "connecting"
      /\ started.wanted = TRUE /\ started.handled = k /\ ToldTruly(started)
  <2> DEFINE s == WatchOf(x.run, "connecting", TRUE)
  <2>1. /\ s \in Watch /\ s.run = x.run /\ s.phase = "connecting"
        /\ s.wanted = TRUE /\ ToldTruly(s)
    BY <1>1 DEF WatchOf, Watch, Phase, ToldTruly
  <2> HIDE DEF s
  <2>2. started = [s EXCEPT !.handled = k]
    BY DEF s, Cursor
  <2> HIDE DEF started
  <2>3. started \in Watch /\ started.handled = k
    BY <1>1, <2>1, <2>2 DEF Watch
  <2>4. /\ started.run = s.run /\ started.phase = s.phase /\ started.wanted = s.wanted
        /\ started.row = s.row /\ started.history = s.history
        /\ started.yielded = s.yielded /\ started.batch = s.batch
    BY <2>1, <2>2 DEF Watch
  <2> QED
    BY <1>1, <2>1, <2>3, <2>4 DEF ToldTruly
<1>3. /\ StreamWanted(w) => y = started /\ x.wanted
      /\ ~StreamWanted(w) => y = Unused
  BY DEF StreamWanted
<1>4. watch' = [watch EXCEPT ![w] = y]
  BY DEF Resolve
<1> HIDE DEF started, y
<1>5. /\ watch'[w] = y
      /\ \A v \in Watches : v # w => watch'[v] = watch[v]
      /\ watch' \in [Watches -> Watch]
  BY <1>2, <1>3, <1>4, NewFacts DEF Inv, TypeOK
<1>6. TypeOK'
  <2>1. \A v \in Watches : watch'[v].run = NoRun <=> watch'[v].phase = "free"
    <3>1. y.run = NoRun <=> y.phase = "free"
      BY <1>1, <1>2, <1>3, NewFacts
    <3> QED
      BY <1>5, <3>1 DEF Inv, TypeOK
  <2>2. /\ view' = [run |-> view'.run, at |-> view'.at, events |-> view'.events]
        /\ view'.run \in Runs \cup {NoRun} /\ view'.at \in Nat
        /\ view'.events \in [DOMAIN view'.events -> Runs]
    BY <1>1 DEF Resolve
  <2>3. overwritten' \in BOOLEAN
    BY DEF Resolve
  <2> QED
    BY <1>5, <2>1, <2>2, <2>3 DEF Resolve, Inv, TypeOK
<1>7. Owned'
  BY <1>2, <1>3, <1>5, NewFacts DEF Resolve, Inv, Owned, Streaming
<1>8. Known'
  BY <1>2, <1>3, <1>5, NewFacts DEF Resolve, Inv, Known, ToldTruly
<1>9. ASSUME ~overwritten'
      PROVE  /\ x.run = page /\ page' = page
             /\ view'.events = [n \in 1 .. k |-> page]
  BY <1>9 DEF Resolve, Inv, Owned, TypeOK, Watch
<1>10. NoHoles'
  <2>1. k \in 0 .. last[x.run] /\ last' = last
    BY <1>1 DEF Resolve, ToldTruly
  <2> QED
    BY <1>9, <2>1 DEF NoHoles
<1>11. InStep'
  <2> SUFFICES ASSUME ~overwritten', NEW v \in Watches, Streaming(v)'
               PROVE  view'.events = [n \in 1 .. watch'[v].handled |-> page']
    BY DEF InStep
  <2>1. x.wanted /\ x.phase = "fetching"
    BY DEF Resolve, Inv, TypeOK, Watch
  <2>2. v = w
    BY <2>1, <1>5 DEF Inv, Owned, Streaming
  <2>3. watch'[v].handled = k
    BY <1>2, <1>3, <1>5, <2>2, NewFacts DEF Streaming
  <2> QED
    BY <1>9, <2>3
<1> QED
  BY <1>6, <1>7, <1>8, <1>10, <1>11 DEF Inv

\* One event is handled: the store grows by it.
LEMMA DeliverInv == ASSUME Inv, NEW w \in Watches, Deliver(w) PROVE Inv'
<1> DEFINE x == watch[w]
           n == x.handled + 1
           y == [x EXCEPT !.handled = n]
<1>1. /\ x \in Watch /\ x.run \in Runs /\ x.run = page /\ page # NoRun /\ ToldTruly(x)
      /\ x.wanted /\ Streaming(w) /\ n \in Nat /\ n <= x.yielded /\ last[x.run] \in Nat
      /\ x.handled \in Nat /\ x.yielded \in Nat
  BY RunAssumption DEF Deliver, Inv, TypeOK, Known, Owned, Streaming, Watch
<1>2. /\ y \in Watch /\ y.run = x.run /\ y.phase = x.phase /\ y.wanted = x.wanted
      /\ y.handled = n /\ ToldTruly(y)
  <2>1. /\ y \in Watch /\ y.run = x.run /\ y.phase = x.phase /\ y.wanted = x.wanted
        /\ y.handled = n /\ y.row = x.row /\ y.history = x.history
        /\ y.yielded = x.yielded /\ y.batch = x.batch
    BY <1>1 DEF Watch
  <2>2. n <= last[x.run]
    BY <1>1 DEF ToldTruly
  <2> HIDE DEF y
  <2> QED
    BY <1>1, <2>1, <2>2 DEF ToldTruly
<1>3. /\ watch'[w] = y
      /\ \A v \in Watches : v # w => watch'[v] = watch[v]
      /\ watch' \in [Watches -> Watch]
  BY <1>2 DEF Deliver, Inv, TypeOK
<1>4. /\ view'.events = MergeEvent(view.events, n, x.run)
      /\ view'.run = view.run
      /\ view'.at = IF view.run = NoRun THEN view.at ELSE n
      /\ view' = [run |-> view'.run, at |-> view'.at, events |-> view'.events]
  BY DEF Deliver, Inv, TypeOK
<1>5. TypeOK'
  <2>1. \A v \in Watches : watch'[v].run = NoRun <=> watch'[v].phase = "free"
    <3>1. y.run = NoRun <=> y.phase = "free"
      BY <1>2 DEF Inv, TypeOK
    <3> HIDE DEF y
    <3> QED  BY <1>3, <3>1 DEF Inv, TypeOK
  <2>2. view'.events \in [DOMAIN view'.events -> Runs]
    BY <1>1, <1>4 DEF MergeEvent, Inv, TypeOK
  <2>3. view'.run \in Runs \cup {NoRun} /\ view'.at \in Nat
    BY <1>1, <1>4 DEF Inv, TypeOK
  <2> QED
    BY <1>3, <1>4, <2>1, <2>2, <2>3 DEF Deliver, Inv, TypeOK
<1>6. Owned'
  BY <1>2, <1>3 DEF Deliver, Inv, Owned, Streaming
<1>7. Known'
  BY <1>2, <1>3 DEF Deliver, Inv, Known, ToldTruly
<1>8. ASSUME ~overwritten
      PROVE  view'.events = [m \in 1 .. n |-> page]
  <2>1. view.events = [m \in 1 .. x.handled |-> page]
    BY <1>1, <1>8 DEF Inv, InStep
  <2>2. DOMAIN view.events = 1 .. x.handled /\ \A m \in 1 .. x.handled : view.events[m] = page
    BY <2>1
  <2>3. (1 .. x.handled) \cup {n} = 1 .. n
    BY <1>1
  <2>4. MergeEvent(view.events, n, page) =
          [m \in 1 .. n |-> IF m \in 1 .. x.handled THEN view.events[m] ELSE page]
    BY <2>2, <2>3 DEF MergeEvent
  <2> QED
    BY <1>1, <1>4, <2>2, <2>4
<1>9. UNCHANGED <<last, page, overwritten>>
  BY DEF Deliver
<1>10. NoHoles'
  <2>1. n \in 0 .. last[page]
    BY <1>1 DEF ToldTruly
  <2> QED
    BY <1>8, <1>9, <2>1 DEF NoHoles
<1>11. InStep'
  <2> SUFFICES ASSUME ~overwritten, NEW v \in Watches, Streaming(v)'
               PROVE  view'.events = [m \in 1 .. watch'[v].handled |-> page]
    BY <1>9 DEF InStep
  <2>1. v = w
    BY <1>1, <1>3 DEF Inv, Owned, Streaming
  <2> QED
    BY <1>2, <1>3, <1>8, <2>1
<1> QED
  BY <1>5, <1>6, <1>7, <1>10, <1>11 DEF Inv

\* A final row reaches the store, or is lost on its way.
LEMMA AnswerInv ==
    ASSUME Inv, NEW r \in Runs, Answer(r) \/ AnswerFails(r)
    PROVE  Inv'
<1>1. /\ view'.events = view.events
      /\ overwritten' \in BOOLEAN /\ (~overwritten' => ~overwritten)
      /\ UNCHANGED <<last, end, page, watch>>
  BY DEF Answer, AnswerFails, Inv, TypeOK
<1>2. TypeOK'
  <2>1. /\ view' = [run |-> view'.run, at |-> view'.at, events |-> view'.events]
        /\ view'.run \in Runs \cup {NoRun} /\ view'.at \in Nat
    BY DEF Answer, AnswerFails, Inv, TypeOK
  <2>2. answers' \subseteq Runs /\ refused' \in BOOLEAN /\ UNCHANGED <<visits, drops>>
    BY DEF Answer, AnswerFails, Inv, TypeOK
  <2> QED
    BY <1>1, <2>1, <2>2 DEF Inv, TypeOK
<1>3. Owned' /\ Known' /\ NoHoles' /\ InStep'
  BY <1>1 DEF Inv, Owned, Known, ToldTruly, NoHoles, InStep, Streaming
<1> QED
  BY <1>2, <1>3 DEF Inv

-----------------------------------------------------------------------------
\* Every step of the browser and of the server keeps the invariant.
THEOREM NextInv == Inv /\ [Next]_vars => Inv'
<1> SUFFICES ASSUME Inv, [Next]_vars PROVE Inv'
  OBVIOUS
<1>1. CASE Next
  BY <1>1, CommitInv, VisitInv, ReloadInv, LeaveInv, CancelRunInv, MoveInv,
     ResolveInv, DeliverInv, AnswerInv
  DEF Next, Progress
<1>2. CASE UNCHANGED vars
  BY <1>2 DEF vars, browser, Inv, TypeOK, Owned, Known, ToldTruly, NoHoles,
     InStep, Streaming
<1> QED
  BY <1>1, <1>2

\* The invariant holds for ever.
THEOREM Invariance == Spec => []Inv
BY InitInv, NextInv, PTL DEF Spec

\* The store, the watches and the table of runs keep their types.
THEOREM TypeCorrect == Spec => []TypeOK
<1>1. Inv => TypeOK
  BY DEF Inv
<1> QED
  BY <1>1, Invariance, PTL

\* Until an answer for an earlier page comes late, the page shows a gap-free
\* beginning of its run's timeline.
THEOREM TimelineHasNoHoles == Spec => []NoHoles
<1>1. Inv => NoHoles
  BY DEF Inv
<1> QED
  BY <1>1, Invariance, PTL

\* A reconnected stream sends nothing such a page has already.
THEOREM ReconnectReplaysNothing == Spec => []NothingReplayed
<1>1. Inv => NothingReplayed
  <2> SUFFICES ASSUME Inv, ~overwritten, NEW w \in Watches,
                      watch[w].phase \in {"reading", "read", "finished"},
                      NEW n \in watch[w].handled + 1 .. watch[w].yielded
               PROVE  n \notin DOMAIN view.events
    BY DEF NothingReplayed
  <2>1. DOMAIN view.events = 1 .. watch[w].handled
    BY DEF Inv, InStep, Streaming
  <2>2. watch[w].handled \in Nat /\ watch[w].yielded \in Nat
    BY DEF Inv, TypeOK, Watch
  <2> QED
    BY <2>1, <2>2
<1> QED
  BY <1>1, Invariance, PTL

\* Opening and leaving pages never leaves a stream behind.
THEOREM NoStreamIsLeftBehind == Spec => []OneStream
<1>1. Inv => OneStream
  BY DEF Inv, Owned, OneStream
<1> QED
  BY <1>1, Invariance, PTL
=============================================================================
