----------------------------- MODULE EventStream -----------------------------
(***************************************************************************)
(* How a run's timeline reaches the page of a browser: the history and     *)
(* stream routes of the API (`api/routes/runs.py`), the EventSource        *)
(* wrapper (`lib/sse.ts`), the store every page shares                     *)
(* (`stores/runStore.ts`) and the page that drives it (`RunPage.tsx`).     *)
(*                                                                         *)
(* A run's timeline is what EventLog shows it to be, a gap-free sequence   *)
(* that only grows, so an event is its number.  Of the run's state only    *)
(* one thing matters here: from which event on it is terminal.  A row the  *)
(* browser was given is told by the last event it had when it was read.    *)
(*                                                                         *)
(* A watch is one call of `watch`: two requests answered in any order and  *)
(* at any time, then a stream.  JavaScript runs to completion, so what     *)
(* `watch` does after both answers is one step.  Leaving the page cannot   *)
(* take back the requests.  The frames the server has yielded and the      *)
(* browser has not handled are on their way, in order.                     *)
(***************************************************************************)
EXTENDS Naturals

CONSTANTS
    Runs,          \* runs somebody looks at
    NoRun,         \* no run page is open, or nothing is in the store
    Watches,       \* calls of watch that can be under way at once
    Limit,         \* most events one list_events returns (500 in the code)
    MaxSequence,   \* bound on event sequences, per run
    MaxVisits,     \* bound on how often a run page is opened or reloaded
    MaxDrops       \* bound on broken connections

ASSUME RunAssumption == NoRun \notin Runs
ASSUME LimitAssumption == Limit \in Nat \ {0}
ASSUME BoundsAssumption ==
    MaxSequence \in [Runs -> Nat] /\ MaxVisits \in Nat /\ MaxDrops \in Nat

VARIABLES
    last,          \* per run: the last committed event
    end,           \* per run: the event that ended it, 0 while it is not over
    page,          \* the run whose page is open
    view,          \* the store: run and age of its row, events by sequence
    watch,         \* the watches: run, phase, whether the page still wants it,
                   \* the answers to its two requests (0: none yet), and the
                   \* last event handled, yielded by the server and just read
    answers,       \* runs whose final row is on its way to the store
    overwritten,   \* an answer for an earlier page has changed the store
    refused,       \* a request of this page was answered with an error
    visits, drops  \* how many there were so far

browser == <<page, view, answers, overwritten, refused, visits>>
vars == <<last, end, browser, watch, drops>>

\* The timeline of run r, as EventLog shows that it grows.
Feed(r) == INSTANCE TimelineFeed WITH last <- last[r], end <- end[r]

\* The run is over in the row that had n events.
Over(r, n) == Feed(r)!Over(n)

\* list_events: what it returns ends here, when it starts after `cursor`.
LastListed(r, cursor) ==
    IF last[r] > cursor + Limit THEN cursor + Limit ELSE last[r]

Streaming(w) == watch[w].phase \in {"connecting", "reading", "read", "finished"}

\* reset(): an empty store.
ViewFromStart == [run |-> NoRun, at |-> 0, events |-> [n \in {} |-> NoRun]]

\* mergeEvent: an event whose sequence is there already is ignored.
MergeEvent(events, n, r) ==
    [m \in DOMAIN events \cup {n} |-> IF m \in DOMAIN events THEN events[m] ELSE r]

WatchOf(r, phase, wanted) ==
    [run |-> r, phase |-> phase, wanted |-> wanted, row |-> 0, history |-> 0,
     handled |-> 0, yielded |-> 0, batch |-> 0]

Unused == WatchOf(NoRun, "free", FALSE)

-----------------------------------------------------------------------------
\* Each run has the event create_run committed with it.
Init ==
    /\ last = [r \in Runs |-> 1]
    /\ end = [r \in Runs |-> 0]
    /\ page = NoRun
    /\ view = ViewFromStart
    /\ watch = [w \in Watches |-> Unused]
    /\ answers = {}
    /\ overwritten = FALSE
    /\ refused = FALSE
    /\ visits = 0
    /\ drops = 0

\* A worker or a request commits one or more events of a run; one of them may
\* end it, and nothing but annotations follows that one.
Commit(r, n) ==
    /\ last[r] < n
    /\ last' = [last EXCEPT ![r] = n]
    /\ \E final \in Feed(r)!Ends(n) : end' = [end EXCEPT ![r] = final]
    /\ UNCHANGED <<browser, watch, drops>>

-----------------------------------------------------------------------------
\* Mutant of Unmounted: the cleanup forgets the run the requests are for.
UnmountedNoRun(w) ==
    IF watch[w].phase = "fetching"
    THEN [watch[w] EXCEPT !.wanted = FALSE, !.run = NoRun]
    ELSE Unused

\* The effect's cleanup: an open stream is closed, a watch that has not
\* resolved yet is marked, because its requests cannot be taken back.
Unmounted(w) ==
    IF watch[w].phase = "fetching"
    THEN [watch[w] EXCEPT !.wanted = FALSE]
    ELSE Unused

\* The page of run r is mounted: watch(r) starts its two requests.
Mount(r, w, others) ==
    /\ visits < MaxVisits
    /\ visits' = visits + 1
    /\ page' = r
    /\ view' = ViewFromStart
    /\ watch' = [v \in Watches |->
                    IF v = w THEN WatchOf(r, "fetching", TRUE) ELSE others[v]]
    /\ overwritten' = FALSE
    /\ refused' = FALSE

\* Another run's page, or a run's page after some other one, by a link: the
\* store and whatever is on its way to it live on.
Visit(r, w) ==
    /\ page # r
    /\ Unmounted(w).phase = "free"
    /\ Mount(r, w, [v \in Watches |-> Unmounted(v)])
    /\ UNCHANGED <<last, end, answers, drops>>

\* The browser reloads the page: nothing of the old one is left.
Reload(w) ==
    /\ page # NoRun
    /\ Mount(page, w, [v \in Watches |-> Unused])
    /\ answers' = {}
    /\ UNCHANGED <<last, end, drops>>

\* To a page that shows no run; the store keeps what it has.
Leave ==
    /\ page # NoRun
    /\ page' = NoRun
    /\ watch' = [v \in Watches |-> Unmounted(v)]
    /\ UNCHANGED <<last, end, view, answers, overwritten,
                   refused, visits, drops>>

-----------------------------------------------------------------------------
\* getRun, answered by the server.
AnswerRow(w) ==
    /\ watch[w].phase = "fetching"
    /\ watch[w].row = 0
    /\ watch' = [watch EXCEPT ![w].row = last[watch[w].run]]
    /\ UNCHANGED <<last, end, browser, drops>>

\* eventHistory from the start, answered by the server.
AnswerHistory(w) ==
    /\ watch[w].phase = "fetching"
    /\ watch[w].history = 0
    /\ watch' = [watch EXCEPT ![w].history = LastListed(watch[w].run, 0)]
    /\ UNCHANGED <<last, end, browser, drops>>

\* One of the two is refused, and watch sets an error and returns; that
\* counts only for the page that is open.
FetchFails(w) ==
    /\ watch[w].phase = "fetching"
    /\ watch' = [watch EXCEPT ![w] = Unused]
    /\ refused' = (refused \/ watch[w].wanted)
    /\ UNCHANGED <<last, end, page, view, answers, overwritten,
                   visits, drops>>

\* Mutant of Cursor: the stream starts after the event the row had.
CursorOfRow(w) == watch[w].row

\* lastSequence(), right after the history was put into the store.
Cursor(w) == watch[w].history

\* Mutant of StreamWanted: the caller forgets that it was unmounted.
StreamUnlessOver(w) == ~Over(watch[w].run, watch[w].row)

\* The stream is not opened for a run that is over, and closed at once if the
\* page was left before watch resolved (RunPage.tsx:54-57).
StreamWanted(w) == ~Over(watch[w].run, watch[w].row) /\ watch[w].wanted

\* Both answers are there: the store is set, whatever page it now belongs to.
Resolve(w) ==
    /\ watch[w].phase = "fetching"
    /\ watch[w].row # 0
    /\ watch[w].history # 0
    /\ view' = [run |-> watch[w].run, at |-> watch[w].row,
                events |-> [n \in 1 .. watch[w].history |-> watch[w].run]]
    /\ overwritten' = (overwritten \/ ~watch[w].wanted)
    /\ IF StreamWanted(w)
       THEN watch' = [watch EXCEPT
                         ![w] = [WatchOf(@.run, "connecting", TRUE) EXCEPT
                                    !.handled = Cursor(w)]]
       ELSE watch' = [watch EXCEPT ![w] = Unused]
    /\ UNCHANGED <<last, end, page, answers, refused, visits, drops>>

-----------------------------------------------------------------------------
\* Mutant of StartAfter: neither the URL's sequence nor Last-Event-ID is read.
StartFromTheFirst(w) == 0

\* The generator's first cursor: the larger of the sequence in the URL and of
\* Last-Event-ID, which is the last event the browser has handled.
StartAfter(w) == watch[w].handled

\* EventSource opens the stream, or opens it again by itself.
Connect(w) ==
    /\ watch[w].phase = "connecting"
    /\ watch' = [watch EXCEPT ![w].phase = "reading", ![w].handled = StartAfter(w),
                              ![w].yielded = StartAfter(w), ![w].batch = StartAfter(w)]
    /\ UNCHANGED <<last, end, browser, drops>>

\* The server answers the request with an error: EventSource gives up.
ConnectRefused(w) ==
    /\ watch[w].phase = "connecting"
    /\ watch' = [watch EXCEPT ![w] = Unused]
    /\ refused' = TRUE
    /\ UNCHANGED <<last, end, page, view, answers, overwritten,
                   visits, drops>>

\* The connection breaks; frames that are under way are lost with it.
Drop(w) ==
    /\ watch[w].phase \in {"reading", "read", "finished"}
    /\ drops < MaxDrops
    /\ drops' = drops + 1
    /\ watch' = [watch EXCEPT ![w].phase = "connecting", ![w].yielded = 0, ![w].batch = 0]
    /\ UNCHANGED <<last, end, browser>>

\* First statement of a poll: the events after the cursor.
ReadEvents(w) ==
    /\ watch[w].phase = "reading"
    /\ watch' = [watch EXCEPT ![w].phase = "read",
                              ![w].batch = LastListed(watch[w].run, watch[w].yielded)]
    /\ UNCHANGED <<last, end, browser, drops>>

\* Mutant of PollEnds: the generator goes on polling a run that is over.
PollNeverEnds(w) == FALSE

\* The run is terminal and there was no event after the cursor.
PollEnds(w) ==
    /\ Over(watch[w].run, last[watch[w].run])
    /\ watch[w].batch = watch[w].yielded

\* Second statement of a poll, the run; then its frames are yielded, and
\* run_finished if that was the last poll.
ReadRun(w) ==
    /\ watch[w].phase = "read"
    /\ watch' = [watch EXCEPT ![w].phase = IF PollEnds(w) THEN "finished" ELSE "reading",
                              ![w].yielded = watch[w].batch]
    /\ UNCHANGED <<last, end, browser, drops>>

\* A run_event frame: applyEvent merges the event and takes over its state.
Deliver(w) ==
    LET n == watch[w].handled + 1
    IN  /\ watch[w].phase \in {"reading", "read", "finished"}
        /\ watch[w].handled < watch[w].yielded
        /\ watch' = [watch EXCEPT ![w].handled = n]
        /\ view' = [view EXCEPT !.events = MergeEvent(@, n, watch[w].run),
                                !.at = IF view.run = NoRun THEN @ ELSE n]
        /\ UNCHANGED <<last, end, page, answers, overwritten, refused, visits, drops>>

\* The run_finished frame: the source is closed and refreshRun is called.
DeliverFinish(w) ==
    /\ watch[w].phase = "finished"
    /\ watch[w].handled = watch[w].yielded
    /\ watch' = [watch EXCEPT ![w] = Unused]
    /\ answers' = answers \cup {watch[w].run}
    /\ UNCHANGED <<last, end, page, view, overwritten, refused,
                   visits, drops>>

-----------------------------------------------------------------------------
\* The cancel button of the page, shown while the store's run is not over.
CancelRun ==
    /\ page # NoRun
    /\ view.run # NoRun
    /\ ~Over(view.run, view.at)
    /\ end[page] = 0
    /\ last[page] < MaxSequence[page]
    /\ last' = [last EXCEPT ![page] = @ + 1]
    /\ end' = [end EXCEPT ![page] = last[page] + 1]
    /\ answers' = answers \cup {page}
    /\ UNCHANGED <<page, view, watch, overwritten, refused,
                   visits, drops>>

\* refreshRun and cancel put the row they are given into the store.  The run
\* is over in it, so it does not matter when the server read it.
Answer(r) ==
    /\ r \in answers
    /\ answers' = answers \ {r}
    /\ view' = [view EXCEPT !.run = r, !.at = last[r]]
    /\ overwritten' = (overwritten \/ page # r)
    /\ UNCHANGED <<last, end, page, watch, refused, visits, drops>>

\* The request fails: cancel shows it, refreshRun does not.
AnswerFails(r) ==
    /\ r \in answers
    /\ answers' = answers \ {r}
    /\ refused' = (refused \/ page = r)
    /\ UNCHANGED <<last, end, page, view, watch, overwritten,
                   visits, drops>>

-----------------------------------------------------------------------------
\* The progress the system makes by itself.
Progress(w) ==
    \/ AnswerRow(w) \/ AnswerHistory(w) \/ Resolve(w)
    \/ Connect(w) \/ ReadEvents(w) \/ ReadRun(w)
    \/ DeliverFinish(w)

Next ==
    \/ \E r \in Runs : \E n \in 1 .. MaxSequence[r] : Commit(r, n)
    \/ \E r \in Runs, w \in Watches : Visit(r, w)
    \/ \E w \in Watches : Reload(w)
    \/ Leave
    \/ CancelRun
    \/ \E w \in Watches :
          \/ Progress(w)
          \/ Deliver(w)
          \/ FetchFails(w)
          \/ ConnectRefused(w)
          \/ Drop(w)
    \/ \E r \in Runs : Answer(r) \/ AnswerFails(r)

\* Requests are answered, connections opened, polls made every second, and
\* frames handled.  Nothing is asked of people and workers.
Fairness ==
    /\ \A w \in Watches : WF_vars(Progress(w)) /\ WF_vars(Deliver(w))
    /\ \A r \in Runs : WF_vars(Answer(r))

Spec == Init /\ [][Next]_vars /\ Fairness
-----------------------------------------------------------------------------
Phase == {"free", "fetching", "connecting", "reading", "read", "finished"}

Watch ==
    [run : Runs \cup {NoRun}, phase : Phase, wanted : BOOLEAN, row : Nat,
     history : Nat, handled : Nat, yielded : Nat, batch : Nat]

\* The store holds a row and events of runs, and every watch is free or, while
\* it waits for answers or has a stream, for a run.
TypeOK ==
    /\ last \in [Runs -> Nat \ {0}]
    /\ end \in [Runs -> Nat]
    /\ page \in Runs \cup {NoRun}
    /\ view = [run |-> view.run, at |-> view.at, events |-> view.events]
    /\ view.run \in Runs \cup {NoRun}
    /\ view.at \in Nat
    /\ view.events \in [DOMAIN view.events -> Runs]
    /\ watch \in [Watches -> Watch]
    /\ \A w \in Watches : watch[w].run = NoRun <=> watch[w].phase = "free"
    /\ answers \subseteq Runs
    /\ overwritten \in BOOLEAN
    /\ refused \in BOOLEAN
    /\ visits \in 0 .. MaxVisits
    /\ drops \in 0 .. MaxDrops

\* As long as no answer for an earlier page has changed the store, the page
\* shows the beginning of its own run's timeline, without a gap, through lost
\* connections, overlaps of history and stream, and histories that were cut
\* (runStore.ts:95).
NoHoles ==
    page # NoRun /\ ~overwritten =>
        \E k \in 0 .. last[page] : view.events = [n \in 1 .. k |-> page]

\* What is on its way to such a page was not shown yet: a reconnect with
\* Last-Event-ID replays nothing already seen (BUILD_PLAN.md:230).
NothingReplayed ==
    ~overwritten =>
        \A w \in Watches :
            watch[w].phase \in {"reading", "read", "finished"} =>
                \A n \in watch[w].handled + 1 .. watch[w].yielded :
                    n \notin DOMAIN view.events

\* There is one stream at most, for the run whose page is open, however pages
\* were opened and left while requests were under way (RunPage.tsx:56).
OneStream ==
    \A w \in Watches : Streaming(w) =>
        /\ watch[w].run = page
        /\ \A v \in Watches : Streaming(v) => v = w

\* A page that stays open shows that its run is over once it is, if none of
\* its requests was refused and no answer for an earlier page came late.
ViewSettles ==
    \A r \in Runs :
        (page = r /\ end[r] > 0) ~>
            \/ page # r
            \/ view.run = r /\ Over(r, view.at)
            \/ overwritten \/ refused
==============================================================================
