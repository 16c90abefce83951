# Pullsmith in TLA+

Pullsmith turns a GitHub issue into a reviewed pull request. A person starts a
*run*; a worker clones the repository, lets a language model explore, plan and
edit it, runs the tests and stores a diff; a person approves the diff; a worker
publishes it. This directory specifies that life of a run, checks it with TLC on
small instances and proves the most important parts with TLAPS for all of them.

Run, in this directory:

    tlc -workers 2 -config MCRunLifecycle.cfg MCRunLifecycle   # one of the runs
    tlapm EventLogProofs.tla                                   # one of the proofs

Paths below are relative to `src/backend/app/` unless they say otherwise.

## 1. Inventory

Two kinds of processes, API servers and workers, share one Postgres database.
Workers also share a directory of checkouts, and talk to GitHub, to a model and to
a sandbox. The browser reads runs and a stream of events from the API.

| Component | State | Operations | What makes it correct |
|---|---|---|---|
| Run state machine, `agent/states.py` | none | transition table and predicates | every change of a run follows an edge |
| Event service, `services/event_service.py` | `agent_run.state`, `last_event_sequence`, `agent_event` rows | `append_event`, `transition`, `list_events` | timeline gap-free, append-only, agrees with the run |
| Job queue, `services/job_queue.py` | `job` rows | `enqueue`, `claim_next`, `mark_*`, `reclaim_expired` | at least once, one owner at a time, settled in the end |
| Worker, `worker/main.py` | the job in hand | claim, handle, mark, record a failure | survives exceptions and crashes |
| Orchestrator, `agent/orchestrator.py` | scratch memory, the checkout | one step per state, `_rehydrate`, `_fail`, `_cleanup` | resumes truthfully, ends or parks |
| Review service, `services/review_service.py` | `agent_plan`, `run_diff`, `approval`, `pull_request` rows | store, `approve`, `reject`, `request_revision`, the push gate | nothing unapproved is published |
| Publishing, `orchestrator._publish`, `github/pr.py` | branch and pull request on GitHub | branch, one commit per file, open, record | exactly the reviewed change, recorded once |
| Run manager, `services/run_manager.py` | `agent_run` rows | `create_run`, `cancel_run` | one active run per issue; cancelled stays cancelled |
| Change set, `agent/diff.py`, `agent/tools/editing.py` | list of edits | record, collapse, compare | the diff is what changed on disk |
| Repair loop, `agent/repair.py`, `loop.py`, `testing.py`, `tools/base.py` | attempts, tool budget | edit, test, analyse, stop | bounded; success only with passing tests |
| Workspace, `rag/workspace.py` | checkout directory | clone, scan, `uncommitted_changes` | originals can be read back |
| Indexer, `rag/indexer.py` | snapshot, file, chunk, embedding rows | index, carry forward | a ready snapshot has every file |
| Chunking, `rag/chunk.py` | none | cut a file at its declarations, or into windows | every construct is found whole, once |
| Retrieval, `rag/retrieve.py`, `agent/runtime.py` | what a search has collected | search by vector and by text, fuse, merge queries | what two strategies agree on comes first |
| Embeddings, `rag/embeddings.py` | pacing | embed documents and queries | answers or fails for good |
| Event stream, `api/routes/runs.py`, `frontend/src`: `stores/runStore.ts`, `lib/sse.ts`, `pages/RunPage.tsx` | cursors; the browser's store | history, SSE, reconnect, merge, opening and leaving pages | every event shown once, in order; the end is shown |
| Providers, sandbox, GitHub client | retry counters, pacing | requests | bounded retries |
| Authentication, crypto, redaction, pages, scripts, migrations | sessions, tokens | | outside the life of a run |

How they interact:

* API request and worker handler each have one SQLAlchemy session. Sessions meet in
  the rows, under the row lock of `SELECT ... FOR UPDATE` and the unique constraints.
* The API gives work to workers through `job` rows, in the transaction that makes
  the work necessary. Workers find it by polling.
* Two workers meet in the job's lease, in the run's rows, and in the checkout, which
  nothing protects. They meet when a lease expires under a live worker, and because
  no worker renews its lease of 120 seconds, long runs do that.
* A step of the orchestrator is one transaction: first event (lock), model calls,
  edits and tests, commit. The checkout and GitHub change while it is open.

What is hard here: sessions that decide on stale copies under a lock; leases that
expire under a live worker; crashes between edits on disk and rows; answers of GitHub
that are lost after the call had its effect; people who cancel and decide at any
moment; one checkout that outlives transactions. PROJECT.json lists each hazard at
its line, with the properties that would catch it going wrong, or why none does yet.

## 2. Modules

| Module | Models | Composition |
|---|---|---|
| `RunStates` | the transition table, constant operators only | extended by `RunTimeline`, `ReviewedRun`, `EventLog`, `RunLifecycle`, `Publishing` |
| `RunTimeline` | abstract: a state and a timeline that grow together | implemented by `EventLog` |
| `TimelineFeed` | abstract: the length of a timeline and its end | implemented by `EventLog`, the ground of `EventStream` |
| `ReviewedRun` | abstract: a run, its diff, the decision and the pull request | implemented by `RunLifecycle`, `RepairLoop` and `Publishing`, a part of the run each |
| `JobDelivery` | abstract: a job is handed out, by attempts, until it is settled | implemented by `JobQueue`, `RunLifecycle` and `Publishing`, for each job |
| `EventLog` | sessions, row lock, identity maps, flush, commit | `Timeline == INSTANCE RunTimeline WITH state <- row.state, timeline <- events`; `Feed == INSTANCE TimelineFeed` |
| `JobQueue` | job rows, leases, a clock, the worker loop | `Delivery(j) == INSTANCE JobDelivery`, a job each |
| `RunLifecycle` | orchestrator, worker, review service, checkout | its jobs are `JobDelivery`'s; uses what `EventLog` establishes |
| `Indexing` | checkouts, snapshots, embeddings of one repository, the orchestrator's steps that use them | the preparation steps that `RunLifecycle` reduces to their transactions |
| `RepairLoop` | model calls, tools, budgets, tests, self-check | what `RunLifecycle` reduces to `Edit`, `Implement`, `Assess` and `AwaitApproval` |
| `ChangeSet` | write tools, record of edits, diff, recovery, paths to publish | what `RunLifecycle` reduces to `Recorded`, `Uncommitted` and `ChangeSet` |
| `Publishing` | the publishing job, GitHub, the checkout | begins where `RunLifecycle` ends (`Review!Handover`); its job is `JobDelivery`'s |
| `LineWindows` | windows of lines, as operators | extended by `Chunking` |
| `Chunking` | how a file is cut, as operators | its chunks are what `CodeSearch` searches |
| `CodeSearch` | two strategies, rank fusion, several queries, limits | searches any chunks |
| `FileSearch` | nothing of its own | composes `Chunking` and `CodeSearch`: a search of the chunks of a file |
| `EventStream` | history and stream routes, EventSource, store, run page | reads the timeline that `EventLog` guarantees, as a `TimelineFeed` for each run |
| `EventLogProofs`, `JobQueueProofs`, `RunLifecycleProofs`, `RepairLoopProofs`, `ChangeSetProofs`, `PublishingProofs`, `EventStreamProofs` | theorems | extend their component |
| `RetrievalProofs` | theorems | extends `Indexing` and `FileSearch` |
| `MC*` | instances and symmetry sets for TLC | extend their component |

An operator described as a *mutant* stands before the definition it varies: it is the
definition with a plausible mistake in it, and shows that a property notices the
mistake. No specification uses one.

### How the modules fit together

The run is modelled in parts, and what one part takes for granted of another is stated
as a property of the other, which is checked and proved there:

* `ReviewedRun` is what the product promises about a run: the agent moves it along the
  transition table and stores a diff when it goes to be verified, a person decides once,
  about the diff that is there, and only a diff approved as it is gets published.
  `RunLifecycle` implements it from the start, `RepairLoop` from the index to the gate
  (`PreparedSpec`), `Publishing` from the approval on (`ApprovedSpec`). The parts join:
  every approved run of `RunLifecycle` is in a state `Publishing` may begin in
  (`HandedOver`).
* `TimelineFeed` is all that `EventStream` knows of a timeline: a length and an end. For
  a row read at some sequence it uses `Over(n)`; that this is what the row of `EventLog`
  says then, annotations of finished runs included, is `RowsTellTheEnd`.
* `RunLifecycle` and `Publishing` keep of all sessions' copies only whether they are
  `fresh`, and break a session exactly if its copy is not. `StaleIsRefused` of `EventLog`
  is that rule, in both directions.
* `JobDelivery` is one job as handlers see it: handed out again whenever its worker may
  be gone, to two workers at once if it is not, with an attempt more each time, until it
  is settled. Whoever has it may settle it, however late; who fails at it queues it again
  only after having seen attempts left (`LookUp`), which others may have used since.
  `JobQueue` implements it with leases and a clock;
  `RunLifecycle` and `Publishing`, which have no clock, implement it for the jobs of a
  run and the publishing job, so what they suppose of the queue is no more than that.

### EventLog

`row` and `events` are the committed tables; a session has a phase, the run object
in its identity map (`cached`) and what it flushed and has not committed (`pending`).
`LoadRun` is the plain SELECT of `get_run` and `_load_run`. `AppendEvent`,
`Transition` and `RefuseTransition` are the calls of the service: lock, check the
*cached* state, flush. The lock does not refresh the copy; a flush whose sequence is
taken fails and breaks the session. `Commit` and `CloseSession` end a transaction.
The properties hold although every check is made on a copy that may be stale: a
stale copy has an old sequence, and the unique constraint on it stops the commit.

### JobQueue

`job` is the table; `now` the clock; `step` and `doing` the place and the job of each
worker. Each action is one transaction of `job_queue.py` or the end of a handler. Only
`mark_failed` is two, `SelectJob` and `MarkFailed`: nothing locks the row between its
SELECT and its UPDATE, and the session sends just the columns whose new value differs from
the one it read (`update`). `MarkSucceededFails` is a `mark_succeeded` that raises, after
which the worker marks the finished job failed. `reclaims` and `overrun` are history
variables: how often a job was reclaimed, and which jobs were reclaimed while a worker had
them. `overrun` is what separates the promise the code keeps (one owner) from the one it
does not.

### RunLifecycle

The run is in three places: rows (`run`, `job`, `diff`, `approval`), the checkout
(`disk`, a content for every file), and memory (`seen`, `changes`, `evidence` of a
worker). A worker is `at` a place of `advance`; one step of the orchestrator is
`BeginStep` (the first event takes the lock), what it does to the checkout, and
the action that commits. `Edit` is any write tool; the sequence of edits and test
runs inside `implement_and_repair` is any sequence that ends in `Implement`. The
files are files of the clone. What `EventLog` shows is one rule here: the copy of a
worker is `fresh` until somebody else commits, and an event from a copy that is not
fresh breaks the session (`FlushFails`), as does everything `advance` would do in
its exception handlers. Jobs are `JobDelivery`'s, at least once: queued,
running, and back to queued when the lease expires, at any time (`Delivery`).
`mark_failed` is two steps here too, `SelectJob` and `MarkJob`. That it can take the lease
off a running job shows in `JobQueue` only, where there are leases; it takes an overrun
lease, and `RunParks` is about runs without one. `RehydrateLost` looks for the checkout, and
`Reclone` removes what is there and clones in a later step: a worker that is late with it
clones over the work of another, which is `trampled`. API requests are
atomic and wait for the lock. A request that read the run before another commit
fails by the same unique constraint and has no effect, so it is left out.

### Indexing

Runs of one repository share its snapshots and have a checkout each. A snapshot is a row
with a status, whether its chunks were made, its model, and its file rows by path; a row
is a content and the model of its vectors. `Insert`, `Build` and `Embed` are the three
parts of `_index` between which another run can commit; what a run has flushed is `added`
until it commits, and the unique constraints decide whose row stays. `_fail` commits what
was flushed (`EmbedFails`). A clone that fails ends the run (`CloneFails`); one that is
killed leaves a directory that counts as a checkout: a snapshot made from one is `torn`,
which is a history variable. The default branch moves on (`tip`), and another worker may
have another model.

### RepairLoop

One worker on one run, from the issue to the gate. Everything nested is a place: `ask` (a
request of the tool loop), `calls` (the tool calls of one answer), `answer` (a request of
`generate_structured`), `targeted` and `full` (test runs); `task` says for which of the
five purposes. The model may answer anything that the code tells apart, and may raise at
any request. Tests may pass, fail or raise (`TestsRaise`), the re-hydration after a
restart may fail (`ResumeFails`), a changed file may be unreadable when the diff is made
(`ChangeUnreadable`): all of them end the run through `_fail`, with what raised in
`failed`, and `Caught` is what `verify` catches of its own. `iteration`, `used`, `steps`
and `tries` are the counters of the code, all in memory: `Crash` resets them and `Resume`
begins again from the committed state. `asked` and `executed` are history variables that
add up what the counters bound.

### ChangeSet

Each file has a text and whether its lines end in CRLF, which `read_text` normalises and
git does not. The record of edits is the sequence of the code, under paths as the model
spells them (`dotted`), collapsed to the first original of each. `Restart` throws it away
and reads it back from git, which does not name files in `Unlisted`. `LeaveFile` is a
file a test run writes. `Publish` looks, as the code does, at the paths of the diff and
at what is on disk.

### Chunking and CodeSearch

A syntax tree is a function from positions to nodes of four kinds, which is what `_walk`
distinguishes; `IsFile` says what a parser returns. `ChunkFile` computes the chunks as
`chunk_file` does. `Walk` is a recursive function of the levels that are left to
`MAX_WALK_DEPTH`: its value is what `_walk` returns for every node under every
`parent_symbol`. The list of chunks is a set of stretches of nodes, because it becomes
rows without an order. `Declarations` defines, without recursion, by the ancestors of a
node, what should be found; `ChunksAreWhole` compares the two. `CodeSearch` is a
search over the chunks of one file: `Query` takes any list that each strategy could
return, fuses them by rank, and keeps the best results; `Answer` sorts and cuts. Scores
are fractions; `Share` gives the shares of the ranks in a common unit.

### Publishing

The states of GitHub are the base branch, the run's branch and the number of pull
requests. A call is one action with three results: done and answered, done with the
answer lost (`lost`; the client's retry and then the handler fail), or without effect
(`Refused`, which stands for every exception in the handler as well). The job is marked
as in `RunLifecycle`; a `mark_succeeded` that raises counts as a refusal. The blob SHA
is read in `NextFile` and compared in `WriteFile`, so that somebody can write in
between. `RemoveCheckout` is `shutil.rmtree`, file by file, because another worker
may be reading the directory.

### EventStream

A timeline is a length (`last`) and the event that ended the run (`end`), because
events have no gaps and are never changed. `view` is the store: the run whose row it
has, the age of the row (its last event), and the events, each with the run it came
from. A `watch` is one call of `watch`: `AnswerRow` and `AnswerHistory` are when the
server answers the two requests of `Promise.all`, `Resolve` is everything the function
does afterwards without waiting, the cleanup of a page that is gone included. A poll of
the server is two steps, `ReadEvents` and `ReadRun`, for its two statements. Frames
between `handled` and `yielded` are under way; `Drop` loses them, and `Connect`
continues from the last one handled. `Visit` and `Leave` keep what is under way,
`Reload` forgets it. `overwritten` and `refused` are history variables: an answer to a
page that was left has changed the store of this one (nothing in `watch`, `refreshRun`
or `cancel` checks), and a request of this page failed (one of a page left before is not
counted).

## 3. Runs

| Run (cfg) | Instance | Question |
|---|---|---|
| `event_log` (MCEventLog) | 3 sessions, 6 events | Does the timeline stay gap-free, legal and append-only with stale sessions? Does it implement `RunTimeline` and `TimelineFeed`? Is a stale copy always refused, and no other? |
| `job_queue` (MCJobQueue) | 3 workers, 1 job, 2 attempts, lease of 0 ticks, delay of 1, 1 crash | What does the queue promise until a lease is overrun, how often is a job handed out, is it settled in the end, and is each a `JobDelivery`? |
| `lifecycle` (MCRunLifecycle) | 2 workers, 1 file, 2 attempts, 1 fault | Does the gate show tested and complete work after crashes and with two workers on one checkout, is an approved change frozen, does the run end or park? Is it a `ReviewedRun`, and each job a `JobDelivery`? |
| `indexing` (MCIndexing) | 2 runs, 2 commits of 4 files, 2 models, one crash, loss and failure | Is a ready index complete, of one model, stable, does it hide nothing, and does everybody who waits for a row get on? |
| `repair_loop` (MCRepairLoop) | 3 contents, 2 iterations, 4 tool calls, 2 crashes | Is the gate earned, is the cost bounded, is a working change kept, does the loop end? Is it the middle of a `ReviewedRun`? |
| `change_set` (MCChangeSet) | 4 files of different kinds, 3 texts, 3 edits, a restart | Is the diff exact, and is what it says published? |
| `code_search` (MCCodeSearch) | all trees of four nested nodes with a sibling, texts of up to 9 lines; 3 queries with 2 candidates | Are constructs found whole, and does agreement win? |
| `publishing` (MCPublishing) | 2 workers, an edited and a deleted file, one fault of every kind | Is the published change the reviewed one, recorded once, and does the run end? Is it the end of a `ReviewedRun`, and its job a `JobDelivery`? |
| `event_stream` (MCEventStream) | 2 runs of 3 and 2 events, lists of 2, 2 watches, 2 visits, 1 drop | Does a page show its run's timeline without holes or replays, through one stream, and the end? |

What another property of the run implies is not run by itself, but has its theorem:
`GapFree`, `TimelineAgrees`, `LegalHistory`, `AppendOnly` and `TerminalIsFinal` follow
from `RefinesTimeline`, `EndedStays` from `RefinesReviewedRun` of `Publishing`, and
`FinishedStays` of `JobQueue` from `OwnerUntilOverrun` and `RefinesDelivery`. The types of
`RunLifecycle`, `RepairLoop`, `Publishing` and `ChangeSet` are proved only.

Three more runs end in a violation, on purpose: each checks one sentence of the
repository's documentation against what the code does.

| Run | Sentence | What the code does |
|---|---|---|
| `diff_after_crash` | "reconstructed, not guessed at", BUILD_PLAN.md:1407 | not after a crash in IMPLEMENTING, which `_STATES_WITH_EDITS` leaves out |
| `publishing_orphan` | "if it fails it can be retried", orchestrator.py:875 | after a lost answer of `POST /pulls` every retry is refused |
| `attempts_resume` | "makes the whole operation resumable", rag/indexer.py:6 | files of an attempt whose embedding failed stay, and the next attempt collides with them |

Other places where code and documentation disagree, each of which bounds what a
property claims, and has no run of its own:

* models/core.py:188, "without ever handing the same job to two workers": no worker
  calls `heartbeat`, so a job that outlives its lease is handed out again. This is
  `overrun` of `JobQueue`, `RunLifecycle` and `Publishing`.
* job_queue.py:128, "retrying it while attempts remain": a worker without its lease counts
  the attempts in the SELECT of `mark_failed`, another one uses the last, and the UPDATE
  queues the job afterwards (`LookUp` of `JobDelivery`).
* job_queue.py:149, "which is how worker crashes recover": a late `mark_failed` that reads
  the status it wants to write sends only NULLs for owner and lease. If the job is running
  again by then, it runs without a lease, and when its worker crashes no reclaim ever finds
  it (`Stranded`, which `EventuallySettled` excepts; it takes two late marks and a crash).
* README.md:93, "a worker crash does not lose a run": a worker without its lease marks
  the job succeeded, then the owner crashes (the antecedent of `NeverAbandoned`).
* event_service.py:9-11, "without replaying or dropping events": a run that ends
  between the two statements of a poll ends the stream without its last event.
* pr.py:151-152, "exactly what was on disk when the diff was approved": a second
  publisher takes files being removed for deletions; and a new empty file is in neither
  diff nor branch, because it equals its recorded original (diff.py:149).
* rag/workspace.py:5-8: a checkout that was lost is cloned at the tip of the branch,
  while the index stays at the commit of the snapshot.
* orchestrator.py:694: a run parks for the review of its plan, and no route moves it on.
* review_service.py:159: one approval row per run, so a revised run can not be approved;
  and :242, the checkout of a rejected or cancelled run is never removed.
* runStore.ts:74: `applyEvent` does not take over `awaiting_human`.
* orchestrator.py:947 reads the paths of a diff from its text, where a line of a file
  can look like a header.

Bounds, and why they are enough for the questions asked:

* *Sessions, workers, runs.* Every interference here is between one actor that is stale
  and one that is not; two are needed, and the third in `event_log` and `job_queue` lets
  a stale actor meet two generations of others. Workers and sessions are
  interchangeable; symmetry is used in runs without liveness properties only.
* *`MaxSequence` 6.* The longest conflict needs two commits of one session while
  another holds a copy and a third one is about to commit.
* *Files.* In `lifecycle` one file shows a lost original and a missing edit (an edit can
  go back to the original), `RunLifecycleProofs` covers all sets of files; two files in
  `diff_after_crash`. In `change_set` the four files differ in what git knows of them; in
  `indexing` one is kept, one changed, one removed, and a blank one is replaced by one
  that `scan` leaves out.
* *`MaxAttempts`* 3 is the code's default, and the bound of `publishing`, where there must
  be more attempts than faults that use one up; in the queue and in `lifecycle` it only has
  to be more than one. *`MaxFaults`* bounds crashes of workers and machine, marks that
  raise, and the expiries under a live worker together: the lease of a dead worker's job
  expires without a bound. `diff_after_crash` allows two. That one worker clones over the
  work of another (`trampled`) takes a lost machine and an expiry, two faults: what is
  claimed of such behaviours rests on the proofs, which have no bound.
* *Leases of the queue*: a lease of 0 ticks is kept until the next tick and over after it,
  and a tick can come between any two steps, so that every step is taken both in time and
  late.
* *Faults of publishing*: one crash, one expiry, one refusal, one lost answer and one
  foreign commit can all happen in one behaviour. The same for *`Indexing`*: a crash, a
  lost machine and a failed embedding in one behaviour. `ReadyStays` excepts snapshots of
  half checkouts (`torn`) although this run does not need it to: with three runs, two
  crashes and a lost machine, two half checkouts of one commit make the second one take
  chunks out of an index that is searched. The proof attempt found this, not the run.
* *`RepairLoop`*: two iterations have a first and a last; four tool calls are spent
  within a loop or across loops; two crashes can hit the same step or different ones.
  `CostBounded` and `GateIsEarned` are proved for all limits.
* *`ChangeSet`*: three edits are a file edited twice and another one, or a file edited
  under two names and back. *`CodeSearch`*: with two candidates of each strategy and a
  limit of two every cut loses something; the weights and K are small numbers that
  satisfy what the proof needs of them (`WeightsAssumption`, which the code's 60, 30, 1.0
  and 1.2 satisfy too).
* *`Chunking`*: the limits are scaled down (3 lines for 220, windows of 4 for 80), so
  that nine lines need several pieces, and depth 2 for 14, so that four nested nodes
  pass it.
* *`EventStream`*: with lists of 2 and 3 events a history is cut; two visits are a page
  and the one it is left for, or reloaded to.
* Deadlock is checked where the system goes on for ever (`event_log`, `job_queue`).
  A run, a search or a page ends, so the other modules may stop:
  `CHECK_DEADLOCK FALSE`.

Fairness is weak fairness of what the code schedules: the worker's loop, handlers that end
(every model call, tool, test run and whole run has a time limit), marks that are made or
raise, leases that expire, time, requests that are answered, polls and frames. In
`Indexing` it is per run, because each run has its job; in `RepairLoop` it is of the
worker's next step, whatever the model answers, so that termination rests on the counters
alone. No fairness is assumed for people, crashes, lost machines, edits or new commits.
`ChangeSet` and `CodeSearch` state safety only. `EventuallySettled` leaves a job alone
that a late mark has left running without a lease (`Stranded`, above). `RunParks` and
`EventuallyPublished` suppose that no lease expires under a live worker, and
`EventuallyPublished` that there are fewer faults than attempts; both suppositions are
antecedents of the property, so behaviours without them are explored and only not judged.
`EventuallyPublished` leaves the run of a pull request that is orphaned alone, which is
what `publishing_orphan` is about, and is checked with a diff that edits a file (a diff of
deletions only can be stuck, see the hazard at pr.py:179).

## 4. Proofs

TLC checks instances; the theorems hold for any sets of sessions, workers, jobs and
files and any bounds, from the ASSUMEs of the modules alone (the values for "nobody"
or "nothing" are not members of the sets, bounds are numbers).

*EventLogProofs.* The inductive invariant ties a session to the table. `Snapshots`: an
open session that has flushed nothing holds the run as it was after some committed event,
possibly not the last (the row may have moved on since it was read). `Continuation`: a
session with flushed events is open, holds the row's lock, and its events are numbered
row.seq + 1 .. cached.seq, legal one after the other and after the event they follow, the
last leading to the copy's state. So when a commit succeeds its events continue the
committed ones, and a flush from a stale copy collides with the unique sequence. From this
follow type correctness, `GapFree`, `TimelineAgrees`, `LegalHistory`, `AppendOnly` and the
refinement of `RunTimeline`, step by step; `StaleIsRefused`, because a copy of the last
event's sequence has the last event's state and so is the row; and the refinement of
`TimelineFeed`, because what follows an event that ended the run leaves it ended
(`TerminalTail`, by the least event that would not), so that the first such event stays
the first. `TerminalIsFinal` rests on one more invariant: events a session has flushed on
top of a terminal state keep that state, because a transition out of a terminal state is
refused and annotations do not change it.

*JobQueueProofs.* A worker between claim and mark has a job, and as long as a job was not
overrun it is running exactly if it has lease and owner, its holder is the one the row
names, and what a `mark_failed` is about to write gives it up (`GivesUpItsOwn`).
Reclaiming a job somebody holds puts it in `overrun` in the same step; a mark by
anybody else is excluded by the ownership clause. The refinement of `JobDelivery` maps a
job's workers to those that are doing it, whether or not the row still names them, and
`retrying` to those whose UPDATE will queue it; a pending "failed" means attempts used up,
and they stay so (`FailsExhausted`). `AttemptsBounded` is proved from the steps of
`JobDelivery` alone, by counting (`Counted`): those who have a job, and the job itself if
it waits, are one more than its reclaims at most; once its attempts are used up, each
hand-out beyond them takes one of those who saw attempts left before, and so fits under
the bound as well. From the refinement and the ownership clause follows `FinishedStays`.

*RunLifecycleProofs.* Any number of workers may be in the same step, so nothing can be
concluded from where one is. `Copies`: the worker that holds the row lock has a fresh copy
and is in the middle of `advance`; whoever is at work on the files holds the lock; a fresh
copy is the row. `Lost`: while the workspace is gone, nobody who could still use it has
anything recorded. `Recording`: what a fresh worker has recorded are originals, and all of
them, unless it began on top of edits it knew nothing of. `Evidence` and `Reviewed` carry
test results and diff from there to the gate; `Reviewed` also says that an approved run is
at the gate or over, hence that no fresh worker can be at its files. `Attended` says that
a job which is queued, or whose worker goes on, exists for every run in progress until a
lease expires under a live worker. They give type correctness, `GateIsTested`,
`DiffIsTruthful`, `NeverAbandoned` and `ApprovedIsFrozen`, the latter for doubled workers
as well, and the refinement of `ReviewedRun`: each action is mapped to an abstract one or
to none, where a stale worker can only fail to commit. Each job of a run implements
`JobDelivery`, where a worker that lost its lease may settle a job that was handed out
again; what is needed for it is that a pending "failed" was decided with the attempts used
up, and they do not come back (`Exhausted`). Where a late worker clones over another's
edits nothing can be said of files and tests: the claims about them except `trampled`, and
`ApprovedIsFrozen` says that nothing else than that changes what was approved.
`HandedOver` needs two more invariants: an approved diff holds no credential (`Clean`),
and its publishing job is queued and was never tried (`PublishJob`); it also says that the
diff is what is on disk unless edits were lost or cloned over.

*RepairLoopProofs.* `GateIsEarned` does not say where test results came from: `Evidence`
follows them from the test run, past attempts that failed, to the gate, using `Control`
(what a place says of state and task). `CostBounded` is a sum; `Spending` says how much
of it can have been spent at each place, and `Executions` does the same for tool calls,
per restart. `WorkingChangeKept` looks at a change all of whose tests have passed in this
execution (`Proven`): before the tests are through nothing is (`NotYetProven`), and after
them what raises is caught or is the time, so only the reading of the diff is left. The
refinement of `ReviewedRun`
needs that every commit is along an edge, and that only the one to VERIFYING stores a diff.

*ChangeSetProofs.* A diff is right because of its earliest originals: each path has a
first change (`HasFirst`), the first change of a file recorded what was cloned
(`Recorded`), and changes read back from git are the only ones of their file and complete
for what git lists (`ReadBack`). After the review nothing moves (`Frozen`). They give
`DiffIsExact` and `PublishedIsReviewed` for any files, texts and number of edits.

*RetrievalProofs.* For `Indexing` the invariant says, for every place of a run, how much
of its snapshot there is. A run that inserts a snapshot is the only one that does for that
commit (`InsertIsAlone`), and its snapshot stays (`HasSnapshot`); what it has
flushed are all files of the commit, while the snapshot has none yet and no other run is
as far (`Flushed`); so the rows
of a snapshot are all or none (`AllOrNothing`), unless it is `torn`. The vectors carried
forward come from an earlier commit (`BornBefore`), the latest of which exists because a
set of numbers has a largest member below a bound. They give type correctness,
`ReadyIsComplete`, `NothingHidden` and `ReadyStays` for any runs, files, models, histories
and faults.

For `CodeSearch`, scores of chunks that both strategies found are above a bound, and
those of the others are below it (`ScoresTell`, arithmetic from `WeightsAssumption`); such
a chunk stays collected unless there are as many of its kind as the limit
(`AgreedAreThere`). They give `AgreementWins` for any weights that go together, lists,
limits and number of queries.

For `LineWindows`: the loop ends in some window (`WindowsFacts`); of the windows that
begin at or before a line the last one holds it, and as many lines after it as the
overlap has, so short constructs are whole in one window (`ConstructsStayWhole`), and
windows without overlap share no line and leave none out (`PartsAreDisjoint`).

For `Chunking`, over all trees. The prover has no induction, so it is replaced by least
numbers (`Least`): that a function satisfies the equation of `Walk` (`WalkExists`, by the
first level that none reaches) and that it is what it should be (`WalkEmitsAll`, by the
first level where it is not). What it should be has two halves (`Emits`): with n levels
left a walk emits the chunks of the declarations it reaches that are found on their own
(`Own`), each under the name around it (`Around`), and it emits nothing only if it reaches
no declaration at all, which is what makes a container emit itself. Both are shown for one
child of each kind (`VisitEmits`) from what is reached through it (`SeenStep`,
`WrapperSees`) and the name around that (`AroundStep`). A declaration has one wrapper and
a wrapper one declaration (`OuterIs`), so its chunks are nobody else's, and
`ChunksAreWhole` follows for files of any size and any limits, with the windows above.

*PublishingProofs.* Two layers. For all behaviours: a worker past branch creation
has a branch; one that is about to record has a pull request; a worker with a fresh
copy sees an open run. They give type correctness, `RecordedOnce` and `EndedStays`,
with doubled workers and every fault. For behaviours without an overrun: at most one
worker is at work, and then the checkout is complete until the run is, and every
path that is not reviewed on the branch is still in what the worker has to do. They
give `PullIsReviewed`. That overruns never decrease carries the condition backwards
along a behaviour. The first layer alone gives the refinement of `ReviewedRun`: whatever
the workers do at GitHub, the rows change once, from an approved run to a completed or
failed or cancelled one; and, with `Exhausted` as in `RunLifecycle`, that of `JobDelivery`,
whose workers are those in the handler or about to mark the job.

*EventStreamProofs.* A watch that is wanted belongs to the open page and is the only
one, and only wanted watches stream (`Owned`): that is `OneStream`. Nothing a watch was
told lies beyond the timeline (`Known`), and the store has exactly the events up to the
one its stream has handled (`InStep`), so each frame extends the beginning by one, a
reconnect starts right after it, and a late answer to another page is the only thing
that can break it. They give `NoHoles` and `NothingReplayed`.

Only model-checked: the liveness properties (`EventuallySettled`, `RunParks`,
`IndexingEnds`, `RepairEnds`, `EventuallyPublished`, `ViewSettles`), which need fairness
and ENABLED and are out of the prover's reach. Every invariant, action property and
refinement that a passing run checks is proved. Taken for granted are the assumptions
of the modules; `IsFile` is the only one about data from outside: nodes have their
ancestors, lie in the file, and what is declared or wraps a declaration begins on a line
that is not blank.

## 5. What is abstracted

* Messages, payloads, timestamps of runs, failure categories, ids and log lines. A
  diff is a set of files with before and after, without the text of hunks and truncation.
* What the model says. A plan, an analysis or a review is what the code tells apart: it
  fits its schema or does not, names tests or does not, says it can be repaired or not.
* Whether tests pass, whether a diff holds a credential, whether a step raises, and
  how a person decides are free choices, and so are the distances and similarities that
  order search results.
* The repository map, the risk score, exclusion patterns and the grammars: functions of
  text. What they are used for is a parameter or a choice (`Skipped`, `Kinds`).
* Faults of the database: a commit that fails takes its transaction back and is a step that
  raises or a mark that raises; one that takes effect while its answer is lost is left out,
  as are database errors inside the loops of `RepairLoop`.
* `heartbeat`, `delay_seconds`, the dead PR_CREATED check of
  `_handle_create_pull_request`: no caller, or never true.
* Rules of other systems, from how the code relies on them: Postgres locks and unique
  constraints, SQLAlchemy's identity map, git's HEAD, GitHub's SHA check and its one
  open pull request for a branch.

Not modelled: see PROJECT.json, `components`. Authentication, crypto, redaction, pages,
scripts, migrations and health checks have no part in the life of a run. The read-only
tools and the list routes change nothing. The sandbox is a subprocess with a result, or
none (`TestsRaise`); the providers are requests that answer or raise: their pacing and
back-off only take time.

## 6. Plan

Done: run states and timeline, event log, queue, lifecycle, indexing, repair loop,
change set, chunking and search, publishing, event stream, the abstract run, timeline and
job they share, and the proofs of all of them but liveness. What is left, the most
valuable first:

1. `create_run` by two requests for one issue (run_manager.py:62): both see no active run
   and both insert one, and no constraint keeps them apart.
2. A diff of deletions only, whose first attempt to publish deleted all and then failed
   (pr.py:179): every retry finds nothing to commit.
3. The retries and pacing of the GitHub and model clients, with a clock.

The hazards of 1 and 2 are in PROJECT.json without a property.
