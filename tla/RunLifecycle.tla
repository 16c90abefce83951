---------------------------- MODULE RunLifecycle ----------------------------
(***************************************************************************)
(* One run, from its creation to the approval gate: the orchestrator that  *)
(* drives it (`agent/orchestrator.py`), the worker that serves its jobs    *)
(* (`worker/main.py`), and the reviewer and the owner of the run, who act  *)
(* through the API (`services/review_service.py`, `run_manager.py`).       *)
(*                                                                         *)
(* The run exists three times: as committed rows, as files in a workspace  *)
(* that no transaction protects, and in the memory of a worker, where the  *)
(* record of what the agent edited lives until a diff is stored.  The      *)
(* module is about keeping the three together while workers crash, are     *)
(* doubled by an expired lease, and compete with people.                   *)
(*                                                                         *)
(* A session's copy of the run is `seen`, and `fresh` says whether it is   *)
(* still the committed row.  What EventLog shows in detail is one rule     *)
(* here: a step takes the row lock with its first event, and the flush of  *)
(* an event from a stale copy fails.  An API request that read the run     *)
(* before somebody else's commit fails in the same way, so the requests    *)
(* that have an effect are atomic.                                         *)
(*                                                                         *)
(* The queue is cut down to what JobQueue promises, JobDelivery: at least  *)
(* once.  Publishing the approved run is left to module Publishing.        *)
(***************************************************************************)
EXTENDS Naturals, RunStates

CONSTANTS
    Workers,       \* worker processes
    Nobody,        \* nobody holds the row lock
    Files,         \* files of the clone, which the agent may edit
    Contents,      \* contents a file may have
    Original,      \* the content every file was cloned with
    None,          \* no workspace, diff, approval or job
    MaxAttempts,   \* max_attempts of a job
    MaxFaults      \* bound on crashes, marks that fail and leases that expire under a
                   \* live worker

ASSUME WorkersAssumption == Nobody \notin Workers
ASSUME ContentsAssumption == Original \in Contents
ASSUME BoundsAssumption ==
    MaxAttempts \in Nat \ {0} /\ MaxFaults \in Nat

\* The jobs a run can have: the first, the one of its only revision, and the
\* one of its only approval.
ExecuteJobs == {"execute", "revise"}
Jobs == ExecuteJobs \cup {"publish"}
JobStatus == {"queued", "running", "succeeded", "failed"}
JobRow == [status : JobStatus \cup {None}, attempts : Nat]

Workspace == [Files -> Contents]
ChangeList == UNION {[paths -> Contents] : paths \in SUBSET Files}
FileDiff == [before : Contents, after : Contents]
Diff == [files : UNION {[paths -> FileDiff] : paths \in SUBSET Files}, blocking : BOOLEAN]
Approval == [decision : {"approved", "rejected", "revision_requested"}, diff : Diff]

ASSUME NoneAssumption == None \notin Contents \cup Jobs \cup JobStatus \cup Workspace
                                     \cup Diff \cup Approval

VARIABLES
    run,        \* committed agent_run.state
    planGate,   \* agent_run.require_plan_approval
    job,        \* committed job rows: status and attempts
    diff,       \* latest run_diff row
    approval,   \* the approval row
    disk,       \* the workspace: contents of the files, or None
    holder,     \* worker whose transaction holds the row lock
    at,         \* per worker: where it is
    doing,      \* per worker: the job it claimed
    seen,       \* per worker: run.state of its session's copy
    fresh,      \* per worker: the copy is the committed row
    changes,    \* per worker: scratch.changes, the originals of edited files
    evidence,   \* per worker: outcome of the last test run it knows of
    crashes,    \* number of crashes and of marks that failed
    overruns,   \* number of leases that expired under a live worker
    tested,     \* history: the tests have passed on the workspace as it is
    blind,      \* history: edits were on disk when a worker began to record
    trampled    \* history: a worker cloned over the workspace of another

rows == <<run, planGate, job, diff, approval>>
memory == <<doing, seen, fresh, changes, evidence>>
history == <<tested, blind, trampled>>
vars == <<rows, disk, holder, at, memory, crashes, overruns, history>>

STATES_WITH_EDITS ==
    {"TESTING", "ANALYZING_FAILURE", "REVISING", "VERIFYING", "WAITING_FOR_APPROVAL"}

Cloned == [f \in Files |-> Original]

NoChanges == [f \in {} |-> Original]

-----------------------------------------------------------------------------
\* create_run has committed the run and its first job.
Init ==
    /\ run = "CREATED"
    /\ planGate \in BOOLEAN
    /\ job = [j \in Jobs |-> [status |-> IF j = "execute" THEN "queued" ELSE None,
                              attempts |-> 0]]
    /\ diff = None
    /\ approval = None
    /\ disk = None
    /\ holder = Nobody
    /\ at = [w \in Workers |-> "idle"]
    /\ doing = [w \in Workers |-> None]
    /\ seen = [w \in Workers |-> "CREATED"]
    /\ fresh = [w \in Workers |-> FALSE]
    /\ changes = [w \in Workers |-> NoChanges]
    /\ evidence = [w \in Workers |-> "none"]
    /\ crashes = 0
    /\ overruns = 0
    /\ tested = FALSE
    /\ blind = FALSE
    /\ trampled = FALSE

Go(w, place) == at' = [at EXCEPT ![w] = place]

\* Session w commits the run in state s: every other copy is stale from now on.
CommitAs(w, s) ==
    /\ run' = s
    /\ seen' = [seen EXCEPT ![w] = s]
    /\ fresh' = [u \in Workers |-> u = w]
    /\ holder' = Nobody

\* An API request commits: every worker's copy is stale from now on.
CommitFromApi(s) ==
    /\ holder = Nobody
    /\ run' = s
    /\ fresh' = [u \in Workers |-> FALSE]

\* advance has no more use for its scratch.
DropScratch(w) ==
    /\ changes' = [changes EXCEPT ![w] = NoChanges]
    /\ evidence' = [evidence EXCEPT ![w] = "none"]

\* The session of w and its scratch are gone.
Forget(w) ==
    /\ seen' = [seen EXCEPT ![w] = "CREATED"]
    /\ fresh' = [fresh EXCEPT ![w] = FALSE]
    /\ DropScratch(w)

\* The row lock is free, or w has it.
CanLock(w) == holder \in {Nobody, w}

\* Mutant of SequenceIsFree: events are not unique (no uq_event_sequence).
SequenceUnconstrained(w) == TRUE

\* The next event of w's copy of the run has a sequence number nobody used.
SequenceIsFree(w) == fresh[w]

\* The flush of an event from a stale copy violates the unique constraint.  The
\* exception leaves advance without a transition, _fail and _cleanup included,
\* because the run object they look at is expired.
FlushFails(w) ==
    /\ Go(w, "broken")
    /\ DropScratch(w)
    /\ UNCHANGED <<rows, disk, holder, doing, seen, fresh, crashes, overruns, history>>

-----------------------------------------------------------------------------
(* The worker and its job.                                                 *)

\* claim_next and its commit.
Claim(w, j) ==
    /\ at[w] = "idle"
    /\ job[j].status = "queued"
    /\ job' = [job EXCEPT ![j] = [status |-> "running", attempts |-> @.attempts + 1]]
    /\ doing' = [doing EXCEPT ![w] = j]
    /\ Go(w, "claimed")
    /\ UNCHANGED <<run, planGate, diff, approval, disk, holder, seen, fresh,
                   changes, evidence, crashes, overruns, history>>

\* Mutant of Overdue: only a worker that lives gives its job back.
OverdueAndHeld(j) == job[j].status = "running" /\ \E w \in Workers : doing[w] = j

Overdue(j) == job[j].status = "running"

\* reclaim_expired, which does not know whether a worker has the job.
LeaseExpires(j) ==
    /\ Overdue(j)
    /\ IF \E w \in Workers : doing[w] = j
       THEN crashes + overruns < MaxFaults /\ overruns' = overruns + 1
       ELSE UNCHANGED overruns
    /\ job' = [job EXCEPT ![j].status = "queued"]
    /\ UNCHANGED <<run, planGate, diff, approval, disk, holder, at, memory,
                   crashes, history>>

\* _handle_execute_run reads the run; neither it nor advance goes on with one
\* that is terminal or parked.
LoadRun(w) ==
    /\ at[w] = "claimed"
    /\ seen' = [seen EXCEPT ![w] = run]
    /\ fresh' = [fresh EXCEPT ![w] = TRUE]
    /\ Go(w, IF IsTerminal(run) \/ AwaitsHuman(run) THEN "returned" ELSE "loaded")
    /\ UNCHANGED <<rows, disk, holder, doing, changes, evidence, crashes,
                   overruns, history>>

\* mark_succeeded raises after a handler that returned, and the except branch follows.
MarkSucceededFails(w) ==
    /\ at[w] = "returned"
    /\ crashes + overruns < MaxFaults
    /\ crashes' = crashes + 1
    /\ Go(w, "raised")
    /\ UNCHANGED <<rows, disk, holder, memory, overruns, history>>

\* Mutant of Verdict: off by one.
VerdictOneMore(j) == IF job[j].attempts <= MaxAttempts THEN "queued" ELSE "failed"

Verdict(j) == IF job[j].attempts < MaxAttempts THEN "queued" ELSE "failed"

\* mark_failed reads the job, without a lock: what it will write depends on this row,
\* and a status that it finds already there is not written.
SelectJob(w) ==
    /\ at[w] = "raised"
    /\ Go(w, IF Verdict(doing[w]) = job[doing[w]].status THEN "keeping"
             ELSE IF Verdict(doing[w]) = "queued" THEN "requeueing" ELSE "failing")
    /\ UNCHANGED <<rows, disk, holder, memory, crashes, overruns, history>>

\* Where a worker is about to mark its job, and the status it writes.
Marks == [returned |-> "succeeded", requeueing |-> "queued", failing |-> "failed"]

\* The UPDATE of mark_succeeded or mark_failed, whatever became of the job meanwhile.
MarkJob(w) ==
    /\ \/ /\ at[w] \in DOMAIN Marks
          /\ job' = [job EXCEPT ![doing[w]].status = Marks[at[w]]]
       \/ /\ at[w] = "keeping"
          /\ UNCHANGED job
    /\ doing' = [doing EXCEPT ![w] = None]
    /\ Go(w, "idle")
    /\ Forget(w)
    /\ UNCHANGED <<run, planGate, diff, approval, disk, holder, crashes,
                   overruns, history>>

\* _record_failure, in a session of its own, after the handler rolled back.  It
\* reads the run first and has to wait for the lock, so it can fail as well.
RecordFailure(w) ==
    /\ at[w] = "broken"
    /\ \/ /\ ~IsTerminal(run)
          /\ holder = Nobody
          /\ CommitAs(w, "FAILED")
       \/ UNCHANGED <<run, holder, seen, fresh>>
    /\ Go(w, "raised")
    /\ UNCHANGED <<planGate, job, diff, approval, disk, doing, changes,
                   evidence, crashes, overruns, history>>

\* A worker process dies: its transaction is rolled back, its memory is lost,
\* its job keeps its lease and the workspace stays as it is.
Crash(w) ==
    /\ at[w] # "idle"
    /\ crashes + overruns < MaxFaults
    /\ crashes' = crashes + 1
    /\ doing' = [doing EXCEPT ![w] = None]
    /\ holder' = IF holder = w THEN Nobody ELSE holder
    /\ Go(w, "idle")
    /\ Forget(w)
    /\ UNCHANGED <<rows, disk, overruns, history>>

\* The machine is lost with all workers and the workspace.
LoseMachine ==
    /\ crashes + overruns < MaxFaults
    /\ disk # None
    /\ crashes' = crashes + 1
    /\ disk' = None
    /\ doing' = [w \in Workers |-> None]
    /\ at' = [w \in Workers |-> "idle"]
    /\ seen' = [w \in Workers |-> "CREATED"]
    /\ fresh' = [w \in Workers |-> FALSE]
    /\ changes' = [w \in Workers |-> NoChanges]
    /\ evidence' = [w \in Workers |-> "none"]
    /\ holder' = Nobody
    /\ UNCHANGED <<rows, overruns, history>>

-----------------------------------------------------------------------------
(* The orchestrator: _rehydrate, then one step per state, each committed.  *)

\* Nothing to restore for a new run.
RehydrateNew(w) ==
    /\ at[w] = "loaded"
    /\ seen[w] = "CREATED"
    /\ Go(w, "ready")
    /\ UNCHANGED <<rows, disk, holder, memory, crashes, overruns, history>>

\* The workspace is gone: with the edits, which is the end of the run, or with
\* nothing in it.
RehydrateLost(w) ==
    /\ at[w] = "loaded"
    /\ seen[w] # "CREATED"
    /\ disk = None
    /\ Go(w, IF seen[w] \in STATES_WITH_EDITS THEN "aborting" ELSE "recloning")
    /\ UNCHANGED <<rows, disk, holder, memory, crashes, overruns, history>>

\* _checkout removes what is there now, for nothing locks the workspace since it was
\* looked for, and clones again, which may fail before or after that.
Reclone(w) ==
    /\ at[w] = "recloning"
    /\ \/ disk' = Cloned /\ tested' = FALSE /\ Go(w, "announcing")
       \/ disk' \in {disk, None} /\ UNCHANGED tested /\ Go(w, "aborting")
    /\ trampled' = (trampled \/ disk # None)
    /\ UNCHANGED <<rows, holder, memory, crashes, overruns, blind>>

\* uncommitted_changes: what git finds different from HEAD.
Uncommitted == [f \in {g \in Files : disk[g] # Original} |-> Original]

\* The workspace is there.  Only in the states with edits is it compared with
\* git, and an event tells of it.
Rehydrate(w) ==
    /\ at[w] = "loaded"
    /\ seen[w] # "CREATED"
    /\ disk # None
    /\ IF seen[w] \in STATES_WITH_EDITS
       THEN /\ changes' = [changes EXCEPT ![w] = Uncommitted]
            /\ Go(w, "announcing")
       ELSE Go(w, "ready") /\ UNCHANGED changes
    /\ UNCHANGED <<rows, disk, holder, doing, seen, fresh, evidence, crashes,
                   overruns, history>>

\* The first event of a transaction takes the row lock, or fails on a stale copy.
Lock(w, from, to) ==
    /\ at[w] = from
    /\ CanLock(w)
    /\ IF SequenceIsFree(w)
       THEN /\ holder' = w
            /\ Go(w, to)
            /\ UNCHANGED <<rows, disk, memory, crashes, overruns, history>>
       ELSE FlushFails(w)

\* _rehydrate's event stays uncommitted until the first step commits.
Announce(w) == Lock(w, "announcing", "ready")

\* Every step but _await_approval begins with an event.
BeginStep(w) == seen[w] # "VERIFYING" /\ Lock(w, "ready", "working")

\* The workspace of a new run: removed if there is one, then cloned.
CloneRepository(w) ==
    /\ at[w] = "working"
    /\ seen[w] = "CREATED"
    /\ disk' = Cloned
    /\ tested' = FALSE
    /\ Go(w, "cloned")
    /\ UNCHANGED <<rows, holder, memory, crashes, overruns, blind, trampled>>

\* The steps that leave the workspace alone, and the state each commits.
PreparationSteps ==
    [CLONING_REPOSITORY   |-> "ANALYZING_ISSUE",
     ANALYZING_ISSUE      |-> "EXPLORING_REPOSITORY",
     EXPLORING_REPOSITORY |-> "INDEXING_REPOSITORY",
     INDEXING_REPOSITORY  |-> "RETRIEVING_CONTEXT",
     RETRIEVING_CONTEXT   |-> "PLANNING"]

Prepare(w) ==
    /\ \/ /\ at[w] = "cloned"
          /\ CommitAs(w, "CLONING_REPOSITORY")
       \/ /\ at[w] = "working"
          /\ seen[w] \in DOMAIN PreparationSteps
          /\ CommitAs(w, PreparationSteps[seen[w]])
    /\ Go(w, "ready")
    /\ UNCHANGED <<planGate, job, diff, approval, disk, doing, changes,
                   evidence, crashes, overruns, history>>

\* _after_plan: park for the review of the plan, or go on.
AfterPlan(w) ==
    /\ at[w] = "working"
    /\ seen[w] = "PLANNING"
    /\ IF planGate
       THEN CommitAs(w, "WAITING_FOR_PLAN_REVIEW") /\ Go(w, "returned")
       ELSE CommitAs(w, "IMPLEMENTING") /\ Go(w, "ready")
    /\ UNCHANGED <<planGate, job, diff, approval, disk, doing, changes,
                   evidence, crashes, overruns, history>>

\* Mutant of Recorded: the last original wins, not the first.
RecordedLast(w, f) ==
    [g \in DOMAIN changes[w] \cup {f} |-> IF g = f THEN disk[f] ELSE changes[w][g]]

\* The change list after an edit of f, collapsed: the earliest original stays.
Recorded(w, f) ==
    [g \in DOMAIN changes[w] \cup {f} |->
        IF g \in DOMAIN changes[w] THEN changes[w][g] ELSE disk[f]]

\* A write tool changes a file and records what it was before.
Edit(w, f, content) ==
    /\ at[w] = "working"
    /\ seen[w] = "IMPLEMENTING"
    /\ disk # None
    /\ content # disk[f]
    /\ disk' = [disk EXCEPT ![f] = content]
    /\ changes' = [changes EXCEPT ![w] = Recorded(w, f)]
    /\ tested' = FALSE
    /\ blind' = (blind \/ (changes[w] = NoChanges /\ disk # Cloned))
    /\ UNCHANGED <<rows, holder, at, doing, seen, fresh, evidence, crashes,
                   overruns, trampled>>

\* The tests run on the workspace, if there is one.
RunTests(w, outcome) ==
    /\ disk = None => outcome = "failed"
    /\ evidence' = [evidence EXCEPT ![w] = outcome]
    /\ tested' = (tested \/ outcome = "passed")

\* The end of implement_and_repair: the tests passed on what is there, or the
\* repair gave up, for whatever reason.
Implement(w, outcome) ==
    /\ at[w] = "working"
    /\ seen[w] = "IMPLEMENTING"
    /\ RunTests(w, outcome)
    /\ CommitAs(w, "TESTING")
    /\ Go(w, "ready")
    /\ UNCHANGED <<planGate, job, diff, approval, disk, doing, changes, crashes,
                   overruns, blind, trampled>>

\* _outcomes: the evidence in memory, or else the tests are run again.
Outcomes(w, outcome) ==
    IF evidence[w] = "none" THEN RunTests(w, outcome)
    ELSE outcome = evidence[w] /\ UNCHANGED <<evidence, tested>>

\* build_change_set: the recorded originals against the workspace.
ChangeSet(w) ==
    LET paths == {f \in DOMAIN changes[w] : changes[w][f] # disk[f]}
    IN  [f \in paths |-> [before |-> changes[w][f], after |-> disk[f]]]

\* _assess: the diff is stored for review; a credential in it makes it blocking.
Assess(w, outcome, blocking) ==
    /\ at[w] = "working"
    /\ seen[w] = "TESTING"
    /\ disk # None
    /\ DOMAIN ChangeSet(w) # {}
    /\ Outcomes(w, outcome)
    /\ diff' = [files |-> ChangeSet(w), blocking |-> blocking]
    /\ CommitAs(w, "VERIFYING")
    /\ Go(w, "ready")
    /\ UNCHANGED <<planGate, job, approval, disk, doing, changes, crashes,
                   overruns, blind, trampled>>

\* _await_approval, in a run whose tests are not known: they are run first.
TestAgain(w, outcome) ==
    /\ at[w] = "ready"
    /\ seen[w] = "VERIFYING"
    /\ evidence[w] = "none"
    /\ RunTests(w, outcome)
    /\ UNCHANGED <<rows, disk, holder, at, doing, seen, fresh, changes, crashes,
                   overruns, blind, trampled>>

\* Mutant of MayAwaitApproval: the evidence is not looked at.
AlwaysAwaitApproval(w) == TRUE

MayAwaitApproval(w) == evidence[w] = "passed"

\* _await_approval: the gate is reached with passing tests only.
AwaitApproval(w) ==
    /\ at[w] = "ready"
    /\ seen[w] = "VERIFYING"
    /\ evidence[w] # "none"
    /\ MayAwaitApproval(w)
    /\ CanLock(w)
    /\ IF SequenceIsFree(w)
       THEN /\ CommitAs(w, "WAITING_FOR_APPROVAL")
            /\ Go(w, "returned")
            /\ DropScratch(w)
            /\ UNCHANGED <<planGate, job, diff, approval, disk, doing, crashes,
                           overruns, history>>
       ELSE FlushFails(w)

\* RunAborted, or any exception that leaves the session usable: the step fails,
\* the budget is spent, there is nothing to review, the tests did not pass.
StepFails(w) ==
    /\ \/ at[w] \in {"working", "cloned"}
       \/ at[w] = "ready" /\ seen[w] # "CREATED"
    /\ disk' = IF at[w] = "working" /\ seen[w] = "CREATED" THEN None ELSE disk
    /\ Go(w, "aborting")
    /\ UNCHANGED <<rows, holder, memory, crashes, overruns, history>>

\* _fail: one more transition, committed with what the step had flushed.
Fail(w) ==
    /\ at[w] = "aborting"
    /\ CanLock(w)
    /\ IF SequenceIsFree(w)
       THEN /\ CommitAs(w, "FAILED")
            /\ Go(w, "cleaning")
            /\ DropScratch(w)
            /\ UNCHANGED <<planGate, job, diff, approval, disk, doing, crashes,
                           overruns, history>>
       ELSE FlushFails(w)

\* _cleanup of a run the orchestrator itself has failed.
Cleanup(w) ==
    /\ at[w] = "cleaning"
    /\ disk' = None
    /\ Go(w, "returned")
    /\ UNCHANGED <<rows, holder, memory, crashes, overruns, history>>

-----------------------------------------------------------------------------
(* The API.                                                                *)

\* cancel_run.
Cancel ==
    /\ ~IsTerminal(run)
    /\ CommitFromApi("CANCELLED")
    /\ UNCHANGED <<planGate, job, diff, approval, disk, holder, at, doing, seen,
                   changes, evidence, crashes, overruns, history>>

\* _decide: one decision per run, about the diff that is the latest.
Decide(decision) ==
    /\ run = "WAITING_FOR_APPROVAL"
    /\ approval = None
    /\ diff # None
    /\ approval' = [decision |-> decision, diff |-> diff]
    /\ UNCHANGED <<planGate, diff, disk, holder, at, doing, seen, changes,
                   evidence, crashes, overruns, history>>

\* Mutant of Enqueue: the decision is stored, and no job for it.
EnqueueNothing(j) == UNCHANGED job

Enqueue(j) == job' = [job EXCEPT ![j].status = "queued"]

\* approve: the decision, an event, and the job that acts on it.
Approve ==
    /\ Decide("approved")
    /\ ~diff.blocking
    /\ Enqueue("publish")
    /\ CommitFromApi(run)

\* reject: the end of the run; its workspace is not touched.
Reject ==
    /\ Decide("rejected")
    /\ CommitFromApi("FAILED")
    /\ UNCHANGED job

\* request_revision: back to PLANNING, whose step drafts no new plan.
RequestRevision ==
    /\ Decide("revision_requested")
    /\ Enqueue("revise")
    /\ CommitFromApi("PLANNING")

-----------------------------------------------------------------------------
WorkerStep(w) ==
    \/ \E j \in ExecuteJobs : Claim(w, j)
    \/ LoadRun(w)
    \/ MarkSucceededFails(w)
    \/ SelectJob(w)
    \/ MarkJob(w)
    \/ RecordFailure(w)
    \/ RehydrateNew(w)
    \/ RehydrateLost(w)
    \/ Reclone(w)
    \/ Rehydrate(w)
    \/ Announce(w)
    \/ BeginStep(w)
    \/ CloneRepository(w)
    \/ Prepare(w)
    \/ AfterPlan(w)
    \/ \E outcome \in {"passed", "failed"} :
          \/ Implement(w, outcome)
          \/ \E blocking \in BOOLEAN : Assess(w, outcome, blocking)
          \/ TestAgain(w, outcome)
    \/ AwaitApproval(w)
    \/ StepFails(w)
    \/ Fail(w)
    \/ Cleanup(w)

Next ==
    \/ \E w \in Workers :
          \/ WorkerStep(w)
          \/ \E f \in Files, content \in Contents : Edit(w, f, content)
          \/ Crash(w)
    \/ \E j \in ExecuteJobs : LeaseExpires(j)
    \/ LoseMachine
    \/ Cancel
    \/ Approve
    \/ Reject
    \/ RequestRevision

Spec == Init /\ [][Next]_vars

\* Workers go on, and a lease that nobody renews runs out.  Nothing makes the
\* model stop editing but its budget, which is part of WorkerStep's fairness:
\* the end of a step is always enabled while the step works.
Fairness ==
    /\ \A w \in Workers : WF_vars(WorkerStep(w))
    /\ \A j \in ExecuteJobs : WF_vars(LeaseExpires(j))

FairSpec == Spec /\ Fairness

-----------------------------------------------------------------------------
Places ==
    {"idle", "claimed", "loaded", "recloning", "announcing", "ready", "working", "cloned",
     "aborting", "cleaning", "broken", "returned", "raised", "keeping"} \cup DOMAIN Marks

\* Rows, files and memories keep their types.
TypeOK ==
    /\ run \in RunState
    /\ planGate \in BOOLEAN
    /\ job \in [Jobs -> JobRow]
    /\ diff \in Diff \cup {None}
    /\ approval \in Approval \cup {None}
    /\ disk \in Workspace \cup {None}
    /\ holder \in Workers \cup {Nobody}
    /\ at \in [Workers -> Places]
    /\ doing \in [Workers -> Jobs \cup {None}]
    /\ seen \in [Workers -> RunState]
    /\ fresh \in [Workers -> BOOLEAN]
    /\ changes \in [Workers -> ChangeList]
    /\ evidence \in [Workers -> {"none", "passed", "failed"}]
    /\ crashes \in Nat /\ overruns \in Nat
    /\ tested \in BOOLEAN /\ blind \in BOOLEAN /\ trampled \in BOOLEAN

\* What a person is asked to approve is a workspace the tests passed on, however
\* often the run was resumed on the way, unless a worker whose lease had run out has
\* cloned over it (orchestrator.py:848).
GateIsTested ==
    run = "WAITING_FOR_APPROVAL" /\ disk # None /\ ~trampled => tested

\* What the workspace really changes.
TrueDiff == [f \in {g \in Files : disk[g] # Original} |->
                [before |-> Original, after |-> disk[f]]]

\* What a person is asked to approve is all that changed, also when the change
\* list was recovered from git, unless edits were on disk that a worker knew
\* nothing of when it began to record its own, or another cloned over them
\* (workspace.py:192).
DiffIsTruthful ==
    run = "WAITING_FOR_APPROVAL" /\ disk # None /\ ~blind /\ ~trampled =>
        diff.files = TrueDiff

\* An approval is about the latest diff, and neither that nor the workspace
\* changes any more, whatever a worker that lost its lease is still doing, as long as
\* it has not been waiting to clone again since before there was a workspace.
Approved == approval # None /\ approval.decision = "approved"
ApprovedIsFrozen ==
    [][Approved => /\ diff' = approval.diff
                   /\ disk' = disk \/ disk' = None \/ trampled'
                   /\ approval' = approval]_vars

\* The run as its owner and its reviewer see it, until it is approved.
Review == INSTANCE ReviewedRun
    WITH state <- run, published <- FALSE, Diffs <- Diff, Blocking <- {d \in Diff : d.blocking}

\* Whatever workers do twice, late or in vain, the run goes along the transition table, its
\* diff is replaced only when its tests are over, and a person decides once, about the
\* latest diff, which has no credential in it when it is approved
\* (orchestrator.advance, review_service._decide).
RefinesReviewedRun == Review!Spec

\* A job as JobQueue promises to deliver it.
Delivery(j) == INSTANCE JobDelivery
    WITH status <- IF job[j].status = None THEN "absent" ELSE job[j].status,
         attempts <- job[j].attempts,
         working <- {w \in Workers : doing[w] = j},
         retrying <- {w \in Workers : doing[w] = j /\ at[w] = "requeueing"}

\* What this module has of the queue is what JobQueue implements: each job of the run is
\* enqueued once, by the request that needs it, handed out only when it is queued, settled
\* only by somebody who has it, and queued again only by somebody who saw attempts left
\* (run_manager.create_run, review_service._decide, job_queue.mark_failed).
RefinesDelivery ==
    /\ \A j \in Jobs : Delivery(j)!Init
    /\ [][\A j \in Jobs : [Delivery(j)!Next]_(Delivery(j)!vars)]_vars

\* Somebody will go on with a run that waits for nobody, as long as no lease ran
\* out under a live worker.
InProgress == ~IsTerminal(run) /\ ~AwaitsHuman(run)
NeverAbandoned ==
    InProgress /\ overruns = 0 =>
        \E j \in ExecuteJobs : job[j].status \in {"queued", "running"}

\* A run ends or is handed to a person, and stays there, although workers crash
\* in any of its steps, as long as no lease runs out under a live worker.
RunParks == [](overruns = 0) => <>[](~InProgress)

-----------------------------------------------------------------------------
(* What the documentation says.                                            *)

\* The diff shown to a person is what was written, after a crash as well: it is
\* reconstructed, not guessed at (BUILD_PLAN.md:1404-1408).
ReviewedDiffIsComplete ==
    run = "WAITING_FOR_APPROVAL" /\ disk # None => diff.files = TrueDiff
=============================================================================
