----------------------------- MODULE Publishing -----------------------------
(***************************************************************************)
(* An approved run becomes a pull request: the CREATE_PULL_REQUEST job,    *)
(* from the worker that claims it (`worker/main.py`) through `_publish`    *)
(* (`agent/orchestrator.py`) to the calls of the GitHub API                *)
(* (`github/pr.py`).  RunLifecycle ends where this module begins: the run  *)
(* is approved, its job is queued, the workspace is what was reviewed and  *)
(* nobody edits it any more (ApprovedIsFrozen).                            *)
(*                                                                         *)
(* The pull request is made in three places without a common transaction:  *)
(* rows, a directory, and GitHub.  A call of GitHub is one action; it can  *)
(* be answered, refused without effect, or have its effect while the       *)
(* answer is lost, and the client's own retries are part of it.  Workers   *)
(* crash, their lease expires, and the run is cancelled, between any two   *)
(* calls.  As in RunLifecycle a worker whose copy of the run is stale      *)
(* cannot commit an event.                                                 *)
(***************************************************************************)
EXTENDS Naturals, FiniteSets, RunStates

CONSTANTS
    Workers,       \* worker processes
    Paths,         \* the files the reviewed diff names
    Deletions,     \* those of them it deletes
    None,          \* no branch, or no file in progress
    MaxAttempts,   \* max_attempts of the job
    MaxCrashes,    \* bound on crashes
    MaxOverruns,   \* bound on leases that expire under a live worker
    MaxRefusals,   \* bound on GitHub calls and marks that fail without effect
    MaxLost,       \* bound on GitHub calls whose answer is lost
    MaxForeign     \* bound on changes others make to the base branch

\* Contents of a file; a git blob is named by its content.
Content == {"original", "reviewed", "foreign", "absent"}

ASSUME PathsAssumption == Deletions \subseteq Paths /\ Paths # {}
ASSUME NoneAssumption == None \notin Paths \cup [Paths -> Content]
ASSUME BoundsAssumption ==
    /\ MaxAttempts \in Nat \ {0}
    /\ {MaxCrashes, MaxOverruns, MaxRefusals, MaxLost, MaxForeign} \subseteq Nat

VARIABLES
    run,        \* committed agent_run.state
    recorded,   \* number of pull_request rows
    job,        \* the job row: status and attempts
    directory,  \* the checkout exists
    files,      \* named files that are in it
    base,       \* GitHub: the base branch, a content for every path
    branch,     \* GitHub: the branch of the run, or None
    pulls,      \* GitHub: number of pull requests from the branch
    at,         \* per worker: where it is
    fresh,      \* per worker: its copy of the run is the committed row
    changed,    \* per worker: changed_paths still to commit
    deleted,    \* per worker: deleted_paths still to delete
    target,     \* per worker: the path in progress
    blob,       \* per worker: the blob GitHub has for it
    committed,  \* per worker: last_sha is known
    crashes,    \* number of crashes
    overruns,   \* number of leases that expired under a live worker
    refusals,   \* number of calls and marks that failed without effect
    lost        \* number of calls whose answer was lost

rows == <<run, recorded, job>>
checkout == <<directory, files>>
github == <<base, branch, pulls>>
progress == <<changed, deleted, target, blob, committed>>
faults == <<crashes, overruns, refusals, lost>>
vars == <<rows, checkout, github, at, fresh, progress, faults>>

\* What the reviewer approved.
Reviewed == [p \in Paths |-> IF p \in Deletions THEN "absent" ELSE "reviewed"]

Init ==
    /\ run = "WAITING_FOR_APPROVAL"
    /\ recorded = 0
    /\ job = [status |-> "queued", attempts |-> 0]
    /\ directory = TRUE
    /\ files = Paths \ Deletions
    /\ base = [p \in Paths |-> "original"]
    /\ branch = None
    /\ pulls = 0
    /\ at = [w \in Workers |-> "idle"]
    /\ fresh = [w \in Workers |-> FALSE]
    /\ changed = [w \in Workers |-> {}]
    /\ deleted = [w \in Workers |-> {}]
    /\ target = [w \in Workers |-> None]
    /\ blob = [w \in Workers |-> "absent"]
    /\ committed = [w \in Workers |-> FALSE]
    /\ crashes = 0 /\ overruns = 0 /\ refusals = 0 /\ lost = 0

Go(w, place) == at' = [at EXCEPT ![w] = place]

\* The workers of ws have left the handler.
Forget(ws) ==
    /\ fresh' = [w \in Workers |-> fresh[w] /\ w \notin ws]
    /\ changed' = [w \in Workers |-> IF w \in ws THEN {} ELSE changed[w]]
    /\ deleted' = [w \in Workers |-> IF w \in ws THEN {} ELSE deleted[w]]
    /\ target' = [w \in Workers |-> IF w \in ws THEN None ELSE target[w]]
    /\ blob' = [w \in Workers |-> IF w \in ws THEN "absent" ELSE blob[w]]
    /\ committed' = [w \in Workers |-> committed[w] /\ w \notin ws]

-----------------------------------------------------------------------------
(* The job.                                                                *)

\* claim_next and its commit.
Claim(w) ==
    /\ at[w] = "idle"
    /\ job.status = "queued"
    /\ job' = [status |-> "running", attempts |-> job.attempts + 1]
    /\ Go(w, "claimed")
    /\ UNCHANGED <<run, recorded, checkout, github, fresh, progress, faults>>

\* reclaim_expired, which does not know whether a worker has the job.
LeaseExpires ==
    /\ job.status = "running"
    /\ IF \E w \in Workers : at[w] # "idle"
       THEN overruns < MaxOverruns /\ overruns' = overruns + 1
       ELSE UNCHANGED overruns
    /\ job' = [job EXCEPT !.status = "queued"]
    /\ UNCHANGED <<run, recorded, checkout, github, at, fresh, progress,
                   crashes, refusals, lost>>

\* _handle_create_pull_request reads the run.  (PR_CREATED is committed only
\* together with COMPLETED, so its early return for that state is never taken.)
LoadRun(w) ==
    /\ at[w] = "claimed"
    /\ fresh' = [fresh EXCEPT ![w] = TRUE]
    /\ Go(w, IF IsTerminal(run) THEN "returned" ELSE "loaded")
    /\ UNCHANGED <<rows, checkout, github, progress, faults>>

\* Mutant of AttemptsRemain: off by one.
OneAttemptLess == job.attempts + 1 < MaxAttempts

AttemptsRemain == job.attempts < MaxAttempts

Verdict == IF AttemptsRemain THEN "queued" ELSE "failed"

\* mark_succeeded raises after a handler that returned, and the except branch follows.
MarkSucceededFails(w) ==
    /\ at[w] = "returned"
    /\ refusals < MaxRefusals
    /\ refusals' = refusals + 1
    /\ Go(w, "raised")
    /\ UNCHANGED <<rows, checkout, github, fresh, progress, crashes, overruns, lost>>

\* mark_failed reads the job, without a lock: what it will write depends on this row,
\* and a status that it finds already there is not written.
SelectJob(w) ==
    /\ at[w] = "raised"
    /\ Go(w, IF Verdict = job.status THEN "keeping"
             ELSE IF AttemptsRemain THEN "requeueing" ELSE "failing")
    /\ UNCHANGED <<rows, checkout, github, fresh, progress, faults>>

\* Where a worker is about to mark its job, and the status it writes.
Marks == [returned |-> "succeeded", requeueing |-> "queued", failing |-> "failed"]

\* The UPDATE of mark_succeeded or mark_failed, whatever became of the job meanwhile.
MarkJob(w) ==
    /\ \/ at[w] \in DOMAIN Marks /\ job' = [job EXCEPT !.status = Marks[at[w]]]
       \/ at[w] = "keeping" /\ UNCHANGED job
    /\ Go(w, "idle")
    /\ Forget({w})
    /\ UNCHANGED <<run, recorded, checkout, github, faults>>

-----------------------------------------------------------------------------
(* The handler.                                                            *)

\* Mutant of CommitAs: a stale copy is not noticed (no uq_event_sequence).
CommitUnnoticed(w, s) ==
    /\ run' = s
    /\ fresh' = [u \in Workers |-> u = w]

\* Mutant of CommitAs: the second transition is left out.
CommitHalf(w, s) ==
    /\ fresh[w]
    /\ run' = IF s = "COMPLETED" THEN "PR_CREATED" ELSE s
    /\ fresh' = [u \in Workers |-> u = w]

\* An event is flushed and committed, unless the copy of the run is stale.
CommitAs(w, s) ==
    /\ fresh[w]
    /\ run' = s
    /\ fresh' = [u \in Workers |-> u = w]

\* Mutant of PathsOnDisk: nothing is known of deletions.
AllPaths == Paths

\* Whether a named file exists separates an edit from a deletion.
PathsOnDisk == files

\* _publish: the gate has let it pass, the paths of the diff are looked up.
ReadWorkspace(w) ==
    /\ at[w] = "loaded"
    /\ directory
    /\ changed' = [changed EXCEPT ![w] = PathsOnDisk]
    /\ deleted' = [deleted EXCEPT ![w] = Paths \ PathsOnDisk]
    /\ Go(w, "branching")
    /\ UNCHANGED <<rows, checkout, github, fresh, target, blob, committed, faults>>

\* RunAborted: the workspace is gone, and the run fails.
WorkspaceGone(w) ==
    /\ at[w] = "loaded"
    /\ ~directory
    /\ CommitAs(w, "FAILED") \/ (~fresh[w] /\ UNCHANGED <<run, fresh>>)
    /\ Go(w, "raised")
    /\ UNCHANGED <<recorded, job, checkout, github, progress, faults>>

\* A call of GitHub fails without effect; a read of the connection or of rows may
\* raise as well.  The run is not failed for it, the job is.
Refused(w) ==
    /\ at[w] \in {"loaded", "branching", "committing", "writing", "deleting",
               "opening"}
    /\ refusals < MaxRefusals
    /\ refusals' = refusals + 1
    /\ Go(w, "raised")
    /\ UNCHANGED <<rows, checkout, github, fresh, progress, crashes, overruns, lost>>

\* default_branch_sha and create_branch: a branch that exists is used as it is,
\* also when it exists because the first answer was lost.
CreateBranch(w) ==
    /\ at[w] = "branching"
    /\ branch' = IF branch = None THEN base ELSE branch
    /\ Go(w, "committing")
    /\ UNCHANGED <<rows, checkout, base, pulls, fresh, progress, faults>>

\* _existing_file_sha of the next path: the changed ones, then the deleted ones.
\* A changed file that has left the workspace is skipped, and so is a deleted one
\* that has left the branch.
NextFile(w, p) ==
    /\ at[w] = "committing"
    /\ p \in IF changed[w] # {} THEN changed[w] ELSE deleted[w]
    /\ changed' = [changed EXCEPT ![w] = @ \ {p}]
    /\ deleted' = [deleted EXCEPT ![w] = IF changed[w] # {} THEN @ ELSE @ \ {p}]
    /\ IF \/ p \in changed[w] /\ p \notin files
          \/ p \notin changed[w] /\ branch[p] = "absent"
       THEN UNCHANGED <<at, target, blob>>
       ELSE /\ target' = [target EXCEPT ![w] = p]
            /\ blob' = [blob EXCEPT ![w] = branch[p]]
            /\ Go(w, IF p \in changed[w] THEN "writing" ELSE "deleting")
    /\ UNCHANGED <<rows, checkout, github, fresh, committed, faults>>

\* GitHub compares the SHA in the request with the file it has.
BlobIsCurrent(w) == branch[target[w]] = blob[w]

\* The Contents API writes or deletes one file, or finds its SHA outdated.  The
\* answer may be lost: then the client's retry finds the SHA outdated.
WriteFile(w) ==
    /\ at[w] \in {"writing", "deleting"}
    /\ IF BlobIsCurrent(w)
       THEN /\ branch' = [branch EXCEPT ![target[w]] =
                              IF at[w] = "writing" THEN "reviewed" ELSE "absent"]
            /\ \/ /\ committed' = [committed EXCEPT ![w] = TRUE]
                  /\ Go(w, "committing")
                  /\ UNCHANGED lost
               \/ /\ lost < MaxLost /\ lost' = lost + 1
                  /\ Go(w, "raised")
                  /\ UNCHANGED committed
       ELSE Go(w, "raised") /\ UNCHANGED <<branch, committed, lost>>
    /\ UNCHANGED <<rows, checkout, base, pulls, fresh, changed, deleted, target,
                   blob, crashes, overruns, refusals>>

\* Every path is done.  With nothing committed there is nothing to open.
AllWritten(w) ==
    /\ at[w] = "committing"
    /\ changed[w] = {} /\ deleted[w] = {}
    /\ Go(w, IF committed[w] THEN "opening" ELSE "raised")
    /\ UNCHANGED <<rows, checkout, github, fresh, progress, faults>>

\* open_pull_request: GitHub has one open pull request per branch and refuses a
\* second.  The answer may be lost: then the client's retry is refused.
OpenPullRequest(w) ==
    /\ at[w] = "opening"
    /\ IF pulls = 0
       THEN /\ pulls' = 1
            /\ \/ Go(w, "recording") /\ UNCHANGED lost
               \/ lost < MaxLost /\ lost' = lost + 1 /\ Go(w, "raised")
       ELSE Go(w, "raised") /\ UNCHANGED <<pulls, lost>>
    /\ UNCHANGED <<rows, checkout, base, branch, fresh, progress, crashes,
                   overruns, refusals>>

\* record_pull_request and the transitions to PR_CREATED and COMPLETED, in one
\* transaction, which fails as a whole when the copy of the run is stale.
Record(w) ==
    /\ at[w] = "recording"
    /\ \/ CommitAs(w, "COMPLETED") /\ recorded' = recorded + 1 /\ Go(w, "removing")
       \/ ~fresh[w] /\ Go(w, "raised") /\ UNCHANGED <<run, fresh, recorded>>
    /\ UNCHANGED <<job, checkout, github, progress, faults>>

\* rmtree removes the files one after the other, the directory last.
RemoveCheckout(w) ==
    /\ at[w] = "removing"
    /\ \/ /\ \E f \in files : files' = files \ {f}
          /\ UNCHANGED <<directory, at>>
       \/ /\ files = {}
          /\ directory' = FALSE
          /\ Go(w, "returned")
          /\ UNCHANGED files
    /\ UNCHANGED <<rows, github, fresh, progress, faults>>

-----------------------------------------------------------------------------
(* Everybody else.                                                         *)

\* A worker process dies; what GitHub was told stays told.
Crash(w) ==
    /\ at[w] # "idle"
    /\ crashes < MaxCrashes
    /\ crashes' = crashes + 1
    /\ Go(w, "idle")
    /\ Forget({w})
    /\ UNCHANGED <<rows, checkout, github, overruns, refusals, lost>>

\* The machine is lost with all workers and the checkout.
LoseMachine ==
    /\ crashes < MaxCrashes
    /\ directory
    /\ crashes' = crashes + 1
    /\ directory' = FALSE
    /\ files' = {}
    /\ at' = [w \in Workers |-> "idle"]
    /\ Forget(Workers)
    /\ UNCHANGED <<rows, github, overruns, refusals, lost>>

\* cancel_run, by the owner of the run.
Cancel ==
    /\ ~IsTerminal(run)
    /\ run' = "CANCELLED"
    /\ fresh' = [w \in Workers |-> FALSE]
    /\ UNCHANGED <<recorded, job, checkout, github, at, progress, faults>>

\* Somebody merges a change of one of the files into the base branch.
ForeignChange(p) ==
    /\ base[p] = "original"
    /\ Cardinality({q \in Paths : base[q] = "foreign"}) < MaxForeign
    /\ base' = [base EXCEPT ![p] = "foreign"]
    /\ UNCHANGED <<rows, checkout, branch, pulls, at, fresh, progress, faults>>

WorkerStep(w) ==
    \/ Claim(w)
    \/ LoadRun(w)
    \/ MarkSucceededFails(w)
    \/ SelectJob(w)
    \/ MarkJob(w)
    \/ ReadWorkspace(w)
    \/ WorkspaceGone(w)
    \/ CreateBranch(w)
    \/ \E p \in Paths : NextFile(w, p)
    \/ WriteFile(w)
    \/ AllWritten(w)
    \/ OpenPullRequest(w)
    \/ Record(w)
    \/ RemoveCheckout(w)

Next ==
    \/ \E w \in Workers : WorkerStep(w) \/ Refused(w) \/ Crash(w)
    \/ LeaseExpires
    \/ LoseMachine
    \/ Cancel
    \/ \E p \in Paths : ForeignChange(p)

Spec == Init /\ [][Next]_vars

\* Workers go on, and a lease that nobody renews runs out.
Fairness == WF_vars(LeaseExpires) /\ \A w \in Workers : WF_vars(WorkerStep(w))

FairSpec == Spec /\ Fairness

-----------------------------------------------------------------------------
Places ==
    {"idle", "claimed", "loaded", "branching", "committing", "writing", "deleting",
     "opening", "recording", "removing", "returned", "raised", "keeping"} \cup DOMAIN Marks

\* Rows, files, the branch and the workers' memories keep their types.
TypeOK ==
    /\ run \in {"WAITING_FOR_APPROVAL", "COMPLETED", "FAILED", "CANCELLED"}
    /\ recorded \in Nat /\ pulls \in {0, 1}
    /\ job \in [status : {"queued", "running", "succeeded", "failed"}, attempts : Nat]
    /\ directory \in BOOLEAN
    /\ files \subseteq Paths \ Deletions
    /\ base \in [Paths -> Content]
    /\ branch = None \/ branch \in [Paths -> Content]
    /\ at \in [Workers -> Places]
    /\ fresh \in [Workers -> BOOLEAN]
    /\ changed \in [Workers -> SUBSET Paths]
    /\ deleted \in [Workers -> SUBSET Paths]
    /\ target \in [Workers -> Paths \cup {None}]
    /\ blob \in [Workers -> Content]
    /\ committed \in [Workers -> BOOLEAN]
    /\ {crashes, overruns, refusals, lost} \subseteq Nat

\* A pull request offers exactly what was approved, however often a worker began
\* anew on the branch, unless two of them were at work (pr.py:151).
PullIsReviewed == pulls = 1 /\ overruns = 0 => branch = Reviewed

\* The rows tell of one pull request if the run is complete, of none otherwise,
\* and never of one that does not exist, although workers are doubled.
RecordedOnce ==
    /\ recorded = IF run = "COMPLETED" THEN 1 ELSE 0
    /\ recorded <= pulls

\* A run that was cancelled, or has ended otherwise, is not ended again by the
\* worker that was publishing it.
EndedStays == [][IsTerminal(run) => run' = run]_run

\* The run as its owner and its reviewer see it, once it is approved.
Review == INSTANCE ReviewedRun
    WITH state <- run, diff <- Reviewed, published <- recorded = 1,
         approval <- [decision |-> "approved", diff |-> Reviewed],
         Diffs <- {Reviewed}, Blocking <- {}

\* Whatever workers do twice, late or in vain, publishing shows in the rows as one step: the
\* run that waited at the gate is complete and has its pull request; or it fails or is
\* cancelled and never gets one (orchestrator._publish, review_service.record_pull_request).
RefinesReviewedRun == Review!ApprovedSpec

\* The job as JobQueue promises to deliver it.
Delivery == INSTANCE JobDelivery
    WITH status <- job.status, attempts <- job.attempts,
         working <- {w \in Workers : at[w] # "idle"},
         retrying <- {w \in Workers : at[w] = "requeueing"}

\* What this module has of the queue is what JobQueue implements, although the handler
\* fails and its process dies between any two calls of GitHub, and the row that
\* mark_failed read is not the one it writes to (worker.main, job_queue.mark_failed).
RefinesDelivery == Delivery!Spec

\* GitHub has a pull request that no row will ever tell of: nobody is about to
\* record it, and GitHub refuses a second one.
Orphaned ==
    pulls = 1 /\ ~IsTerminal(run) /\ \A w \in Workers : at[w] # "recording"

\* An approved run ends, or its pull request is orphaned, as long as the faults
\* leave an attempt and no lease runs out under a live worker.
EventuallyPublished ==
    [](crashes + refusals + lost < MaxAttempts /\ overruns = 0)
        => <>(IsTerminal(run) \/ Orphaned)

-----------------------------------------------------------------------------
(* What the documentation says.                                            *)

\* If publishing fails it can be retried (orchestrator.py:875): with its pull
\* request open, it does not end in failure.
RetryFinishesPublishing == ~(Orphaned /\ job.status = "failed")
=============================================================================
