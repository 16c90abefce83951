------------------------- MODULE RunLifecycleProofs -------------------------
(***************************************************************************)
(* Proofs about RunLifecycle, for any workers, files and contents, and any *)
(* number of attempts, crashes and expired leases.                         *)
(*                                                                         *)
(* Two workers can be in the same step, so nothing follows from where one  *)
(* of them is.  The argument rests on the row lock and on fresh copies     *)
(* (Copies): only a worker that holds the lock changes the run or, in      *)
(* IMPLEMENTING, its files.  Lost says who can still be at work on a run   *)
(* whose workspace is gone, Recording what the change list of a fresh      *)
(* worker is worth, Evidence and Reviewed what the rows then say, and      *)
(* Attended who will go on with the run.                                   *)
(***************************************************************************)
EXTENDS RunLifecycle, TLAPS

\* In the middle of advance.
Active ==
    {"loaded", "recloning", "announcing", "ready", "working", "cloned", "aborting"}

\* Before _rehydrate, or after advance.
Detached == {"idle", "claimed", "loaded", "recloning", "broken", "cleaning", "returned",
             "raised", "keeping", "requeueing", "failing"}

\* Without a worker that has a workspace in mind.
Unaware == {"idle", "claimed", "loaded", "recloning", "aborting", "broken", "returned",
            "raised", "keeping", "requeueing", "failing"}

\* What can be said of a worker by where it is.
Placed(w) ==
    /\ at[w] \in {"working", "cloned"} => holder = w
    /\ at[w] = "cloned" => seen[w] = "CREATED" /\ (disk # None \/ trampled)
    /\ at[w] = "recloning" => seen[w] \notin STATES_WITH_EDITS
    /\ at[w] \in Active => ~IsTerminal(seen[w]) /\ ~AwaitsHuman(seen[w])
    /\ at[w] = "cleaning" => run = "FAILED" /\ ~Approved
    /\ at[w] \in Detached => changes[w] = NoChanges
    /\ at[w] \in {"idle", "claimed", "loaded", "recloning"} => evidence[w] = "none"
    /\ at[w] = "idle" <=> doing[w] = None

Copies ==
    /\ run \notin {"ANALYZING_FAILURE", "REVISING", "PR_CREATED", "COMPLETED"}
    /\ \A w \in Workers : fresh[w] => seen[w] = run
    /\ holder # Nobody => fresh[holder] /\ at[holder] \in Active
    /\ \A w \in Workers : Placed(w)

Lost ==
    disk = None /\ ~trampled =>
       /\ Approved => \A w \in Workers : at[w] \notin {"loaded", "recloning"}
       /\ run # "CREATED" /\ ~IsTerminal(run) =>
             \A w \in Workers : /\ at[w] \in Unaware
                                /\ at[w] \in {"loaded", "recloning"} => seen[w] = run
                                /\ changes[w] = NoChanges

\* Every change is recorded, from what was cloned.
IsComplete(recorded) ==
    /\ \A f \in DOMAIN recorded : recorded[f] = Original
    /\ \A f \in Files : disk[f] # Original => f \in DOMAIN recorded

Recording ==
    \A w \in Workers : fresh[w] /\ changes[w] # NoChanges =>
       /\ run \in {"IMPLEMENTING", "TESTING", "VERIFYING"}
       /\ run = "IMPLEMENTING" => holder = w
       /\ ~blind /\ ~trampled /\ disk # None => IsComplete(changes[w])

Evidence ==
    /\ run \in {"TESTING", "VERIFYING"} =>
          \A w \in Workers : fresh[w] /\ evidence[w] = "passed" =>
             tested \/ disk = None \/ trampled
    /\ run = "WAITING_FOR_APPROVAL" => tested \/ disk = None \/ trampled

Reviewed ==
    /\ run \in {"VERIFYING", "WAITING_FOR_APPROVAL"} /\ disk # None /\ ~blind /\ ~trampled =>
          diff.files = TrueDiff
    /\ Approved => /\ diff = approval.diff
                   /\ run \in {"WAITING_FOR_APPROVAL", "FAILED", "CANCELLED"}

\* A job that will be claimed, or whose worker, if there is one, goes on.
Alive(j) ==
    \/ job[j].status = "queued"
    \/ /\ job[j].status = "running"
       /\ \A w \in Workers : doing[w] = j =>
             at[w] = "claimed" \/ (fresh[w] /\ at[w] \in Active)

Attended ==
    /\ approval = None => /\ job["revise"].status = None
                          /\ \A w \in Workers : doing[w] # "revise"
    /\ overruns = 0 =>
          /\ \A w \in Workers : doing[w] # None => job[doing[w]].status = "running"
          /\ \A w, u \in Workers : doing[w] = doing[u] /\ doing[w] # None => w = u
          /\ InProgress => \E j \in ExecuteJobs : Alive(j)

\* Only jobs that execute the run are claimed.
Claimed == \A w \in Workers : doing[w] \in ExecuteJobs \cup {None}

Inv == /\ TypeOK /\ Copies /\ Lost /\ Recording /\ Evidence /\ Reviewed
       /\ Claimed /\ Attended

-----------------------------------------------------------------------------
(* Types.                                                                  *)

\* The constants, as facts to cite.
LEMMA Types ==
    /\ MaxAttempts \in Nat /\ MaxFaults \in Nat
    /\ Nobody \notin Workers
    /\ Original \in Contents
    /\ Cloned \in Workspace /\ Cloned # None
    /\ \A f \in Files : Cloned[f] = Original
    /\ None \notin Contents /\ None \notin Jobs /\ None \notin JobStatus
    /\ None \notin Workspace /\ None \notin Diff /\ None \notin Approval
<1>1. Cloned \in Workspace /\ \A f \in Files : Cloned[f] = Original
  BY ContentsAssumption DEF Cloned, Workspace
<1> QED  BY <1>1, BoundsAssumption, WorkersAssumption, ContentsAssumption, NoneAssumption

\* The states, one by one.
LEMMA States ==
    RunState = {"CREATED", "CLONING_REPOSITORY", "ANALYZING_ISSUE", "EXPLORING_REPOSITORY",
                "INDEXING_REPOSITORY", "RETRIEVING_CONTEXT", "PLANNING", "IMPLEMENTING",
                "TESTING", "ANALYZING_FAILURE", "REVISING", "VERIFYING", "PR_CREATED",
                "WAITING_FOR_PLAN_REVIEW", "WAITING_FOR_APPROVAL", "COMPLETED", "FAILED",
                "CANCELLED"}
BY DEF RunState, WORKING_STATES, HUMAN_GATE_STATES, TERMINAL_STATES

\* What a worker may record: nothing, what git tells, one more edit.
LEMMA Lists ==
    ASSUME TypeOK
    PROVE  /\ NoChanges \in ChangeList /\ DOMAIN NoChanges = {}
           /\ disk # None => /\ disk \in Workspace
                             /\ Uncommitted \in ChangeList
                             /\ DOMAIN Uncommitted = {f \in Files : disk[f] # Original}
                             /\ \A f \in DOMAIN Uncommitted : Uncommitted[f] = Original
           /\ \A w \in Workers : DOMAIN changes[w] \subseteq Files
                                 /\ \A f \in DOMAIN changes[w] : changes[w][f] \in Contents
<1>1. NoChanges \in [{} -> Contents]
  BY DEF NoChanges
<1>2. \A paths \in SUBSET Files : [paths -> Contents] \subseteq ChangeList
  BY DEF ChangeList
<1>3. ASSUME disk # None
      PROVE  /\ disk \in Workspace
             /\ Uncommitted \in [{f \in Files : disk[f] # Original} -> Contents]
             /\ \A f \in DOMAIN Uncommitted : Uncommitted[f] = Original
  BY <1>3, ContentsAssumption DEF TypeOK, Uncommitted
<1>4. ASSUME NEW w \in Workers
      PROVE  /\ DOMAIN changes[w] \subseteq Files
             /\ \A f \in DOMAIN changes[w] : changes[w][f] \in Contents
  <2>1. changes[w] \in ChangeList
    BY DEF TypeOK
  <2>2. PICK paths \in SUBSET Files : changes[w] \in [paths -> Contents]
    BY <2>1 DEF ChangeList
  <2> QED  BY <2>2
<1>5. NoChanges \in ChangeList /\ DOMAIN NoChanges = {}
  BY <1>1, <1>2
<1>6. ASSUME disk # None
      PROVE  Uncommitted \in ChangeList /\ DOMAIN Uncommitted = {f \in Files : disk[f] # Original}
  <2>1. {f \in Files : disk[f] # Original} \in SUBSET Files
    OBVIOUS
  <2> QED  BY <1>2, <1>3, <1>6, <2>1
<1> QED  BY <1>3, <1>4, <1>5, <1>6

\* One more edit, recorded.
LEMMA RecordedType ==
    ASSUME TypeOK, disk # None, NEW w \in Workers, NEW f \in Files
    PROVE  /\ Recorded(w, f) \in ChangeList
           /\ DOMAIN Recorded(w, f) = DOMAIN changes[w] \cup {f}
           /\ \A g \in DOMAIN changes[w] : Recorded(w, f)[g] = changes[w][g]
           /\ f \notin DOMAIN changes[w] => Recorded(w, f)[f] = disk[f]
<1>1. Recorded(w, f) \in [DOMAIN changes[w] \cup {f} -> Contents]
  BY Lists DEF Recorded, Workspace
<1>2. DOMAIN changes[w] \cup {f} \in SUBSET Files
  BY Lists
<1>3. Recorded(w, f) \in ChangeList
  BY <1>1, <1>2 DEF ChangeList
<1> QED  BY <1>1, <1>3 DEF Recorded

\* What _assess stores is a diff.
LEMMA ChangeSetType ==
    ASSUME TypeOK, disk # None, NEW w \in Workers, NEW blocking \in BOOLEAN
    PROVE  [files |-> ChangeSet(w), blocking |-> blocking] \in Diff
<1> DEFINE paths == {f \in DOMAIN changes[w] : changes[w][f] # disk[f]}
<1>1. paths \in SUBSET Files
  BY Lists
<1>2. ChangeSet(w) \in [paths -> FileDiff]
  BY Lists DEF ChangeSet, FileDiff, Workspace
<1>3. ChangeSet(w) \in UNION {[ps -> FileDiff] : ps \in SUBSET Files}
  BY <1>1, <1>2
<1> QED  BY <1>3 DEF Diff

\* A job row that is updated is a job row.
LEMMA JobTypes ==
    ASSUME TypeOK, NEW j \in Jobs, NEW status \in JobStatus
    PROVE  /\ [job EXCEPT ![j].status = status] \in [Jobs -> JobRow]
           /\ [job EXCEPT ![j] = [status |-> status, attempts |-> @.attempts + 1]]
                 \in [Jobs -> JobRow]
<1>1. job[j] \in JobRow /\ job \in [Jobs -> JobRow]
  BY DEF TypeOK
<1>2. [job[j] EXCEPT !.status = status] \in JobRow
  BY <1>1 DEF JobRow
<1>3. [status |-> status, attempts |-> job[j].attempts + 1] \in JobRow
  BY <1>1 DEF JobRow
<1> QED  BY <1>1, <1>2, <1>3

\* A session that commits.
LEMMA CommitTypes ==
    ASSUME TypeOK, NEW w \in Workers, NEW s \in RunState, CommitAs(w, s)
    PROVE  /\ run' \in RunState
           /\ seen' \in [Workers -> RunState]
           /\ fresh' \in [Workers -> BOOLEAN]
           /\ holder' \in Workers \cup {Nobody}
<1>1. fresh' \in [Workers -> BOOLEAN]
  BY DEF CommitAs
<1> QED  BY <1>1 DEF CommitAs, TypeOK

\* A scratch that is dropped.
LEMMA DropTypes ==
    ASSUME TypeOK, NEW w \in Workers, DropScratch(w)
    PROVE  /\ changes' \in [Workers -> ChangeList]
           /\ evidence' \in [Workers -> {"none", "passed", "failed"}]
BY Lists DEF DropScratch, TypeOK

\* A session that ends.
LEMMA ForgetTypes ==
    ASSUME TypeOK, NEW w \in Workers, Forget(w)
    PROVE  /\ seen' \in [Workers -> RunState] /\ fresh' \in [Workers -> BOOLEAN]
           /\ changes' \in [Workers -> ChangeList]
           /\ evidence' \in [Workers -> {"none", "passed", "failed"}]
BY DropTypes, States DEF Forget, TypeOK

\* A flush that fails.
LEMMA FlushTypes ==
    ASSUME TypeOK, NEW w \in Workers, FlushFails(w)
    PROVE  TypeOK'
<1>1. DropScratch(w) /\ Go(w, "broken")
  BY DEF FlushFails
<1>2. at' \in [Workers -> Places]
  BY <1>1 DEF Go, TypeOK, Places
<1> QED  BY <1>1, <1>2, DropTypes DEF FlushFails, TypeOK, rows, history

\* A test run, or the evidence of an earlier one.
LEMMA TestTypes ==
    ASSUME TypeOK, NEW w \in Workers, NEW outcome \in {"passed", "failed"},
           RunTests(w, outcome) \/ Outcomes(w, outcome)
    PROVE  /\ evidence' \in [Workers -> {"none", "passed", "failed"}]
           /\ tested' \in BOOLEAN
<1>1. CASE RunTests(w, outcome)
  <2>1. tested' \in BOOLEAN
    BY <1>1 DEF RunTests, TypeOK
  <2> QED  BY <1>1, <2>1 DEF RunTests, TypeOK
<1>2. CASE UNCHANGED <<evidence, tested>>
  BY <1>2 DEF TypeOK
<1> QED  BY <1>1, <1>2 DEF Outcomes

\* A complete record gives the true diff.
LEMMA TrueDiffs ==
    /\ UNCHANGED disk => TrueDiff' = TrueDiff
    /\ \A w \in Workers : TypeOK /\ disk # None /\ IsComplete(changes[w])
                             => ChangeSet(w) = TrueDiff
<1>1. UNCHANGED disk => TrueDiff' = TrueDiff
  BY DEF TrueDiff
<1>2. ASSUME NEW w \in Workers, TypeOK, disk # None, IsComplete(changes[w])
      PROVE  ChangeSet(w) = TrueDiff
  <2>1. DOMAIN changes[w] \subseteq Files
    BY <1>2, Lists
  <2>2. {f \in DOMAIN changes[w] : changes[w][f] # disk[f]} = {f \in Files : disk[f] # Original}
    BY <1>2, <2>1 DEF IsComplete
  <2>3. \A f \in DOMAIN changes[w] : changes[w][f] = Original
    BY <1>2 DEF IsComplete
  <2> QED  BY <2>2, <2>3 DEF ChangeSet, TrueDiff
<1> QED  BY <1>1, <1>2

\* A flush that fails: only w moves, and it knows nothing more.
LEMMA Flushes ==
    ASSUME Inv, NEW w \in Workers, FlushFails(w), at[w] \in Active
    PROVE  /\ UNCHANGED <<run, job, diff, approval, disk, holder, seen, fresh, doing,
                           overruns, tested, blind, trampled>>
           /\ at' = [at EXCEPT ![w] = "broken"]
           /\ changes' = [changes EXCEPT ![w] = NoChanges]
           /\ evidence' = [evidence EXCEPT ![w] = "none"]
           /\ at'[w] = "broken" /\ changes'[w] = NoChanges /\ evidence'[w] = "none"
           /\ \A u \in Workers \ {w} : at'[u] = at[u] /\ changes'[u] = changes[u]
                                       /\ evidence'[u] = evidence[u]
BY DEF FlushFails, Go, DropScratch, Inv, TypeOK, rows, history

\* A worker that is done with its job had one, and at most its status is another one now.
LEMMA MarkedRow ==
    ASSUME Inv, NEW w \in Workers, MarkJob(w)
    PROVE  /\ doing[w] \in ExecuteJobs
           /\ job' \in [Jobs -> JobRow]
           /\ \A j \in Jobs \ {doing[w]} : job'[j] = job[j]
           /\ job'[doing[w]].attempts = job[doing[w]].attempts
           /\ \/ at[w] = "keeping" /\ job' = job
              \/ at[w] \in DOMAIN Marks /\ job'[doing[w]].status = Marks[at[w]]
<1>1. doing[w] \in ExecuteJobs
  BY DEF Inv, Claimed, Copies, Placed, MarkJob, Marks
<1>2. doing[w] \in Jobs /\ job \in [Jobs -> JobRow] /\ job[doing[w]] \in JobRow
  BY <1>1 DEF Inv, TypeOK, Jobs
<1>3. \A place \in DOMAIN Marks : Marks[place] \in JobStatus
  BY DEF Marks, JobStatus
<1>4. CASE at[w] \in DOMAIN Marks /\ job' = [job EXCEPT ![doing[w]].status = Marks[at[w]]]
  <2>1. job' \in [Jobs -> JobRow]
    BY <1>2, <1>3, <1>4, JobTypes DEF Inv
  <2> QED  BY <1>1, <1>2, <1>4, <2>1 DEF JobRow
<1> QED  BY <1>1, <1>2, <1>4 DEF MarkJob

\* Every variable keeps its type.
LEMMA TypeStep ==
    ASSUME Inv, Next
    PROVE  TypeOK'
<1>1. ASSUME NEW w \in Workers, NEW j \in ExecuteJobs, Claim(w, j)
      PROVE  TypeOK'
  <2>1. job' \in [Jobs -> JobRow]
    BY <1>1, JobTypes DEF Inv, Claim, Jobs, JobStatus
  <2> QED  BY <1>1, <2>1 DEF Inv, TypeOK, Places, Claim, Go, Jobs, history
<1>2. ASSUME NEW w \in Workers, LoadRun(w)
      PROVE  TypeOK'
  BY <1>2 DEF Inv, TypeOK, Places, LoadRun, Go, rows, history
<1>3. ASSUME NEW w \in Workers, MarkJob(w)
      PROVE  TypeOK'
  <2>1. job' \in [Jobs -> JobRow]
    BY <1>3, MarkedRow
  <2>2. Forget(w)
    BY <1>3 DEF MarkJob
  <2> QED  BY <1>3, <2>1, <2>2, ForgetTypes DEF Inv, TypeOK, Places, MarkJob, Go, history
<1>4. ASSUME NEW w \in Workers, RecordFailure(w)
      PROVE  TypeOK'
  <2>1. CASE CommitAs(w, "FAILED")
    BY <1>4, <2>1, CommitTypes, States DEF Inv, TypeOK, Places, RecordFailure, Go, history
  <2>2. CASE UNCHANGED <<run, holder, seen, fresh>>
    BY <1>4, <2>2 DEF Inv, TypeOK, Places, RecordFailure, Go, history
  <2> QED  BY <1>4, <2>1, <2>2 DEF RecordFailure
<1>5. ASSUME NEW w \in Workers, RehydrateNew(w)
      PROVE  TypeOK'
  BY <1>5 DEF Inv, TypeOK, Places, RehydrateNew, Go, rows, memory, history
<1>6. ASSUME NEW w \in Workers, RehydrateLost(w)
      PROVE  TypeOK'
  BY <1>6, Types DEF Inv, TypeOK, Places, RehydrateLost, Go, rows, memory, history
<1>7. ASSUME NEW w \in Workers, Rehydrate(w)
      PROVE  TypeOK'
  <2>1. changes' \in [Workers -> ChangeList]
    BY <1>7, Lists DEF Inv, TypeOK, Rehydrate
  <2>2. at' \in [Workers -> Places]
    BY <1>7 DEF Inv, TypeOK, Places, Rehydrate, Go
  <2> QED  BY <1>7, <2>1, <2>2 DEF Inv, TypeOK, Rehydrate, rows, history
<1>8. ASSUME NEW w \in Workers, Announce(w)
      PROVE  TypeOK'
  <2>1. CASE FlushFails(w)
    BY <2>1, FlushTypes DEF Inv
  <2>2. CASE ~FlushFails(w)
    BY <1>8, <2>2 DEF Inv, TypeOK, Places, Announce, Lock, Go, rows, memory, history
  <2> QED  BY <2>1, <2>2
<1>9. ASSUME NEW w \in Workers, BeginStep(w)
      PROVE  TypeOK'
  <2>1. CASE FlushFails(w)
    BY <2>1, FlushTypes DEF Inv
  <2>2. CASE ~FlushFails(w)
    BY <1>9, <2>2 DEF Inv, TypeOK, Places, BeginStep, Lock, Go, rows, memory, history
  <2> QED  BY <2>1, <2>2
<1>10. ASSUME NEW w \in Workers, CloneRepository(w)
      PROVE  TypeOK'
  BY <1>10, Types DEF Inv, TypeOK, Places, CloneRepository, Go, rows, memory
<1>11. ASSUME NEW w \in Workers, Prepare(w)
      PROVE  TypeOK'
  <2>1. PICK s \in RunState : CommitAs(w, s)
    BY <1>11, States DEF Prepare, PreparationSteps
  <2> QED  BY <1>11, <2>1, CommitTypes DEF Inv, TypeOK, Places, Prepare, Go, history
<1>12. ASSUME NEW w \in Workers, AfterPlan(w)
      PROVE  TypeOK'
  <2>1. PICK s \in RunState : CommitAs(w, s)
    BY <1>12, States DEF AfterPlan
  <2>2. at' \in [Workers -> Places]
    BY <1>12 DEF Inv, TypeOK, Places, AfterPlan, Go
  <2> QED  BY <1>12, <2>1, <2>2, CommitTypes DEF Inv, TypeOK, AfterPlan, history
<1>13. ASSUME NEW w \in Workers, NEW outcome \in {"passed", "failed"},
              Implement(w, outcome)
      PROVE  TypeOK'
  <2>1. CommitAs(w, "TESTING") /\ RunTests(w, outcome)
    BY <1>13 DEF Implement
  <2>2. at' \in [Workers -> Places]
    BY <1>13 DEF Inv, TypeOK, Places, Implement, Go
  <2> QED  BY <1>13, <2>1, <2>2, CommitTypes, TestTypes, States DEF Inv, TypeOK, Implement
<1>14. ASSUME NEW w \in Workers, NEW outcome \in {"passed", "failed"},
              NEW blocking \in BOOLEAN, Assess(w, outcome, blocking)
      PROVE  TypeOK'
  <2>1. CommitAs(w, "VERIFYING") /\ Outcomes(w, outcome)
    BY <1>14 DEF Assess
  <2>2. at' \in [Workers -> Places]
    BY <1>14 DEF Inv, TypeOK, Places, Assess, Go
  <2>3. diff' \in Diff
    BY <1>14, ChangeSetType DEF Inv, Assess
  <2> QED  BY <1>14, <2>1, <2>2, <2>3, CommitTypes, TestTypes, States DEF Inv, TypeOK, Assess
<1>15. ASSUME NEW w \in Workers, NEW outcome \in {"passed", "failed"},
              TestAgain(w, outcome)
      PROVE  TypeOK'
  BY <1>15 DEF Inv, TypeOK, TestAgain, RunTests, rows
<1>16. ASSUME NEW w \in Workers, AwaitApproval(w)
      PROVE  TypeOK'
  <2>1. CASE FlushFails(w)
    BY <2>1, FlushTypes DEF Inv
  <2>2. CASE CommitAs(w, "WAITING_FOR_APPROVAL") /\ ~FlushFails(w)
    <3>1. DropScratch(w)
      BY <1>16, <2>2 DEF AwaitApproval
    <3>2. at' \in [Workers -> Places]
      BY <1>16, <2>2 DEF Inv, TypeOK, Places, AwaitApproval, Go
    <3> QED  BY <1>16, <2>2, <3>1, <3>2, CommitTypes, DropTypes, States
             DEF Inv, TypeOK, AwaitApproval, history
  <2> QED  BY <1>16, <2>1, <2>2 DEF AwaitApproval
<1>17. ASSUME NEW w \in Workers, StepFails(w)
      PROVE  TypeOK'
  BY <1>17 DEF Inv, TypeOK, Places, StepFails, Go, rows, memory, history
<1>18. ASSUME NEW w \in Workers, Fail(w)
      PROVE  TypeOK'
  <2>1. CASE FlushFails(w)
    BY <2>1, FlushTypes DEF Inv
  <2>2. CASE CommitAs(w, "FAILED") /\ ~FlushFails(w)
    <3>1. DropScratch(w)
      BY <1>18, <2>2 DEF Fail
    <3>2. at' \in [Workers -> Places]
      BY <1>18, <2>2 DEF Inv, TypeOK, Places, Fail, Go
    <3> QED  BY <1>18, <2>2, <3>1, <3>2, CommitTypes, DropTypes, States
             DEF Inv, TypeOK, Fail, history
  <2> QED  BY <1>18, <2>1, <2>2 DEF Fail
<1>19. ASSUME NEW w \in Workers, Cleanup(w)
      PROVE  TypeOK'
  BY <1>19 DEF Inv, TypeOK, Places, Cleanup, Go, rows, memory, history
<1>20. ASSUME NEW w \in Workers, NEW f \in Files, NEW content \in Contents,
              Edit(w, f, content)
      PROVE  TypeOK'
  <2>1. Recorded(w, f) \in ChangeList
    BY <1>20, RecordedType DEF Inv, Edit
  <2>2. blind' \in BOOLEAN
    BY <1>20 DEF Inv, TypeOK, Edit
  <2>3. disk' \in Workspace
    BY <1>20 DEF Inv, TypeOK, Edit, Workspace
  <2> QED  BY <1>20, <2>1, <2>2, <2>3 DEF Inv, TypeOK, Edit, rows
<1>21. ASSUME NEW w \in Workers, Crash(w)
      PROVE  TypeOK'
  <2>1. Forget(w)
    BY <1>21 DEF Crash
  <2> QED  BY <1>21, <2>1, ForgetTypes DEF Inv, TypeOK, Places, Crash, Go, rows, history
<1>22. ASSUME NEW j \in ExecuteJobs, LeaseExpires(j)
      PROVE  TypeOK'
  <2>1. job' \in [Jobs -> JobRow]
    BY <1>22, JobTypes DEF Inv, LeaseExpires, Jobs, JobStatus
  <2> QED  BY <1>22, <2>1 DEF Inv, TypeOK, LeaseExpires, memory, history
<1>23. CASE LoseMachine
  <2>1. changes' \in [Workers -> ChangeList]
    BY <1>23, Lists DEF Inv, LoseMachine
  <2> QED  BY <1>23, <2>1, States DEF Inv, TypeOK, Places, LoseMachine, rows, history
<1>24. CASE Cancel
  BY <1>24, States DEF Inv, TypeOK, Cancel, CommitFromApi, history
<1>25. CASE Approve
  <2>1. approval' \in Approval
    BY <1>25 DEF Inv, TypeOK, Approve, Decide, Approval
  <2>2. job' \in [Jobs -> JobRow]
    BY <1>25, JobTypes DEF Inv, TypeOK, Approve, Enqueue, JobStatus
  <2>3. fresh' \in [Workers -> BOOLEAN]
    BY <1>25 DEF Approve, CommitFromApi
  <2> QED  BY <1>25, <2>1, <2>2, <2>3 DEF Inv, TypeOK, Approve, Decide, CommitFromApi, history
<1>26. CASE Reject
  <2>1. approval' \in Approval
    BY <1>26 DEF Inv, TypeOK, Reject, Decide, Approval
  <2>2. job' \in [Jobs -> JobRow]
    BY <1>26, JobTypes DEF Inv, TypeOK, Reject
  <2>3. fresh' \in [Workers -> BOOLEAN]
    BY <1>26 DEF Reject, CommitFromApi
  <2> QED  BY <1>26, <2>1, <2>2, <2>3, States
           DEF Inv, TypeOK, Reject, Decide, CommitFromApi, history
<1>27. CASE RequestRevision
  <2>1. approval' \in Approval
    BY <1>27 DEF Inv, TypeOK, RequestRevision, Decide, Approval
  <2>2. job' \in [Jobs -> JobRow]
    BY <1>27, JobTypes DEF Inv, TypeOK, RequestRevision, Enqueue, JobStatus
  <2>3. fresh' \in [Workers -> BOOLEAN]
    BY <1>27 DEF RequestRevision, CommitFromApi
  <2> QED  BY <1>27, <2>1, <2>2, <2>3, States
           DEF Inv, TypeOK, RequestRevision, Decide, CommitFromApi, history
<1>28. ASSUME NEW w \in Workers, MarkSucceededFails(w)
      PROVE  TypeOK'
  BY <1>28 DEF Inv, TypeOK, Places, MarkSucceededFails, Go, rows, memory, history
<1>29. ASSUME NEW w \in Workers, SelectJob(w)
      PROVE  TypeOK'
  BY <1>29 DEF Inv, TypeOK, Places, Marks, SelectJob, Go, rows, memory, history
<1>30. ASSUME NEW w \in Workers, Reclone(w)
      PROVE  TypeOK'
  <2>1. disk' \in Workspace \cup {None} /\ tested' \in BOOLEAN /\ trampled' \in BOOLEAN
    BY <1>30, Types DEF Inv, TypeOK, Reclone
  <2> QED  BY <1>30, <2>1 DEF Inv, TypeOK, Places, Reclone, Go, rows, memory
<1> QED
  BY <1>1, <1>2, <1>3, <1>4, <1>5, <1>6, <1>7, <1>8, <1>9, <1>10, <1>11, <1>12, <1>13, <1>14,
     <1>15, <1>16, <1>17, <1>18, <1>19, <1>20, <1>21, <1>22, <1>23, <1>24, <1>25, <1>26, <1>27,
     <1>28, <1>29, <1>30 DEF Next, WorkerStep

\* Who holds the lock has a fresh copy, and the others stay away from the files.
LEMMA CopiesStep ==
    ASSUME Inv, Next
    PROVE  Copies'
<1>1. ASSUME NEW w \in Workers, NEW j \in ExecuteJobs, Claim(w, j)
      PROVE  Copies'
  <2>1. run' \notin {"ANALYZING_FAILURE", "REVISING", "PR_CREATED", "COMPLETED"}
    BY <1>1 DEF Inv, TypeOK, Copies, Claim
  <2>2. ASSUME NEW u \in Workers, fresh'[u] PROVE seen'[u] = run'
    BY <1>1, <2>2 DEF Inv, TypeOK, Copies, Claim
  <2>3. holder' # Nobody => fresh'[holder'] /\ at'[holder'] \in Active
    BY <1>1 DEF Inv, TypeOK, Copies, Active, Claim, Go
  <2>4. ASSUME NEW u \in Workers PROVE Placed(u)'
    <3>1. CASE u = w
      BY <1>1, <3>1, Types DEF Inv, TypeOK, Copies, Placed, Active, Detached, Claim, Go, Jobs
    <3>2. CASE u # w
      BY <1>1, <3>2 DEF Inv, TypeOK, Copies, Placed, Approved, Claim, Go, history
    <3> QED  BY <3>1, <3>2
  <2> QED  BY <2>1, <2>2, <2>3, <2>4 DEF Copies
<1>2. ASSUME NEW w \in Workers, LoadRun(w)
      PROVE  Copies'
  BY <1>2
     DEF Inv, TypeOK, Copies, Placed, Approved, Active, Detached, LoadRun, Go, rows, history
<1>3. ASSUME NEW w \in Workers, MarkJob(w)
      PROVE  Copies'
  BY <1>3
     DEF Inv, TypeOK, Copies, Placed, Approved, Active, Marks, MarkJob, Go, Forget,
         DropScratch, history
<1>4. ASSUME NEW w \in Workers, RecordFailure(w)
      PROVE  Copies'
  <2>1. run' \notin {"ANALYZING_FAILURE", "REVISING", "PR_CREATED", "COMPLETED"}
    BY <1>4 DEF Inv, TypeOK, Copies, RecordFailure, CommitAs
  <2>2. ASSUME NEW u \in Workers, fresh'[u] PROVE seen'[u] = run'
    BY <1>4, <2>2 DEF Inv, TypeOK, Copies, RecordFailure, CommitAs
  <2>3. holder' # Nobody => fresh'[holder'] /\ at'[holder'] \in Active
    BY <1>4 DEF Inv, TypeOK, Copies, Active, RecordFailure, Go, CommitAs
  <2>4. ASSUME NEW u \in Workers PROVE Placed(u)'
    <3>1. CASE u = w
      BY <1>4, <3>1
         DEF Inv, TypeOK, Copies, Placed, Active, Detached, RecordFailure, Go, CommitAs
    <3>2. CASE u # w
      BY <1>4, <3>2
         DEF Inv, TypeOK, Copies, Placed, Approved, RecordFailure, Go, CommitAs, history
    <3> QED  BY <3>1, <3>2
  <2> QED  BY <2>1, <2>2, <2>3, <2>4 DEF Copies
<1>5. ASSUME NEW w \in Workers, RehydrateNew(w)
      PROVE  Copies'
  BY <1>5
     DEF Inv, TypeOK, Copies, Placed, Approved, Active, Detached, RehydrateNew, Go, rows,
         memory, history
<1>6. ASSUME NEW w \in Workers, RehydrateLost(w)
      PROVE  Copies'
  BY <1>6
     DEF Inv, TypeOK, Copies, Placed, Approved, Active, Detached, RehydrateLost, Go, rows,
         memory, history
<1>7. ASSUME NEW w \in Workers, Rehydrate(w)
      PROVE  Copies'
  BY <1>7 DEF Inv, TypeOK, Copies, Placed, Approved, Active, Detached, Rehydrate, Go, rows
<1>8. ASSUME NEW w \in Workers, Announce(w)
      PROVE  Copies'
  BY <1>8, Types
     DEF Inv, TypeOK, Copies, Placed, Approved, Active, Detached, Announce, Lock, CanLock,
         SequenceIsFree, FlushFails, DropScratch, Go, rows, memory
<1>9. ASSUME NEW w \in Workers, BeginStep(w)
      PROVE  Copies'
  BY <1>9, Types
     DEF Inv, TypeOK, Copies, Placed, Approved, Active, Detached, BeginStep, Lock, CanLock,
         SequenceIsFree, FlushFails, DropScratch, Go, rows, memory
<1>10. ASSUME NEW w \in Workers, CloneRepository(w)
      PROVE  Copies'
  BY <1>10, Types
     DEF Inv, TypeOK, Copies, Placed, Active, Detached, CloneRepository, Go, rows, memory
<1>11. ASSUME NEW w \in Workers, Prepare(w)
      PROVE  Copies'
  <2>1. run' \notin {"ANALYZING_FAILURE", "REVISING", "PR_CREATED", "COMPLETED"}
    BY <1>11 DEF Inv, TypeOK, Prepare, CommitAs, PreparationSteps
  <2>2. ASSUME NEW u \in Workers, fresh'[u] PROVE seen'[u] = run'
    BY <1>11, <2>2 DEF Inv, TypeOK, Active, Prepare, CommitAs, PreparationSteps
  <2>3. holder' # Nobody => fresh'[holder'] /\ at'[holder'] \in Active
    BY <1>11 DEF Inv, TypeOK, Prepare, CommitAs, PreparationSteps
  <2>4. ASSUME NEW u \in Workers PROVE Placed(u)'
    <3>1. CASE u = w
      BY <1>11, <3>1
         DEF Inv, TypeOK, Copies, Placed, Detached, IsTerminal, AwaitsHuman, TERMINAL_STATES,
             HUMAN_GATE_STATES, Prepare, CommitAs, PreparationSteps, Go
    <3>2. CASE u # w
      BY <1>11, <3>2, Types
         DEF Inv, TypeOK, Copies, Placed, Prepare, CommitAs, PreparationSteps, Go
    <3> QED  BY <3>1, <3>2
  <2> QED  BY <2>1, <2>2, <2>3, <2>4 DEF Copies
<1>12. ASSUME NEW w \in Workers, AfterPlan(w)
      PROVE  Copies'
  <2>0. changes[w] = NoChanges
    BY <1>12, Types DEF Inv, TypeOK, Copies, Placed, Recording, AfterPlan
  <2>1. run' \notin {"ANALYZING_FAILURE", "REVISING", "PR_CREATED", "COMPLETED"}
    BY <1>12, <2>0 DEF Inv, TypeOK, AfterPlan, CommitAs
  <2>2. ASSUME NEW u \in Workers, fresh'[u] PROVE seen'[u] = run'
    BY <1>12, <2>2, <2>0 DEF Inv, TypeOK, AfterPlan, CommitAs
  <2>3. holder' # Nobody => fresh'[holder'] /\ at'[holder'] \in Active
    BY <1>12, <2>0 DEF Inv, TypeOK, AfterPlan, CommitAs
  <2>4. ASSUME NEW u \in Workers PROVE Placed(u)'
    <3>1. CASE u = w
      BY <1>12, <3>1, <2>0
         DEF Inv, TypeOK, Copies, Placed, Active, IsTerminal, AwaitsHuman, TERMINAL_STATES,
             HUMAN_GATE_STATES, AfterPlan, CommitAs, Go
    <3>2. CASE u # w
      BY <1>12, <3>2, Types, <2>0 DEF Inv, TypeOK, Copies, Placed, AfterPlan, CommitAs, Go
    <3> QED  BY <3>1, <3>2
  <2> QED  BY <2>1, <2>2, <2>3, <2>4 DEF Copies
<1>13. ASSUME NEW w \in Workers, NEW outcome \in {"passed", "failed"},
              Implement(w, outcome)
      PROVE  Copies'
  <2>1. run' \notin {"ANALYZING_FAILURE", "REVISING", "PR_CREATED", "COMPLETED"}
    BY <1>13 DEF Inv, TypeOK, Implement, RunTests, CommitAs
  <2>2. ASSUME NEW u \in Workers, fresh'[u] PROVE seen'[u] = run'
    BY <1>13, <2>2 DEF Inv, TypeOK, Implement, RunTests, CommitAs
  <2>3. holder' # Nobody => fresh'[holder'] /\ at'[holder'] \in Active
    BY <1>13 DEF Inv, TypeOK, Implement, RunTests, CommitAs
  <2>4. ASSUME NEW u \in Workers PROVE Placed(u)'
    <3>1. CASE u = w
      BY <1>13, <3>1
         DEF Inv, TypeOK, Copies, Placed, Detached, IsTerminal, AwaitsHuman, TERMINAL_STATES,
             HUMAN_GATE_STATES, Implement, RunTests, CommitAs, Go
    <3>2. CASE u # w
      BY <1>13, <3>2, Types DEF Inv, TypeOK, Copies, Placed, Implement, RunTests, CommitAs, Go
    <3> QED  BY <3>1, <3>2
  <2> QED  BY <2>1, <2>2, <2>3, <2>4 DEF Copies
<1>14. ASSUME NEW w \in Workers, NEW outcome \in {"passed", "failed"},
              NEW blocking \in BOOLEAN, Assess(w, outcome, blocking)
      PROVE  Copies'
  <2>1. run' \notin {"ANALYZING_FAILURE", "REVISING", "PR_CREATED", "COMPLETED"}
    BY <1>14 DEF Inv, TypeOK, Assess, Outcomes, RunTests, CommitAs
  <2>2. ASSUME NEW u \in Workers, fresh'[u] PROVE seen'[u] = run'
    BY <1>14, <2>2 DEF Inv, TypeOK, Assess, Outcomes, RunTests, CommitAs
  <2>3. holder' # Nobody => fresh'[holder'] /\ at'[holder'] \in Active
    BY <1>14 DEF Inv, TypeOK, Assess, Outcomes, RunTests, CommitAs
  <2>4. ASSUME NEW u \in Workers PROVE Placed(u)'
    <3>1. CASE u = w
      BY <1>14, <3>1
         DEF Inv, TypeOK, Copies, Placed, Detached, IsTerminal, AwaitsHuman, TERMINAL_STATES,
             HUMAN_GATE_STATES, Assess, Outcomes, RunTests, CommitAs, Go
    <3>2. CASE u # w
      BY <1>14, <3>2, Types
         DEF Inv, TypeOK, Copies, Placed, Assess, Outcomes, RunTests, CommitAs, Go
    <3> QED  BY <3>1, <3>2
  <2> QED  BY <2>1, <2>2, <2>3, <2>4 DEF Copies
<1>15. ASSUME NEW w \in Workers, NEW outcome \in {"passed", "failed"},
              TestAgain(w, outcome)
      PROVE  Copies'
  BY <1>15 DEF Inv, TypeOK, Copies, Placed, Approved, TestAgain, RunTests, rows
<1>16. ASSUME NEW w \in Workers, AwaitApproval(w)
      PROVE  Copies'
  <2>1. run' \notin {"ANALYZING_FAILURE", "REVISING", "PR_CREATED", "COMPLETED"}
    BY <1>16
       DEF Inv, TypeOK, Copies, AwaitApproval, MayAwaitApproval, CommitAs, FlushFails, rows
  <2>2. ASSUME NEW u \in Workers, fresh'[u] PROVE seen'[u] = run'
    BY <1>16, <2>2
       DEF Inv, TypeOK, Copies, AwaitApproval, MayAwaitApproval, CommitAs, FlushFails, rows
  <2>3. holder' # Nobody => fresh'[holder'] /\ at'[holder'] \in Active
    BY <1>16
       DEF Inv, TypeOK, Copies, AwaitApproval, MayAwaitApproval, SequenceIsFree, CommitAs,
           FlushFails, Go
  <2>4. ASSUME NEW u \in Workers PROVE Placed(u)'
    <3>1. CASE u = w
      BY <1>16, <3>1
         DEF Inv, TypeOK, Copies, Placed, Active, AwaitApproval, MayAwaitApproval, CommitAs,
             FlushFails, DropScratch, Go
    <3>2. CASE u # w
      BY <1>16, <3>2
         DEF Inv, TypeOK, Copies, Placed, Approved, AwaitApproval, MayAwaitApproval, CanLock,
             SequenceIsFree, CommitAs, FlushFails, DropScratch, Go, rows, history
    <3> QED  BY <3>1, <3>2
  <2> QED  BY <2>1, <2>2, <2>3, <2>4 DEF Copies
<1>17. ASSUME NEW w \in Workers, StepFails(w)
      PROVE  Copies'
  BY <1>17
     DEF Inv, TypeOK, Copies, Placed, Approved, Active, Detached, StepFails, Go, rows,
         memory, history
<1>18. ASSUME NEW w \in Workers, Fail(w)
      PROVE  Copies'
  <2>1. run' \notin {"ANALYZING_FAILURE", "REVISING", "PR_CREATED", "COMPLETED"}
    BY <1>18 DEF Inv, TypeOK, Copies, Fail, CommitAs, FlushFails, rows
  <2>2. ASSUME NEW u \in Workers, fresh'[u] PROVE seen'[u] = run'
    BY <1>18, <2>2 DEF Inv, TypeOK, Copies, Fail, CommitAs, FlushFails, rows
  <2>3. holder' # Nobody => fresh'[holder'] /\ at'[holder'] \in Active
    BY <1>18 DEF Inv, TypeOK, Copies, Fail, SequenceIsFree, CommitAs, FlushFails, Go
  <2>4. ASSUME NEW u \in Workers PROVE Placed(u)'
    <3>1. CASE u = w
      BY <1>18, <3>1
         DEF Inv, TypeOK, Copies, Placed, Reviewed, Approved, Active, IsTerminal, AwaitsHuman,
             TERMINAL_STATES, HUMAN_GATE_STATES, Fail, SequenceIsFree, CommitAs, FlushFails,
             DropScratch, Go
    <3>2. CASE u # w
      BY <1>18, <3>2
         DEF Inv, TypeOK, Copies, Placed, Approved, Fail, CanLock, CommitAs, FlushFails,
             DropScratch, Go, rows, history
    <3> QED  BY <3>1, <3>2
  <2> QED  BY <2>1, <2>2, <2>3, <2>4 DEF Copies
<1>19. ASSUME NEW w \in Workers, Cleanup(w)
      PROVE  Copies'
  BY <1>19, Types
     DEF Inv, TypeOK, Copies, Placed, Approved, Active, Detached, Cleanup, Go, rows, memory
<1>20. ASSUME NEW w \in Workers, NEW f \in Files, NEW content \in Contents,
              Edit(w, f, content)
      PROVE  Copies'
  BY <1>20, Types DEF Inv, TypeOK, Copies, Placed, Detached, Edit, Recorded, rows
<1>21. ASSUME NEW w \in Workers, Crash(w)
      PROVE  Copies'
  BY <1>21
     DEF Inv, TypeOK, Copies, Placed, Approved, Active, Crash, Forget, DropScratch, Go, rows,
         history
<1>22. ASSUME NEW j \in ExecuteJobs, LeaseExpires(j)
      PROVE  Copies'
  BY <1>22 DEF Inv, TypeOK, Copies, Placed, Approved, LeaseExpires, Overdue, memory, history
<1>23. CASE LoseMachine
  BY <1>23 DEF Inv, TypeOK, Copies, Placed, Active, LoseMachine, rows
<1>24. CASE Cancel
  BY <1>24
     DEF Inv, TypeOK, Copies, Placed, IsTerminal, TERMINAL_STATES, Cancel, CommitFromApi,
         history
<1>25. CASE Approve
  BY <1>25 DEF Inv, TypeOK, Copies, Placed, Approve, Decide, Enqueue, CommitFromApi, history
<1>26. CASE Reject
  BY <1>26 DEF Inv, TypeOK, Copies, Placed, Reject, Decide, CommitFromApi, history
<1>27. CASE RequestRevision
  BY <1>27
     DEF Inv, TypeOK, Copies, Placed, RequestRevision, Decide, Enqueue, CommitFromApi,
         history
<1>28. ASSUME NEW w \in Workers, MarkSucceededFails(w)
      PROVE  Copies'
  BY <1>28
     DEF Inv, TypeOK, Copies, Placed, Approved, Active, Detached, MarkSucceededFails, Go,
         rows, memory, history
<1>29. ASSUME NEW w \in Workers, SelectJob(w)
      PROVE  Copies'
  BY <1>29
     DEF Inv, TypeOK, Copies, Placed, Approved, Active, Detached, SelectJob, Go, rows,
         memory, history
<1>30. ASSUME NEW w \in Workers, Reclone(w)
      PROVE  Copies'
  BY <1>30, Types
     DEF Inv, TypeOK, Copies, Placed, Approved, Active, Detached, Reclone, Go, rows, memory
<1> QED
  BY <1>1, <1>2, <1>3, <1>4, <1>5, <1>6, <1>7, <1>8, <1>9, <1>10, <1>11, <1>12, <1>13, <1>14,
     <1>15, <1>16, <1>17, <1>18, <1>19, <1>20, <1>21, <1>22, <1>23, <1>24, <1>25, <1>26, <1>27,
     <1>28, <1>29, <1>30 DEF Next, WorkerStep

\* Nobody begins to work without a workspace.
LEMMA LostStep ==
    ASSUME Inv, Next
    PROVE  Lost'
<1>1. ASSUME NEW w \in Workers, NEW j \in ExecuteJobs, Claim(w, j)
      PROVE  Lost'
  BY <1>1 DEF Inv, TypeOK, Lost, Unaware, Approved, Claim, Go, history
<1>2. ASSUME NEW w \in Workers, LoadRun(w)
      PROVE  Lost'
  BY <1>2
     DEF Inv, TypeOK, Reviewed, Lost, Unaware, Approved, IsTerminal, AwaitsHuman,
         TERMINAL_STATES, HUMAN_GATE_STATES, LoadRun, Go, rows, history
<1>3. ASSUME NEW w \in Workers, MarkJob(w)
      PROVE  Lost'
  BY <1>3 DEF Inv, TypeOK, Lost, Unaware, Approved, MarkJob, Go, Forget, DropScratch, history
<1>4. ASSUME NEW w \in Workers, RecordFailure(w)
      PROVE  Lost'
  BY <1>4
     DEF Inv, TypeOK, Lost, Unaware, Approved, IsTerminal, TERMINAL_STATES, RecordFailure,
         Go, CommitAs, history
<1>5. ASSUME NEW w \in Workers, RehydrateNew(w)
      PROVE  Lost'
  BY <1>5 DEF Inv, TypeOK, Lost, Unaware, Approved, RehydrateNew, rows, history
<1>6. ASSUME NEW w \in Workers, RehydrateLost(w)
      PROVE  Lost'
  BY <1>6, Types
     DEF Inv, TypeOK, Lost, Unaware, Approved, RehydrateLost, Go, rows, memory, history
<1>7. ASSUME NEW w \in Workers, Rehydrate(w)
      PROVE  Lost'
  BY <1>7 DEF Inv, TypeOK, Lost, Unaware, Rehydrate
<1>8. ASSUME NEW w \in Workers, Announce(w)
      PROVE  Lost'
  BY <1>8
     DEF Inv, TypeOK, Lost, Unaware, Approved, Announce, Lock, FlushFails, Go, rows, history
<1>9. ASSUME NEW w \in Workers, BeginStep(w)
      PROVE  Lost'
  BY <1>9
     DEF Inv, TypeOK, Lost, Unaware, Approved, BeginStep, Lock, FlushFails, Go, rows, history
<1>10. ASSUME NEW w \in Workers, CloneRepository(w)
      PROVE  Lost'
  BY <1>10, Types DEF Inv, TypeOK, Lost, Unaware, CloneRepository
<1>11. ASSUME NEW w \in Workers, Prepare(w)
      PROVE  Lost'
  BY <1>11, Types
     DEF Inv, TypeOK, Copies, Placed, Lost, Unaware, Prepare, CommitAs, PreparationSteps,
         history
<1>12. ASSUME NEW w \in Workers, AfterPlan(w)
      PROVE  Lost'
  BY <1>12, Types DEF Inv, TypeOK, Copies, Placed, Lost, Unaware, AfterPlan, CommitAs, history
<1>13. ASSUME NEW w \in Workers, NEW outcome \in {"passed", "failed"},
              Implement(w, outcome)
      PROVE  Lost'
  BY <1>13, Types DEF Inv, TypeOK, Copies, Placed, Lost, Unaware, Implement, RunTests, CommitAs
<1>14. ASSUME NEW w \in Workers, NEW outcome \in {"passed", "failed"},
              NEW blocking \in BOOLEAN, Assess(w, outcome, blocking)
      PROVE  Lost'
  BY <1>14 DEF Inv, TypeOK, Lost, Unaware, Assess, Outcomes, RunTests, CommitAs
<1>15. ASSUME NEW w \in Workers, NEW outcome \in {"passed", "failed"},
              TestAgain(w, outcome)
      PROVE  Lost'
  BY <1>15 DEF Inv, TypeOK, Lost, Unaware, Approved, TestAgain, RunTests, rows
<1>16. ASSUME NEW w \in Workers, AwaitApproval(w)
      PROVE  Lost'
  BY <1>16
     DEF Inv, TypeOK, Copies, Placed, Lost, Active, Unaware, Approved, AwaitApproval,
         MayAwaitApproval, SequenceIsFree, CommitAs, FlushFails, Go, rows, history
<1>17. ASSUME NEW w \in Workers, StepFails(w)
      PROVE  Lost'
  BY <1>17, Types
     DEF Inv, TypeOK, Copies, Placed, Reviewed, Lost, Unaware, Approved, StepFails, Go, rows,
         history
<1>18. ASSUME NEW w \in Workers, Fail(w)
      PROVE  Lost'
  BY <1>18
     DEF Inv, TypeOK, Lost, Unaware, Approved, IsTerminal, TERMINAL_STATES, Fail, CommitAs,
         FlushFails, DropScratch, Go, rows, history
<1>19. ASSUME NEW w \in Workers, Cleanup(w)
      PROVE  Lost'
  BY <1>19
     DEF Inv, TypeOK, Copies, Placed, Lost, Unaware, Approved, IsTerminal, TERMINAL_STATES,
         Cleanup, rows
<1>20. ASSUME NEW w \in Workers, NEW f \in Files, NEW content \in Contents,
              Edit(w, f, content)
      PROVE  Lost'
  <2>1. disk' \in Workspace
    BY <1>20 DEF Inv, TypeOK, Edit, Workspace
  <2> QED  BY <2>1, Types DEF Lost
<1>21. ASSUME NEW w \in Workers, Crash(w)
      PROVE  Lost'
  BY <1>21
     DEF Inv, TypeOK, Lost, Unaware, Approved, Crash, Forget, DropScratch, Go, rows, history
<1>22. ASSUME NEW j \in ExecuteJobs, LeaseExpires(j)
      PROVE  Lost'
  BY <1>22 DEF Inv, TypeOK, Lost, Unaware, Approved, LeaseExpires, Overdue, memory, history
<1>23. CASE LoseMachine
  BY <1>23 DEF Inv, TypeOK, Lost, Unaware, LoseMachine
<1>24. CASE Cancel
  BY <1>24
     DEF Inv, TypeOK, Lost, Unaware, Approved, IsTerminal, TERMINAL_STATES, Cancel,
         CommitFromApi, history
<1>25. CASE Approve
  BY <1>25
     DEF Inv, TypeOK, Copies, Placed, Lost, Active, Unaware, IsTerminal, AwaitsHuman,
         TERMINAL_STATES, HUMAN_GATE_STATES, Approve, Decide, Enqueue, CommitFromApi, history
<1>26. CASE Reject
  BY <1>26
     DEF Inv, TypeOK, Lost, Unaware, Approved, IsTerminal, TERMINAL_STATES, Reject, Decide,
         CommitFromApi
<1>27. CASE RequestRevision
  BY <1>27
     DEF Inv, TypeOK, Copies, Placed, Lost, Active, Unaware, IsTerminal, AwaitsHuman,
         TERMINAL_STATES, HUMAN_GATE_STATES, RequestRevision, Decide, Enqueue, CommitFromApi,
         history
<1>28. ASSUME NEW w \in Workers, MarkSucceededFails(w)
      PROVE  Lost'
  BY <1>28
     DEF Inv, TypeOK, Lost, Unaware, Approved, MarkSucceededFails, Go, rows, memory, history
<1>29. ASSUME NEW w \in Workers, SelectJob(w)
      PROVE  Lost'
  BY <1>29 DEF Inv, TypeOK, Lost, Unaware, Approved, SelectJob, Go, rows, memory, history
<1>30. ASSUME NEW w \in Workers, Reclone(w)
      PROVE  Lost'
  BY <1>30, Types DEF Inv, TypeOK, Lost, Unaware, Approved, Reclone, Go, rows, memory
<1> QED
  BY <1>1, <1>2, <1>3, <1>4, <1>5, <1>6, <1>7, <1>8, <1>9, <1>10, <1>11, <1>12, <1>13, <1>14,
     <1>15, <1>16, <1>17, <1>18, <1>19, <1>20, <1>21, <1>22, <1>23, <1>24, <1>25, <1>26, <1>27,
     <1>28, <1>29, <1>30 DEF Next, WorkerStep

\* Results that a fresh worker knows of are those of the workspace.
LEMMA EvidenceStep ==
    ASSUME Inv, Next
    PROVE  Evidence'
<1>1. ASSUME NEW w \in Workers, NEW j \in ExecuteJobs, Claim(w, j)
      PROVE  Evidence'
  BY <1>1 DEF Inv, TypeOK, Evidence, Claim, history
<1>2. ASSUME NEW w \in Workers, LoadRun(w)
      PROVE  Evidence'
  BY <1>2 DEF Inv, TypeOK, Copies, Placed, Evidence, LoadRun, rows, history
<1>3. ASSUME NEW w \in Workers, MarkJob(w)
      PROVE  Evidence'
  BY <1>3 DEF Inv, TypeOK, Evidence, MarkJob, Forget, DropScratch, history
<1>4. ASSUME NEW w \in Workers, RecordFailure(w)
      PROVE  Evidence'
  BY <1>4 DEF Inv, TypeOK, Evidence, RecordFailure, CommitAs, history
<1>5. ASSUME NEW w \in Workers, RehydrateNew(w)
      PROVE  Evidence'
  BY <1>5 DEF Inv, TypeOK, Evidence, RehydrateNew, rows, memory, history
<1>6. ASSUME NEW w \in Workers, RehydrateLost(w)
      PROVE  Evidence'
  BY <1>6
     DEF Inv, TypeOK, Lost, Evidence, Unaware, STATES_WITH_EDITS, IsTerminal, TERMINAL_STATES,
         RehydrateLost, rows
<1>7. ASSUME NEW w \in Workers, Rehydrate(w)
      PROVE  Evidence'
  BY <1>7 DEF Inv, TypeOK, Evidence, Rehydrate, rows, history
<1>8. ASSUME NEW w \in Workers, Announce(w)
      PROVE  Evidence'
  BY <1>8
     DEF Inv, TypeOK, Evidence, Announce, Lock, FlushFails, DropScratch, rows, memory, history
<1>9. ASSUME NEW w \in Workers, BeginStep(w)
      PROVE  Evidence'
  BY <1>9
     DEF Inv, TypeOK, Evidence, BeginStep, Lock, FlushFails, DropScratch, rows, memory, history
<1>10. ASSUME NEW w \in Workers, CloneRepository(w)
      PROVE  Evidence'
  BY <1>10, Types DEF Inv, TypeOK, Copies, Placed, Evidence, CloneRepository, rows
<1>11. ASSUME NEW w \in Workers, Prepare(w)
      PROVE  Evidence'
  BY <1>11 DEF Inv, TypeOK, Evidence, Prepare, CommitAs, PreparationSteps
<1>12. ASSUME NEW w \in Workers, AfterPlan(w)
      PROVE  Evidence'
  BY <1>12 DEF Inv, TypeOK, Evidence, AfterPlan, CommitAs
<1>13. ASSUME NEW w \in Workers, NEW outcome \in {"passed", "failed"},
              Implement(w, outcome)
      PROVE  Evidence'
  BY <1>13 DEF Inv, TypeOK, Evidence, Implement, RunTests, CommitAs
<1>14. ASSUME NEW w \in Workers, NEW outcome \in {"passed", "failed"},
              NEW blocking \in BOOLEAN, Assess(w, outcome, blocking)
      PROVE  Evidence'
  BY <1>14, Types
     DEF Inv, TypeOK, Copies, Placed, Evidence, Assess, Outcomes, RunTests, CommitAs
<1>15. ASSUME NEW w \in Workers, NEW outcome \in {"passed", "failed"},
              TestAgain(w, outcome)
      PROVE  Evidence'
  BY <1>15 DEF Inv, TypeOK, Evidence, TestAgain, RunTests, rows
<1>16. ASSUME NEW w \in Workers, AwaitApproval(w)
      PROVE  Evidence'
  BY <1>16
     DEF Inv, TypeOK, Copies, Evidence, AwaitApproval, MayAwaitApproval, SequenceIsFree,
         CommitAs, FlushFails, DropScratch, rows, history
<1>17. ASSUME NEW w \in Workers, StepFails(w)
      PROVE  Evidence'
  BY <1>17 DEF Inv, TypeOK, Evidence, StepFails, rows, memory, history
<1>18. ASSUME NEW w \in Workers, Fail(w)
      PROVE  Evidence'
  BY <1>18 DEF Inv, TypeOK, Evidence, Fail, CommitAs, FlushFails, DropScratch, rows, history
<1>19. ASSUME NEW w \in Workers, Cleanup(w)
      PROVE  Evidence'
  BY <1>19 DEF Inv, TypeOK, Evidence, Cleanup
<1>20. ASSUME NEW w \in Workers, NEW f \in Files, NEW content \in Contents,
              Edit(w, f, content)
      PROVE  Evidence'
  BY <1>20, Types DEF Inv, TypeOK, Copies, Placed, Evidence, Edit, Recorded, rows
<1>21. ASSUME NEW w \in Workers, Crash(w)
      PROVE  Evidence'
  BY <1>21 DEF Inv, TypeOK, Evidence, Crash, Forget, DropScratch, rows, history
<1>22. ASSUME NEW j \in ExecuteJobs, LeaseExpires(j)
      PROVE  Evidence'
  BY <1>22 DEF Inv, TypeOK, Evidence, LeaseExpires, Overdue, memory, history
<1>23. CASE LoseMachine
  BY <1>23 DEF Inv, TypeOK, Evidence, LoseMachine
<1>24. CASE Cancel
  BY <1>24 DEF Inv, TypeOK, Evidence, Cancel, CommitFromApi
<1>25. CASE Approve
  BY <1>25 DEF Inv, TypeOK, Evidence, Approve, Decide, Enqueue, CommitFromApi, history
<1>26. CASE Reject
  BY <1>26 DEF Inv, TypeOK, Evidence, Reject, Decide, CommitFromApi
<1>27. CASE RequestRevision
  BY <1>27 DEF Inv, TypeOK, Evidence, RequestRevision, Decide, Enqueue, CommitFromApi
<1>28. ASSUME NEW w \in Workers, MarkSucceededFails(w)
      PROVE  Evidence'
  BY <1>28 DEF Inv, TypeOK, Evidence, MarkSucceededFails, rows, memory, history
<1>29. ASSUME NEW w \in Workers, SelectJob(w)
      PROVE  Evidence'
  BY <1>29 DEF Inv, TypeOK, Evidence, SelectJob, rows, memory, history
<1>30. ASSUME NEW w \in Workers, Reclone(w)
      PROVE  Evidence'
  BY <1>30, Types
     DEF Inv, TypeOK, Copies, Placed, Active, Lost, Evidence, IsTerminal,
         TERMINAL_STATES, STATES_WITH_EDITS, Reclone, rows, memory
<1> QED
  BY <1>1, <1>2, <1>3, <1>4, <1>5, <1>6, <1>7, <1>8, <1>9, <1>10, <1>11, <1>12, <1>13, <1>14,
     <1>15, <1>16, <1>17, <1>18, <1>19, <1>20, <1>21, <1>22, <1>23, <1>24, <1>25, <1>26, <1>27,
     <1>28, <1>29, <1>30 DEF Next, WorkerStep

\* Only jobs that execute the run are claimed.
LEMMA ClaimedStep ==
    ASSUME Inv, Next
    PROVE  Claimed'
<1>1. ASSUME NEW w \in Workers, NEW j \in ExecuteJobs, Claim(w, j)
      PROVE  Claimed'
  BY <1>1 DEF Inv, TypeOK, Claimed, Claim
<1>2. ASSUME NEW w \in Workers, LoadRun(w)
      PROVE  Claimed'
  BY <1>2 DEF Inv, TypeOK, Claimed, LoadRun
<1>3. ASSUME NEW w \in Workers, MarkJob(w)
      PROVE  Claimed'
  BY <1>3 DEF Inv, TypeOK, Claimed, MarkJob, Forget
<1>4. ASSUME NEW w \in Workers, RecordFailure(w)
      PROVE  Claimed'
  BY <1>4 DEF Inv, TypeOK, Claimed, RecordFailure, CommitAs
<1>5. ASSUME NEW w \in Workers, RehydrateNew(w)
      PROVE  Claimed'
  BY <1>5 DEF Inv, TypeOK, Claimed, RehydrateNew, memory
<1>6. ASSUME NEW w \in Workers, RehydrateLost(w)
      PROVE  Claimed'
  BY <1>6 DEF Inv, TypeOK, Claimed, RehydrateLost, memory
<1>7. ASSUME NEW w \in Workers, Rehydrate(w)
      PROVE  Claimed'
  BY <1>7 DEF Inv, TypeOK, Claimed, Rehydrate
<1>8. ASSUME NEW w \in Workers, Announce(w)
      PROVE  Claimed'
  BY <1>8 DEF Inv, TypeOK, Claimed, Announce, Lock, FlushFails, memory
<1>9. ASSUME NEW w \in Workers, BeginStep(w)
      PROVE  Claimed'
  BY <1>9 DEF Inv, TypeOK, Claimed, BeginStep, Lock, FlushFails, memory
<1>10. ASSUME NEW w \in Workers, CloneRepository(w)
      PROVE  Claimed'
  BY <1>10 DEF Inv, TypeOK, Claimed, CloneRepository, memory
<1>11. ASSUME NEW w \in Workers, Prepare(w)
      PROVE  Claimed'
  BY <1>11 DEF Inv, TypeOK, Claimed, Prepare, CommitAs, PreparationSteps
<1>12. ASSUME NEW w \in Workers, AfterPlan(w)
      PROVE  Claimed'
  BY <1>12 DEF Inv, TypeOK, Claimed, AfterPlan, CommitAs
<1>13. ASSUME NEW w \in Workers, NEW outcome \in {"passed", "failed"},
              Implement(w, outcome)
      PROVE  Claimed'
  BY <1>13 DEF Inv, TypeOK, Claimed, Implement, RunTests, CommitAs
<1>14. ASSUME NEW w \in Workers, NEW outcome \in {"passed", "failed"},
              NEW blocking \in BOOLEAN, Assess(w, outcome, blocking)
      PROVE  Claimed'
  BY <1>14 DEF Inv, TypeOK, Claimed, Assess, Outcomes, RunTests, CommitAs
<1>15. ASSUME NEW w \in Workers, NEW outcome \in {"passed", "failed"},
              TestAgain(w, outcome)
      PROVE  Claimed'
  BY <1>15 DEF Inv, TypeOK, Claimed, TestAgain, RunTests
<1>16. ASSUME NEW w \in Workers, AwaitApproval(w)
      PROVE  Claimed'
  BY <1>16 DEF Inv, TypeOK, Claimed, AwaitApproval, MayAwaitApproval, CommitAs, FlushFails
<1>17. ASSUME NEW w \in Workers, StepFails(w)
      PROVE  Claimed'
  BY <1>17 DEF Inv, TypeOK, Claimed, StepFails, memory
<1>18. ASSUME NEW w \in Workers, Fail(w)
      PROVE  Claimed'
  BY <1>18 DEF Inv, TypeOK, Claimed, Fail, CommitAs, FlushFails
<1>19. ASSUME NEW w \in Workers, Cleanup(w)
      PROVE  Claimed'
  BY <1>19 DEF Inv, TypeOK, Claimed, Cleanup, memory
<1>20. ASSUME NEW w \in Workers, NEW f \in Files, NEW content \in Contents,
              Edit(w, f, content)
      PROVE  Claimed'
  BY <1>20 DEF Inv, TypeOK, Claimed, Edit, Recorded
<1>21. ASSUME NEW w \in Workers, Crash(w)
      PROVE  Claimed'
  BY <1>21 DEF Inv, TypeOK, Claimed, Crash, Forget
<1>22. ASSUME NEW j \in ExecuteJobs, LeaseExpires(j)
      PROVE  Claimed'
  BY <1>22 DEF Inv, TypeOK, Claimed, LeaseExpires, Overdue, memory
<1>23. CASE LoseMachine
  BY <1>23 DEF Inv, TypeOK, Claimed, LoseMachine
<1>24. CASE Cancel
  BY <1>24 DEF Inv, TypeOK, Claimed, Cancel, CommitFromApi
<1>25. CASE Approve
  BY <1>25 DEF Inv, TypeOK, Claimed, Approve, Decide, Enqueue, CommitFromApi
<1>26. CASE Reject
  BY <1>26 DEF Inv, TypeOK, Claimed, Reject, Decide, CommitFromApi
<1>27. CASE RequestRevision
  BY <1>27 DEF Inv, TypeOK, Claimed, RequestRevision, Decide, Enqueue, CommitFromApi
<1>28. ASSUME NEW w \in Workers, MarkSucceededFails(w)
      PROVE  Claimed'
  BY <1>28 DEF Inv, TypeOK, Claimed, MarkSucceededFails, memory
<1>29. ASSUME NEW w \in Workers, SelectJob(w)
      PROVE  Claimed'
  BY <1>29 DEF Inv, TypeOK, Claimed, SelectJob, memory
<1>30. ASSUME NEW w \in Workers, Reclone(w)
      PROVE  Claimed'
  BY <1>30, Types DEF Inv, TypeOK, Claimed, Reclone, memory
<1> QED
  BY <1>1, <1>2, <1>3, <1>4, <1>5, <1>6, <1>7, <1>8, <1>9, <1>10, <1>11, <1>12, <1>13, <1>14,
     <1>15, <1>16, <1>17, <1>18, <1>19, <1>20, <1>21, <1>22, <1>23, <1>24, <1>25, <1>26, <1>27,
     <1>28, <1>29, <1>30 DEF Next, WorkerStep

\* What is recorded is what changed.
LEMMA RecordingStep ==
    ASSUME Inv, Next
    PROVE  Recording'
<1>1. ASSUME NEW w \in Workers, NEW j \in ExecuteJobs, Claim(w, j)
      PROVE  Recording'
  BY <1>1 DEF Inv, TypeOK, Recording, IsComplete, Claim, history
<1>2. ASSUME NEW w \in Workers, LoadRun(w)
      PROVE  Recording'
  BY <1>2
     DEF Inv, TypeOK, Copies, Placed, Recording, IsComplete, Detached, LoadRun, rows, history
<1>3. ASSUME NEW w \in Workers, MarkJob(w)
      PROVE  Recording'
  BY <1>3 DEF Inv, TypeOK, Recording, IsComplete, MarkJob, Forget, DropScratch, history
<1>4. ASSUME NEW w \in Workers, RecordFailure(w)
      PROVE  Recording'
  <2>1. CASE CommitAs(w, "FAILED")
    <3>1. changes[w] = NoChanges /\ changes' = changes
      BY <1>4 DEF Inv, Copies, Placed, Detached, RecordFailure
    <3> QED  BY <2>1, <3>1 DEF Recording, CommitAs
  <2>2. CASE UNCHANGED <<run, holder, seen, fresh>>
    BY <1>4, <2>2 DEF Inv, Recording, IsComplete, RecordFailure, history
  <2> QED  BY <1>4, <2>1, <2>2 DEF RecordFailure
<1>5. ASSUME NEW w \in Workers, RehydrateNew(w)
      PROVE  Recording'
  BY <1>5 DEF Inv, TypeOK, Recording, IsComplete, RehydrateNew, rows, memory, history
<1>6. ASSUME NEW w \in Workers, RehydrateLost(w)
      PROVE  Recording'
  BY <1>6
     DEF Inv, TypeOK, Lost, Recording, IsComplete, Unaware, IsTerminal, TERMINAL_STATES,
         RehydrateLost, rows, memory, history
<1>7. ASSUME NEW w \in Workers, Rehydrate(w)
      PROVE  Recording'
  <2>1. CASE changes' = changes
    BY <1>7, <2>1 DEF Inv, Recording, IsComplete, Rehydrate, rows, history
  <2>2. CASE seen[w] \in STATES_WITH_EDITS
    <3>1. changes'[w] = Uncommitted /\ \A u \in Workers \ {w} : changes'[u] = changes[u]
      BY <1>7, <2>2 DEF Inv, TypeOK, Rehydrate
    <3>2. disk # None => \A g \in DOMAIN Uncommitted : Uncommitted[g] = Original
      BY Lists DEF Inv
    <3>3. disk # None => \A g \in Files : disk[g] # Original => g \in DOMAIN Uncommitted
      BY Lists DEF Inv
    <3>4. fresh[w] => run \in {"TESTING", "VERIFYING"}
      BY <1>7, <2>2
         DEF Inv, Copies, Placed, Rehydrate, STATES_WITH_EDITS, Active, AwaitsHuman,
             HUMAN_GATE_STATES
    <3>5. UNCHANGED <<run, holder, fresh, disk, blind, trampled>>
      BY <1>7 DEF Rehydrate, rows, history
    <3> QED  BY <3>1, <3>2, <3>3, <3>4, <3>5 DEF Inv, Recording, IsComplete, history
  <2> QED  BY <1>7, <2>1, <2>2 DEF Rehydrate
<1>8. ASSUME NEW w \in Workers, Announce(w)
      PROVE  Recording'
  BY <1>8, Types
     DEF Inv, TypeOK, Recording, IsComplete, Announce, Lock, CanLock, FlushFails, DropScratch,
         rows, memory, history
<1>9. ASSUME NEW w \in Workers, BeginStep(w)
      PROVE  Recording'
  BY <1>9, Types
     DEF Inv, TypeOK, Recording, IsComplete, BeginStep, Lock, CanLock, FlushFails, DropScratch,
         rows, memory, history
<1>10. ASSUME NEW w \in Workers, CloneRepository(w)
      PROVE  Recording'
  BY <1>10, Types
     DEF Inv, TypeOK, Copies, Placed, Recording, IsComplete, CloneRepository, memory
<1>11. ASSUME NEW w \in Workers, Prepare(w)
      PROVE  Recording'
  BY <1>11, Types
     DEF Inv, TypeOK, Copies, Placed, Recording, IsComplete, Prepare, CommitAs, PreparationSteps
<1>12. ASSUME NEW w \in Workers, AfterPlan(w)
      PROVE  Recording'
  BY <1>12, Types DEF Inv, TypeOK, Copies, Placed, Recording, IsComplete, AfterPlan, CommitAs
<1>13. ASSUME NEW w \in Workers, NEW outcome \in {"passed", "failed"},
              Implement(w, outcome)
      PROVE  Recording'
  BY <1>13, Types
     DEF Inv, TypeOK, Copies, Placed, Recording, IsComplete, Implement, RunTests, CommitAs
<1>14. ASSUME NEW w \in Workers, NEW outcome \in {"passed", "failed"},
              NEW blocking \in BOOLEAN, Assess(w, outcome, blocking)
      PROVE  Recording'
  BY <1>14, Types
     DEF Inv, TypeOK, Copies, Placed, Recording, IsComplete, Assess, Outcomes, RunTests,
         CommitAs
<1>15. ASSUME NEW w \in Workers, NEW outcome \in {"passed", "failed"},
              TestAgain(w, outcome)
      PROVE  Recording'
  BY <1>15 DEF Inv, TypeOK, Recording, IsComplete, TestAgain, RunTests, rows
<1>16. ASSUME NEW w \in Workers, AwaitApproval(w)
      PROVE  Recording'
  <2>1. CASE FlushFails(w)
    BY <1>16, <2>1, Flushes DEF Inv, TypeOK, Recording, IsComplete, Active, AwaitApproval
  <2>2. CASE ~FlushFails(w)
    BY <1>16, <2>2 DEF Inv, TypeOK, Recording, IsComplete, AwaitApproval, CommitAs, DropScratch
  <2> QED  BY <2>1, <2>2
<1>17. ASSUME NEW w \in Workers, StepFails(w)
      PROVE  Recording'
  BY <1>17 DEF Inv, TypeOK, Recording, IsComplete, StepFails, rows, memory, history
<1>18. ASSUME NEW w \in Workers, Fail(w)
      PROVE  Recording'
  <2>1. CASE FlushFails(w)
    BY <1>18, <2>1, Flushes DEF Inv, TypeOK, Recording, IsComplete, Active, Fail
  <2>2. CASE ~FlushFails(w)
    BY <1>18, <2>2 DEF Inv, TypeOK, Recording, IsComplete, Fail, CommitAs, DropScratch
  <2> QED  BY <2>1, <2>2
<1>19. ASSUME NEW w \in Workers, Cleanup(w)
      PROVE  Recording'
  BY <1>19 DEF Inv, TypeOK, Recording, IsComplete, Cleanup, rows, memory
<1>20. ASSUME NEW w \in Workers, NEW f \in Files, NEW content \in Contents,
              Edit(w, f, content)
      PROVE  Recording'
  <2> DEFINE recorded == Recorded(w, f)
  <2>0. disk # None /\ disk \in Workspace /\ run = "IMPLEMENTING" /\ fresh[w] /\ holder = w
    BY <1>20, Types DEF Inv, TypeOK, Copies, Placed, Edit
  <2>1. /\ disk # None /\ disk \in Workspace /\ run = "IMPLEMENTING" /\ fresh[w] /\ holder = w
        /\ Recorded(w, f) \in ChangeList
        /\ DOMAIN recorded = DOMAIN changes[w] \cup {f}
        /\ \A g \in DOMAIN changes[w] : recorded[g] = changes[w][g]
        /\ f \notin DOMAIN changes[w] => recorded[f] = disk[f]
    BY <2>0, RecordedType DEF Inv
  <2>2. /\ changes'[w] = recorded
        /\ \A u \in Workers \ {w} : changes'[u] = changes[u]
        /\ UNCHANGED <<run, holder, fresh, trampled>>
        /\ disk' \in Workspace /\ \A g \in Files \ {f} : disk'[g] = disk[g]
    BY <1>20, <2>1 DEF Inv, TypeOK, Edit, Workspace, rows
  <2>3. ASSUME ~blind', ~trampled
        PROVE  /\ \A g \in DOMAIN recorded : recorded[g] = Original
               /\ \A g \in Files : disk'[g] # Original => g \in DOMAIN recorded
    <3>1. CASE changes[w] # NoChanges
      <4>1. IsComplete(changes[w])
        BY <1>20, <2>1, <2>3, <3>1 DEF Inv, Recording, Edit
      <4> QED  BY <2>1, <2>2, <4>1 DEF IsComplete
    <3>2. CASE changes[w] = NoChanges
      <4>1. disk = Cloned
        BY <1>20, <2>3, <3>2 DEF Edit
      <4> QED  BY <2>1, <2>2, <3>2, <4>1, Types, Lists DEF Inv
    <3> QED  BY <3>1, <3>2
  <2> HIDE DEF recorded
  <2> QED  BY <2>1, <2>2, <2>3 DEF Inv, Recording, IsComplete
<1>21. ASSUME NEW w \in Workers, Crash(w)
      PROVE  Recording'
  BY <1>21 DEF Inv, TypeOK, Recording, IsComplete, Crash, Forget, DropScratch, rows, history
<1>22. ASSUME NEW j \in ExecuteJobs, LeaseExpires(j)
      PROVE  Recording'
  BY <1>22 DEF Inv, TypeOK, Recording, IsComplete, LeaseExpires, Overdue, memory, history
<1>23. CASE LoseMachine
  BY <1>23 DEF Inv, TypeOK, Recording, IsComplete, LoseMachine
<1>24. CASE Cancel
  BY <1>24 DEF Inv, TypeOK, Recording, IsComplete, Cancel, CommitFromApi
<1>25. CASE Approve
  BY <1>25 DEF Inv, TypeOK, Recording, IsComplete, Approve, Decide, Enqueue, CommitFromApi
<1>26. CASE Reject
  BY <1>26 DEF Inv, TypeOK, Recording, IsComplete, Reject, Decide, CommitFromApi
<1>27. CASE RequestRevision
  BY <1>27
     DEF Inv, TypeOK, Recording, IsComplete, RequestRevision, Decide, Enqueue, CommitFromApi
<1>28. ASSUME NEW w \in Workers, MarkSucceededFails(w)
      PROVE  Recording'
  BY <1>28 DEF Inv, TypeOK, Recording, IsComplete, MarkSucceededFails, rows, memory, history
<1>29. ASSUME NEW w \in Workers, SelectJob(w)
      PROVE  Recording'
  BY <1>29 DEF Inv, TypeOK, Recording, IsComplete, SelectJob, rows, memory, history
<1>30. ASSUME NEW w \in Workers, Reclone(w)
      PROVE  Recording'
  BY <1>30, Types
     DEF Inv, TypeOK, Copies, Placed, Active, Lost, Recording, IsComplete, IsTerminal,
         TERMINAL_STATES, Reclone, rows, memory
<1> QED
  BY <1>1, <1>2, <1>3, <1>4, <1>5, <1>6, <1>7, <1>8, <1>9, <1>10, <1>11, <1>12, <1>13, <1>14,
     <1>15, <1>16, <1>17, <1>18, <1>19, <1>20, <1>21, <1>22, <1>23, <1>24, <1>25, <1>26, <1>27,
     <1>28, <1>29, <1>30 DEF Next, WorkerStep

\* The stored diff is what changed, and then nothing does.
LEMMA ReviewedStep ==
    ASSUME Inv, Next
    PROVE  Reviewed'
<1>1. ASSUME NEW w \in Workers, NEW j \in ExecuteJobs, Claim(w, j)
      PROVE  Reviewed'
  BY <1>1, TrueDiffs DEF Inv, TypeOK, Reviewed, Approved, Claim, history
<1>2. ASSUME NEW w \in Workers, LoadRun(w)
      PROVE  Reviewed'
  BY <1>2, TrueDiffs DEF Inv, TypeOK, Reviewed, Approved, LoadRun, rows, history
<1>3. ASSUME NEW w \in Workers, MarkJob(w)
      PROVE  Reviewed'
  BY <1>3, TrueDiffs DEF Inv, TypeOK, Reviewed, Approved, MarkJob, Forget, history
<1>4. ASSUME NEW w \in Workers, RecordFailure(w)
      PROVE  Reviewed'
  BY <1>4, TrueDiffs DEF Inv, TypeOK, Reviewed, Approved, RecordFailure, CommitAs, history
<1>5. ASSUME NEW w \in Workers, RehydrateNew(w)
      PROVE  Reviewed'
  BY <1>5, TrueDiffs DEF Inv, TypeOK, Reviewed, Approved, RehydrateNew, rows, history
<1>6. ASSUME NEW w \in Workers, RehydrateLost(w)
      PROVE  Reviewed'
  BY <1>6
     DEF Inv, TypeOK, Lost, Unaware, Reviewed, Approved, STATES_WITH_EDITS, IsTerminal,
         TERMINAL_STATES, RehydrateLost, rows
<1>7. ASSUME NEW w \in Workers, Rehydrate(w)
      PROVE  Reviewed'
  BY <1>7, TrueDiffs DEF Inv, TypeOK, Reviewed, Approved, Rehydrate, rows, history
<1>8. ASSUME NEW w \in Workers, Announce(w)
      PROVE  Reviewed'
  <2>1. UNCHANGED <<disk, diff, approval, blind, trampled>>
    BY <1>8 DEF Announce, Lock, FlushFails, rows, history
  <2>2. TrueDiff' = TrueDiff
    BY <2>1, TrueDiffs
  <2>3. run' = run
    BY <1>8 DEF Inv, Announce, Lock, FlushFails, rows
  <2> QED  BY <1>8, <2>1, <2>2, <2>3 DEF Inv, Reviewed, Approved, history
<1>9. ASSUME NEW w \in Workers, BeginStep(w)
      PROVE  Reviewed'
  <2>1. UNCHANGED <<disk, diff, approval, blind, trampled>>
    BY <1>9 DEF BeginStep, Lock, FlushFails, rows, history
  <2>2. TrueDiff' = TrueDiff
    BY <2>1, TrueDiffs
  <2>3. run' = run
    BY <1>9 DEF Inv, BeginStep, Lock, FlushFails, rows
  <2> QED  BY <1>9, <2>1, <2>2, <2>3 DEF Inv, Reviewed, Approved, history
<1>10. ASSUME NEW w \in Workers, CloneRepository(w)
      PROVE  Reviewed'
  BY <1>10, Types DEF Inv, TypeOK, Copies, Placed, Reviewed, Approved, CloneRepository, rows
<1>11. ASSUME NEW w \in Workers, Prepare(w)
      PROVE  Reviewed'
  BY <1>11, Types
     DEF Inv, TypeOK, Copies, Placed, Reviewed, Approved, Prepare, CommitAs, PreparationSteps
<1>12. ASSUME NEW w \in Workers, AfterPlan(w)
      PROVE  Reviewed'
  BY <1>12, Types DEF Inv, TypeOK, Copies, Placed, Reviewed, Approved, AfterPlan, CommitAs
<1>13. ASSUME NEW w \in Workers, NEW outcome \in {"passed", "failed"},
              Implement(w, outcome)
      PROVE  Reviewed'
  BY <1>13, Types
     DEF Inv, TypeOK, Copies, Placed, Reviewed, Approved, Implement, RunTests, CommitAs
<1>14. ASSUME NEW w \in Workers, NEW outcome \in {"passed", "failed"},
              NEW blocking \in BOOLEAN, Assess(w, outcome, blocking)
      PROVE  Reviewed'
  <2>1. /\ disk # None /\ run = "TESTING" /\ run' = "VERIFYING"
        /\ fresh[w] /\ changes[w] # NoChanges
        /\ diff'.files = ChangeSet(w)
        /\ UNCHANGED <<disk, approval, blind, trampled>>
    BY <1>14, Types, Lists DEF Inv, TypeOK, Copies, Placed, Assess, CommitAs, ChangeSet
  <2>2. ~blind /\ ~trampled => diff'.files = TrueDiff
    BY <2>1, TrueDiffs DEF Inv, Recording
  <2>3. TrueDiff' = TrueDiff
    BY <2>1, TrueDiffs
  <2> QED  BY <2>1, <2>2, <2>3 DEF Inv, Reviewed, Approved
<1>15. ASSUME NEW w \in Workers, NEW outcome \in {"passed", "failed"},
              TestAgain(w, outcome)
      PROVE  Reviewed'
  BY <1>15, TrueDiffs DEF Inv, TypeOK, Reviewed, Approved, TestAgain, RunTests, rows
<1>16. ASSUME NEW w \in Workers, AwaitApproval(w)
      PROVE  Reviewed'
  <2>1. UNCHANGED <<disk, diff, approval, blind, trampled>>
    BY <1>16 DEF AwaitApproval, CommitAs, FlushFails, rows, history
  <2>2. TrueDiff' = TrueDiff
    BY <2>1, TrueDiffs
  <2>3. run' = run \/ (run = "VERIFYING" /\ run' = "WAITING_FOR_APPROVAL")
    BY <1>16 DEF Inv, Copies, AwaitApproval, CommitAs, FlushFails, SequenceIsFree, rows
  <2> QED  BY <1>16, <2>1, <2>2, <2>3 DEF Inv, Reviewed, Approved, history
<1>17. ASSUME NEW w \in Workers, StepFails(w)
      PROVE  Reviewed'
  BY <1>17, TrueDiffs DEF Inv, TypeOK, Reviewed, Approved, StepFails, rows, history
<1>18. ASSUME NEW w \in Workers, Fail(w)
      PROVE  Reviewed'
  <2>1. UNCHANGED <<disk, diff, approval, blind, trampled>>
    BY <1>18 DEF Fail, CommitAs, FlushFails, rows, history
  <2>2. TrueDiff' = TrueDiff
    BY <2>1, TrueDiffs
  <2>3. run' = run \/ run' = "FAILED"
    BY <1>18 DEF Inv, Fail, CommitAs, FlushFails, rows
  <2> QED  BY <1>18, <2>1, <2>2, <2>3 DEF Inv, Reviewed, Approved, history
<1>19. ASSUME NEW w \in Workers, Cleanup(w)
      PROVE  Reviewed'
  BY <1>19 DEF Inv, TypeOK, Reviewed, Approved, Cleanup, rows
<1>20. ASSUME NEW w \in Workers, NEW f \in Files, NEW content \in Contents,
              Edit(w, f, content)
      PROVE  Reviewed'
  BY <1>20, Types DEF Inv, TypeOK, Copies, Placed, Reviewed, Approved, Edit, Recorded, rows
<1>21. ASSUME NEW w \in Workers, Crash(w)
      PROVE  Reviewed'
  BY <1>21, TrueDiffs DEF Inv, TypeOK, Reviewed, Approved, Crash, Forget, rows, history
<1>22. ASSUME NEW j \in ExecuteJobs, LeaseExpires(j)
      PROVE  Reviewed'
  BY <1>22, TrueDiffs DEF Inv, TypeOK, Reviewed, Approved, LeaseExpires, Overdue, history
<1>23. CASE LoseMachine
  BY <1>23 DEF Inv, TypeOK, Reviewed, Approved, LoseMachine, rows
<1>24. CASE Cancel
  BY <1>24 DEF Inv, TypeOK, Reviewed, Approved, Cancel, CommitFromApi
<1>25. CASE Approve
  BY <1>25, TrueDiffs
     DEF Inv, TypeOK, Reviewed, Approve, Decide, Enqueue, CommitFromApi, history
<1>26. CASE Reject
  BY <1>26 DEF Inv, TypeOK, Reviewed, Reject, Decide, CommitFromApi
<1>27. CASE RequestRevision
  BY <1>27 DEF Inv, TypeOK, Reviewed, Approved, RequestRevision, Decide, Enqueue, CommitFromApi
<1>28. ASSUME NEW w \in Workers, MarkSucceededFails(w)
      PROVE  Reviewed'
  BY <1>28, TrueDiffs DEF Inv, TypeOK, Reviewed, Approved, MarkSucceededFails, rows, memory, history
<1>29. ASSUME NEW w \in Workers, SelectJob(w)
      PROVE  Reviewed'
  BY <1>29, TrueDiffs DEF Inv, TypeOK, Reviewed, Approved, SelectJob, rows, memory, history
<1>30. ASSUME NEW w \in Workers, Reclone(w)
      PROVE  Reviewed'
  BY <1>30, Types
     DEF Inv, TypeOK, Copies, Placed, Lost, Reviewed, Approved, IsTerminal, TERMINAL_STATES,
         STATES_WITH_EDITS, Reclone, rows, memory
<1> QED
  BY <1>1, <1>2, <1>3, <1>4, <1>5, <1>6, <1>7, <1>8, <1>9, <1>10, <1>11, <1>12, <1>13, <1>14,
     <1>15, <1>16, <1>17, <1>18, <1>19, <1>20, <1>21, <1>22, <1>23, <1>24, <1>25, <1>26, <1>27,
     <1>28, <1>29, <1>30 DEF Next, WorkerStep

\* Some job goes on.
LEMMA AttendedStep ==
    ASSUME Inv, Next
    PROVE  Attended'
<1>1. ASSUME NEW w \in Workers, NEW j \in ExecuteJobs, Claim(w, j)
      PROVE  Attended'
  <2>1. approval' = None => job'["revise"].status = None /\ \A u \in Workers : doing'[u] # "revise"
    BY <1>1, Types DEF Inv, TypeOK, Attended, Alive, JobStatus, Claim
  <2>2. ASSUME overruns' = 0, NEW u \in Workers, doing'[u] # None
        PROVE  job'[doing'[u]].status = "running"
    BY <1>1, <2>2 DEF Inv, TypeOK, Attended, Alive, Jobs, Claim
  <2>3. ASSUME overruns' = 0, NEW u \in Workers,
               NEW v \in Workers, doing'[u] = doing'[v], doing'[u] # None
        PROVE  u = v
    BY <1>1, <2>3 DEF Inv, TypeOK, Attended, Alive, Claim
  <2>4. ASSUME overruns' = 0, InProgress'
        PROVE  \E i \in ExecuteJobs : Alive(i)'
    BY <1>1, <2>4, Types DEF Inv, TypeOK, Attended, Alive, Claim, Go
  <2> QED  BY <2>1, <2>2, <2>3, <2>4 DEF Attended
<1>2. ASSUME NEW w \in Workers, LoadRun(w)
      PROVE  Attended'
  BY <1>2 DEF Inv, TypeOK, Attended, Alive, InProgress, Active, LoadRun, Go, rows
<1>3. ASSUME NEW w \in Workers, MarkJob(w)
      PROVE  Attended'
  <2>1. approval' = None => job'["revise"].status = None /\ \A u \in Workers : doing'[u] # "revise"
    BY <1>3, MarkedRow, Types DEF Inv, TypeOK, Attended, ExecuteJobs, Jobs, MarkJob, Forget
  <2>2. ASSUME overruns' = 0, NEW u \in Workers, doing'[u] # None
        PROVE  job'[doing'[u]].status = "running"
    BY <1>3, <2>2, MarkedRow DEF Inv, TypeOK, Attended, MarkJob, Forget
  <2>3. ASSUME overruns' = 0, NEW u \in Workers,
               NEW v \in Workers, doing'[u] = doing'[v], doing'[u] # None
        PROVE  u = v
    BY <1>3, <2>3 DEF Inv, TypeOK, Attended, MarkJob, Forget
  <2>4. ASSUME overruns' = 0, InProgress'
        PROVE  \E i \in ExecuteJobs : Alive(i)'
    <3>1. PICK i \in ExecuteJobs : Alive(i)
      BY <1>3, <2>4 DEF Inv, Attended, InProgress, MarkJob
    <3>2. CASE i # doing[w]
      BY <1>3, <3>1, <3>2, MarkedRow, Types DEF Inv, TypeOK, Alive, Jobs, MarkJob, Go, Forget
    <3>3. CASE i = doing[w]
      <4>1. job[i].status = "running"
        BY <1>3, <2>4, <3>3, Types DEF Inv, Attended, MarkJob, Jobs
      <4>2. at[w] = "claimed" \/ at[w] \in Active
        BY <3>1, <3>3, <4>1 DEF Alive
      <4> QED  BY <1>3, <4>2 DEF MarkJob, Marks, Active
    <3> QED  BY <3>2, <3>3
  <2> QED  BY <2>1, <2>2, <2>3, <2>4 DEF Attended
<1>4. ASSUME NEW w \in Workers, RecordFailure(w)
      PROVE  Attended'
  BY <1>4
     DEF Inv, TypeOK, Attended, Alive, InProgress, Active, IsTerminal, TERMINAL_STATES,
         RecordFailure, Go, CommitAs
<1>5. ASSUME NEW w \in Workers, RehydrateNew(w)
      PROVE  Attended'
  BY <1>5 DEF Inv, TypeOK, Attended, Alive, InProgress, Active, RehydrateNew, Go, rows, memory
<1>6. ASSUME NEW w \in Workers, RehydrateLost(w)
      PROVE  Attended'
  BY <1>6 DEF Inv, TypeOK, Attended, Alive, InProgress, Active, RehydrateLost, Go, rows, memory
<1>7. ASSUME NEW w \in Workers, Rehydrate(w)
      PROVE  Attended'
  BY <1>7 DEF Inv, TypeOK, Attended, Alive, InProgress, Active, Rehydrate, Go, rows
<1>8. ASSUME NEW w \in Workers, Announce(w)
      PROVE  Attended'
  <2>1. approval' = None => job'["revise"].status = None /\ \A u \in Workers : doing'[u] # "revise"
    BY <1>8 DEF Inv, TypeOK, Attended, Alive, Announce, Lock, FlushFails, rows, memory
  <2>2. ASSUME overruns' = 0, NEW u \in Workers, doing'[u] # None
        PROVE  job'[doing'[u]].status = "running"
    BY <1>8, <2>2 DEF Inv, TypeOK, Attended, Alive, Announce, Lock, FlushFails, rows, memory
  <2>3. ASSUME overruns' = 0, NEW u \in Workers,
               NEW v \in Workers, doing'[u] = doing'[v], doing'[u] # None
        PROVE  u = v
    BY <1>8, <2>3 DEF Inv, TypeOK, Attended, Alive, Announce, Lock, FlushFails, memory
  <2>4. ASSUME overruns' = 0, InProgress'
        PROVE  \E i \in ExecuteJobs : Alive(i)'
    BY <1>8, <2>4
       DEF Inv, TypeOK, Attended, Alive, InProgress, Active, Announce, Lock, SequenceIsFree,
           FlushFails, Go, rows, memory
  <2> QED  BY <2>1, <2>2, <2>3, <2>4 DEF Attended
<1>9. ASSUME NEW w \in Workers, BeginStep(w)
      PROVE  Attended'
  BY <1>9
     DEF Inv, TypeOK, Attended, Alive, InProgress, Active, BeginStep, Lock, SequenceIsFree,
         FlushFails, Go, rows, memory
<1>10. ASSUME NEW w \in Workers, CloneRepository(w)
      PROVE  Attended'
  BY <1>10
     DEF Inv, TypeOK, Attended, Alive, InProgress, Active, CloneRepository, Go, rows, memory
<1>11. ASSUME NEW w \in Workers, Prepare(w)
      PROVE  Attended'
  BY <1>11, Types
     DEF Inv, TypeOK, Copies, Placed, Claimed, Attended, Alive, Active, Prepare, CommitAs,
         PreparationSteps, Go
<1>12. ASSUME NEW w \in Workers, AfterPlan(w)
      PROVE  Attended'
  BY <1>12, Types
     DEF Inv, TypeOK, Copies, Placed, Claimed, Attended, Alive, InProgress, Active, AwaitsHuman,
         HUMAN_GATE_STATES, AfterPlan, CommitAs, Go
<1>13. ASSUME NEW w \in Workers, NEW outcome \in {"passed", "failed"},
              Implement(w, outcome)
      PROVE  Attended'
  BY <1>13, Types
     DEF Inv, TypeOK, Copies, Placed, Claimed, Attended, Alive, Active, Implement, RunTests,
         CommitAs, Go
<1>14. ASSUME NEW w \in Workers, NEW outcome \in {"passed", "failed"},
              NEW blocking \in BOOLEAN, Assess(w, outcome, blocking)
      PROVE  Attended'
  BY <1>14, Types
     DEF Inv, TypeOK, Copies, Placed, Claimed, Attended, Alive, Active, Assess, Outcomes,
         RunTests, CommitAs, Go
<1>15. ASSUME NEW w \in Workers, NEW outcome \in {"passed", "failed"},
              TestAgain(w, outcome)
      PROVE  Attended'
  BY <1>15 DEF Inv, TypeOK, Attended, Alive, InProgress, TestAgain, RunTests, rows
<1>16. ASSUME NEW w \in Workers, AwaitApproval(w)
      PROVE  Attended'
  BY <1>16
     DEF Inv, TypeOK, Attended, Alive, InProgress, AwaitsHuman, HUMAN_GATE_STATES,
         AwaitApproval, MayAwaitApproval, SequenceIsFree, CommitAs, FlushFails, Go, rows
<1>17. ASSUME NEW w \in Workers, StepFails(w)
      PROVE  Attended'
  BY <1>17 DEF Inv, TypeOK, Attended, Alive, InProgress, Active, StepFails, Go, rows, memory
<1>18. ASSUME NEW w \in Workers, Fail(w)
      PROVE  Attended'
  BY <1>18
     DEF Inv, TypeOK, Attended, Alive, InProgress, IsTerminal, TERMINAL_STATES, Fail,
         SequenceIsFree, CommitAs, FlushFails, Go, rows
<1>19. ASSUME NEW w \in Workers, Cleanup(w)
      PROVE  Attended'
  BY <1>19 DEF Inv, TypeOK, Attended, Alive, InProgress, Active, Cleanup, Go, rows, memory
<1>20. ASSUME NEW w \in Workers, NEW f \in Files, NEW content \in Contents,
              Edit(w, f, content)
      PROVE  Attended'
  BY <1>20 DEF Inv, TypeOK, Attended, Alive, InProgress, Edit, Recorded, rows
<1>21. ASSUME NEW w \in Workers, Crash(w)
      PROVE  Attended'
  BY <1>21, Types
     DEF Inv, TypeOK, Attended, Alive, InProgress, ExecuteJobs, Jobs, Crash, Forget, Go, rows
<1>22. ASSUME NEW j \in ExecuteJobs, LeaseExpires(j)
      PROVE  Attended'
  <2>1. approval' = None => job'["revise"].status = None /\ \A u \in Workers : doing'[u] # "revise"
    BY <1>22, Types DEF Inv, TypeOK, Attended, Alive, JobStatus, LeaseExpires, Overdue, memory
  <2>2. ASSUME overruns' = 0, NEW u \in Workers, doing'[u] # None
        PROVE  job'[doing'[u]].status = "running"
    BY <1>22, <2>2 DEF Inv, TypeOK, Attended, Alive, LeaseExpires, Overdue, memory
  <2>3. ASSUME overruns' = 0, NEW u \in Workers,
               NEW v \in Workers, doing'[u] = doing'[v], doing'[u] # None
        PROVE  u = v
    BY <1>22, <2>3 DEF Inv, TypeOK, Attended, Alive, LeaseExpires, Overdue, memory
  <2>4. ASSUME overruns' = 0, InProgress'
        PROVE  \E i \in ExecuteJobs : Alive(i)'
    BY <1>22, <2>4 DEF Inv, TypeOK, Attended, Alive, LeaseExpires, Overdue, memory
  <2> QED  BY <2>1, <2>2, <2>3, <2>4 DEF Attended
<1>23. CASE LoseMachine
  BY <1>23, Types
     DEF Inv, TypeOK, Attended, Alive, InProgress, ExecuteJobs, Jobs, LoseMachine, rows
<1>24. CASE Cancel
  BY <1>24
     DEF Inv, TypeOK, Attended, Alive, InProgress, IsTerminal, TERMINAL_STATES, Cancel,
         CommitFromApi
<1>25. CASE Approve
  BY <1>25
     DEF Inv, TypeOK, Claimed, Attended, Alive, InProgress, ExecuteJobs, AwaitsHuman,
         HUMAN_GATE_STATES, Approve, Decide, Enqueue, CommitFromApi
<1>26. CASE Reject
  BY <1>26
     DEF Inv, TypeOK, Attended, Alive, InProgress, IsTerminal, TERMINAL_STATES, Reject, Decide,
         CommitFromApi
<1>27. CASE RequestRevision
  <2>0. approval' \in Approval
    BY <1>27 DEF Inv, TypeOK, RequestRevision, Decide, Approval
  <2>1. approval' = None => job'["revise"].status = None /\ \A u \in Workers : doing'[u] # "revise"
    BY <1>27, <2>0, Types
       DEF Inv, TypeOK, Attended, Alive, RequestRevision, Decide, Enqueue, CommitFromApi
  <2>2. ASSUME overruns' = 0, NEW u \in Workers, doing'[u] # None
        PROVE  job'[doing'[u]].status = "running"
    BY <1>27, <2>2
       DEF Inv, TypeOK, Attended, Alive, RequestRevision, Decide, Enqueue, CommitFromApi
  <2>3. ASSUME overruns' = 0, NEW u \in Workers,
               NEW v \in Workers, doing'[u] = doing'[v], doing'[u] # None
        PROVE  u = v
    BY <1>27, <2>3
       DEF Inv, TypeOK, Attended, Alive, RequestRevision, Decide, Enqueue, CommitFromApi
  <2>4. ASSUME overruns' = 0, InProgress'
        PROVE  \E i \in ExecuteJobs : Alive(i)'
    BY <1>27, <2>4
       DEF Inv, TypeOK, Attended, Alive, ExecuteJobs, Jobs, RequestRevision, Decide, Enqueue,
           CommitFromApi
  <2> QED  BY <2>1, <2>2, <2>3, <2>4 DEF Attended
<1>28. ASSUME NEW w \in Workers, MarkSucceededFails(w)
      PROVE  Attended'
  BY <1>28
     DEF Inv, TypeOK, Attended, Alive, InProgress, MarkSucceededFails, Active, Go, rows,
         memory
<1>29. ASSUME NEW w \in Workers, SelectJob(w)
      PROVE  Attended'
  BY <1>29 DEF Inv, TypeOK, Attended, Alive, InProgress, SelectJob, Active, Go, rows, memory
<1>30. ASSUME NEW w \in Workers, Reclone(w)
      PROVE  Attended'
  BY <1>30, Types
     DEF Inv, TypeOK, Attended, Alive, InProgress, Reclone, Active, Go, rows, memory
<1> QED
  BY <1>1, <1>2, <1>3, <1>4, <1>5, <1>6, <1>7, <1>8, <1>9, <1>10, <1>11, <1>12, <1>13, <1>14,
     <1>15, <1>16, <1>17, <1>18, <1>19, <1>20, <1>21, <1>22, <1>23, <1>24, <1>25, <1>26, <1>27,
     <1>28, <1>29, <1>30 DEF Next, WorkerStep

\* What a step may do to an approved run.
Frozen == /\ diff' = approval.diff
          /\ disk' = disk \/ disk' = None \/ trampled'
          /\ approval' = approval

\* A step leaves an approved run alone.
LEMMA FrozenStep ==
    ASSUME Inv, Next, Approved
    PROVE  Frozen
<1>1. ASSUME NEW w \in Workers, NEW j \in ExecuteJobs, Claim(w, j)
      PROVE  Frozen
  BY <1>1 DEF Inv, TypeOK, Reviewed, Frozen, Claim
<1>2. ASSUME NEW w \in Workers, LoadRun(w)
      PROVE  Frozen
  BY <1>2 DEF Inv, TypeOK, Reviewed, Frozen, LoadRun, rows
<1>3. ASSUME NEW w \in Workers, MarkJob(w)
      PROVE  Frozen
  BY <1>3 DEF Inv, TypeOK, Reviewed, Frozen, MarkJob, Forget
<1>4. ASSUME NEW w \in Workers, RecordFailure(w)
      PROVE  Frozen
  BY <1>4 DEF Inv, TypeOK, Reviewed, Frozen, RecordFailure, CommitAs
<1>5. ASSUME NEW w \in Workers, RehydrateNew(w)
      PROVE  Frozen
  BY <1>5 DEF Inv, TypeOK, Reviewed, Frozen, RehydrateNew, rows
<1>6. ASSUME NEW w \in Workers, RehydrateLost(w)
      PROVE  Frozen
  BY <1>6 DEF Inv, TypeOK, Reviewed, Frozen, RehydrateLost, rows
<1>7. ASSUME NEW w \in Workers, Rehydrate(w)
      PROVE  Frozen
  BY <1>7 DEF Inv, TypeOK, Reviewed, Frozen, Rehydrate, rows
<1>8. ASSUME NEW w \in Workers, Announce(w)
      PROVE  Frozen
  BY <1>8 DEF Inv, TypeOK, Reviewed, Frozen, Announce, Lock, FlushFails, rows
<1>9. ASSUME NEW w \in Workers, BeginStep(w)
      PROVE  Frozen
  BY <1>9 DEF Inv, TypeOK, Reviewed, Frozen, BeginStep, Lock, FlushFails, rows
<1>10. ASSUME NEW w \in Workers, CloneRepository(w)
      PROVE  Frozen
  BY <1>10, Types DEF Inv, TypeOK, Copies, Placed, Reviewed, Frozen, CloneRepository
<1>11. ASSUME NEW w \in Workers, Prepare(w)
      PROVE  Frozen
  BY <1>11 DEF Inv, TypeOK, Reviewed, Frozen, Prepare, CommitAs, PreparationSteps
<1>12. ASSUME NEW w \in Workers, AfterPlan(w)
      PROVE  Frozen
  BY <1>12 DEF Inv, TypeOK, Reviewed, Frozen, AfterPlan, CommitAs
<1>13. ASSUME NEW w \in Workers, NEW outcome \in {"passed", "failed"},
              Implement(w, outcome)
      PROVE  Frozen
  BY <1>13 DEF Inv, TypeOK, Reviewed, Frozen, Implement, RunTests, CommitAs
<1>14. ASSUME NEW w \in Workers, NEW outcome \in {"passed", "failed"},
              NEW blocking \in BOOLEAN, Assess(w, outcome, blocking)
      PROVE  Frozen
  BY <1>14, Types
     DEF Inv, TypeOK, Copies, Placed, Reviewed, Frozen, Assess, Outcomes, RunTests, CommitAs
<1>15. ASSUME NEW w \in Workers, NEW outcome \in {"passed", "failed"},
              TestAgain(w, outcome)
      PROVE  Frozen
  BY <1>15 DEF Inv, TypeOK, Reviewed, Frozen, TestAgain, RunTests, rows
<1>16. ASSUME NEW w \in Workers, AwaitApproval(w)
      PROVE  Frozen
  BY <1>16
     DEF Inv, TypeOK, Reviewed, Frozen, AwaitApproval, MayAwaitApproval, CommitAs, FlushFails,
         rows
<1>17. ASSUME NEW w \in Workers, StepFails(w)
      PROVE  Frozen
  BY <1>17 DEF Inv, TypeOK, Reviewed, Frozen, StepFails, rows
<1>18. ASSUME NEW w \in Workers, Fail(w)
      PROVE  Frozen
  BY <1>18 DEF Inv, TypeOK, Reviewed, Frozen, Fail, CommitAs, FlushFails, rows
<1>19. ASSUME NEW w \in Workers, Cleanup(w)
      PROVE  Frozen
  BY <1>19 DEF Inv, TypeOK, Copies, Placed, Frozen, Cleanup
<1>20. ASSUME NEW w \in Workers, NEW f \in Files, NEW content \in Contents,
              Edit(w, f, content)
      PROVE  Frozen
  BY <1>20, Types DEF Inv, TypeOK, Copies, Placed, Reviewed, Frozen, Edit, Recorded
<1>21. ASSUME NEW w \in Workers, Crash(w)
      PROVE  Frozen
  BY <1>21 DEF Inv, TypeOK, Reviewed, Frozen, Crash, Forget, rows
<1>22. ASSUME NEW j \in ExecuteJobs, LeaseExpires(j)
      PROVE  Frozen
  BY <1>22 DEF Inv, TypeOK, Reviewed, Frozen, LeaseExpires, Overdue
<1>23. CASE LoseMachine
  BY <1>23 DEF Inv, TypeOK, Reviewed, Frozen, LoseMachine, rows
<1>24. CASE Cancel
  BY <1>24 DEF Inv, TypeOK, Reviewed, Frozen, Cancel, CommitFromApi
<1>25. CASE Approve
  BY <1>25 DEF Inv, TypeOK, Approved, Frozen, Approve, Decide, Enqueue, CommitFromApi
<1>26. CASE Reject
  BY <1>26 DEF Inv, TypeOK, Approved, Frozen, Reject, Decide, CommitFromApi
<1>27. CASE RequestRevision
  BY <1>27 DEF Inv, TypeOK, Approved, Frozen, RequestRevision, Decide, Enqueue, CommitFromApi
<1>28. ASSUME NEW w \in Workers, MarkSucceededFails(w)
      PROVE  Frozen
  BY <1>28 DEF Inv, TypeOK, Reviewed, Frozen, MarkSucceededFails, rows
<1>29. ASSUME NEW w \in Workers, SelectJob(w)
      PROVE  Frozen
  BY <1>29 DEF Inv, TypeOK, Reviewed, Frozen, SelectJob, rows
<1>30. ASSUME NEW w \in Workers, Reclone(w)
      PROVE  Frozen
  BY <1>30, Types DEF Inv, TypeOK, Reviewed, Lost, Frozen, Reclone, rows
<1> QED
  BY <1>1, <1>2, <1>3, <1>4, <1>5, <1>6, <1>7, <1>8, <1>9, <1>10, <1>11, <1>12, <1>13, <1>14,
     <1>15, <1>16, <1>17, <1>18, <1>19, <1>20, <1>21, <1>22, <1>23, <1>24, <1>25, <1>26, <1>27,
     <1>28, <1>29, <1>30 DEF Next, WorkerStep

\* A run that was just created.
LEMMA InitInv == Init => Inv
<1> SUFFICES ASSUME Init PROVE Inv
  OBVIOUS
<1>1. TypeOK
  <2>1. NoChanges \in [{} -> Contents] /\ {} \in SUBSET Files
    BY DEF NoChanges
  <2>2. NoChanges \in ChangeList
    BY <2>1 DEF ChangeList
  <2>3. job \in [Jobs -> JobRow]
    BY DEF Init, JobRow, JobStatus
  <2>4. fresh \in [Workers -> BOOLEAN]
    BY DEF Init
  <2> QED  BY <2>2, <2>3, <2>4, States DEF Init, TypeOK, Places
<1>2. Copies /\ Lost /\ Recording /\ Evidence
  BY DEF Init, Copies, Placed, Lost, Recording, Evidence, Active, Unaware
<1>3. Reviewed /\ Claimed
  BY DEF Init, Reviewed, Claimed, Approved
<1>4. Attended
  <2>1. job["revise"].status = None /\ job["execute"].status = "queued"
    BY DEF Init, Jobs, ExecuteJobs
  <2>2. \A w \in Workers : doing[w] = None
    BY DEF Init
  <2>3. None \notin {"revise"}
    BY Types DEF Jobs, ExecuteJobs
  <2> QED  BY <2>1, <2>2, <2>3 DEF Attended, Alive, ExecuteJobs
<1> QED  BY <1>1, <1>2, <1>3, <1>4 DEF Inv

\* The invariant is about the variables only.
LEMMA StutterInv == Inv /\ UNCHANGED vars => Inv'
<1> SUFFICES ASSUME Inv, UNCHANGED vars PROVE Inv'
  OBVIOUS
<1> USE DEF vars, rows, memory, history
<1>1. TypeOK'
  BY DEF Inv, TypeOK
<1>2. Copies' /\ Claimed'
  BY DEF Inv, Copies, Placed, Claimed, Approved
<1>3. Lost' /\ Recording' /\ Evidence'
  BY DEF Inv, Lost, Recording, Evidence, IsComplete, Approved
<1>4. Reviewed'
  BY TrueDiffs DEF Inv, Reviewed, Approved
<1>5. Attended'
  BY DEF Inv, Attended, Alive, InProgress
<1> QED  BY <1>1, <1>2, <1>3, <1>4, <1>5 DEF Inv

LEMMA NextInv == Inv /\ [Next]_vars => Inv'
BY TypeStep, CopiesStep, LostStep, RecordingStep, EvidenceStep, ReviewedStep, ClaimedStep,
   AttendedStep, StutterInv
   DEF Inv

\* The invariant holds for ever.
THEOREM Invariance == Spec => []Inv
BY InitInv, NextInv, PTL DEF Spec

\* The rows of a run, its workspace and the memories of its workers have their types
\* in every state of the orchestrator and the worker.
THEOREM TypeCorrect == Spec => []TypeOK
<1>1. Inv => TypeOK
  BY DEF Inv
<1> QED  BY <1>1, Invariance, PTL

\* However many workers are on the run and however often it was resumed,
\* _await_approval parks it only with a workspace on which the tests have passed.
THEOREM GateIsAlwaysTested == Spec => []GateIsTested
<1>1. Inv => GateIsTested
  BY DEF Inv, Evidence, GateIsTested
<1> QED  BY <1>1, Invariance, PTL

\* The diff that _assess stored, and that waits for the reviewer, is what changed in
\* the workspace, if no edit was on disk that its worker knew nothing of.
THEOREM DiffIsAlwaysTruthful == Spec => []DiffIsTruthful
<1>1. Inv => DiffIsTruthful
  BY DEF Inv, Reviewed, DiffIsTruthful
<1> QED  BY <1>1, Invariance, PTL

\* A run that waits for nobody has a job that is queued or running, unless a lease
\* expired under a live worker.
THEOREM NeverLeftAlone == Spec => []NeverAbandoned
<1>1. Inv => NeverAbandoned
  BY DEF Inv, Attended, Alive, NeverAbandoned
<1> QED  BY <1>1, Invariance, PTL

\* After approve, no step of a worker, however late, changes what was approved.
THEOREM ApprovedStays == Spec => ApprovedIsFrozen
<1>1. Inv /\ [Next]_vars => (Approved => Frozen)
  <2>1. Inv /\ UNCHANGED vars /\ Approved => Frozen
    BY DEF Inv, Reviewed, Frozen, vars, rows
  <2> QED  BY <2>1, FrozenStep
<1>2. Inv /\ [Next]_vars => [Approved => /\ diff' = approval.diff
                                         /\ disk' = disk \/ disk' = None \/ trampled'
                                         /\ approval' = approval]_vars
  BY <1>1 DEF Frozen
<1> QED  BY <1>2, Invariance, PTL DEF Spec, ApprovedIsFrozen
-----------------------------------------------------------------------------
(* The run as people see it.                                               *)

\* The state machine is the same one.
LEMMA SameStates ==
    /\ Review!WORKING_STATES = WORKING_STATES
    /\ Review!TransitionTable = TransitionTable
    /\ \A s : Review!IsTerminal(s) <=> IsTerminal(s)
<1>1. Review!WORKING_STATES = WORKING_STATES
  BY DEF Review!WORKING_STATES, WORKING_STATES
<1>2. Review!TransitionTable = TransitionTable
  BY DEF Review!TransitionTable, TransitionTable
<1>3. \A s : Review!IsTerminal(s) <=> IsTerminal(s)
  BY DEF Review!IsTerminal, IsTerminal, Review!TERMINAL_STATES, TERMINAL_STATES
<1> QED  BY <1>1, <1>2, <1>3

\* A step that is committed from a fresh copy is a step of the agent.
LEMMA CommittedStep ==
    ASSUME Inv, NEW w \in Workers, NEW s \in RunState, fresh[w], CommitAs(w, s),
           seen[w] \in WORKING_STATES, <<seen[w], s>> \in TransitionTable,
           IF s = "VERIFYING" THEN diff' \in Diff ELSE diff' = diff,
           approval' = approval
    PROVE  Review!Work
<1>1. run = seen[w] /\ run' = s
  BY DEF Inv, Copies, CommitAs
<1> QED  BY <1>1, SameStates DEF Review!Work

\* A worker that is in the middle of a step has a fresh copy of a run the agent moves.
LEMMA AtWork ==
    ASSUME Inv, NEW w \in Workers,
           at[w] \in {"working", "cloned"} \/ (at[w] \in Active /\ SequenceIsFree(w))
    PROVE  fresh[w] /\ seen[w] = run /\ seen[w] \in WORKING_STATES /\ ~IsTerminal(run)
<1>1. fresh[w] /\ at[w] \in Active
  BY Types DEF Inv, Copies, Placed, Active, SequenceIsFree
<1>2. seen[w] = run /\ ~IsTerminal(seen[w]) /\ ~AwaitsHuman(seen[w]) /\ seen[w] \in RunState
  BY <1>1 DEF Inv, TypeOK, Copies, Placed
<1> QED  BY <1>1, <1>2 DEF RunState, IsTerminal, AwaitsHuman

\* Every step is one of the run's, or nobody sees it.
LEMMA ReviewStep ==
    ASSUME Inv, [Next]_vars
    PROVE  [Review!Next]_(Review!vars)
<1> DEFINE Unseen == UNCHANGED <<run, diff, approval>>
<1>0. Unseen => UNCHANGED Review!vars
  BY DEF Review!vars
<1>1. ASSUME NEW w \in Workers, Prepare(w)
      PROVE  Review!Work
  <2>1. fresh[w] /\ seen[w] \in WORKING_STATES
    BY <1>1, AtWork DEF Prepare
  <2>2. diff' = diff /\ approval' = approval
    BY <1>1 DEF Prepare
  <2>3. CASE at[w] = "cloned" /\ CommitAs(w, "CLONING_REPOSITORY")
    <3>1. seen[w] = "CREATED"
      BY <2>3 DEF Inv, Copies, Placed
    <3> QED  BY <2>1, <2>2, <2>3, <3>1, CommittedStep, States DEF TransitionTable
  <2>4. CASE seen[w] \in DOMAIN PreparationSteps /\ CommitAs(w, PreparationSteps[seen[w]])
    <3> DEFINE s == PreparationSteps[seen[w]]
    <3>1. s \in RunState /\ s # "VERIFYING" /\ <<seen[w], s>> \in TransitionTable
      BY <2>4, States DEF PreparationSteps, TransitionTable
    <3>2. CommitAs(w, s)
      BY <2>4
    <3> HIDE DEF s
    <3> QED  BY <2>1, <2>2, <3>1, <3>2, CommittedStep
  <2> QED  BY <1>1, <2>3, <2>4 DEF Prepare
<1>2. ASSUME NEW w \in Workers, AfterPlan(w)
      PROVE  Review!Work
  <2>1. fresh[w] /\ seen[w] = "PLANNING" /\ seen[w] \in WORKING_STATES
    BY <1>2, AtWork DEF AfterPlan
  <2>2. PICK s \in {"WAITING_FOR_PLAN_REVIEW", "IMPLEMENTING"} : CommitAs(w, s)
    BY <1>2 DEF AfterPlan
  <2>3. diff' = diff /\ approval' = approval
    BY <1>2 DEF AfterPlan
  <2> QED  BY <2>1, <2>2, <2>3, CommittedStep, States DEF TransitionTable
<1>3. ASSUME NEW w \in Workers, NEW outcome \in {"passed", "failed"}, Implement(w, outcome)
      PROVE  Review!Work
  <2>1. fresh[w] /\ seen[w] = "IMPLEMENTING" /\ seen[w] \in WORKING_STATES
    BY <1>3, AtWork DEF Implement
  <2>2. CommitAs(w, "TESTING") /\ diff' = diff /\ approval' = approval
    BY <1>3 DEF Implement
  <2> QED  BY <2>1, <2>2, CommittedStep, States DEF TransitionTable
<1>4. ASSUME NEW w \in Workers, NEW outcome \in {"passed", "failed"},
             NEW blocking \in BOOLEAN, Assess(w, outcome, blocking)
      PROVE  Review!Work
  <2>1. fresh[w] /\ seen[w] = "TESTING" /\ seen[w] \in WORKING_STATES
    BY <1>4, AtWork DEF Assess
  <2>2. CommitAs(w, "VERIFYING") /\ approval' = approval
    BY <1>4 DEF Assess
  <2>3. diff' \in Diff
    BY <1>4, ChangeSetType DEF Inv, Assess
  <2> QED  BY <2>1, <2>2, <2>3, CommittedStep, States DEF TransitionTable
<1>5. ASSUME NEW w \in Workers, AwaitApproval(w)
      PROVE  Review!Work \/ Unseen
  <2>1. CASE FlushFails(w)
    BY <2>1 DEF FlushFails, rows
  <2>2. CASE SequenceIsFree(w) /\ CommitAs(w, "WAITING_FOR_APPROVAL") /\ ~FlushFails(w)
    <3>1. fresh[w] /\ seen[w] = "VERIFYING" /\ seen[w] \in WORKING_STATES
      BY <1>5, <2>2, AtWork DEF AwaitApproval, Active
    <3>2. diff' = diff /\ approval' = approval
      BY <1>5, <2>2 DEF AwaitApproval
    <3> QED  BY <2>2, <3>1, <3>2, CommittedStep, States DEF TransitionTable
  <2> QED  BY <1>5, <2>1, <2>2 DEF AwaitApproval
<1>6. ASSUME NEW w \in Workers, Fail(w)
      PROVE  Review!End \/ Unseen
  <2>1. CASE FlushFails(w)
    BY <2>1 DEF FlushFails, rows
  <2>2. CASE SequenceIsFree(w) /\ CommitAs(w, "FAILED") /\ ~FlushFails(w)
    <3>1. ~IsTerminal(run)
      BY <1>6, <2>2, AtWork DEF Fail, Active
    <3>2. run' = "FAILED" /\ diff' = diff /\ approval' = approval
      BY <1>6, <2>2 DEF Fail, CommitAs
    <3> QED  BY <3>1, <3>2, SameStates DEF Review!End
  <2> QED  BY <1>6, <2>1, <2>2 DEF Fail
<1>7. ASSUME NEW w \in Workers, RecordFailure(w)
      PROVE  Review!End \/ Unseen
  <2>1. diff' = diff /\ approval' = approval
    BY <1>7 DEF RecordFailure
  <2>2. CASE ~IsTerminal(run) /\ run' = "FAILED"
    BY <2>1, <2>2, SameStates DEF Review!End
  <2> QED  BY <1>7, <2>1, <2>2 DEF RecordFailure, CommitAs
<1>8. CASE Cancel
  <2>1. Review!End
    BY <1>8, SameStates DEF Cancel, CommitFromApi, Review!End
  <2> QED  BY <2>1 DEF Review!Next
<1>9. ASSUME NEW decision, Decide(decision)
      PROVE  Review!Decide(decision)
  BY <1>9 DEF Inv, TypeOK, Decide, Review!Decide
<1>10. CASE Approve
  <2>1. Review!Approve
    BY <1>9, <1>10 DEF Approve, CommitFromApi, Review!Approve
  <2> QED  BY <2>1 DEF Review!Next
<1>11. CASE Reject
  <2>1. Review!Reject
    BY <1>9, <1>11 DEF Reject, CommitFromApi, Review!Reject
  <2> QED  BY <2>1 DEF Review!Next
<1>12. CASE RequestRevision
  <2>1. Review!RequestRevision
    BY <1>9, <1>12 DEF RequestRevision, CommitFromApi, Review!RequestRevision
  <2> QED  BY <2>1 DEF Review!Next
<1>13. ASSUME NEW w \in Workers, Announce(w) \/ BeginStep(w)
       PROVE  Unseen
  BY <1>13 DEF Announce, BeginStep, Lock, FlushFails, rows
<1>14. ASSUME NEW w \in Workers,
              \/ \E j \in ExecuteJobs : Claim(w, j)
              \/ LoadRun(w) \/ MarkSucceededFails(w) \/ SelectJob(w) \/ MarkJob(w)
              \/ RehydrateNew(w) \/ RehydrateLost(w) \/ Reclone(w) \/ Rehydrate(w)
              \/ CloneRepository(w) \/ StepFails(w) \/ Cleanup(w) \/ Crash(w)
              \/ \E outcome \in {"passed", "failed"} : TestAgain(w, outcome)
              \/ \E f \in Files, content \in Contents : Edit(w, f, content)
       PROVE  Unseen
  BY <1>14 DEF Claim, LoadRun, MarkSucceededFails, SelectJob, MarkJob, RehydrateNew,
     RehydrateLost, Reclone, Rehydrate, CloneRepository, StepFails, Cleanup, Crash, TestAgain, Edit, rows
<1>15. CASE LoseMachine \/ (\E j \in ExecuteJobs : LeaseExpires(j)) \/ UNCHANGED vars
  BY <1>0, <1>15 DEF LoseMachine, LeaseExpires, rows, vars
<1> QED
  BY <1>0, <1>1, <1>2, <1>3, <1>4, <1>5, <1>6, <1>7, <1>8, <1>10, <1>11, <1>12, <1>13, <1>14,
     <1>15 DEF Next, WorkerStep, Review!Next

\* advance, its workers and the reviewer's requests together do to a run only what the
\* product promises: any number of workers, crashes and expired leases notwithstanding.
THEOREM ImplementsReviewedRun == Spec => RefinesReviewedRun
<1>1. Init => Review!Init
  BY DEF Init, Review!Init
<1> QED
  BY <1>1, ReviewStep, Invariance, PTL DEF Spec, RefinesReviewedRun, Review!Spec

-----------------------------------------------------------------------------
(* The jobs of the run.                                                    *)

\* The job that publishes the run is there exactly from its approval on; in this module
\* nobody claims it.
PublishJob ==
    job["publish"] = [status |-> IF Approved THEN "queued" ELSE None, attempts |-> 0]

\* Who is about to mark a job as failed saw all its attempts used, and they still are.
Exhausted == \A w \in Workers : at[w] = "failing" => job[doing[w]].attempts >= MaxAttempts

\* The workers that have job j, and those that will queue it again.
Having(j) == {w \in Workers : doing[w] = j}
Retrying(j) == {w \in Workers : doing[w] = j /\ at[w] = "requeueing"}

\* The steps of workers and requests that leave every job where it is, and take nobody to
\* or from the UPDATE of mark_failed.
JobsStay ==
    /\ UNCHANGED <<job, doing>>
    /\ \A w \in Workers : \/ at'[w] = at[w]
                          \/ /\ at[w] \notin {"requeueing", "failing"}
                             /\ at'[w] \notin {"requeueing", "failing"}

LEMMA OtherSteps ==
    ASSUME Inv, [Next]_vars
    PROVE  \/ \E w \in Workers, j \in ExecuteJobs : Claim(w, j)
           \/ \E w \in Workers : SelectJob(w) \/ MarkJob(w) \/ Crash(w)
           \/ \E j \in ExecuteJobs : LeaseExpires(j)
           \/ LoseMachine
           \/ Approve
           \/ RequestRevision
           \/ JobsStay /\ (Reject \/ approval' = approval)
<1> USE DEF JobsStay
<1>0. at \in [Workers -> Places]
  BY DEF Inv, TypeOK
<1>1. ASSUME NEW w \in Workers, Announce(w) \/ BeginStep(w) \/ AwaitApproval(w) \/ Fail(w)
      PROVE  JobsStay /\ approval' = approval
  BY <1>0, <1>1 DEF Announce, BeginStep, Lock, AwaitApproval, Fail, CommitAs, FlushFails, Go, rows,
     memory
<1>2. ASSUME NEW w \in Workers,
             \/ LoadRun(w) \/ MarkSucceededFails(w) \/ RecordFailure(w) \/ RehydrateNew(w)
             \/ RehydrateLost(w) \/ Reclone(w) \/ Rehydrate(w) \/ CloneRepository(w)
             \/ Prepare(w) \/ AfterPlan(w) \/ StepFails(w) \/ Cleanup(w)
      PROVE  JobsStay /\ approval' = approval
  BY <1>0, <1>2 DEF LoadRun, MarkSucceededFails, RecordFailure, RehydrateNew, RehydrateLost,
     Reclone, Rehydrate, CloneRepository, Prepare, AfterPlan, StepFails, Cleanup, Go, rows, memory
<1>3. ASSUME NEW w \in Workers, NEW outcome \in {"passed", "failed"},
             \/ Implement(w, outcome) \/ TestAgain(w, outcome)
             \/ \E blocking \in BOOLEAN : Assess(w, outcome, blocking)
             \/ \E f \in Files, content \in Contents : Edit(w, f, content)
      PROVE  JobsStay /\ approval' = approval
  BY <1>0, <1>3 DEF Implement, TestAgain, Assess, Edit, Go, rows
<1>4. ASSUME NEW w \in Workers, NEW f \in Files, NEW content \in Contents, Edit(w, f, content)
      PROVE  JobsStay /\ approval' = approval
  BY <1>4 DEF Edit, rows
<1>5. Cancel \/ UNCHANGED vars => JobsStay /\ approval' = approval
  BY DEF Cancel, vars, rows, memory
<1>6. Reject => JobsStay
  BY DEF Reject, Decide
<1> HIDE DEF JobsStay
<1> QED
  BY <1>1, <1>2, <1>3, <1>4, <1>5, <1>6 DEF Next, WorkerStep

LEMMA PublishJobStep == Inv /\ PublishJob /\ [Next]_vars => PublishJob'
<1> SUFFICES ASSUME Inv, PublishJob, [Next]_vars PROVE PublishJob'
  OBVIOUS
<1>0. /\ "publish" \in Jobs /\ "publish" \notin ExecuteJobs /\ job \in [Jobs -> JobRow]
      /\ "revise" \in Jobs
  BY DEF Jobs, ExecuteJobs, Inv, TypeOK
<1>1. job'["publish"] = job["publish"] /\ approval' = approval => PublishJob'
  BY DEF PublishJob, Approved
<1>2. ASSUME NEW w \in Workers, NEW j \in ExecuteJobs, Claim(w, j) PROVE PublishJob'
  BY <1>0, <1>1, <1>2 DEF Claim
<1>3. ASSUME NEW w \in Workers, MarkJob(w) PROVE PublishJob'
  BY <1>0, <1>1, <1>3, MarkedRow DEF MarkJob
<1>4. ASSUME NEW w \in Workers, Crash(w) PROVE PublishJob'
  BY <1>1, <1>4 DEF Crash, rows
<1>5. ASSUME NEW j \in ExecuteJobs, LeaseExpires(j) PROVE PublishJob'
  BY <1>0, <1>1, <1>5 DEF LeaseExpires
<1>6. LoseMachine => PublishJob'
  BY <1>1 DEF LoseMachine, rows
<1>7. CASE Approve
  <2>1. approval = None /\ approval' = [decision |-> "approved", diff |-> diff] /\ diff \in Diff
    BY <1>7 DEF Approve, Decide, Inv, TypeOK
  <2>2. ~Approved /\ Approved'
    BY <2>1, NoneAssumption DEF Approved, Approval
  <2>3. job["publish"] = [status |-> None, attempts |-> 0]
    BY <2>2 DEF PublishJob
  <2>4. job' = [job EXCEPT !["publish"].status = "queued"]
    BY <1>7 DEF Approve, Enqueue
  <2> QED  BY <1>0, <2>2, <2>3, <2>4 DEF PublishJob
<1>8. CASE RequestRevision
  <2>1. approval = None /\ approval' = [decision |-> "revision_requested", diff |-> diff]
    BY <1>8 DEF RequestRevision, Decide
  <2>2. ~Approved /\ ~Approved'
    BY <2>1 DEF Approved
  <2>3. job'["publish"] = job["publish"]
    BY <1>0, <1>8 DEF RequestRevision, Enqueue
  <2> QED  BY <2>2, <2>3 DEF PublishJob
<1>9. CASE JobsStay /\ Reject
  <2>1. approval = None /\ approval' = [decision |-> "rejected", diff |-> diff]
    BY <1>9 DEF Reject, Decide
  <2> QED  BY <1>9, <2>1 DEF PublishJob, Approved, JobsStay
<1>10. JobsStay /\ approval' = approval => PublishJob'
  BY <1>1 DEF JobsStay
<1>11. ASSUME NEW w \in Workers, SelectJob(w) PROVE PublishJob'
  BY <1>1, <1>11 DEF SelectJob, rows
<1> QED
  BY <1>2, <1>3, <1>4, <1>5, <1>6, <1>7, <1>8, <1>9, <1>10, <1>11, OtherSteps

\* Nobody gives an attempt back.
LEMMA ExhaustedStep == Inv /\ Exhausted /\ [Next]_vars => Exhausted'
<1> SUFFICES ASSUME Inv, Exhausted, [Next]_vars PROVE Exhausted'
  OBVIOUS
<1>0. /\ job \in [Jobs -> JobRow] /\ \A j \in Jobs : job[j] \in JobRow /\ job[j].attempts \in Nat
      /\ doing \in [Workers -> Jobs \cup {None}] /\ at \in [Workers -> Places]
      /\ ExecuteJobs \subseteq Jobs /\ MaxAttempts \in Nat
      /\ \A w \in Workers : at[w] = "failing" => doing[w] \in Jobs
  BY BoundsAssumption DEF Inv, TypeOK, Copies, Placed, Jobs, JobRow
<1>1. ASSUME \A j \in Jobs : job'[j].attempts >= job[j].attempts /\ job'[j].attempts \in Nat,
             \A w \in Workers : at'[w] = "failing" =>
                (at[w] = "failing" /\ doing'[w] = doing[w])
      PROVE  Exhausted'
  <2> SUFFICES ASSUME NEW w \in Workers, at'[w] = "failing"
               PROVE  job'[doing'[w]].attempts >= MaxAttempts
    BY DEF Exhausted
  <2>1. at[w] = "failing" /\ doing'[w] = doing[w] /\ doing[w] \in Jobs
    BY <1>0, <1>1
  <2>2. job[doing[w]].attempts >= MaxAttempts
    BY <2>1 DEF Exhausted
  <2> QED  BY <1>0, <1>1, <2>1, <2>2
<1>2. ASSUME NEW w \in Workers, NEW j \in ExecuteJobs, Claim(w, j) PROVE Exhausted'
  BY <1>0, <1>1, <1>2 DEF Claim, Go, JobRow
<1>3. ASSUME NEW w \in Workers, SelectJob(w) PROVE Exhausted'
  <2>1. doing[w] \in Jobs
    BY <1>3 DEF Inv, TypeOK, Copies, Placed, SelectJob
  <2> QED  BY <1>0, <1>3, <2>1 DEF Exhausted, SelectJob, Verdict, Go, rows, memory
<1>4. ASSUME NEW w \in Workers, MarkJob(w) PROVE Exhausted'
  <2>1. \A j \in Jobs : job'[j].attempts = job[j].attempts
    BY <1>4, MarkedRow
  <2> QED  BY <1>0, <1>1, <1>4, <2>1 DEF MarkJob, Go
<1>5. ASSUME NEW w \in Workers, Crash(w) PROVE Exhausted'
  BY <1>0, <1>1, <1>5 DEF Crash, Go, rows
<1>6. ASSUME NEW j \in ExecuteJobs, LeaseExpires(j) PROVE Exhausted'
  BY <1>0, <1>1, <1>6 DEF LeaseExpires, memory, JobRow
<1>7. LoseMachine => Exhausted'
  BY DEF LoseMachine, Exhausted
<1>8. Approve \/ RequestRevision => Exhausted'
  BY <1>0, <1>1 DEF Approve, RequestRevision, Decide, Enqueue, JobRow
<1>9. JobsStay => Exhausted'
  <2> SUFFICES ASSUME JobsStay PROVE Exhausted'
    OBVIOUS
  <2>1. \A j \in Jobs : job'[j].attempts >= job[j].attempts /\ job'[j].attempts \in Nat
    BY <1>0 DEF JobsStay
  <2>2. \A w \in Workers : at'[w] = "failing" => at[w] = "failing" /\ doing'[w] = doing[w]
    BY DEF JobsStay
  <2> QED  BY <1>1, <2>1, <2>2
<1> QED
  BY <1>2, <1>3, <1>4, <1>5, <1>6, <1>7, <1>8, <1>9, OtherSteps

LEMMA DeliveryInit ==
    ASSUME Init, NEW j \in Jobs
    PROVE  Delivery(j)!Init
<1>1. None \notin Jobs /\ None # "queued"
  BY NoneAssumption DEF JobStatus
<1> QED  BY <1>1 DEF Init, Delivery!Init

\* Each job's row and workers change as JobDelivery says.
LEMMA DeliveryStep ==
    ASSUME Inv, PublishJob, Exhausted, [Next]_vars, NEW j \in Jobs
    PROVE  [Delivery(j)!Next]_(Delivery(j)!vars)
<1> DEFINE same == job'[j] = job[j] /\ Having(j)' = Having(j) /\ Retrying(j)' = Retrying(j)
<1>0. /\ job \in [Jobs -> JobRow] /\ job[j] \in JobRow /\ doing \in [Workers -> Jobs \cup {None}]
      /\ None \notin Jobs /\ None \notin JobStatus
      /\ ExecuteJobs \subseteq Jobs /\ at \in [Workers -> Places]
  BY NoneAssumption DEF Inv, TypeOK, Jobs
<1>same. same => UNCHANGED Delivery(j)!vars
  BY DEF Having, Retrying, Delivery!vars
<1>1. ASSUME NEW w \in Workers, NEW k \in ExecuteJobs, Claim(w, k)
      PROVE  Delivery(j)!Next \/ same
  <2>1. doing[w] = None
    BY <1>1 DEF Claim, Inv, Copies, Placed
  <2>2. CASE j = k
    <3>1. job[j].status = "queued" /\ job'[j] = [status |-> "running", attempts |-> job[j].attempts + 1]
      BY <1>0, <1>1, <2>2 DEF Claim
    <3>2. /\ w \notin Having(j) /\ Having(j)' = Having(j) \cup {w}
          /\ Retrying(j)' = Retrying(j)
      BY <1>0, <1>1, <2>1, <2>2 DEF Claim, Go, Having, Retrying
    <3>3. Delivery(j)!HandOut(w)
      BY <1>0, <3>1, <3>2 DEF Having, Retrying, JobStatus, Delivery!HandOut
    <3> QED  BY <3>3 DEF Delivery!Next
  <2>3. CASE j # k
    BY <1>0, <1>1, <2>1, <2>3 DEF Claim, Go, Having, Retrying
  <2> QED  BY <2>2, <2>3
<1>2. ASSUME NEW k \in ExecuteJobs, LeaseExpires(k)
      PROVE  Delivery(j)!Next \/ same
  <2>0. doing' = doing /\ at' = at
    BY <1>2 DEF LeaseExpires, memory
  <2>1. CASE j = k
    <3>1. job[j].status = "running" /\ job'[j].status = "queued" /\ job'[j].attempts = job[j].attempts
      BY <1>0, <1>2, <2>1 DEF LeaseExpires, Overdue, JobRow
    <3>2. Delivery(j)!GiveBack
      BY <1>0, <2>0, <3>1 DEF JobStatus, Delivery!GiveBack
    <3> QED  BY <3>2 DEF Delivery!Next
  <2>2. CASE j # k
    BY <1>0, <1>2, <2>0, <2>2 DEF LeaseExpires, Having, Retrying
  <2> QED  BY <2>1, <2>2
<1>3. ASSUME NEW w \in Workers, MarkJob(w)
      PROVE  Delivery(j)!Next \/ same
  <2>1. Having(j)' = Having(j) \ {w} /\ Retrying(j)' = Retrying(j) \ {w}
    BY <1>0, <1>3 DEF MarkJob, Go, Having, Retrying
  <2>2. CASE j = doing[w] /\ at[w] \in DOMAIN Marks
    <3>1. /\ job'[j].attempts = job[j].attempts /\ job'[j].status = Marks[at[w]]
          /\ job'[j].status # None
      BY <1>0, <1>3, <2>2, MarkedRow DEF Marks, JobStatus
    <3>2. w \in Having(j) /\ (at[w] = "requeueing" => w \in Retrying(j))
      BY <2>2 DEF Having, Retrying
    <3>3. at[w] = "failing" => job[j].attempts >= MaxAttempts
      BY <2>2 DEF Exhausted
    <3>4. Delivery(j)!Settle(w)
      BY <2>1, <2>2, <3>1, <3>2, <3>3 DEF Marks, Having, Retrying, Delivery!Settle
    <3> QED  BY <3>4 DEF Delivery!Next
  <2>3. CASE j = doing[w] /\ job' = job
    <3>1. Delivery(j)!Abandon({w})
      BY <2>1, <2>3 DEF Having, Retrying, Delivery!Abandon
    <3> QED  BY <3>1 DEF Delivery!Next
  <2>4. CASE j # doing[w]
    BY <1>3, <2>1, <2>4, MarkedRow DEF Having, Retrying
  <2> QED  BY <1>3, <2>2, <2>3, <2>4, MarkedRow
<1>4. ASSUME NEW w \in Workers, Crash(w)
      PROVE  Delivery(j)!Next
  <2>1. job' = job /\ Having(j)' = Having(j) \ {w} /\ Retrying(j)' = Retrying(j) \ {w}
    BY <1>0, <1>4 DEF Crash, Go, rows, Having, Retrying
  <2>2. Delivery(j)!Abandon({w})
    BY <2>1 DEF Having, Retrying, Delivery!Abandon
  <2> QED  BY <2>2 DEF Delivery!Next
<1>5. CASE LoseMachine
  <2>1. /\ job' = job /\ Having(j)' = Having(j) \ Workers
        /\ Retrying(j)' = Retrying(j) \ Workers
    BY <1>0, <1>5 DEF LoseMachine, rows, Having, Retrying
  <2>2. Delivery(j)!Abandon(Workers)
    BY <2>1 DEF Having, Retrying, Delivery!Abandon
  <2> QED  BY <2>2 DEF Delivery!Next
<1>6. ASSUME NEW k \in Jobs, job[k].status = None, Enqueue(k), doing' = doing, at' = at
      PROVE  Delivery(j)!Next \/ same
  <2>1. CASE j = k
    <3>1. job'[j].status = "queued" /\ job'[j].attempts = job[j].attempts
      BY <1>0, <1>6, <2>1 DEF Enqueue, JobRow
    <3>2. Delivery(j)!Enqueue
      BY <1>0, <1>6, <2>1, <3>1 DEF JobStatus, Delivery!Enqueue
    <3> QED  BY <3>2 DEF Delivery!Next
  <2>2. CASE j # k
    BY <1>0, <1>6, <2>2 DEF Enqueue, Having, Retrying
  <2> QED  BY <2>1, <2>2
<1>7. CASE Approve
  <2>1. job["publish"].status = None
    BY <1>7 DEF PublishJob, Approved, Approve, Decide
  <2>2. "publish" \in Jobs /\ Enqueue("publish") /\ doing' = doing /\ at' = at
    BY <1>7 DEF Approve, Decide, Jobs
  <2>3. Delivery(j)!Next \/ same
    BY <1>6, <2>1, <2>2
  <2> QED  BY <1>same, <2>3
<1>8. CASE RequestRevision
  <2>1. job["revise"].status = None
    BY <1>8 DEF Inv, Attended, RequestRevision, Decide
  <2>2. "revise" \in Jobs /\ Enqueue("revise") /\ doing' = doing /\ at' = at
    BY <1>8 DEF RequestRevision, Decide, Jobs, ExecuteJobs
  <2>3. Delivery(j)!Next \/ same
    BY <1>6, <2>1, <2>2
  <2> QED  BY <1>same, <2>3
<1>9. JobsStay => same
  BY <1>0 DEF JobsStay, Having, Retrying
<1>10. ASSUME NEW w \in Workers, SelectJob(w)
       PROVE  Delivery(j)!Next \/ same
  <2>1. job' = job /\ doing' = doing /\ at[w] = "raised"
    BY <1>10 DEF SelectJob, rows, memory
  <2>2. CASE j = doing[w] /\ Verdict(j) = "queued" /\ at'[w] = "requeueing"
    <3>1. w \in Having(j) /\ Retrying(j)' = Retrying(j) \cup {w} /\ Having(j)' = Having(j)
      BY <1>0, <1>10, <2>1, <2>2 DEF SelectJob, Go, Having, Retrying
    <3>2. job[j].attempts < MaxAttempts
      BY <2>2 DEF Verdict
    <3>3. Delivery(j)!LookUp(w)
      BY <2>1, <3>1, <3>2 DEF Having, Retrying, Delivery!LookUp
    <3> QED  BY <3>3 DEF Delivery!Next
  <2>3. CASE j # doing[w] \/ at'[w] # "requeueing"
    BY <1>0, <1>10, <2>1, <2>3 DEF SelectJob, Go, Having, Retrying
  <2> QED  BY <1>0, <1>10, <2>2, <2>3 DEF SelectJob, Go
<1> HIDE DEF same
<1> QED
  BY <1>same, <1>1, <1>2, <1>3, <1>4, <1>5, <1>7, <1>8, <1>9, <1>10, OtherSteps

LEMMA PublishJobInit == Init => PublishJob /\ Exhausted
BY DEF Init, PublishJob, Exhausted, Approved, Jobs

\* The jobs of a run are delivered as JobQueue delivers them, for any number of workers,
\* crashes and expired leases.
THEOREM ImplementsDelivery == Spec => RefinesDelivery
<1>1. Init => \A j \in Jobs : Delivery(j)!Init
  BY DeliveryInit
<1>2. Inv /\ PublishJob /\ Exhausted /\ [Next]_vars =>
        [\A j \in Jobs : [Delivery(j)!Next]_(Delivery(j)!vars)]_vars
  BY DeliveryStep
<1> QED
  BY <1>1, <1>2, PublishJobInit, PublishJobStep, ExhaustedStep, Invariance, PTL
     DEF Spec, RefinesDelivery

-----------------------------------------------------------------------------
(* The handover to Publishing.                                             *)

\* What is approved has no credential in it.
Clean == Approved => approval.diff \in Diff /\ ~approval.diff.blocking

\* No step of the run as people see it gives an approval to anything else.
LEMMA CleanStep == Inv /\ Clean /\ [Next]_vars => Clean'
<1> SUFFICES ASSUME Inv, Clean, [Next]_vars PROVE Clean'
  OBVIOUS
<1>1. CASE approval' = approval
  BY <1>1 DEF Clean, Approved
<1>2. CASE Review!Approve
  BY <1>2 DEF Clean, Review!Approve, Review!Decide
<1>3. CASE Review!Reject \/ Review!RequestRevision
  BY <1>3 DEF Clean, Approved, Review!Reject, Review!RequestRevision, Review!Decide
<1>4. Review!Work \/ Review!End \/ Review!Publish \/ UNCHANGED Review!vars => approval' = approval
  BY DEF Review!Work, Review!End, Review!Publish, Review!vars
<1> QED  BY <1>1, <1>2, <1>3, <1>4, ReviewStep DEF Review!Next

\* A run that is approved and has not ended is one that Publishing may begin with: it is at
\* the gate, the approval is about the latest diff, which has no credential in it, the job
\* that publishes it is queued and was never handed out, and if the workspace is there, and
\* nobody began to record blindly or cloned over it, the diff is what the workspace changes.
THEOREM HandedOver ==
    Spec => [](Approved /\ ~IsTerminal(run) =>
                 /\ Review!Handover
                 /\ job["publish"] = [status |-> "queued", attempts |-> 0]
                 /\ disk # None /\ ~blind /\ ~trampled => approval.diff.files = TrueDiff)
<1> DEFINE Ready == /\ Review!Handover
                    /\ job["publish"] = [status |-> "queued", attempts |-> 0]
                    /\ disk # None /\ ~blind /\ ~trampled => approval.diff.files = TrueDiff
<1>1. Init => Clean
  BY DEF Init, Clean, Approved
<1>2. Inv /\ PublishJob /\ Clean => (Approved /\ ~IsTerminal(run) => Ready)
  <2> SUFFICES ASSUME Inv, PublishJob, Clean, Approved, ~IsTerminal(run)
               PROVE  Ready
    OBVIOUS
  <2>1. run = "WAITING_FOR_APPROVAL" /\ diff = approval.diff
    BY DEF Inv, Reviewed, IsTerminal, TERMINAL_STATES
  <2>2. approval = [decision |-> "approved", diff |-> diff]
    BY <2>1 DEF Inv, TypeOK, Approved, Approval
  <2>3. diff \in Diff \ {d \in Diff : d.blocking}
    BY <2>1 DEF Clean
  <2>4. Review!Handover
    BY <2>1, <2>2, <2>3 DEF Review!Handover, Review!Approved
  <2>5. job["publish"] = [status |-> "queued", attempts |-> 0]
    BY DEF PublishJob
  <2>6. disk # None /\ ~blind /\ ~trampled => approval.diff.files = TrueDiff
    BY <2>1 DEF Inv, Reviewed
  <2> QED  BY <2>4, <2>5, <2>6
<1> QED
  BY <1>1, <1>2, CleanStep, PublishJobInit, PublishJobStep, Invariance, PTL DEF Spec
=============================================================================
