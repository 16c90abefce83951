-------------------------- MODULE PublishingProofs --------------------------
(***************************************************************************)
(* Theorems about Publishing, for any number of workers, files and faults. *)
(*                                                                         *)
(* RecordedOnce rests on the rule that a stale copy cannot commit: a       *)
(* worker whose copy is fresh and that is inside the handler knows that    *)
(* the run has not ended (FreshIsOpen).  PullIsReviewed rests on there     *)
(* being one worker at a time while no lease ran out under a live one      *)
(* (Alone), on the checkout being complete until the run is (Complete),    *)
(* and on what the worker has still to write being all that is missing     *)
(* from the branch (Remaining).                                            *)
(***************************************************************************)
EXTENDS Publishing, TLAPS

Inside == {"loaded", "branching", "committing", "writing", "deleting", "opening", "recording"}

Writing == {"committing", "writing", "deleting"}

FreshIsOpen ==
    \A w \in Workers : fresh[w] /\ at[w] \in Inside => run = "WAITING_FOR_APPROVAL"

PullIsThere == \A w \in Workers : at[w] = "recording" => pulls = 1

BranchIsThere ==
    \A w \in Workers : at[w] \in Writing => branch \in [Paths -> Content]

Inv == TypeOK /\ BranchIsThere /\ RecordedOnce /\ FreshIsOpen /\ PullIsThere

\* Two workers are busy only if a lease ran out under one of them.
Alone ==
    /\ \A w \in Workers : at[w] # "idle" => job.status = "running"
    /\ \A u, w \in Workers : at[u] # "idle" /\ at[w] # "idle" => u = w

\* The workspace is what was reviewed until rmtree begins.
Complete ==
    /\ directory /\ run # "COMPLETED" => files = Paths \ Deletions
    /\ \A w \in Workers : at[w] \in Inside => run # "COMPLETED"
    /\ \A w \in Workers : at[w] = "removing" => run = "COMPLETED"
    /\ \A w \in Workers : at[w] \in Inside \ {"loaded"} => directory

\* Every path is as reviewed on the branch, or the worker has still to write it.
RemainingOf(w) ==
    /\ changed[w] \subseteq Paths \ Deletions
    /\ deleted[w] \subseteq Deletions
    /\ at[w] = "branching" => Paths = changed[w] \cup deleted[w]
    /\ at[w] = "writing" => target[w] \in Paths \ Deletions
    /\ at[w] = "deleting" => target[w] \in Deletions
    /\ at[w] \in Writing =>
          \A p \in Paths :
             \/ branch[p] = Reviewed[p]
             \/ p \in changed[w] \cup deleted[w]
             \/ at[w] # "committing" /\ p = target[w]
    /\ at[w] \in {"opening", "recording"} => branch = Reviewed

Remaining == \A w \in Workers : RemainingOf(w)

OneWorker ==
    overruns = 0 =>
        Alone /\ Complete /\ Remaining /\ (pulls = 1 => branch = Reviewed)

-----------------------------------------------------------------------------
LEMMA ReviewedType == Reviewed \in [Paths -> Content]
BY DEF Reviewed, Content

\* Rows, files, the branch and the workers' memories keep their types, the rows
\* tell of one pull request at most, and a fresh copy inside the handler is open.
LEMMA InvInit == Init => Inv
<1> SUFFICES ASSUME Init PROVE Inv
  OBVIOUS
<1>1. TypeOK
  BY DEF Init, TypeOK, Content, Places
<1>2. RecordedOnce /\ FreshIsOpen /\ BranchIsThere /\ PullIsThere
  BY DEF Init, RecordedOnce, FreshIsOpen, PullIsThere, BranchIsThere, Inside, Writing
<1> QED
  BY <1>1, <1>2 DEF Inv

LEMMA TypeStep == TypeOK /\ BranchIsThere /\ [Next]_vars => TypeOK'
<1> SUFFICES ASSUME TypeOK, BranchIsThere, [Next]_vars PROVE TypeOK'
  OBVIOUS
<1> USE DEF TypeOK, rows, checkout, github, progress, faults
<1>1. ASSUME NEW w \in Workers, Claim(w) PROVE TypeOK'
  BY <1>1 DEF Claim, Go, Places
<1>2. ASSUME NEW w \in Workers, LoadRun(w) PROVE TypeOK'
  BY <1>2 DEF LoadRun, Go, Places
<1>3. ASSUME NEW w \in Workers, MarkJob(w) PROVE TypeOK'
  BY <1>3 DEF MarkJob, Marks, Go, Places, Forget, Content
<1>4. ASSUME NEW w \in Workers, ReadWorkspace(w) PROVE TypeOK'
  BY <1>4 DEF ReadWorkspace, PathsOnDisk, Go, Places
<1>5. ASSUME NEW w \in Workers, WorkspaceGone(w) PROVE TypeOK'
  BY <1>5 DEF WorkspaceGone, CommitAs, Go, Places
<1>6. ASSUME NEW w \in Workers, CreateBranch(w) PROVE TypeOK'
  BY <1>6 DEF CreateBranch, Go, Places
<1>7. ASSUME NEW w \in Workers, NEW p \in Paths, NextFile(w, p) PROVE TypeOK'
  BY <1>7 DEF NextFile, Go, Places, BranchIsThere, Writing
<1>8. ASSUME NEW w \in Workers, WriteFile(w) PROVE TypeOK'
  <2>1. /\ target[w] \in Paths \cup {None}
        /\ branch \in [Paths -> Content]
        /\ lost \in Nat /\ at \in [Workers -> Places]
    BY <1>8 DEF WriteFile, BranchIsThere, Writing
  <2>2. branch' \in [Paths -> Content]
    BY <1>8, <2>1 DEF WriteFile, Content
  <2>3. at' \in [Workers -> Places] /\ lost' \in Nat
    BY <1>8, <2>1 DEF WriteFile, Go, Places
  <2>4. committed' \in [Workers -> BOOLEAN]
    BY <1>8 DEF WriteFile
  <2> QED
    BY <1>8, <2>2, <2>3, <2>4 DEF WriteFile
<1>9. ASSUME NEW w \in Workers, AllWritten(w) PROVE TypeOK'
  BY <1>9 DEF AllWritten, Go, Places
<1>10. ASSUME NEW w \in Workers, OpenPullRequest(w) PROVE TypeOK'
  BY <1>10 DEF OpenPullRequest, Go, Places
<1>11. ASSUME NEW w \in Workers, Record(w) PROVE TypeOK'
  <2>1. fresh' \in [Workers -> BOOLEAN]
    BY <1>11 DEF Record, CommitAs
  <2>2. /\ run' \in {"WAITING_FOR_APPROVAL", "COMPLETED", "FAILED", "CANCELLED"}
        /\ recorded' \in Nat
        /\ at' \in [Workers -> Places]
    BY <1>11 DEF Record, CommitAs, Go, Places
  <2> QED
    BY <1>11, <2>1, <2>2 DEF Record
<1>12. ASSUME NEW w \in Workers, RemoveCheckout(w) PROVE TypeOK'
  BY <1>12 DEF RemoveCheckout, Go, Places
<1>13. ASSUME NEW w \in Workers, Refused(w) PROVE TypeOK'
  BY <1>13 DEF Refused, Go, Places
<1>14. ASSUME NEW w \in Workers, Crash(w) PROVE TypeOK'
  BY <1>14 DEF Crash, Go, Places, Forget, Content
<1>15. CASE LeaseExpires
  BY <1>15 DEF LeaseExpires
<1>16. CASE LoseMachine
  <2>1. /\ at' \in [Workers -> Places]
        /\ fresh' \in [Workers -> BOOLEAN] /\ committed' \in [Workers -> BOOLEAN]
        /\ changed' \in [Workers -> SUBSET Paths] /\ deleted' \in [Workers -> SUBSET Paths]
        /\ target' \in [Workers -> Paths \cup {None}] /\ blob' \in [Workers -> Content]
    BY <1>16 DEF LoseMachine, Places, Forget, Content
  <2>2. crashes' \in Nat
    BY <1>16 DEF LoseMachine
  <2>3. directory' \in BOOLEAN /\ files' \subseteq Paths \ Deletions
    BY <1>16 DEF LoseMachine
  <2> QED
    BY <1>16, <2>1, <2>2, <2>3 DEF LoseMachine
<1>17. CASE Cancel
  BY <1>17 DEF Cancel
<1>18. ASSUME NEW p \in Paths, ForeignChange(p) PROVE TypeOK'
  BY <1>18 DEF ForeignChange, Content
<1>19. CASE UNCHANGED vars
  BY <1>19 DEF vars
<1>20. ASSUME NEW w \in Workers, MarkSucceededFails(w) PROVE TypeOK'
  BY <1>20 DEF MarkSucceededFails, Go, Places
<1>21. ASSUME NEW w \in Workers, SelectJob(w) PROVE TypeOK'
  BY <1>21 DEF SelectJob, Go, Places, Marks
<1> QED
  BY <1>1, <1>2, <1>3, <1>4, <1>5, <1>6, <1>7, <1>8, <1>9, <1>10, <1>11, <1>12,
     <1>13, <1>14, <1>15, <1>16, <1>17, <1>18, <1>19, <1>20, <1>21 DEF Next, WorkerStep

\* The branch is there while a worker writes to it.
LEMMA BranchStep == TypeOK /\ BranchIsThere /\ [Next]_vars => BranchIsThere'
<1> SUFFICES ASSUME TypeOK, BranchIsThere, [Next]_vars PROVE BranchIsThere'
  OBVIOUS
<1> USE DEF TypeOK, BranchIsThere, Writing, rows, checkout, github, progress, faults
<1>1. ASSUME NEW w \in Workers, Claim(w) PROVE BranchIsThere'
  BY <1>1 DEF Claim, Go
<1>2. ASSUME NEW w \in Workers, LoadRun(w) PROVE BranchIsThere'
  BY <1>2 DEF LoadRun, Go, IsTerminal, TERMINAL_STATES
<1>3. ASSUME NEW w \in Workers, MarkJob(w) PROVE BranchIsThere'
  BY <1>3 DEF MarkJob, Go, Forget
<1>4. ASSUME NEW w \in Workers, ReadWorkspace(w) PROVE BranchIsThere'
  BY <1>4 DEF ReadWorkspace, Go
<1>5. ASSUME NEW w \in Workers, WorkspaceGone(w) PROVE BranchIsThere'
  BY <1>5 DEF WorkspaceGone, CommitAs, Go
<1>6. ASSUME NEW w \in Workers, CreateBranch(w) PROVE BranchIsThere'
  BY <1>6 DEF CreateBranch, Go
<1>7. ASSUME NEW w \in Workers, NEW p \in Paths, NextFile(w, p) PROVE BranchIsThere'
  BY <1>7 DEF NextFile, Go
<1>8. ASSUME NEW w \in Workers, WriteFile(w) PROVE BranchIsThere'
  <2>1. at[w] \in Writing
    BY <1>8 DEF WriteFile
  <2>2. branch' \in [Paths -> Content]
    BY <1>8, <2>1 DEF WriteFile, Content
  <2> QED
    BY <2>2
<1>9. ASSUME NEW w \in Workers, AllWritten(w) PROVE BranchIsThere'
  BY <1>9 DEF AllWritten, Go
<1>10. ASSUME NEW w \in Workers, OpenPullRequest(w) PROVE BranchIsThere'
  BY <1>10 DEF OpenPullRequest, Go
<1>11. ASSUME NEW w \in Workers, Record(w) PROVE BranchIsThere'
  BY <1>11 DEF Record, CommitAs, Go
<1>12. ASSUME NEW w \in Workers, RemoveCheckout(w) PROVE BranchIsThere'
  BY <1>12 DEF RemoveCheckout, Go
<1>13. ASSUME NEW w \in Workers, Refused(w) PROVE BranchIsThere'
  BY <1>13 DEF Refused, Go
<1>14. ASSUME NEW w \in Workers, Crash(w) PROVE BranchIsThere'
  BY <1>14 DEF Crash, Go, Forget
<1>15. CASE LeaseExpires
  BY <1>15 DEF LeaseExpires
<1>16. CASE LoseMachine
  BY <1>16 DEF LoseMachine, Forget
<1>17. CASE Cancel
  BY <1>17 DEF Cancel, IsTerminal, TERMINAL_STATES
<1>18. ASSUME NEW p \in Paths, ForeignChange(p) PROVE BranchIsThere'
  BY <1>18 DEF ForeignChange
<1>19. CASE UNCHANGED vars
  BY <1>19 DEF vars
<1>20. ASSUME NEW w \in Workers, MarkSucceededFails(w) PROVE BranchIsThere'
  BY <1>20 DEF MarkSucceededFails, Go
<1>21. ASSUME NEW w \in Workers, SelectJob(w) PROVE BranchIsThere'
  BY <1>21 DEF SelectJob, Go
<1> QED
  BY <1>1, <1>2, <1>3, <1>4, <1>5, <1>6, <1>7, <1>8, <1>9, <1>10, <1>11,
     <1>12, <1>13, <1>14, <1>15, <1>16, <1>17, <1>18, <1>19, <1>20, <1>21 DEF Next, WorkerStep

\* The rows, and what a worker with a fresh copy knows of them.
LEMMA RecordStep ==
    ASSUME TypeOK, RecordedOnce, FreshIsOpen, PullIsThere, [Next]_vars
    PROVE  RecordedOnce' /\ FreshIsOpen' /\ PullIsThere'
<1> DEFINE Goal == RecordedOnce /\ FreshIsOpen /\ PullIsThere
<1> SUFFICES Goal'
  OBVIOUS
<1> USE DEF TypeOK, RecordedOnce, FreshIsOpen, PullIsThere, Inside, Places, rows,
            checkout, github, progress, faults
<1>1. ASSUME NEW w \in Workers, Claim(w) PROVE Goal'
  BY <1>1 DEF Claim, Go
<1>2. ASSUME NEW w \in Workers, LoadRun(w) PROVE Goal'
  BY <1>2 DEF LoadRun, Go, IsTerminal, TERMINAL_STATES
<1>3. ASSUME NEW w \in Workers, MarkJob(w) PROVE Goal'
  BY <1>3 DEF MarkJob, Go, Forget
<1>4. ASSUME NEW w \in Workers, ReadWorkspace(w) PROVE Goal'
  BY <1>4 DEF ReadWorkspace, Go
<1>5. ASSUME NEW w \in Workers, WorkspaceGone(w) PROVE Goal'
  BY <1>5 DEF WorkspaceGone, CommitAs, Go
<1>6. ASSUME NEW w \in Workers, CreateBranch(w) PROVE Goal'
  BY <1>6 DEF CreateBranch, Go
<1>7. ASSUME NEW w \in Workers, NEW p \in Paths, NextFile(w, p) PROVE Goal'
  BY <1>7 DEF NextFile, Go
<1>8. ASSUME NEW w \in Workers, WriteFile(w) PROVE Goal'
  BY <1>8 DEF WriteFile, Go
<1>9. ASSUME NEW w \in Workers, AllWritten(w) PROVE Goal'
  BY <1>9 DEF AllWritten, Go
<1>10. ASSUME NEW w \in Workers, OpenPullRequest(w) PROVE Goal'
  BY <1>10 DEF OpenPullRequest, Go
<1>11. ASSUME NEW w \in Workers, Record(w) PROVE Goal'
  <2>1. CASE fresh[w]
    <3>1. run = "WAITING_FOR_APPROVAL" /\ recorded = 0 /\ pulls = 1
      BY <1>11, <2>1 DEF Record
    <3>2. CASE CommitAs(w, "COMPLETED") /\ recorded' = recorded + 1 /\ Go(w, "removing")
      <4>1. RecordedOnce'
        BY <1>11, <3>1, <3>2 DEF Record, CommitAs
      <4>2. FreshIsOpen'
        BY <1>11, <3>2 DEF Record, CommitAs, Go
      <4>3. PullIsThere'
        BY <1>11, <3>2 DEF Record, Go
      <4> QED
        BY <4>1, <4>2, <4>3
    <3> QED
      BY <1>11, <2>1, <3>2 DEF Record
  <2>2. CASE ~fresh[w]
    BY <1>11, <2>2 DEF Record, CommitAs, Go
  <2> QED
    BY <2>1, <2>2
<1>12. ASSUME NEW w \in Workers, RemoveCheckout(w) PROVE Goal'
  BY <1>12 DEF RemoveCheckout, Go
<1>13. ASSUME NEW w \in Workers, Refused(w) PROVE Goal'
  BY <1>13 DEF Refused, Go
<1>14. ASSUME NEW w \in Workers, Crash(w) PROVE Goal'
  BY <1>14 DEF Crash, Go, Forget
<1>15. CASE LeaseExpires
  BY <1>15 DEF LeaseExpires
<1>16. CASE LoseMachine
  BY <1>16 DEF LoseMachine, Forget
<1>17. CASE Cancel
  BY <1>17 DEF Cancel, IsTerminal, TERMINAL_STATES
<1>18. ASSUME NEW p \in Paths, ForeignChange(p) PROVE Goal'
  BY <1>18 DEF ForeignChange
<1>19. CASE UNCHANGED vars
  BY <1>19 DEF vars
<1>20. ASSUME NEW w \in Workers, MarkSucceededFails(w) PROVE Goal'
  BY <1>20 DEF MarkSucceededFails, Go
<1>21. ASSUME NEW w \in Workers, SelectJob(w) PROVE Goal'
  BY <1>21 DEF SelectJob, Go
<1> QED
  BY <1>1, <1>2, <1>3, <1>4, <1>5, <1>6, <1>7, <1>8, <1>9, <1>10, <1>11,
     <1>12, <1>13, <1>14, <1>15, <1>16, <1>17, <1>18, <1>19, <1>20, <1>21 DEF Next, WorkerStep

LEMMA InvStep == Inv /\ [Next]_vars => Inv'
BY TypeStep, BranchStep, RecordStep DEF Inv

LEMMA InvAlways == Spec => []Inv
BY InvInit, InvStep, PTL DEF Spec

\* Rows, files, the branch and the workers' memories keep their types.
THEOREM TypeCorrect == Spec => []TypeOK
<1>1. Inv => TypeOK
  BY DEF Inv
<1> QED
  BY <1>1, InvAlways, PTL

\* A run has one pull_request row when it is complete, none before, and the row
\* tells of a pull request that exists.
THEOREM PullRequestRecordedOnce == Spec => []RecordedOnce
<1>1. Inv => RecordedOnce
  BY DEF Inv
<1> QED
  BY <1>1, InvAlways, PTL

\* Who disturbs the run and its record, GitHub, or the count of overruns.
LEMMA StepsKeep ==
    ASSUME [Next]_vars
    PROVE  /\ \/ UNCHANGED <<run, recorded>>
              \/ \E w \in Workers : Record(w) \/ WorkspaceGone(w)
              \/ Cancel
           /\ \/ UNCHANGED <<pulls, branch>>
              \/ \E w \in Workers : CreateBranch(w) \/ WriteFile(w) \/ OpenPullRequest(w)
           /\ overruns' = overruns \/ LeaseExpires
<1> DEFINE RunStays(w) == UNCHANGED <<run, recorded>> \/ Record(w) \/ WorkspaceGone(w)
           BranchStays(w) == \/ UNCHANGED <<pulls, branch>>
                             \/ CreateBranch(w) \/ WriteFile(w) \/ OpenPullRequest(w)
           Keeps(w) == RunStays(w) /\ BranchStays(w) /\ overruns' = overruns
<1>1. ASSUME NEW w \in Workers,
             \/ Claim(w) \/ LoadRun(w) \/ MarkSucceededFails(w) \/ SelectJob(w) \/ MarkJob(w)
             \/ Refused(w) \/ Crash(w)
      PROVE  Keeps(w)
  BY <1>1 DEF Claim, LoadRun, MarkSucceededFails, SelectJob, MarkJob, Refused, Crash, rows,
     checkout, github, progress, faults
<1>2. ASSUME NEW w \in Workers, ReadWorkspace(w) \/ WorkspaceGone(w) \/ Record(w) \/ RemoveCheckout(w)
      PROVE  Keeps(w)
  BY <1>2 DEF ReadWorkspace, WorkspaceGone, Record, RemoveCheckout, rows, checkout, github,
     progress, faults
<1>3. ASSUME NEW w \in Workers,
             CreateBranch(w) \/ WriteFile(w) \/ AllWritten(w) \/ OpenPullRequest(w)
      PROVE  Keeps(w)
  BY <1>3 DEF CreateBranch, WriteFile, AllWritten, OpenPullRequest, rows, checkout, github,
     progress, faults
<1>4. ASSUME NEW w \in Workers, NEW p \in Paths, NextFile(w, p)
      PROVE  Keeps(w)
  BY <1>4 DEF NextFile, rows, checkout, github, progress, faults
<1>5. ASSUME NEW w \in Workers, WorkerStep(w) \/ Refused(w) \/ Crash(w)
      PROVE  Keeps(w)
  BY <1>1, <1>2, <1>3, <1>4, <1>5 DEF WorkerStep
<1>6. CASE LeaseExpires \/ LoseMachine \/ Cancel \/ UNCHANGED vars
  BY <1>6 DEF LeaseExpires, LoseMachine, Cancel, rows, checkout, github, progress, faults, vars
<1>7. ASSUME NEW p \in Paths, ForeignChange(p)
      PROVE  UNCHANGED <<run, recorded, pulls, branch, overruns>>
  BY <1>7 DEF ForeignChange, rows, checkout, github, progress, faults
<1> QED  BY <1>5, <1>6, <1>7 DEF Next

\* A run that has ended is not ended again by a worker that was publishing it.
THEOREM EndedRunStays == Spec => EndedStays
<1>1. ASSUME Inv, [Next]_vars PROVE [IsTerminal(run) => run' = run]_run
  <2> SUFFICES ASSUME IsTerminal(run), run' # run PROVE FALSE
    BY DEF Inv
  <2>1. run # "WAITING_FOR_APPROVAL"
    BY DEF IsTerminal, TERMINAL_STATES
  <2>2. ASSUME NEW w \in Workers, WorkspaceGone(w) PROVE FALSE
    BY <1>1, <2>1, <2>2 DEF WorkspaceGone, CommitAs, Inv, FreshIsOpen, Inside, Places
  <2>3. ASSUME NEW w \in Workers, Record(w) PROVE FALSE
    BY <1>1, <2>1, <2>3 DEF Record, CommitAs, Inv, FreshIsOpen, Inside, Places
  <2>4. ~Cancel
    BY DEF Cancel
  <2> QED
    BY <1>1, <2>2, <2>3, <2>4, StepsKeep
<1> QED
  BY <1>1, InvAlways, PTL DEF Spec, EndedStays

-----------------------------------------------------------------------------
(* The published content.                                                  *)

LEMMA AloneStep ==
    ASSUME TypeOK, Alone, overruns' = overruns, [Next]_vars
    PROVE  Alone'
<1> USE DEF TypeOK, Alone, Places, rows, checkout, github, progress, faults
<1>1. ASSUME NEW w \in Workers, Claim(w) PROVE Alone'
  BY <1>1 DEF Claim, Go
<1>2. ASSUME NEW w \in Workers, LoadRun(w) PROVE Alone'
  BY <1>2 DEF LoadRun, Go, IsTerminal, TERMINAL_STATES
<1>3. ASSUME NEW w \in Workers, MarkJob(w) PROVE Alone'
  BY <1>3 DEF MarkJob, Marks, Go, Forget
<1>4. ASSUME NEW w \in Workers, ReadWorkspace(w) PROVE Alone'
  BY <1>4 DEF ReadWorkspace, PathsOnDisk, Go
<1>5. ASSUME NEW w \in Workers, WorkspaceGone(w) PROVE Alone'
  BY <1>5 DEF WorkspaceGone, CommitAs, Go
<1>6. ASSUME NEW w \in Workers, CreateBranch(w) PROVE Alone'
  BY <1>6 DEF CreateBranch, Go
<1>7. ASSUME NEW w \in Workers, NEW p \in Paths, NextFile(w, p) PROVE Alone'
  BY <1>7 DEF NextFile, Go
<1>8. ASSUME NEW w \in Workers, WriteFile(w) PROVE Alone'
  BY <1>8 DEF WriteFile, Go
<1>9. ASSUME NEW w \in Workers, AllWritten(w) PROVE Alone'
  BY <1>9 DEF AllWritten, Go
<1>10. ASSUME NEW w \in Workers, OpenPullRequest(w) PROVE Alone'
  BY <1>10 DEF OpenPullRequest, Go
<1>11. ASSUME NEW w \in Workers, Record(w) PROVE Alone'
  BY <1>11 DEF Record, CommitAs, Go
<1>12. ASSUME NEW w \in Workers, RemoveCheckout(w) PROVE Alone'
  BY <1>12 DEF RemoveCheckout, Go
<1>13. ASSUME NEW w \in Workers, Refused(w) PROVE Alone'
  BY <1>13 DEF Refused, Go
<1>14. ASSUME NEW w \in Workers, Crash(w) PROVE Alone'
  BY <1>14 DEF Crash, Go, Forget
<1>15. CASE LeaseExpires
  BY <1>15 DEF LeaseExpires
<1>16. CASE LoseMachine
  BY <1>16 DEF LoseMachine, Forget
<1>17. CASE Cancel
  BY <1>17 DEF Cancel, IsTerminal, TERMINAL_STATES
<1>18. ASSUME NEW p \in Paths, ForeignChange(p) PROVE Alone'
  BY <1>18 DEF ForeignChange
<1>19. CASE UNCHANGED vars
  BY <1>19 DEF vars
<1>20. ASSUME NEW w \in Workers, MarkSucceededFails(w) PROVE Alone'
  BY <1>20 DEF MarkSucceededFails, Go
<1>21. ASSUME NEW w \in Workers, SelectJob(w) PROVE Alone'
  BY <1>21 DEF SelectJob, Go
<1> QED
  BY <1>1, <1>2, <1>3, <1>4, <1>5, <1>6, <1>7, <1>8, <1>9, <1>10, <1>11,
     <1>12, <1>13, <1>14, <1>15, <1>16, <1>17, <1>18, <1>19, <1>20, <1>21 DEF Next, WorkerStep

LEMMA CompleteStep ==
    ASSUME TypeOK, Alone, Complete, overruns' = overruns, [Next]_vars
    PROVE  Complete'
<1> USE DEF TypeOK, Alone, Complete, Inside, Places, rows, checkout, github,
            progress, faults
<1>1. ASSUME NEW w \in Workers, Claim(w) PROVE Complete'
  BY <1>1 DEF Claim, Go
<1>2. ASSUME NEW w \in Workers, LoadRun(w) PROVE Complete'
  BY <1>2 DEF LoadRun, Go, IsTerminal, TERMINAL_STATES
<1>3. ASSUME NEW w \in Workers, MarkJob(w) PROVE Complete'
  BY <1>3 DEF MarkJob, Go, Forget
<1>4. ASSUME NEW w \in Workers, ReadWorkspace(w) PROVE Complete'
  BY <1>4 DEF ReadWorkspace, PathsOnDisk, Go
<1>5. ASSUME NEW w \in Workers, WorkspaceGone(w) PROVE Complete'
  BY <1>5 DEF WorkspaceGone, CommitAs, Go
<1>6. ASSUME NEW w \in Workers, CreateBranch(w) PROVE Complete'
  BY <1>6 DEF CreateBranch, Go
<1>7. ASSUME NEW w \in Workers, NEW p \in Paths, NextFile(w, p) PROVE Complete'
  BY <1>7 DEF NextFile, Go
<1>8. ASSUME NEW w \in Workers, WriteFile(w) PROVE Complete'
  BY <1>8 DEF WriteFile, Go
<1>9. ASSUME NEW w \in Workers, AllWritten(w) PROVE Complete'
  BY <1>9 DEF AllWritten, Go
<1>10. ASSUME NEW w \in Workers, OpenPullRequest(w) PROVE Complete'
  BY <1>10 DEF OpenPullRequest, Go
<1>11. ASSUME NEW w \in Workers, Record(w) PROVE Complete'
  BY <1>11 DEF Record, CommitAs, Go
<1>12. ASSUME NEW w \in Workers, RemoveCheckout(w) PROVE Complete'
  BY <1>12 DEF RemoveCheckout, Go
<1>13. ASSUME NEW w \in Workers, Refused(w) PROVE Complete'
  BY <1>13 DEF Refused, Go
<1>14. ASSUME NEW w \in Workers, Crash(w) PROVE Complete'
  BY <1>14 DEF Crash, Go, Forget
<1>15. CASE LeaseExpires
  BY <1>15 DEF LeaseExpires
<1>16. CASE LoseMachine
  BY <1>16 DEF LoseMachine, Forget
<1>17. CASE Cancel
  BY <1>17 DEF Cancel, IsTerminal, TERMINAL_STATES
<1>18. ASSUME NEW p \in Paths, ForeignChange(p) PROVE Complete'
  BY <1>18 DEF ForeignChange
<1>19. CASE UNCHANGED vars
  BY <1>19 DEF vars
<1>20. ASSUME NEW w \in Workers, MarkSucceededFails(w) PROVE Complete'
  BY <1>20 DEF MarkSucceededFails, Go
<1>21. ASSUME NEW w \in Workers, SelectJob(w) PROVE Complete'
  BY <1>21 DEF SelectJob, Go
<1> QED
  BY <1>1, <1>2, <1>3, <1>4, <1>5, <1>6, <1>7, <1>8, <1>9, <1>10, <1>11,
     <1>12, <1>13, <1>14, <1>15, <1>16, <1>17, <1>18, <1>19, <1>20, <1>21 DEF Next, WorkerStep

LEMMA RemainingStep ==
    ASSUME Inv, Alone, Complete, Remaining, overruns' = overruns, [Next]_vars
    PROVE  Remaining'
<1> USE DEF Inv, TypeOK, BranchIsThere, Alone, Remaining, RemainingOf,
            Writing, Places, rows,
            checkout, github, progress, faults
<1>1. ASSUME NEW w \in Workers, Claim(w) PROVE Remaining'
  BY <1>1 DEF Claim, Go
<1>2. ASSUME NEW w \in Workers, LoadRun(w) PROVE Remaining'
  BY <1>2 DEF LoadRun, Go, IsTerminal, TERMINAL_STATES
<1>3. ASSUME NEW w \in Workers, MarkJob(w) PROVE Remaining'
  BY <1>3 DEF MarkJob, Go, Forget
<1>4. ASSUME NEW w \in Workers, ReadWorkspace(w) PROVE Remaining'
  <2>1. \A u \in Workers \ {w} : at[u] = "idle"
    BY <1>4 DEF ReadWorkspace
  <2>2. PathsOnDisk = Paths \ Deletions
    BY <1>4 DEF ReadWorkspace, Complete, Inside, PathsOnDisk
  <2>3. /\ changed'[w] = Paths \ Deletions
        /\ deleted'[w] = Deletions
        /\ at'[w] = "branching"
    BY <1>4, <2>2, PathsAssumption DEF ReadWorkspace, Go
  <2>4. RemainingOf(w)'
    BY <2>3, PathsAssumption
  <2>5. ASSUME NEW u \in Workers \ {w} PROVE RemainingOf(u)'
    BY <1>4, <2>1 DEF ReadWorkspace, Go
  <2> QED
    BY <2>4, <2>5
<1>5. ASSUME NEW w \in Workers, WorkspaceGone(w) PROVE Remaining'
  BY <1>5 DEF WorkspaceGone, CommitAs, Go
<1>6. ASSUME NEW w \in Workers, CreateBranch(w) PROVE Remaining'
  BY <1>6 DEF CreateBranch, Go
<1>7. ASSUME NEW w \in Workers, NEW p \in Paths, NextFile(w, p) PROVE Remaining'
  <2>1. \A u \in Workers \ {w} : at[u] = "idle"
    BY <1>7 DEF NextFile
  <2>2. /\ at[w] = "committing" /\ branch \in [Paths -> Content]
        /\ files = Paths \ Deletions
    BY <1>7 DEF NextFile, Complete, Inside
  <2>3. CASE p \in changed[w]
    <3>1. p \in files /\ target'[w] = p /\ at'[w] = "writing"
      BY <1>7, <2>2, <2>3 DEF NextFile, Go
    <3>2. changed'[w] = changed[w] \ {p} /\ deleted'[w] = deleted[w]
      BY <1>7, <2>3 DEF NextFile
    <3>3. RemainingOf(w)'
      BY <1>7, <2>2, <2>3, <3>1, <3>2 DEF NextFile
    <3> QED
      BY <1>7, <2>1, <3>3 DEF NextFile, Go
  <2>4. CASE p \notin changed[w]
    <3>1. /\ p \in deleted[w]
          /\ changed'[w] = changed[w] /\ deleted'[w] = deleted[w] \ {p}
      BY <1>7, <2>4 DEF NextFile
    <3>2. Reviewed[p] = "absent"
      BY <3>1 DEF Reviewed
    <3>3. CASE branch[p] = "absent"
      <4>1. at' = at /\ target' = target /\ branch' = branch
        BY <1>7, <2>4, <3>3 DEF NextFile
      <4>2. RemainingOf(w)'
        BY <2>2, <3>1, <3>2, <3>3, <4>1
      <4> QED
        BY <1>7, <2>1, <4>1, <4>2 DEF NextFile
    <3>4. CASE branch[p] # "absent"
      <4>1. target'[w] = p /\ at'[w] = "deleting" /\ branch' = branch
        BY <1>7, <2>4, <3>4 DEF NextFile, Go
      <4>2. RemainingOf(w)'
        BY <2>2, <3>1, <4>1
      <4> QED
        BY <1>7, <2>1, <4>2 DEF NextFile, Go
    <3> QED
      BY <3>3, <3>4
  <2> QED
    BY <2>3, <2>4
<1>8. ASSUME NEW w \in Workers, WriteFile(w) PROVE Remaining'
  <2>1. \A u \in Workers \ {w} : at[u] = "idle"
    BY <1>8 DEF WriteFile
  <2>2. /\ branch \in [Paths -> Content] /\ target[w] \in Paths
        /\ Reviewed[target[w]] = IF at[w] = "writing" THEN "reviewed" ELSE "absent"
    BY <1>8, PathsAssumption DEF WriteFile, Reviewed
  <2>3. ASSUME BlobIsCurrent(w) PROVE RemainingOf(w)'
    <3>1. \A p \in Paths :
             branch'[p] = IF p = target[w] THEN Reviewed[p] ELSE branch[p]
      BY <1>8, <2>2, <2>3 DEF WriteFile
    <3>2. at'[w] \in {"committing", "raised"}
      BY <1>8, <2>3 DEF WriteFile, Go
    <3> QED
      BY <1>8, <3>1, <3>2 DEF WriteFile
  <2>4. ASSUME ~BlobIsCurrent(w) PROVE RemainingOf(w)'
    BY <1>8, <2>4 DEF WriteFile, Go
  <2>5. ASSUME NEW u \in Workers \ {w} PROVE RemainingOf(u)'
    BY <1>8, <2>1 DEF WriteFile, Go
  <2> QED
    BY <2>3, <2>4, <2>5
<1>9. ASSUME NEW w \in Workers, AllWritten(w) PROVE Remaining'
  <2>1. \A u \in Workers \ {w} : at[u] = "idle"
    BY <1>9 DEF AllWritten
  <2>2. branch = Reviewed
    BY <1>9, ReviewedType DEF AllWritten
  <2> QED
    BY <1>9, <2>1, <2>2 DEF AllWritten, Go
<1>10. ASSUME NEW w \in Workers, OpenPullRequest(w) PROVE Remaining'
  BY <1>10 DEF OpenPullRequest, Go
<1>11. ASSUME NEW w \in Workers, Record(w) PROVE Remaining'
  BY <1>11 DEF Record, CommitAs, Go
<1>12. ASSUME NEW w \in Workers, RemoveCheckout(w) PROVE Remaining'
  BY <1>12 DEF RemoveCheckout, Go
<1>13. ASSUME NEW w \in Workers, Refused(w) PROVE Remaining'
  BY <1>13 DEF Refused, Go
<1>14. ASSUME NEW w \in Workers, Crash(w) PROVE Remaining'
  BY <1>14 DEF Crash, Go, Forget
<1>15. CASE LeaseExpires
  BY <1>15 DEF LeaseExpires
<1>16. CASE LoseMachine
  BY <1>16 DEF LoseMachine, Forget
<1>17. CASE Cancel
  BY <1>17 DEF Cancel, IsTerminal, TERMINAL_STATES
<1>18. ASSUME NEW p \in Paths, ForeignChange(p) PROVE Remaining'
  BY <1>18 DEF ForeignChange
<1>19. CASE UNCHANGED vars
  BY <1>19 DEF vars
<1>20. ASSUME NEW w \in Workers, MarkSucceededFails(w) PROVE Remaining'
  BY <1>20 DEF MarkSucceededFails, Go
<1>21. ASSUME NEW w \in Workers, SelectJob(w) PROVE Remaining'
  BY <1>21 DEF SelectJob, Go
<1> QED
  BY <1>1, <1>2, <1>3, <1>4, <1>5, <1>6, <1>7, <1>8, <1>9, <1>10, <1>11,
     <1>12, <1>13, <1>14, <1>15, <1>16, <1>17, <1>18, <1>19, <1>20, <1>21 DEF Next, WorkerStep

LEMMA PullStep ==
    ASSUME Inv, Alone, Complete, Remaining, pulls = 1 => branch = Reviewed,
           [Next]_vars
    PROVE  (pulls = 1 => branch = Reviewed)'
<1> USE DEF Inv, TypeOK, rows, checkout, github, progress, faults
<1>1. ASSUME NEW w \in Workers, OpenPullRequest(w)
      PROVE  (pulls = 1 => branch = Reviewed)'
  BY <1>1 DEF OpenPullRequest, Remaining, RemainingOf
<1>2. ASSUME NEW w \in Workers, CreateBranch(w)
      PROVE  (pulls = 1 => branch = Reviewed)'
  BY <1>2, ReviewedType, NoneAssumption DEF CreateBranch
<1>3. ASSUME NEW w \in Workers, WriteFile(w), pulls = 1
      PROVE  branch' = Reviewed
  <2>1. target[w] \in Paths
    BY <1>3, PathsAssumption DEF WriteFile, Remaining, RemainingOf
  <2>2. Reviewed[target[w]] = IF at[w] = "writing" THEN "reviewed" ELSE "absent"
    BY <1>3, PathsAssumption DEF WriteFile, Reviewed, Remaining, RemainingOf
  <2>3. branch = Reviewed
    BY <1>3
  <2>4. CASE BlobIsCurrent(w)
    <3>1. branch' = [branch EXCEPT ![target[w]] = Reviewed[target[w]]]
      BY <1>3, <2>2, <2>4 DEF WriteFile
    <3> QED
      BY <2>1, <2>3, <3>1, ReviewedType
  <2>5. CASE ~BlobIsCurrent(w)
    BY <1>3, <2>3, <2>5 DEF WriteFile
  <2> QED
    BY <2>4, <2>5
<1>4. CASE pulls' = pulls /\ branch' = branch
  BY <1>4
<1> QED
  BY <1>1, <1>2, <1>3, <1>4, StepsKeep DEF WriteFile

\* An overrun is never forgotten.
LEMMA OverrunsGrow ==
    ASSUME TypeOK, [Next]_vars, overruns' = 0
    PROVE  overruns = 0
<1>1. overruns \in Nat
  BY DEF TypeOK
<1>2. CASE LeaseExpires
  BY <1>1, <1>2 DEF LeaseExpires
<1>3. CASE ~LeaseExpires
  <2>1. overruns' = overruns
    BY <1>3, StepsKeep
  <2> QED
    BY <2>1
<1> QED
  BY <1>2, <1>3

\* A pull request offers exactly what was approved, for any number of files,
\* crashes, refused calls and lost answers, as long as no lease runs out under a
\* live worker.
THEOREM PublishedIsReviewed == Spec => []PullIsReviewed
<1>1. Init => OneWorker
  <2> SUFFICES ASSUME Init PROVE OneWorker
    OBVIOUS
  <2>1. Alone /\ Complete
    BY DEF Init, Alone, Complete, Inside
  <2>2. Remaining
    BY DEF Init, Remaining, RemainingOf, Writing
  <2> QED
    BY <2>1, <2>2 DEF Init, OneWorker
<1>2. Inv /\ OneWorker /\ [Next]_vars => OneWorker'
  <2> SUFFICES ASSUME Inv, OneWorker, [Next]_vars, overruns' = 0
               PROVE  /\ Alone' /\ Complete' /\ Remaining'
                      /\ (pulls = 1 => branch = Reviewed)'
    BY DEF OneWorker
  <2>1. TypeOK /\ overruns = 0
    BY OverrunsGrow DEF Inv
  <2>2. Alone /\ Complete /\ Remaining /\ (pulls = 1 => branch = Reviewed)
    BY <2>1 DEF OneWorker
  <2>3. overruns' = overruns
    BY <2>1
  <2> QED
    BY <2>1, <2>2, <2>3, AloneStep, CompleteStep, RemainingStep, PullStep
<1>3. OneWorker => PullIsReviewed
  BY DEF OneWorker, PullIsReviewed
<1> QED
  BY <1>1, <1>2, <1>3, InvAlways, PTL DEF Spec
-----------------------------------------------------------------------------
(* The run as people see it.                                               *)

\* Every step publishes, ends the run, or is not seen.
LEMMA ReviewStep ==
    ASSUME Inv, [Next]_vars
    PROVE  [Review!Next]_(Review!vars)
<1>1. \A s : Review!IsTerminal(s) <=> IsTerminal(s)
  BY DEF Review!IsTerminal, IsTerminal, Review!TERMINAL_STATES, TERMINAL_STATES
<1>2. UNCHANGED <<run, recorded>> => UNCHANGED Review!vars
  BY DEF Review!vars, Reviewed
<1>3. UNCHANGED <<Reviewed, [decision |-> "approved", diff |-> Reviewed]>>
  BY DEF Reviewed
<1>4. ASSUME NEW w \in Workers, Record(w)
      PROVE  Review!Publish \/ UNCHANGED <<run, recorded>>
  <2>1. CASE CommitAs(w, "COMPLETED") /\ recorded' = recorded + 1
    <3>1. run = "WAITING_FOR_APPROVAL" /\ run' = "COMPLETED"
      BY <1>4, <2>1 DEF Inv, FreshIsOpen, Inside, Places, Record, CommitAs
    <3>2. recorded = 0 /\ recorded' = 1
      BY <2>1, <3>1 DEF Inv, RecordedOnce
    <3>3. Review!Approved
      BY DEF Review!Approved
    <3> QED  BY <1>3, <3>1, <3>2, <3>3 DEF Review!Publish
  <2> QED  BY <1>4, <2>1 DEF Record
<1>5. ASSUME NEW w \in Workers, WorkspaceGone(w)
      PROVE  Review!End \/ UNCHANGED <<run, recorded>>
  <2>1. CASE CommitAs(w, "FAILED")
    <3>1. run = "WAITING_FOR_APPROVAL" /\ run' = "FAILED" /\ recorded' = recorded
      BY <1>5, <2>1 DEF Inv, FreshIsOpen, Inside, Places, WorkspaceGone, CommitAs
    <3> QED  BY <1>1, <1>3, <3>1 DEF Review!End, IsTerminal, TERMINAL_STATES
  <2> QED  BY <1>5, <2>1 DEF WorkspaceGone
<1>6. CASE Cancel
  <2>1. Review!End
    BY <1>1, <1>3, <1>6 DEF Cancel, Review!End
  <2> QED  BY <2>1 DEF Review!Next
<1>7. CASE UNCHANGED <<run, recorded>>
  BY <1>2, <1>7
<1> QED
  BY <1>2, <1>4, <1>5, <1>6, <1>7, StepsKeep DEF Review!Next

\* _publish, its workers and GitHub's failures together do to an approved run only what the
\* product promises, whatever leases expire and calls are lost.
THEOREM ImplementsReviewedRun == Spec => RefinesReviewedRun
<1>1. Init => Review!Handover
  BY DEF Init, Review!Handover, Review!Approved
<1> QED
  BY <1>1, ReviewStep, InvAlways, PTL DEF Spec, RefinesReviewedRun, Review!ApprovedSpec

-----------------------------------------------------------------------------
(* The job.                                                                *)

\* The workers that have the job, those that will queue it again, and those that will mark
\* it as failed.
Having == {w \in Workers : at[w] # "idle"}
Retrying == {w \in Workers : at[w] = "requeueing"}
Failing == {w \in Workers : at[w] = "failing"}

\* Who will mark the job as failed saw all its attempts used, and they still are.
Exhausted == Failing # {} => job.attempts >= MaxAttempts

JobUnseen == job' = job /\ Having' = Having /\ Retrying' = Retrying
JobStays == JobUnseen /\ Failing' = Failing

\* A worker inside the handler goes on in it, and the job is where it was.
LEMMA HandlerSteps ==
    ASSUME TypeOK, NEW w \in Workers,
           \/ LoadRun(w) \/ ReadWorkspace(w) \/ WorkspaceGone(w) \/ Refused(w) \/ CreateBranch(w)
           \/ \E p \in Paths : NextFile(w, p)
           \/ WriteFile(w) \/ AllWritten(w) \/ OpenPullRequest(w) \/ Record(w)
           \/ RemoveCheckout(w) \/ MarkSucceededFails(w)
    PROVE  JobStays
<1> DEFINE outside == {"idle", "requeueing", "failing"}
           goesOn == /\ job' = job
                     /\ at[w] \notin outside
                     /\ at' = at \/ \E place \in Places \ outside : Go(w, place)
<1>1. goesOn
  <2>1. ASSUME LoadRun(w) \/ ReadWorkspace(w) \/ WorkspaceGone(w) \/ Refused(w) \/ CreateBranch(w)
               \/ MarkSucceededFails(w)
        PROVE  goesOn
    BY <2>1 DEF LoadRun, ReadWorkspace, WorkspaceGone, Refused, CreateBranch, MarkSucceededFails,
       rows, Go, Places
  <2>2. ASSUME NEW p \in Paths, NextFile(w, p)
        PROVE  goesOn
    BY <2>2 DEF NextFile, rows, Go, Places
  <2>3. ASSUME WriteFile(w) \/ AllWritten(w) \/ OpenPullRequest(w) \/ Record(w) \/ RemoveCheckout(w)
        PROVE  goesOn
    BY <2>3 DEF WriteFile, AllWritten, OpenPullRequest, Record, RemoveCheckout, rows, Go, Places
  <2> QED  BY <2>1, <2>2, <2>3
<1> QED  BY <1>1 DEF TypeOK, Go, JobStays, JobUnseen, Having, Retrying, Failing

\* The steps of the handler, of its owner and of others leave the job alone.
LEMMA OtherSteps ==
    ASSUME TypeOK, [Next]_vars
    PROVE  \/ \E w \in Workers : Claim(w) \/ SelectJob(w) \/ MarkJob(w) \/ Crash(w)
           \/ LeaseExpires \/ LoseMachine
           \/ JobStays
<1>1. Cancel \/ (\E p \in Paths : ForeignChange(p)) \/ UNCHANGED vars => JobStays
  BY DEF Cancel, ForeignChange, rows, vars, JobStays, JobUnseen, Having, Retrying, Failing
<1>2. ASSUME NEW w \in Workers, WorkerStep(w) \/ Refused(w),
             ~Claim(w), ~SelectJob(w), ~MarkJob(w)
      PROVE  JobStays
  BY <1>2, HandlerSteps DEF WorkerStep
<1> QED  BY <1>1, <1>2 DEF Next

\* Nobody gives an attempt back.
LEMMA ExhaustedStep == Inv /\ Exhausted /\ [Next]_vars => Exhausted'
<1> SUFFICES ASSUME Inv, Exhausted, [Next]_vars PROVE Exhausted'
  OBVIOUS
<1>0. /\ job \in [status : {"queued", "running", "succeeded", "failed"}, attempts : Nat]
      /\ at \in [Workers -> Places] /\ MaxAttempts \in Nat
  BY BoundsAssumption DEF Inv, TypeOK
<1>1. ASSUME Failing' \subseteq Failing, job'.attempts \in Nat, job'.attempts >= job.attempts
      PROVE  Exhausted'
  BY <1>0, <1>1 DEF Exhausted
<1>2. ASSUME NEW w \in Workers, Claim(w) PROVE Exhausted'
  BY <1>0, <1>1, <1>2 DEF Claim, Go, Failing
<1>3. ASSUME NEW w \in Workers, SelectJob(w) PROVE Exhausted'
  <2>1. job' = job
    BY <1>3 DEF SelectJob, rows
  <2>2. CASE AttemptsRemain
    <3>1. Failing' \subseteq Failing
      BY <1>0, <1>3, <2>2 DEF SelectJob, Go, Failing
    <3> QED  BY <1>0, <1>1, <2>1, <3>1
  <2>3. CASE ~AttemptsRemain
    BY <1>0, <2>1, <2>3 DEF AttemptsRemain, Exhausted
  <2> QED  BY <2>2, <2>3
<1>4. ASSUME NEW w \in Workers, MarkJob(w) PROVE Exhausted'
  BY <1>0, <1>1, <1>4 DEF MarkJob, Go, Failing
<1>5. ASSUME NEW w \in Workers, Crash(w) PROVE Exhausted'
  BY <1>0, <1>1, <1>5 DEF Crash, Go, rows, Failing
<1>6. CASE LeaseExpires
  BY <1>0, <1>1, <1>6 DEF LeaseExpires, Failing
<1>7. CASE LoseMachine
  BY <1>0, <1>1, <1>7 DEF LoseMachine, rows, Failing
<1>8. CASE JobStays
  BY <1>0, <1>1, <1>8 DEF JobStays, JobUnseen
<1> QED
  BY <1>2, <1>3, <1>4, <1>5, <1>6, <1>7, <1>8, OtherSteps DEF Inv

\* The row and the workers of the job change as JobDelivery says.
LEMMA DeliveryStep ==
    ASSUME Inv, Exhausted, [Next]_vars
    PROVE  [Delivery!Next]_(Delivery!vars)
<1>0. /\ job \in [status : {"queued", "running", "succeeded", "failed"}, attempts : Nat]
      /\ at \in [Workers -> Places]
  BY DEF Inv, TypeOK
<1>1. ASSUME NEW w \in Workers, Claim(w)
      PROVE  Delivery!Next
  <2>1. w \notin Having /\ Having' = Having \cup {w} /\ Retrying' = Retrying
    BY <1>0, <1>1 DEF Claim, Go, Having, Retrying
  <2>2. Delivery!HandOut(w)
    BY <1>1, <2>1 DEF Claim, Having, Retrying, Delivery!HandOut
  <2> QED  BY <2>2 DEF Delivery!Next
<1>2. CASE LeaseExpires
  <2>1. job.status = "running" /\ job'.status = "queued" /\ job'.attempts = job.attempts /\ at' = at
    BY <1>0, <1>2 DEF LeaseExpires
  <2>2. Delivery!GiveBack
    BY <2>1 DEF Delivery!GiveBack
  <2> QED  BY <2>2 DEF Delivery!Next
<1>3. ASSUME NEW w \in Workers, SelectJob(w)
      PROVE  Delivery!Next \/ JobUnseen
  <2>1. job' = job /\ Having' = Having /\ w \in Having
    BY <1>0, <1>3 DEF SelectJob, Go, rows, Having
  <2>2. CASE AttemptsRemain /\ at'[w] = "requeueing"
    <3>1. Retrying' = Retrying \cup {w}
      BY <1>0, <1>3, <2>2 DEF SelectJob, Go, Retrying
    <3>2. Delivery!LookUp(w)
      BY <2>1, <2>2, <3>1 DEF AttemptsRemain, Having, Retrying, Delivery!LookUp
    <3> QED  BY <3>2 DEF Delivery!Next
  <2>3. CASE at'[w] # "requeueing"
    BY <1>0, <1>3, <2>1, <2>3 DEF SelectJob, Go, Retrying, JobUnseen
  <2> QED  BY <1>0, <1>3, <2>2, <2>3 DEF SelectJob, Verdict, Go
<1>4. ASSUME NEW w \in Workers, MarkJob(w)
      PROVE  Delivery!Next
  <2>1. w \in Having /\ Having' = Having \ {w} /\ Retrying' = Retrying \ {w}
    BY <1>0, <1>4 DEF MarkJob, Marks, Go, Having, Retrying
  <2>2. CASE at[w] \in DOMAIN Marks /\ job' = [job EXCEPT !.status = Marks[at[w]]]
    <3>1. job'.attempts = job.attempts /\ job'.status = Marks[at[w]]
      BY <1>0, <2>2
    <3>2. at[w] = "requeueing" => w \in Retrying
      BY DEF Retrying
    <3>3. at[w] = "failing" => job.attempts >= MaxAttempts
      BY DEF Exhausted, Failing
    <3>4. Delivery!Settle(w)
      BY <2>1, <2>2, <3>1, <3>2, <3>3 DEF Marks, Having, Retrying, Delivery!Settle
    <3> QED  BY <3>4 DEF Delivery!Next
  <2>3. CASE job' = job
    <3>1. Delivery!Abandon({w})
      BY <2>1, <2>3 DEF Having, Retrying, Delivery!Abandon
    <3> QED  BY <3>1 DEF Delivery!Next
  <2> QED  BY <1>4, <2>2, <2>3 DEF MarkJob
<1>5. ASSUME NEW w \in Workers, Crash(w)
      PROVE  Delivery!Next
  <2>1. job' = job /\ Having' = Having \ {w} /\ Retrying' = Retrying \ {w}
    BY <1>0, <1>5 DEF Crash, Go, rows, Having, Retrying
  <2>2. Delivery!Abandon({w})
    BY <2>1 DEF Having, Retrying, Delivery!Abandon
  <2> QED  BY <2>2 DEF Delivery!Next
<1>6. CASE LoseMachine
  <2>1. job' = job /\ Having' = Having \ Workers /\ Retrying' = Retrying \ Workers
    BY <1>0, <1>6 DEF LoseMachine, rows, Having, Retrying
  <2>2. Delivery!Abandon(Workers)
    BY <2>1 DEF Having, Retrying, Delivery!Abandon
  <2> QED  BY <2>2 DEF Delivery!Next
<1>7. JobStays => JobUnseen
  BY DEF JobStays, JobUnseen
<1>8. JobUnseen => UNCHANGED Delivery!vars
  BY DEF JobUnseen, Having, Retrying, Delivery!vars
<1> QED
  BY <1>1, <1>2, <1>3, <1>4, <1>5, <1>6, <1>7, <1>8, OtherSteps DEF Inv

\* The job that publishes is delivered as JobQueue delivers it, for any number of workers,
\* files and faults: also when a worker writes what an outdated row told it.
THEOREM ImplementsDelivery == Spec => RefinesDelivery
<1>1. Init => Delivery!Init /\ Exhausted
  BY DEF Init, Delivery!Init, Exhausted, Failing
<1> QED
  BY <1>1, DeliveryStep, ExhaustedStep, InvAlways, PTL DEF Spec, RefinesDelivery, Delivery!Spec
=============================================================================
