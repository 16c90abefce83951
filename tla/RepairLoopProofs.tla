-------------------------- MODULE RepairLoopProofs --------------------------
(***************************************************************************)
(* Proofs about RepairLoop, for any limits, contents and number of         *)
(* crashes.                                                                *)
(*                                                                         *)
(* GateIsEarned does not say where its test results came from: Evidence    *)
(* follows them from the run that made them, past the failed attempts      *)
(* whose results no longer describe the checkout, to the gate.             *)
(* CostBounded is a sum, of which Spending says how much may have been     *)
(* spent at each point of an execution.                                    *)
(***************************************************************************)
EXTENDS RepairLoop, TLAPS

Loops == {"ask", "calls", "looped"}
TestRuns == {"targeted", "full", "tested"}

\* Where the worker is says in which state, and what for, it asks the model.
Control ==
    /\ state \in Parked => at = "idle"
    /\ at \in Loops =>
          \/ task = "plan" /\ state = "RETRIEVING_CONTEXT"
          \/ task = "change" /\ state = "IMPLEMENTING"
          \/ task = "check" /\ state = "TESTING"
    /\ at = "answer" =>
          \/ task = "issue" /\ state \in {"RETRIEVING_CONTEXT", "IMPLEMENTING"}
          \/ task = "plan" /\ state = "RETRIEVING_CONTEXT"
          \/ task = "failure" /\ state = "IMPLEMENTING"
          \/ task = "check" /\ state = "TESTING"
    /\ at \in TestRuns => state \in {"IMPLEMENTING", "TESTING", "VERIFYING"}
    /\ at \in Loops \cup {"answer"} => steps <= Limit(task)
    /\ at = "calls" => pending >= 1
    /\ at = "idle" /\ state \notin Parked =>
          ~analysed /\ iteration = 0 /\ used = 0 /\ outcomes = <<>> /\ asked = 0
    /\ state \in {"RETRIEVING_CONTEXT", "PLANNING"} => iteration = 0
    /\ at = "step" /\ state = "IMPLEMENTING" => iteration = 0
    /\ state = "FAILED" => asked = 0
    /\ state = "TESTING" /\ at \notin {"idle", "step"} => base \in Contents
    /\ state \in {"VERIFYING", "WAITING_FOR_APPROVAL"} => diff.to = disk
    /\ at = "answer" /\ task = "failure" => iteration < MaxIterations

\* The results describe the checkout as it is.
Current == \A i \in DOMAIN outcomes : outcomes[i].on = disk

\* They end with a run of all tests, or with a failure.
Decisive ==
    outcomes # <<>> => \E i \in DOMAIN outcomes : outcomes[i].suite = "full" \/ ~outcomes[i].passed

Evidence ==
    /\ (\/ state \in {"TESTING", "VERIFYING", "WAITING_FOR_APPROVAL"}
        \/ at \in TestRuns
        \/ at = "answer" /\ task = "failure") => Current
    /\ at = "targeted" => outcomes = <<>>
    /\ at = "full" => /\ Len(outcomes) <= 1
                      /\ \A i \in DOMAIN outcomes : outcomes[i].passed
                                                   /\ outcomes[i].suite = "targeted"
    /\ state \in {"RETRIEVING_CONTEXT", "PLANNING", "IMPLEMENTING"} /\ at \notin TestRuns =>
          ~AllPassed(outcomes)
    /\ at \notin {"targeted", "full"} => Decisive
    /\ state = "WAITING_FOR_APPROVAL" => AllPassed(outcomes)

Attempts(i) == i * AttemptCost
ForIssue == IF analysed THEN AnswerCost ELSE 0
BeforeCheck == AnswerCost + AttemptCost + Attempts(MaxIterations)

\* Requests of this execution, at each point of it.
Spending ==
    /\ at = "step" /\ state = "RETRIEVING_CONTEXT" => asked <= ForIssue
    /\ at = "step" /\ state \in {"PLANNING", "IMPLEMENTING"} => asked <= ForIssue + AttemptCost
    /\ at = "answer" /\ task = "issue" =>
          /\ ~analysed
          /\ asked <= tries + (IF state = "IMPLEMENTING" THEN AttemptCost ELSE 0)
    /\ at \in Loops \cup {"answer"} /\ task = "plan" =>
          analysed /\ asked <= AnswerCost + steps + tries
    /\ at \in Loops /\ task = "change" => asked <= AnswerCost + Attempts(iteration) + steps
    /\ at \in TestRuns /\ state = "IMPLEMENTING" =>
          asked <= AnswerCost + Attempts(iteration) + MaxSteps
    /\ at = "answer" /\ task = "failure" =>
          asked <= AnswerCost + Attempts(iteration) + MaxSteps + tries
    /\ at \in {"step"} \cup TestRuns /\ state = "TESTING" => asked <= BeforeCheck
    /\ at \in Loops \cup {"answer"} /\ task = "check" => asked <= BeforeCheck + steps + tries
    /\ state \in {"VERIFYING", "WAITING_FOR_APPROVAL"} =>
          asked <= BeforeCheck + MaxCheckSteps + AnswerCost

\* Tool calls of all executions: the last one has counted its own.
Calls(c) == MaxToolCalls * c
Executions ==
    executed <= Calls(crashes) + (IF state = "FAILED" THEN MaxToolCalls ELSE used)

Inv == TypeOK /\ Control /\ Evidence /\ Spending /\ Executions

-----------------------------------------------------------------------------
(* Arithmetic.                                                             *)

LEMMA Numbers ==
    /\ MaxIterations \in Nat /\ MaxIterations > 0
    /\ MaxToolCalls \in Nat /\ MaxToolCalls > 0
    /\ MaxSteps \in Nat /\ MaxSteps > 0
    /\ MaxCheckSteps \in Nat /\ MaxCheckSteps > 0
    /\ MaxBatch \in Nat /\ MaxBatch > 0
    /\ MaxRepairs \in Nat /\ MaxCrashes \in Nat
    /\ AnswerCost \in Nat /\ AnswerCost = MaxRepairs + 1
    /\ AttemptCost \in Nat /\ AttemptCost = MaxSteps + AnswerCost
BY LimitsAssumption DEF AnswerCost, AttemptCost

LEMMA MoreAttempts ==
    ASSUME NEW i \in Nat
    PROVE  /\ Attempts(i) \in Nat
           /\ Attempts(0) = 0 /\ Attempts(1) = AttemptCost
           /\ Attempts(i + 1) = Attempts(i) + AttemptCost
           /\ i <= MaxIterations => Attempts(i) <= Attempts(MaxIterations)
           /\ Attempts(MaxIterations) \in Nat
<1> DEFINE cost == AttemptCost
<1>1. cost \in Nat /\ MaxIterations \in Nat
  BY Numbers
<1> HIDE DEF cost
<1>2. /\ i * cost \in Nat /\ MaxIterations * cost \in Nat
      /\ 0 * cost = 0 /\ 1 * cost = cost /\ (i + 1) * cost = i * cost + cost
      /\ i <= MaxIterations => i * cost <= MaxIterations * cost
  BY <1>1
<1> QED  BY <1>2 DEF Attempts, cost

LEMMA MoreCalls ==
    ASSUME NEW c \in Nat
    PROVE  Calls(c) \in Nat /\ Calls(c + 1) = Calls(c) + MaxToolCalls /\ Calls(0) = 0
BY Numbers DEF Calls

-----------------------------------------------------------------------------
(* Every step keeps each part of the invariant.                            *)

LEMMA Forgotten ==
    ASSUME Forget
    PROVE  /\ at' \in Places /\ task' \in Tasks
           /\ steps' \in 0..(MaxSteps + MaxCheckSteps)
           /\ pending' \in 0..MaxBatch /\ tries' \in 0..MaxRepairs
           /\ used' \in 0..MaxToolCalls
           /\ command' \in BOOLEAN /\ analysed' \in BOOLEAN
           /\ iteration' \in 0..MaxIterations
           /\ outcomes' \in Seq(Outcome) /\ Len(outcomes') <= 2
           /\ stopped' \in Reasons \cup {None}
           /\ base' \in Contents \cup {None}
           /\ asked' \in Nat
<1>1. outcomes' \in Seq(Outcome) /\ Len(outcomes') <= 2
  BY DEF Forget
<1>2. /\ steps' \in 0..(MaxSteps + MaxCheckSteps)
      /\ pending' \in 0..MaxBatch /\ tries' \in 0..MaxRepairs
      /\ used' \in 0..MaxToolCalls /\ iteration' \in 0..MaxIterations
      /\ asked' \in Nat
  BY Numbers DEF Forget
<1>3. at' \in Places /\ task' \in Tasks /\ command' \in BOOLEAN /\ analysed' \in BOOLEAN
  BY DEF Forget, Places, Tasks
<1>4. stopped' = None /\ base' = None
  BY DEF Forget
<1> QED  BY <1>1, <1>2, <1>3, <1>4

\* Every variable keeps its type.
LEMMA TypeStep ==
    ASSUME Inv, Next
    PROVE  TypeOK'
<1>a. <<>> \in Seq(Outcome) /\ Len(<<>>) <= 2
  OBVIOUS
<1>b. outcomes \in Seq(Outcome) /\ Len(outcomes) <= 2
  BY DEF Inv, TypeOK
<1>1. CASE Resume
  BY <1>1, ContentsAssumption DEF Inv, TypeOK, Places, Resume, rows, loop
<1>2. CASE BeginPlan
  BY <1>2, Numbers
     DEF Inv, TypeOK, Places, Tasks, BeginPlan, BeginLoop, BeginAnswer, rows, scratch
<1>3. CASE AfterPlan
  BY <1>3 DEF Inv, TypeOK, States, AfterPlan, loop, scratch
<1>4. CASE Implement
  BY <1>4, Numbers
     DEF Inv, TypeOK, Places, Tasks, Implement, BeginAttempt, BeginLoop, BeginAnswer, rows
<1>5. CASE Assess
  <2>1. CASE NothingChanged
    BY <1>5, <2>1, Forgotten DEF Assess, Fail, Inv, TypeOK, States
  <2>2. CASE ~NothingChanged
    <3>1. (outcomes' = outcomes \/ outcomes' = <<>>) /\ at' \in Places
      BY <1>5, <2>2 DEF Assess, BeginTests, Places
    <3>2. outcomes' \in Seq(Outcome) /\ Len(outcomes') <= 2
      BY <3>1, <1>a, <1>b
    <3> QED  BY <1>5, <2>2, <3>1, <3>2 DEF Assess, Inv, TypeOK, rows, loop
  <2> QED  BY <2>1, <2>2
<1>6. CASE AwaitApproval
  BY <1>6 DEF Inv, TypeOK, Places, AwaitApproval, BeginTests, rows, loop
<1>7. CASE Ask
  BY <1>7, Numbers DEF Inv, TypeOK, Places, Limit, Ask, AnotherStep, rows, scratch
<1>8. CASE Call
  BY <1>8, Numbers DEF Inv, TypeOK, Control, Places, Call, BudgetLeft, Permitted, Execute, rows
<1>9. CASE AfterLoop
  <2>1. at' \in Places /\ state' \in States /\ stopped' \in Reasons \cup {None}
    BY <1>9 DEF AfterLoop, Stop, BeginTests, Inv, TypeOK, Places, States, Reasons
  <2>2. outcomes' \in Seq(Outcome) /\ Len(outcomes') <= 2
    <3>1. outcomes' = outcomes \/ outcomes' = <<>>
      BY <1>9 DEF AfterLoop, BeginTests
    <3> QED  BY <3>1, <1>a, <1>b
  <2> QED  BY <1>9, <2>1, <2>2 DEF AfterLoop, Inv, TypeOK, loop
<1>10. CASE RunTargeted
  BY <1>10 DEF Inv, TypeOK, Evidence, Outcome, Places, RunTargeted, rows, loop
<1>11. CASE RunFull
  BY <1>11 DEF Inv, TypeOK, Evidence, Outcome, Places, RunFull, rows, loop
<1>12. CASE Judge
  BY <1>12, Numbers
     DEF Inv, TypeOK, States, Places, Tasks, Reasons, Judge, Stop, BeginAnswer, loop
<1>13. CASE AnswerRejected
  <2>1. tries' \in 0..MaxRepairs /\ asked' \in Nat
    BY <1>13, Numbers DEF Inv, TypeOK, AnswerRejected
  <2> QED  BY <1>13, <2>1 DEF Inv, TypeOK, AnswerRejected, rows, scratch
<1>14. CASE IssueAnswered
  <2>1. /\ at' \in Places /\ task' \in Tasks /\ iteration' \in 0..MaxIterations
        /\ steps' = 0 /\ pending' = 0 /\ tries' = 0
    BY <1>14, Numbers DEF Inv, TypeOK, Places, Tasks, IssueAnswered, BeginLoop, BeginAttempt
  <2>2. steps' \in 0..(MaxSteps + MaxCheckSteps) /\ pending' \in 0..MaxBatch /\ tries' \in 0..MaxRepairs
    BY <2>1, Numbers
  <2>3. asked' \in Nat
    BY <1>14 DEF Inv, TypeOK, IssueAnswered
  <2> QED  BY <1>14, <2>1, <2>2, <2>3 DEF Inv, TypeOK, IssueAnswered, rows
<1>15. CASE PlanAnswered
  BY <1>15 DEF Inv, TypeOK, States, Places, PlanAnswered, loop, scratch
<1>16. CASE FailureAnswered
  BY <1>16, Numbers
     DEF Inv, TypeOK, Control, States, Places, Tasks, Reasons, FailureAnswered, BeginAttempt,
         BeginLoop, Stop, loop
<1>17. CASE CheckAnswered
  BY <1>17 DEF Inv, TypeOK, Control, States, Places, CheckAnswered, StoreDiff, loop, scratch
<1>18. CASE SelfCheck
  <2>1. CASE BeginLoop("check") /\ UNCHANGED <<rows, disk, scratch, executed, failed, crashes>>
    <3>1. /\ at' \in Places /\ task' \in Tasks /\ steps' \in 0..(MaxSteps + MaxCheckSteps)
          /\ pending' \in 0..MaxBatch /\ tries' \in 0..MaxRepairs
      BY <2>1, Numbers DEF Places, Tasks, BeginLoop
    <3> QED  BY <1>18, <2>1, <3>1 DEF Inv, TypeOK, SelfCheck, rows, scratch
  <2>2. CASE StoreDiff /\ UNCHANGED loop
    BY <1>18, <2>2
       DEF Inv, TypeOK, Control, States, Places, SelfCheck, StoreDiff, loop, scratch
  <2> QED  BY <1>18, <2>1, <2>2 DEF SelfCheck
<1>19. CASE Gate
  BY <1>19, Forgotten DEF Inv, TypeOK, States, Places, Gate, Fail, loop, scratch
<1>20. CASE TimeIsUp
  BY <1>20, Forgotten DEF Inv, TypeOK, States, TimeIsUp, Fail
<1>21. CASE Raise
  <2>1. CASE asked' = asked + 1 /\ StoreDiff /\ UNCHANGED loop /\ Caught(task)
    BY <1>21, <2>1
       DEF Inv, TypeOK, Control, States, Places, Loops, Raise, StoreDiff, Caught, loop, scratch
  <2>2. CASE Fail("model") /\ ~Caught(task)
    BY <2>2, Forgotten DEF Inv, TypeOK, States, Fail
  <2> QED  BY <1>21, <2>1, <2>2 DEF Raise
<1>22. CASE Crash
  BY <1>22, Forgotten, Numbers DEF Inv, TypeOK, Crash, rows
<1>23. CASE ResumeFails \/ ChangeUnreadable \/ TestsRaise
  <2>1. Fail("workspace") \/ Fail("files") \/ Fail("sandbox")
    BY <1>23 DEF ResumeFails, ChangeUnreadable, TestsRaise
  <2>2. executed' = executed /\ crashes' = crashes
    BY <2>1 DEF Fail
  <2> QED  BY <2>1, <2>2, Forgotten DEF Inv, TypeOK, States, Fail
<1> QED
  BY <1>1, <1>2, <1>3, <1>4, <1>5, <1>6, <1>7, <1>8, <1>9, <1>10, <1>11, <1>12, <1>13, <1>14,
     <1>15, <1>16, <1>17, <1>18, <1>19, <1>20, <1>21, <1>22, <1>23
     DEF Next, WorkerStep, Mishap

\* The worker stays on its path.
LEMMA ControlStep ==
    ASSUME Inv, Next
    PROVE  Control'
<1>1. CASE Resume
  BY <1>1 DEF Inv, TypeOK, Control, Loops, TestRuns, Resume, rows, loop
<1>2. CASE BeginPlan
  BY <1>2, Numbers
     DEF Inv, TypeOK, Control, Limit, Loops, TestRuns, BeginPlan, BeginLoop, BeginAnswer, rows,
         scratch
<1>3. CASE AfterPlan
  BY <1>3 DEF Inv, TypeOK, Control, Parked, AfterPlan, loop, scratch
<1>4. CASE Implement
  BY <1>4, Numbers
     DEF Inv, TypeOK, Control, Limit, Loops, Implement, BeginAttempt, BeginLoop, BeginAnswer,
         rows
<1>5. CASE Assess
  BY <1>5
     DEF Inv, TypeOK, Control, Loops, TestRuns, Assess, NothingChanged, BeginTests, Fail,
         Forget, rows, loop
<1>6. CASE AwaitApproval
  BY <1>6 DEF Inv, TypeOK, Control, Loops, AwaitApproval, BeginTests, rows, loop
<1>7. CASE Ask
  BY <1>7, Numbers
     DEF Inv, TypeOK, Control, Limit, Loops, TestRuns, Ask, AnotherStep, rows, scratch
<1>8. CASE Call
  BY <1>8 DEF Inv, TypeOK, Control, Loops, TestRuns, Call, BudgetLeft, Permitted, Execute, rows
<1>9. CASE AfterLoop
  BY <1>9
     DEF Inv, TypeOK, Control, Parked, Loops, TestRuns, AfterLoop, BudgetLeft, Stop, BeginTests,
         loop
<1>10. CASE RunTargeted
  BY <1>10 DEF Inv, TypeOK, Control, Loops, TestRuns, RunTargeted, rows, loop
<1>11. CASE RunFull
  BY <1>11 DEF Inv, TypeOK, Control, Loops, TestRuns, RunFull, rows, loop
<1>12. CASE Judge
  BY <1>12, Numbers
     DEF Inv, TypeOK, Control, Limit, Parked, Loops, Judge, Stop, BeginAnswer, loop
<1>13. CASE AnswerRejected
  BY <1>13 DEF Inv, TypeOK, Control, AnswerRejected, rows, scratch
<1>14. CASE IssueAnswered
  BY <1>14, Numbers
     DEF Inv, TypeOK, Control, Limit, TestRuns, IssueAnswered, BeginLoop, BeginAttempt, rows
<1>15. CASE PlanAnswered
  BY <1>15, Numbers, ContentsAssumption
     DEF Inv, TypeOK, Control, States, Places, Tasks, Reasons, Limit, Parked, Loops, TestRuns,
         PlanAnswered, loop, scratch
<1>16. CASE FailureAnswered
  BY <1>16, Numbers
     DEF Inv, TypeOK, Control, Limit, Parked, Loops, FailureAnswered, BeginAttempt, BeginLoop,
         Stop, loop
<1>17. CASE CheckAnswered
  BY <1>17 DEF Inv, TypeOK, Control, Parked, Loops, CheckAnswered, StoreDiff, loop
<1>18. CASE SelfCheck
  BY <1>18, Numbers
     DEF Inv, TypeOK, Control, Limit, Parked, Loops, SelfCheck, BeginLoop, StoreDiff, rows,
         loop, scratch
<1>19. CASE Gate
  BY <1>19 DEF Inv, TypeOK, Control, Parked, Loops, TestRuns, Gate, Fail, Forget, loop
<1>20. CASE TimeIsUp
  BY <1>20 DEF Inv, TypeOK, Control, Loops, TestRuns, TimeIsUp, Fail, Forget
<1>21. CASE Raise
  BY <1>21
     DEF Inv, TypeOK, Control, Parked, Loops, TestRuns, Raise, Caught, StoreDiff, Fail, Forget,
         loop
<1>22. CASE Crash
  BY <1>22 DEF Inv, TypeOK, Control, Loops, TestRuns, Crash, Forget, rows
<1>23. CASE ResumeFails \/ ChangeUnreadable \/ TestsRaise
  BY <1>23
     DEF Inv, TypeOK, Control, Loops, TestRuns, ResumeFails, ChangeUnreadable, TestsRaise, Fail,
         Forget
<1> QED
  BY <1>1, <1>2, <1>3, <1>4, <1>5, <1>6, <1>7, <1>8, <1>9, <1>10, <1>11, <1>12, <1>13, <1>14,
     <1>15, <1>16, <1>17, <1>18, <1>19, <1>20, <1>21, <1>22, <1>23
     DEF Next, WorkerStep, Mishap

\* The results that count are those of the checkout.
LEMMA EvidenceStep ==
    ASSUME Inv, Next
    PROVE  Evidence'
<1>1. CASE Resume
  BY <1>1 DEF Inv, TypeOK, Control, Evidence, Current, Decisive, AllPassed, Resume, rows, loop
<1>2. CASE BeginPlan
  BY <1>2
     DEF Inv, TypeOK, Evidence, Current, Decisive, AllPassed, TestRuns, BeginPlan, BeginLoop,
         BeginAnswer, rows, scratch
<1>3. CASE AfterPlan
  BY <1>3 DEF Inv, TypeOK, Evidence, Current, Decisive, AllPassed, AfterPlan, loop, scratch
<1>4. CASE Implement
  BY <1>4
     DEF Inv, TypeOK, Evidence, Current, Decisive, AllPassed, TestRuns, Implement, BeginAttempt,
         BeginLoop, BeginAnswer, rows
<1>5. CASE Assess
  BY <1>5
     DEF Inv, TypeOK, Evidence, Current, Decisive, AllPassed, Assess, NothingChanged,
         BeginTests, Fail, Forget, rows, loop
<1>6. CASE AwaitApproval
  BY <1>6
     DEF Inv, TypeOK, Evidence, Current, Decisive, AllPassed, AwaitApproval, BeginTests, rows,
         loop
<1>7. CASE Ask
  BY <1>7
     DEF Inv, TypeOK, Evidence, Current, Decisive, AllPassed, TestRuns, Ask, AnotherStep, rows,
         scratch
<1>8. CASE Call
  BY <1>8
     DEF Inv, TypeOK, Control, Evidence, Current, Decisive, AllPassed, Loops, TestRuns, Call,
         BudgetLeft, Permitted, Execute, rows
<1>9. CASE AfterLoop
  BY <1>9
     DEF Inv, TypeOK, Control, Evidence, Current, Decisive, AllPassed, Loops, TestRuns,
         AfterLoop, BudgetLeft, Stop, BeginTests, loop
<1>10. CASE RunTargeted
  BY <1>10
     DEF Inv, TypeOK, Control, Evidence, Current, Decisive, AllPassed, TestRuns, RunTargeted,
         rows, loop
<1>11. CASE RunFull
  BY <1>11
     DEF Inv, TypeOK, Control, Evidence, Current, Decisive, AllPassed, TestRuns, RunFull, rows,
         loop
<1>12. CASE Judge
  BY <1>12
     DEF Inv, TypeOK, Evidence, Current, Decisive, AllPassed, TestRuns, Judge, Stop,
         BeginAnswer, loop
<1>13. CASE AnswerRejected
  BY <1>13
     DEF Inv, TypeOK, Evidence, Current, Decisive, AllPassed, AnswerRejected, rows, scratch
<1>14. CASE IssueAnswered
  BY <1>14
     DEF Inv, TypeOK, Evidence, Current, Decisive, AllPassed, TestRuns, IssueAnswered,
         BeginLoop, BeginAttempt, rows
<1>15. CASE PlanAnswered
  BY <1>15
     DEF Inv, TypeOK, Control, Evidence, Current, Decisive, AllPassed, Loops, TestRuns,
         PlanAnswered, loop, scratch
<1>16. CASE FailureAnswered
  BY <1>16
     DEF Inv, TypeOK, Control, Evidence, Current, Decisive, AllPassed, Loops, TestRuns,
         FailureAnswered, BeginAttempt, BeginLoop, Stop, loop
<1>17. CASE CheckAnswered
  BY <1>17
     DEF Inv, TypeOK, Control, Evidence, Current, Decisive, AllPassed, CheckAnswered, StoreDiff,
         loop, scratch
<1>18. CASE SelfCheck
  <2>1. /\ state' \in {"TESTING", "VERIFYING"} /\ at' \in {"ask", "step"}
        /\ outcomes' = outcomes /\ disk' = disk
    BY <1>18 DEF SelfCheck, BeginLoop, StoreDiff, rows, scratch
  <2>2. Current /\ Decisive
    BY <1>18 DEF Inv, Evidence, TestRuns, SelfCheck
  <2> QED  BY <2>1, <2>2 DEF Evidence, Current, Decisive, TestRuns
<1>19. CASE Gate
  BY <1>19
     DEF Inv, TypeOK, Evidence, Current, Decisive, AllPassed, Gate, Fail, Forget, loop, scratch
<1>20. CASE TimeIsUp
  BY <1>20 DEF Inv, TypeOK, Evidence, Current, Decisive, AllPassed, TimeIsUp, Fail, Forget
<1>21. CASE Raise
  BY <1>21
     DEF Inv, TypeOK, Control, Evidence, Current, Decisive, AllPassed, Loops, Raise, Caught,
         StoreDiff, Fail, Forget, loop, scratch
<1>22. CASE Crash
  BY <1>22
     DEF Inv, TypeOK, Control, Evidence, Current, Decisive, AllPassed, Parked, Crash, Forget,
         rows
<1>23. CASE ResumeFails \/ ChangeUnreadable \/ TestsRaise
  BY <1>23
     DEF Inv, Evidence, Decisive, TestRuns, ResumeFails, ChangeUnreadable, TestsRaise, Fail,
         Forget
<1> QED
  BY <1>1, <1>2, <1>3, <1>4, <1>5, <1>6, <1>7, <1>8, <1>9, <1>10, <1>11, <1>12, <1>13, <1>14,
     <1>15, <1>16, <1>17, <1>18, <1>19, <1>20, <1>21, <1>22, <1>23
     DEF Next, WorkerStep, Mishap

\* What is spent stays within what the point allows.
LEMMA SpendingStep ==
    ASSUME Inv, Next
    PROVE  Spending'
<1> DEFINE now == Attempts(iteration)
           next == Attempts(iteration + 1)
           all == Attempts(MaxIterations)
<1>a. /\ iteration \in Nat /\ now \in Nat /\ next \in Nat /\ all \in Nat
      /\ next = now + AttemptCost /\ now <= all
      /\ iteration < MaxIterations => next <= all
      /\ Attempts(1) = AttemptCost
  <2>1. iteration \in Nat /\ iteration + 1 \in Nat /\ iteration <= MaxIterations
    BY Numbers DEF Inv, TypeOK
  <2> QED  BY <2>1, MoreAttempts, Numbers
<1>b. /\ asked \in Nat /\ steps \in Nat /\ tries \in Nat /\ tries <= MaxRepairs
      /\ ForIssue \in Nat /\ ForIssue <= AnswerCost
      /\ BeforeCheck = AnswerCost + AttemptCost + all
  BY Numbers DEF Inv, TypeOK, ForIssue, BeforeCheck
<1>1. CASE Resume
  BY <1>1, <1>a, <1>b, Numbers DEF Inv, Control, Spending, ForIssue, Loops, Resume, rows, loop
<1>2. CASE BeginPlan
  BY <1>2, <1>a, <1>b, Numbers
     DEF Inv, Control, Spending, ForIssue, BeforeCheck, Limit, Parked, Loops, TestRuns,
         BeginPlan, BeginLoop, BeginAnswer, rows, scratch
<1>3. CASE AfterPlan
  BY <1>3, <1>a, <1>b, Numbers
     DEF Inv, Control, Spending, ForIssue, BeforeCheck, Limit, Parked, Loops, TestRuns,
         AfterPlan, loop, scratch
<1>4. CASE Implement
  BY <1>4, <1>a, <1>b
     DEF Inv, Control, Spending, ForIssue, TestRuns, Implement, BeginAttempt, BeginLoop,
         BeginAnswer, rows
<1>5. CASE Assess
  BY <1>5, <1>b
     DEF Inv, Spending, Loops, Assess, NothingChanged, BeginTests, Fail, Forget, rows, loop
<1>6. CASE AwaitApproval
  BY <1>6, <1>b DEF Inv, Spending, Loops, AwaitApproval, BeginTests, rows, loop
<1>7. CASE Ask
  BY <1>7, <1>a, <1>b, Numbers
     DEF Inv, Control, Spending, Loops, TestRuns, Ask, AnotherStep, rows, scratch
<1>8. CASE Call
  BY <1>8, <1>b DEF Inv, Spending, Loops, TestRuns, Call, BudgetLeft, Permitted, Execute, rows
<1>9. CASE AfterLoop
  <2>1. asked' = asked /\ steps' = steps /\ tries' = tries /\ task' = task
        /\ iteration' = iteration /\ analysed' = analysed /\ at \in Loops
    BY <1>9 DEF AfterLoop, loop, Loops
  <2>2. CASE task # "change" /\ at' = "answer" /\ state' = state
    BY <2>1, <2>2, <1>b DEF Inv, Control, Spending, TestRuns
  <2>3. CASE task = "change"
    <3>1. asked <= AnswerCost + now + MaxSteps /\ state = "IMPLEMENTING"
      <4>1. asked <= AnswerCost + now + steps
        BY <2>1, <2>3 DEF Inv, Spending
      <4>2. steps <= MaxSteps /\ state = "IMPLEMENTING"
        BY <2>1, <2>3 DEF Inv, Control, Limit
      <4> QED  BY <4>1, <4>2, <1>a, <1>b, Numbers
    <3>2. \/ at' = "step" /\ state' = "TESTING"
          \/ at' \in TestRuns /\ state' = state
      BY <1>9, <2>3 DEF AfterLoop, Stop, BeginTests, TestRuns
    <3> QED  BY <2>1, <2>3, <3>1, <3>2, <1>a, <1>b, Numbers DEF Spending, Loops, TestRuns
  <2> QED  BY <1>9, <2>2, <2>3 DEF AfterLoop
<1>10. CASE RunTargeted
  BY <1>10, <1>b DEF Inv, Spending, Loops, TestRuns, RunTargeted, rows, loop
<1>11. CASE RunFull
  BY <1>11, <1>b DEF Inv, Spending, Loops, TestRuns, RunFull, rows, loop
<1>12. CASE Judge
  <2>1. asked' = asked /\ asked <= AnswerCost + now + MaxSteps
    BY <1>12, <1>b DEF Inv, Spending, Judge, TestRuns
  <2>2. CASE state' = "TESTING" /\ at' = "step"
    BY <2>1, <2>2, <1>a, <1>b, Numbers DEF Spending, Loops
  <2>3. CASE BeginAnswer("failure") /\ UNCHANGED <<state, stopped>> /\ iteration' = iteration
    <3>1. at' = "answer" /\ task' = "failure" /\ tries' = 0 /\ state' = "IMPLEMENTING"
      BY <1>12, <2>3 DEF BeginAnswer, Judge
    <3> QED  BY <3>1, <2>1, <2>3, <1>a, <1>b, Numbers DEF Spending, Loops, TestRuns
  <2> QED  BY <1>12, <2>2, <2>3 DEF Judge, Stop
<1>13. CASE AnswerRejected
  BY <1>13, <1>a, <1>b, Numbers
     DEF Inv, Control, Spending, TestRuns, AnswerRejected, rows, scratch
<1>14. CASE IssueAnswered
  BY <1>14, <1>a, <1>b, Numbers DEF Inv, Spending, IssueAnswered, BeginLoop, BeginAttempt
<1>15. CASE PlanAnswered
  BY <1>15, <1>b, Numbers
     DEF Inv, Control, Spending, ForIssue, Limit, Loops, PlanAnswered, loop, scratch
<1>16. CASE FailureAnswered
  BY <1>16, <1>a, <1>b, Numbers
     DEF Inv, Spending, FailureAnswered, BeginAttempt, BeginLoop, Stop, loop
<1>17. CASE CheckAnswered
  BY <1>17, <1>a, <1>b, Numbers
     DEF Inv, Control, Spending, Limit, Loops, CheckAnswered, StoreDiff, loop
<1>18. CASE SelfCheck
  BY <1>18, <1>a, <1>b, Numbers
     DEF Inv, Spending, Loops, TestRuns, SelfCheck, BeginLoop, StoreDiff, loop
<1>19. CASE Gate
  BY <1>19, <1>b DEF Inv, Spending, Loops, Gate, Fail, Forget, loop
<1>20. CASE TimeIsUp
  BY <1>20, <1>b DEF Inv, Spending, TimeIsUp, Fail, Forget
<1>21. CASE Raise
  <2>1. CASE asked' = asked + 1 /\ StoreDiff /\ UNCHANGED loop /\ Caught(task)
    <3>1. /\ asked <= BeforeCheck + MaxCheckSteps + MaxRepairs
          /\ state' = "VERIFYING" /\ at' = "step"
      BY <1>21, <2>1, <1>b, Numbers
         DEF Inv, Control, Spending, Limit, Loops, Raise, StoreDiff, Caught
    <3>2. BeforeCheck \in Nat /\ BeforeCheck' = BeforeCheck
      BY <1>a, <1>b, Numbers
    <3> QED  BY <2>1, <3>1, <3>2, <1>b, Numbers DEF Spending, Loops
  <2>2. CASE Fail("model") /\ ~Caught(task)
    BY <2>2, <1>b DEF Inv, Spending, Fail, Forget
  <2> QED  BY <1>21, <2>1, <2>2 DEF Raise
<1>22. CASE Crash
  <2>1. at' = "idle" /\ asked' = 0
    BY <1>22 DEF Crash, Forget
  <2>2. BeforeCheck' + MaxCheckSteps + AnswerCost >= 0
    BY <1>a, <1>b, Numbers DEF BeforeCheck
  <2> QED  BY <2>1, <2>2 DEF Spending, Loops, TestRuns
<1>23. CASE ResumeFails \/ ChangeUnreadable \/ TestsRaise
  <2>1. Fail("workspace") \/ Fail("files") \/ Fail("sandbox")
    BY <1>23 DEF ResumeFails, ChangeUnreadable, TestsRaise
  <2> QED  BY <2>1, <1>b DEF Inv, Spending, Fail, Forget
<1> QED
  BY <1>1, <1>2, <1>3, <1>4, <1>5, <1>6, <1>7, <1>8, <1>9, <1>10, <1>11, <1>12, <1>13, <1>14,
     <1>15, <1>16, <1>17, <1>18, <1>19, <1>20, <1>21, <1>22, <1>23
     DEF Next, WorkerStep, Mishap

\* Tool calls are counted, and forgotten only by a crash.
LEMMA ExecutionsStep ==
    ASSUME Inv, Next
    PROVE  Executions'
<1>a. /\ crashes \in Nat /\ Calls(crashes) \in Nat
      /\ Calls(crashes + 1) = Calls(crashes) + MaxToolCalls
      /\ used \in Nat /\ used <= MaxToolCalls /\ executed \in Nat
  <2>1. /\ crashes \in Nat /\ used \in Nat /\ used <= MaxToolCalls /\ executed \in Nat
    BY DEF Inv, TypeOK
  <2> QED  BY <2>1, MoreCalls
<1>1. CASE Resume
  BY <1>1 DEF Inv, Executions, Resume, rows, loop
<1>2. CASE BeginPlan
  BY <1>2 DEF Inv, Executions, BeginPlan, BeginLoop, BeginAnswer, rows, scratch
<1>3. CASE AfterPlan
  BY <1>3 DEF Inv, Executions, AfterPlan, loop, scratch
<1>4. CASE Implement
  BY <1>4 DEF Inv, Executions, Implement, BeginAttempt, BeginLoop, BeginAnswer, rows
<1>5. CASE Assess
  BY <1>5, <1>a, Numbers
     DEF Inv, Executions, Assess, NothingChanged, BeginTests, Fail, Forget, loop
<1>6. CASE AwaitApproval
  BY <1>6 DEF Inv, Executions, AwaitApproval, BeginTests, rows, loop
<1>7. CASE Ask
  BY <1>7 DEF Inv, Executions, Ask, AnotherStep, rows, scratch
<1>8. CASE Call
  BY <1>8, <1>a DEF Inv, Control, Executions, Loops, Call, BudgetLeft, Permitted, Execute, rows
<1>9. CASE AfterLoop
  BY <1>9 DEF Inv, Control, Executions, Loops, AfterLoop, BudgetLeft, Stop, BeginTests, loop
<1>10. CASE RunTargeted
  BY <1>10 DEF Inv, Executions, RunTargeted, rows, loop
<1>11. CASE RunFull
  BY <1>11 DEF Inv, Executions, RunFull, rows, loop
<1>12. CASE Judge
  BY <1>12 DEF Inv, Executions, Judge, Stop, BeginAnswer, loop
<1>13. CASE AnswerRejected
  BY <1>13 DEF Inv, Executions, AnswerRejected, rows, scratch
<1>14. CASE IssueAnswered
  BY <1>14 DEF Inv, Executions, IssueAnswered, BeginLoop, BeginAttempt, rows
<1>15. CASE PlanAnswered
  BY <1>15 DEF Inv, Control, Executions, PlanAnswered, loop, scratch
<1>16. CASE FailureAnswered
  BY <1>16 DEF Inv, Control, Executions, FailureAnswered, BeginAttempt, BeginLoop, Stop, loop
<1>17. CASE CheckAnswered
  BY <1>17 DEF Inv, Control, Executions, CheckAnswered, StoreDiff, loop, scratch
<1>18. CASE SelfCheck
  BY <1>18 DEF Inv, Executions, SelfCheck, BeginLoop, StoreDiff, rows, loop, scratch
<1>19. CASE Gate
  BY <1>19, <1>a, Numbers DEF Inv, Executions, Gate, Fail, Forget, loop, scratch
<1>20. CASE TimeIsUp
  BY <1>20, <1>a, Numbers DEF Inv, Executions, TimeIsUp, Fail, Forget
<1>21. CASE Raise
  <2>1. CASE asked' = asked + 1 /\ StoreDiff /\ UNCHANGED loop /\ Caught(task)
    BY <1>21, <2>1 DEF Inv, Control, Executions, Loops, Raise, StoreDiff, Caught, loop, scratch
  <2>2. CASE Fail("model") /\ ~Caught(task)
    BY <2>2, <1>a, Numbers DEF Inv, Executions, Fail, Forget
  <2> QED  BY <1>21, <2>1, <2>2 DEF Raise
<1>22. CASE Crash
  BY <1>22, <1>a, Numbers DEF Inv, Executions, Crash, Forget
<1>23. CASE ResumeFails \/ ChangeUnreadable \/ TestsRaise
  BY <1>23, <1>a, Numbers
     DEF Inv, Executions, ResumeFails, ChangeUnreadable, TestsRaise, Fail, Forget
<1> QED
  BY <1>1, <1>2, <1>3, <1>4, <1>5, <1>6, <1>7, <1>8, <1>9, <1>10, <1>11, <1>12, <1>13, <1>14,
     <1>15, <1>16, <1>17, <1>18, <1>19, <1>20, <1>21, <1>22, <1>23
     DEF Next, WorkerStep, Mishap

-----------------------------------------------------------------------------
(* The theorems.                                                           *)

LEMMA InitInv == Init => Inv
<1> SUFFICES ASSUME Init PROVE Inv
  OBVIOUS
<1>1. TypeOK
  <2>1. outcomes \in Seq(Outcome) /\ Len(outcomes) <= 2
    BY DEF Init
  <2>2. command \in BOOLEAN /\ analysed \in BOOLEAN
    BY DEF Init
  <2>3. state \in States /\ at \in Places /\ task \in Tasks
    BY DEF Init, States, Places, Tasks
  <2> QED  BY <2>1, <2>2, <2>3, Numbers, ContentsAssumption DEF Init, TypeOK
<1>2. Control
  BY DEF Init, Control, Loops, TestRuns
<1>3. Evidence
  BY DEF Init, Evidence, AllPassed, Decisive, TestRuns
<1>4. Spending
  BY DEF Init, Spending
<1>5. Executions
  BY MoreCalls DEF Init, Executions
<1> QED  BY <1>1, <1>2, <1>3, <1>4, <1>5 DEF Inv

LEMMA StutterInv == Inv /\ UNCHANGED vars => Inv'
BY DEF Inv, vars, rows, loop, scratch, TypeOK, Control, Evidence, Current, Decisive, AllPassed,
   Spending, ForIssue, Executions

LEMMA Invariance == Spec => []Inv
<1>1. Inv /\ [Next]_vars => Inv'
  BY TypeStep, ControlStep, EvidenceStep, SpendingStep, ExecutionsStep, StutterInv DEF Inv
<1> QED  BY InitInv, <1>1, PTL DEF Spec

\* Every state of the repair loop is well formed, with its counters within their limits.
THEOREM TypeCorrect == Spec => []TypeOK
<1>1. Inv => TypeOK
  BY DEF Inv
<1> QED  BY Invariance, <1>1, PTL

\* No run comes before a person unless all its tests passed on the checkout as it is, which
\* the stored diff ends in: through any attempts, tool calls and killed workers.
THEOREM GateIsAlwaysEarned == Spec => []GateIsEarned
<1>1. Inv => GateIsEarned
  <2> SUFFICES ASSUME Inv, state = "WAITING_FOR_APPROVAL" PROVE GateIsEarned
    BY DEF GateIsEarned
  <2>1. at = "idle" /\ diff.to = disk
    BY DEF Inv, Control, Parked
  <2>2. Current /\ AllPassed(outcomes) /\ Decisive
    BY <2>1 DEF Inv, Evidence
  <2> QED  BY <2>1, <2>2 DEF GateIsEarned, Current, AllPassed, Decisive
<1> QED  BY Invariance, <1>1, PTL

\* An execution asks the model no more often than its limits add up to, and a run calls no
\* more tools than max_tool_calls for each of its executions, whatever the model answers.
THEOREM CostIsBounded == Spec => []CostBounded
<1>1. Inv => CostBounded
  <2> SUFFICES ASSUME Inv PROVE CostBounded
    OBVIOUS
  <2> DEFINE now == Attempts(iteration)
             all == Attempts(MaxIterations)
  <2>1. now \in Nat /\ all \in Nat /\ now <= all
    <3>1. iteration \in Nat /\ iteration <= MaxIterations
      BY DEF Inv, TypeOK
    <3> QED  BY <3>1, MoreAttempts
  <2>2. /\ BeforeCheck = AnswerCost + AttemptCost + all /\ ForIssue <= AnswerCost
        /\ ForIssue \in Nat /\ asked \in Nat /\ steps \in Nat /\ tries \in Nat
        /\ tries <= MaxRepairs /\ state \in States /\ at \in Places
    BY Numbers DEF BeforeCheck, ForIssue, Inv, TypeOK
  <2>3. steps <= Limit(task) \/ at \notin Loops \cup {"answer"}
    BY DEF Inv, Control
  <2> HIDE DEF now, all
  <2>4. asked <= AnswerCost + AttemptCost + all + MaxCheckSteps + AnswerCost
    <3>1. CASE at \in Loops
      BY <2>1, <2>2, <2>3, <3>1, Numbers DEF Inv, Control, Spending, Limit, now
    <3>2. CASE at = "answer"
      BY <2>1, <2>2, <2>3, <3>2, Numbers DEF Inv, Control, Spending, Limit, now
    <3>3. CASE at \in TestRuns
      BY <2>1, <2>2, <3>3, Numbers DEF Inv, Control, Spending, now
    <3>4. CASE at = "step" \/ at = "idle"
      BY <2>1, <2>2, <3>4, Numbers DEF Inv, Control, Spending, States, Parked
    <3> QED  BY <2>2, <3>1, <3>2, <3>3, <3>4 DEF Places, Loops, TestRuns
  <2>5. executed <= MaxToolCalls * (crashes + 1)
    <3>1. /\ crashes \in Nat /\ used \in Nat /\ used <= MaxToolCalls /\ executed \in Nat
      BY DEF Inv, TypeOK
    <3>2. Calls(crashes) \in Nat /\ Calls(crashes + 1) = Calls(crashes) + MaxToolCalls
      BY <3>1, MoreCalls
    <3>3. executed <= Calls(crashes + 1)
      BY <3>1, <3>2, Numbers DEF Inv, Executions
    <3> QED  BY <3>3 DEF Calls
  <2> QED  BY <2>4, <2>5 DEF CostBounded, all, Attempts
<1> QED  BY Invariance, <1>1, PTL

\* While the tests are still running, or the worker has only begun, nothing is proven.
LEMMA NotYetProven ==
    ASSUME Inv,
           \/ at \in {"targeted", "full"}
           \/ at = "idle" /\ state \notin Parked
           \/ at \in {"ask", "answer"} /\ ~Caught(task)
    PROVE  ~Proven
<1>1. CASE at \in {"targeted", "full"} \/ (at = "idle" /\ state \notin Parked)
  BY <1>1 DEF Inv, Control, Evidence, Proven, AllPassed
<1>2. CASE at \in {"ask", "answer"} /\ ~Caught(task)
  <2>1. state \in {"RETRIEVING_CONTEXT", "IMPLEMENTING"} /\ at \notin TestRuns
    BY <1>2 DEF Inv, Control, Loops, TestRuns, Caught
  <2> QED  BY <2>1 DEF Inv, Evidence, Proven
<1> QED  BY <1>1, <1>2

\* A change that has passed all tests in this execution is given up only for its time, or
\* because it cannot be read or is none: not for what the model says when it checks its own
\* work, whatever goes wrong then.
THEOREM WorkingChangesAreKept == Spec => WorkingChangeKept
<1> DEFINE Kept == Proven /\ state' = "FAILED" /\ state # "FAILED"
                      => \/ failed' = "timeout"
                         \/ state = "TESTING" /\ (failed' = "files" \/ NothingChanged)
<1>1. ASSUME Inv, Next, Proven, state' = "FAILED", state # "FAILED"
      PROVE  \/ failed' = "timeout"
             \/ state = "TESTING" /\ (failed' = "files" \/ NothingChanged)
  <2>1. \/ Assess /\ NothingChanged
        \/ Gate /\ ~AllPassed(outcomes)
        \/ Raise /\ ~Caught(task)
        \/ ResumeFails \/ TestsRaise \/ ChangeUnreadable \/ TimeIsUp
    BY <1>1
       DEF Next, WorkerStep, Mishap, Resume, BeginPlan, AfterPlan, Implement, Assess,
           AwaitApproval, Ask, Call, AfterLoop, Stop, RunTargeted, RunFull, Judge,
           AnswerRejected, IssueAnswered, PlanAnswered, FailureAnswered, CheckAnswered,
           SelfCheck, StoreDiff, Gate, Crash, Raise, rows
  <2>2. CASE Assess /\ NothingChanged
    BY <2>2 DEF Assess
  <2>3. CASE ChangeUnreadable \/ TimeIsUp
    BY <2>3 DEF ChangeUnreadable, TimeIsUp, Fail
  <2>4. ~Gate \/ AllPassed(outcomes)
    BY <1>1 DEF Proven
  <2>5. CASE ResumeFails
    <3>1. at = "idle" /\ state \notin Parked
      BY <2>5 DEF ResumeFails
    <3> QED  BY <1>1, <3>1, NotYetProven
  <2>6. CASE TestsRaise
    <3>1. at \in {"targeted", "full"}
      BY <2>6 DEF TestsRaise
    <3>2. ~Proven
      BY <1>1, <3>1, NotYetProven
    <3> QED  BY <1>1, <3>2
  <2>7. CASE Raise /\ ~Caught(task)
    <3>1. at \in {"ask", "answer"}
      BY <2>7 DEF Raise
    <3>2. ~Proven
      BY <1>1, <2>7, <3>1, NotYetProven
    <3> QED  BY <1>1, <3>2
  <2> QED  BY <2>1, <2>2, <2>3, <2>4, <2>5, <2>6, <2>7
<1>2. Inv /\ [Next]_vars => [Kept]_vars
  BY <1>1
<1> QED  BY Invariance, <1>2, PTL DEF Spec, WorkingChangeKept
-----------------------------------------------------------------------------
(* The run as people see it.                                               *)

\* What a step does to it: one edge of the table, the diff with the edge to VERIFYING.
Advances(from, to) == state = from /\ state' = to /\ UNCHANGED diff

\* An edge that the agent goes.
LEMMA EdgeStep ==
    ASSUME \/ Advances("RETRIEVING_CONTEXT", "PLANNING")
           \/ Advances("PLANNING", "IMPLEMENTING")
           \/ Advances("IMPLEMENTING", "TESTING")
           \/ Advances("VERIFYING", "WAITING_FOR_APPROVAL")
           \/ state = "TESTING" /\ state' = "VERIFYING"
                 /\ diff' \in [from : Contents, to : Contents]
    PROVE  Review!Next
BY DEF Advances, Review!Next, Review!Work, Review!WORKING_STATES, Review!TransitionTable

\* A run that fails was not over, because no worker is at a run that is over.
LEMMA FailStep ==
    ASSUME Inv, NEW why, at # "idle" \/ state \notin Parked, Fail(why)
    PROVE  Review!Next
<1>1. state \in States \ Parked
  BY DEF Inv, TypeOK, Control
<1> QED
  BY <1>1 DEF States, Parked, Fail, Review!Next, Review!End, Review!IsTerminal,
     Review!TERMINAL_STATES

\* A diff is stored of a run that is tested, and with a change recorded.
LEMMA StoreStep ==
    ASSUME Inv, state = "TESTING", at \notin {"idle", "step"}, StoreDiff
    PROVE  Review!Next
<1>1. base \in Contents /\ disk \in Contents
  BY DEF Inv, TypeOK, Control
<1> QED  BY <1>1, EdgeStep DEF StoreDiff

\* Every step goes an edge, ends the run, or is not seen.
LEMMA ReviewStep ==
    ASSUME Inv, [Next]_vars
    PROVE  [Review!Next]_(Review!vars)
<1>1. UNCHANGED <<state, diff>> => UNCHANGED Review!vars
  BY DEF Review!vars
<1>2. CASE UNCHANGED vars \/ Resume \/ BeginPlan \/ Implement \/ AwaitApproval \/ Ask \/ Call
           \/ RunTargeted \/ RunFull \/ AnswerRejected \/ IssueAnswered \/ Crash
  BY <1>1, <1>2 DEF vars, rows, Resume, BeginPlan, Implement, AwaitApproval, Ask, Call,
     RunTargeted, RunFull, AnswerRejected, IssueAnswered, Crash
<1>3. CASE AfterPlan
  BY <1>3, EdgeStep DEF AfterPlan, Advances
<1>4. CASE Assess
  BY <1>1, <1>4, FailStep DEF Assess, rows
<1>5. CASE AfterLoop
  <2>1. CASE task = "change" /\ ~BudgetLeft /\ Stop("tool_budget_exhausted") /\ UNCHANGED diff
    BY <1>5, <2>1, EdgeStep DEF AfterLoop, Stop, Advances, Inv, Control, Loops
  <2> QED  BY <1>1, <1>5, <2>1 DEF AfterLoop
<1>6. CASE Judge
  BY <1>1, <1>6, EdgeStep DEF Judge, Stop, Advances
<1>7. CASE PlanAnswered
  BY <1>7, EdgeStep DEF PlanAnswered, Advances, Inv, Control
<1>8. CASE FailureAnswered
  BY <1>1, <1>8, EdgeStep DEF FailureAnswered, Stop, Advances, Inv, Control
<1>9. CASE CheckAnswered
  BY <1>9, StoreStep DEF CheckAnswered, Inv, Control
<1>10. CASE SelfCheck
  BY <1>1, <1>10, StoreStep DEF SelfCheck, rows
<1>11. CASE Gate
  BY <1>11, EdgeStep, FailStep DEF Gate, Advances
<1>12. CASE TimeIsUp
  BY <1>12, FailStep DEF TimeIsUp
<1>13. CASE Raise
  <2>1. CASE Caught(task) /\ StoreDiff
    BY <1>13, <2>1, StoreStep DEF Raise, Caught, Inv, Control, Loops
  <2>2. CASE Fail("model")
    BY <1>13, <2>2, FailStep DEF Raise
  <2> QED  BY <1>13, <2>1, <2>2 DEF Raise
<1>14. CASE ResumeFails \/ ChangeUnreadable \/ TestsRaise
  BY <1>14, FailStep DEF ResumeFails, ChangeUnreadable, TestsRaise
<1> QED
  BY <1>2, <1>3, <1>4, <1>5, <1>6, <1>7, <1>8, <1>9, <1>10, <1>11, <1>12, <1>13, <1>14
     DEF Next, WorkerStep, Mishap

\* The agent, whatever its model answers, drives a prepared run to the gate as the product
\* promises it to the person who waits there.
THEOREM ImplementsReviewedRun == Spec => RefinesReviewedRun
<1>1. Init => Review!Prepared
  BY DEF Init, Review!Prepared
<1> QED
  BY <1>1, ReviewStep, Invariance, PTL DEF Spec, RefinesReviewedRun, Review!PreparedSpec
=============================================================================
