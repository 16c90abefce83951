----------------------------- MODULE RepairLoop -----------------------------
(***************************************************************************)
(* The agent at work on one run: the tool loop (`agent/loop.py`), the      *)
(* tools it may call (`agent/tools/base.py`), answers that have to fit a   *)
(* schema (`llm/base.py`), the planner, the repair loop (`repair.py`), the *)
(* test runs (`testing.py`), and the orchestrator's steps from _plan to    *)
(* _await_approval, by workers that may be killed at any point.            *)
(*                                                                         *)
(* The model may answer anything, so an answer is a choice among what the  *)
(* code tells apart: it asks for tools, it does not, it fits the schema,   *)
(* it does not, it used too many tokens, the request raises.  A tool call  *)
(* is turned down before it is executed, executed without a change (also   *)
(* when it fails), or an edit.  The checkout is one content, `base` is     *)
(* what the recorded changes say it was before, and tests may pass or fail *)
(* at will.  Which checkout the worker finds, and who else is at work on   *)
(* the run, is the business of RunLifecycle.                               *)
(***************************************************************************)
EXTENDS Naturals, Sequences

CONSTANTS
    Contents,        \* contents of the checkout
    Original,        \* the content that was cloned
    None,            \* no plan, no change, no diff, no result
    MaxIterations,   \* run.max_iterations
    MaxToolCalls,    \* settings.max_tool_calls
    MaxSteps,        \* LoopLimits.max_steps of the planner and the implementer
    MaxCheckSteps,   \* LoopLimits.max_steps of the verification
    MaxRepairs,      \* max_repair_attempts of generate_structured
    MaxBatch,        \* bound on the tool calls of one answer
    MaxCrashes       \* bound on killed workers

ASSUME ContentsAssumption == Original \in Contents /\ None \notin Contents
ASSUME LimitsAssumption ==
    /\ {MaxIterations, MaxToolCalls, MaxSteps, MaxCheckSteps, MaxBatch} \subseteq Nat \ {0}
    /\ MaxRepairs \in Nat /\ MaxCrashes \in Nat

States == {"RETRIEVING_CONTEXT", "PLANNING", "IMPLEMENTING", "TESTING", "VERIFYING",
           "WAITING_FOR_APPROVAL", "FAILED"}

\* Mutant: a run that is being verified is taken for one that waits for a person.
ParkedEarly == {"WAITING_FOR_APPROVAL", "FAILED", "VERIFYING"}

\* The states advance does not move.
Parked == {"WAITING_FOR_APPROVAL", "FAILED"}

Places == {"idle", "step", "ask", "calls", "looped", "answer", "targeted", "full", "tested"}
\* What the model is being asked for: four of them end in an answer that fits a schema.
Tasks == {"issue", "plan", "change", "failure", "check"}
Reasons == {"tests_passed", "tool_budget_exhausted", "no_test_command",
            "max_iterations_reached", "analysis_says_unrecoverable"}
Outcome == [suite : {"targeted", "full"}, passed : BOOLEAN, on : Contents]

VARIABLES
    state,      \* agent_run.state, as of the last commit
    plan,       \* stored plan: whether it names tests
    diff,       \* stored diff: from and to
    disk,       \* the checkout
    at,         \* where the worker is
    task,       \* what it is asking for
    steps,      \* requests of this tool loop
    pending,    \* tool calls of the answer that are still to be executed
    tries,      \* requests of this generate_structured
    used,       \* context.tool_calls_used
    command,    \* mapping.test_command was found
    analysed,   \* scratch.analysis is there
    iteration,  \* of implement_and_repair
    outcomes,   \* outcomes of the last test run
    stopped,    \* repair_result.stopped_because
    base,       \* the content before the recorded changes
    asked,      \* history: requests to the model of this execution
    executed,   \* history: tool calls executed for the run
    failed,     \* history: why the run failed
    crashes

rows == <<state, plan, diff>>
loop == <<task, steps, pending, tries>>
scratch == <<used, command, analysed, iteration, outcomes, stopped, base>>
vars == <<rows, disk, at, loop, scratch, asked, executed, failed, crashes>>

\* All tests ran, and passed: "no tests were run" is not a success.
AllPassed(results) == results # <<>> /\ \A i \in DOMAIN results : results[i].passed

\* max_steps of the tool loop of a task.
Limit(t) == IF t = "check" THEN MaxCheckSteps ELSE MaxSteps

Init ==
    /\ state = "RETRIEVING_CONTEXT" /\ plan = None /\ diff = None
    /\ disk = Original
    /\ at = "idle"
    /\ task = "issue" /\ steps = 0 /\ pending = 0 /\ tries = 0
    /\ used = 0 /\ command = FALSE /\ analysed = FALSE
    /\ iteration = 0 /\ outcomes = <<>> /\ stopped = None /\ base = None
    /\ asked = 0 /\ executed = 0 /\ failed = None /\ crashes = 0

\* advance returns, or its worker is killed: the scratch is gone.
Forget ==
    /\ at' = "idle"
    /\ task' = "issue" /\ steps' = 0 /\ pending' = 0 /\ tries' = 0
    /\ used' = 0 /\ command' = FALSE /\ analysed' = FALSE
    /\ iteration' = 0 /\ outcomes' = <<>> /\ stopped' = None /\ base' = None
    /\ asked' = 0

\* _fail.
Fail(why) ==
    /\ state' = "FAILED"
    /\ failed' = why
    /\ Forget
    /\ UNCHANGED <<plan, diff, disk, executed, crashes>>

BeginLoop(t) ==
    /\ at' = "ask" /\ task' = t
    /\ steps' = 0 /\ pending' = 0 /\ tries' = 0

BeginAnswer(t) ==
    /\ at' = "answer" /\ task' = t
    /\ steps' = 0 /\ pending' = 0 /\ tries' = 0

\* run_tests: the tests the plan names, then all; nothing without a command.
BeginTests ==
    /\ outcomes' = <<>>
    /\ at' = IF ~command THEN "tested" ELSE IF plan = "targeted" THEN "targeted" ELSE "full"

-----------------------------------------------------------------------------
(* advance: rehydration and the beginnings of the steps.                   *)

\* _rehydrate with a new scratch.  The changes are read back from git only once the run is
\* past IMPLEMENTING; the command is looked for in the checkout as it is.
Resume ==
    /\ at = "idle"
    /\ state \notin Parked
    /\ at' = "step"
    /\ command' \in BOOLEAN
    /\ base' = IF state \in {"TESTING", "VERIFYING"} /\ disk # Original THEN Original ELSE None
    /\ UNCHANGED <<rows, disk, loop, used, analysed, iteration, outcomes, stopped, asked,
                   executed, failed, crashes>>

\* _rehydrate raises: the checkout is gone, git or the sandbox does not do what it is asked.
ResumeFails == at = "idle" /\ state \notin Parked /\ Fail("workspace")

\* _check_budget.
TimeIsUp == at = "step" /\ Fail("timeout")

BeginPlan ==
    /\ at = "step" /\ state = "RETRIEVING_CONTEXT"
    /\ IF analysed THEN BeginLoop("plan") ELSE BeginAnswer("issue")
    /\ UNCHANGED <<rows, disk, scratch, asked, executed, failed, crashes>>

AfterPlan ==
    /\ at = "step" /\ state = "PLANNING"
    /\ state' = "IMPLEMENTING"
    /\ UNCHANGED <<plan, diff, disk, at, loop, scratch, asked, executed, failed, crashes>>

BeginAttempt(i) == iteration' = i /\ BeginLoop("change")

Implement ==
    /\ at = "step" /\ state = "IMPLEMENTING"
    /\ IF analysed THEN BeginAttempt(1) ELSE BeginAnswer("issue") /\ UNCHANGED iteration
    /\ UNCHANGED <<rows, disk, used, command, analysed, outcomes, stopped, base, asked,
                   executed, failed, crashes>>

\* Mutant: a run that has recorded no change has one.
NothingDiffers == base = disk

\* build_change_set is empty.
NothingChanged == base = None \/ base = disk

\* The evidence of _outcomes: what the repair loop left, else a new test run.
Assess ==
    /\ at = "step" /\ state = "TESTING"
    /\ IF NothingChanged
       THEN Fail("nothing_changed")
       ELSE /\ IF stopped # None THEN at' = "tested" /\ UNCHANGED outcomes ELSE BeginTests
            /\ UNCHANGED <<rows, disk, loop, used, command, analysed, iteration, stopped, base,
                           asked, executed, failed, crashes>>

\* build_change_set cannot read a file it has to compare.
ChangeUnreadable == at = "step" /\ state = "TESTING" /\ Fail("files")

AwaitApproval ==
    /\ at = "step" /\ state = "VERIFYING"
    /\ IF outcomes # <<>> \/ stopped # None
       THEN at' = "tested" /\ UNCHANGED outcomes
       ELSE BeginTests
    /\ UNCHANGED <<rows, disk, loop, used, command, analysed, iteration, stopped, base, asked,
                   executed, failed, crashes>>

-----------------------------------------------------------------------------
(* run_tool_loop.                                                          *)

\* Mutant: the steps are not counted.
AlwaysAnotherStep == TRUE

AnotherStep == steps < Limit(task)

\* One request: the model asks for tools, or the loop is over because it does not, or
\* because it used up its tokens.
Ask ==
    /\ at = "ask"
    /\ IF AnotherStep
       THEN /\ asked' = asked + 1
            /\ steps' = steps + 1
            /\ \/ at' = "looped" /\ UNCHANGED pending
               \/ at' = "calls" /\ pending' \in 1..MaxBatch
       ELSE at' = "looped" /\ UNCHANGED <<asked, steps, pending>>
    /\ UNCHANGED <<rows, disk, task, tries, scratch, executed, failed, crashes>>

BudgetLeft == used < MaxToolCalls

\* Mutant: write tools are executed in every phase.
AlwaysPermitted(t) == TRUE

\* allow_mutating.
Permitted(t) == t = "change"

Execute == used' = used + 1 /\ executed' = executed + 1

\* registry.execute for the next call: over the budget, and the loop is; turned down for its
\* name, its phase or its arguments; or executed, with an edit or without.
Call ==
    /\ at = "calls"
    /\ IF ~BudgetLeft
       THEN at' = "looped" /\ pending' = 0 /\ UNCHANGED <<disk, used, base, executed>>
       ELSE /\ pending' = pending - 1
            /\ at' = IF pending = 1 THEN "ask" ELSE "calls"
            /\ \/ UNCHANGED <<disk, used, base, executed>>
               \/ Execute /\ UNCHANGED <<disk, base>>
               \/ /\ Permitted(task)
                  /\ Execute
                  /\ disk' \in Contents
                  /\ base' = IF base = None THEN disk ELSE base
    /\ UNCHANGED <<rows, task, steps, tries, command, analysed, iteration, outcomes, stopped,
                   asked, failed, crashes>>

-----------------------------------------------------------------------------
(* implement_and_repair.                                                   *)

\* The result of the repair loop, which ends the step.
Stop(why) ==
    /\ stopped' = why
    /\ state' = "TESTING"
    /\ at' = "step"

\* The tool loop is over: a conclusion is asked for, or the change is tested unless the
\* budget is used up.
AfterLoop ==
    /\ at = "looped"
    /\ \/ /\ task # "change"
          /\ at' = "answer"
          /\ UNCHANGED <<state, outcomes, stopped>>
       \/ /\ task = "change" /\ ~BudgetLeft
          /\ outcomes' = <<>>
          /\ Stop("tool_budget_exhausted")
       \/ /\ task = "change" /\ BudgetLeft
          /\ BeginTests
          /\ UNCHANGED <<state, stopped>>
    /\ UNCHANGED <<plan, diff, disk, loop, used, command, analysed, iteration, base, asked,
                   executed, failed, crashes>>

\* sandbox.run and parse_test_output.  A targeted run that fails is the answer.
RunTargeted ==
    /\ at = "targeted"
    /\ \E ok \in BOOLEAN :
          /\ outcomes' = Append(outcomes, [suite |-> "targeted", passed |-> ok, on |-> disk])
          /\ at' = IF ok THEN "full" ELSE "tested"
    /\ UNCHANGED <<rows, disk, loop, used, command, analysed, iteration, stopped, base, asked,
                   executed, failed, crashes>>

RunFull ==
    /\ at = "full"
    /\ \E ok \in BOOLEAN :
          outcomes' = Append(outcomes, [suite |-> "full", passed |-> ok, on |-> disk])
    /\ at' = "tested"
    /\ UNCHANGED <<rows, disk, loop, used, command, analysed, iteration, stopped, base, asked,
                   executed, failed, crashes>>

\* sandbox.run raises: the command cannot be started, or is not one that is allowed.
TestsRaise == at \in {"targeted", "full"} /\ Fail("sandbox")

\* The verdict on an attempt.
Judge ==
    /\ at = "tested" /\ state = "IMPLEMENTING"
    /\ \/ AllPassed(outcomes) /\ Stop("tests_passed") /\ UNCHANGED loop
       \/ outcomes = <<>> /\ Stop("no_test_command") /\ UNCHANGED loop
       \/ /\ outcomes # <<>> /\ ~AllPassed(outcomes)
          /\ \/ /\ iteration = MaxIterations
                /\ Stop("max_iterations_reached") /\ UNCHANGED loop
             \/ /\ iteration < MaxIterations
                /\ BeginAnswer("failure") /\ UNCHANGED <<state, stopped>>
    /\ UNCHANGED <<plan, diff, disk, used, command, analysed, iteration, outcomes, base, asked,
                   executed, failed, crashes>>

-----------------------------------------------------------------------------
(* generate_structured and what is done with the answer.                   *)

\* The answer does not fit, and the model is told why.
AnswerRejected ==
    /\ at = "answer"
    /\ tries < MaxRepairs
    /\ asked' = asked + 1
    /\ tries' = tries + 1
    /\ UNCHANGED <<rows, disk, at, task, steps, pending, scratch, executed, failed, crashes>>

IssueAnswered ==
    /\ at = "answer" /\ task = "issue"
    /\ asked' = asked + 1
    /\ analysed' = TRUE
    /\ IF state = "RETRIEVING_CONTEXT" THEN BeginLoop("plan") /\ UNCHANGED iteration
                                       ELSE BeginAttempt(1)
    /\ UNCHANGED <<rows, disk, used, command, outcomes, stopped, base, executed, failed, crashes>>

PlanAnswered ==
    /\ at = "answer" /\ task = "plan"
    /\ asked' = asked + 1
    /\ plan' \in {"targeted", "untargeted"}
    /\ state' = "PLANNING"
    /\ at' = "step"
    /\ UNCHANGED <<diff, disk, loop, scratch, executed, failed, crashes>>

\* analyse_failure: the next attempt, or an early stop.
FailureAnswered ==
    /\ at = "answer" /\ task = "failure"
    /\ asked' = asked + 1
    /\ \/ BeginAttempt(iteration + 1) /\ UNCHANGED <<state, stopped>>
       \/ Stop("analysis_says_unrecoverable") /\ UNCHANGED <<iteration, loop>>
    /\ UNCHANGED <<plan, diff, disk, used, command, analysed, outcomes, base, executed,
                   failed, crashes>>

\* The end of _assess: risk, diff and events, and the commit.
StoreDiff ==
    /\ diff' = [from |-> base, to |-> disk]
    /\ state' = "VERIFYING"
    /\ at' = "step"
    /\ UNCHANGED <<plan, disk, scratch, executed, failed, crashes>>

CheckAnswered ==
    /\ at = "answer" /\ task = "check"
    /\ asked' = asked + 1
    /\ StoreDiff
    /\ UNCHANGED loop

\* Mutant: a failed self-check fails the run.
NothingIsCaught(t) == FALSE

\* _assess survives whatever verify raises.
Caught(t) == t = "check"

\* The provider, the schema after the last try, or a retrieval in between raises.
Raise ==
    /\ at \in {"ask", "answer"}
    /\ \/ Caught(task) /\ asked' = asked + 1 /\ StoreDiff /\ UNCHANGED loop
       \/ ~Caught(task) /\ Fail("model")

-----------------------------------------------------------------------------
(* _assess and _await_approval, when the evidence is there.                *)

SelfCheck ==
    /\ at = "tested" /\ state = "TESTING"
    /\ IF AllPassed(outcomes)
       THEN BeginLoop("check") /\ UNCHANGED <<rows, disk, scratch, executed, failed, crashes>>
       ELSE StoreDiff /\ UNCHANGED loop
    /\ UNCHANGED asked

Gate ==
    /\ at = "tested" /\ state = "VERIFYING"
    /\ IF AllPassed(outcomes)
       THEN /\ state' = "WAITING_FOR_APPROVAL"
            /\ at' = "idle"
            /\ UNCHANGED <<plan, diff, disk, loop, scratch, asked, executed, failed, crashes>>
       ELSE Fail("tests")

Crash ==
    /\ at # "idle"
    /\ crashes < MaxCrashes
    /\ crashes' = crashes + 1
    /\ Forget
    /\ UNCHANGED <<rows, disk, executed, failed>>

WorkerStep ==
    \/ Resume \/ BeginPlan \/ AfterPlan \/ Implement \/ Assess \/ AwaitApproval
    \/ Ask \/ Call \/ AfterLoop
    \/ RunTargeted \/ RunFull \/ Judge
    \/ AnswerRejected \/ IssueAnswered \/ PlanAnswered \/ FailureAnswered \/ CheckAnswered
    \/ SelfCheck \/ Gate

Mishap == ResumeFails \/ TimeIsUp \/ ChangeUnreadable \/ TestsRaise \/ Raise

Next == WorkerStep \/ Mishap \/ Crash

Spec == Init /\ [][Next]_vars
FairSpec == Spec /\ WF_vars(WorkerStep)

-----------------------------------------------------------------------------
(* Properties.                                                             *)

TypeOK ==
    /\ state \in States
    /\ plan \in {None, "targeted", "untargeted"}
    /\ diff \in [from : Contents, to : Contents] \cup {None}
    /\ disk \in Contents
    /\ at \in Places /\ task \in Tasks
    /\ steps \in 0..(MaxSteps + MaxCheckSteps)
    /\ pending \in 0..MaxBatch /\ tries \in 0..MaxRepairs
    /\ used \in 0..MaxToolCalls
    /\ command \in BOOLEAN /\ analysed \in BOOLEAN
    /\ iteration \in 0..MaxIterations
    /\ outcomes \in Seq(Outcome) /\ Len(outcomes) <= 2
    /\ stopped \in Reasons \cup {None}
    /\ base \in Contents \cup {None}
    /\ asked \in Nat /\ executed \in Nat
    /\ failed \in {None, "workspace", "timeout", "nothing_changed", "files", "sandbox", "model",
                  "tests"}
    /\ crashes \in 0..MaxCrashes

\* What is put before a person has been proven: all tests, not only those the plan names,
\* have passed on the checkout as it is now, and the stored diff ends in that checkout.
\* However often the worker was killed, whatever planning and verification asked for.
\* (all_passed, _outcomes, allow_mutating.)
GateIsEarned ==
    state = "WAITING_FOR_APPROVAL" =>
       /\ \A i \in DOMAIN outcomes : outcomes[i].passed /\ outcomes[i].on = disk
       /\ \E i \in DOMAIN outcomes : outcomes[i].suite = "full"
       /\ diff.to = disk

\* Requests of one answer that has to fit a schema, and of one loop with its conclusion.
AnswerCost == MaxRepairs + 1
AttemptCost == MaxSteps + AnswerCost

\* An execution never asks the model more often than its limits add up to, whatever the
\* model answers: calls that are turned down do not count as tool calls, but as steps.  And
\* the tools are called at most max_tool_calls times, once more for every restart, which
\* begins with a new context.  (repair.py:21 "Run forever"; loop.py:12-17.)
CostBounded ==
    /\ asked <= AnswerCost + AttemptCost + MaxIterations * AttemptCost
                           + MaxCheckSteps + AnswerCost
    /\ executed <= MaxToolCalls * (crashes + 1)

\* All tests, not only those the plan names, have passed in this execution.
Proven == AllPassed(outcomes) /\ \E i \in DOMAIN outcomes : outcomes[i].suite = "full"

\* A change that has passed all tests is not thrown away for anything the model does later,
\* nor for a later test run, as the results are carried over: the run ends only because its
\* time is up, because the change cannot be read or because there is none.  A worker that
\* took the run over, or has run only the tests the plan names, has nothing proven yet.
\* ("A failed self-check must not discard a working change", orchestrator.py.)
WorkingChangeKept ==
    [][Proven /\ state' = "FAILED" /\ state # "FAILED"
          => \/ failed' = "timeout"
             \/ state = "TESTING" /\ (failed' = "files" \/ NothingChanged)]_vars

\* The run as people see it, who cannot approve it before it is at the gate.
Review == INSTANCE ReviewedRun WITH
    Diffs <- [from : Contents, to : Contents], Blocking <- {}, approval <- None, published <- FALSE

\* However the model, the tools and the tests turn out and wherever a worker is killed, the
\* run moves along the transition table and comes to the gate with the diff that was stored,
\* of a change that was recorded, when it began to be verified.
RefinesReviewedRun == Review!PreparedSpec

\* Whatever the model does, a run reaches the gate or fails.
RepairEnds == <>(state \in {"WAITING_FOR_APPROVAL", "FAILED"})
=============================================================================
