---------------------------- MODULE TestTeardown ----------------------------
(***************************************************************************)
(* The teardown of a test config in src/taac/libs/taac_runner.py:          *)
(* async_test_tearDown, _async_run_pre_release_teardown,                   *)
(* run_teardown_tasks and _await_cleanup_to_completion.                    *)
(*                                                                         *)
(* Each cleanup runs as a task of its own behind asyncio.shield.  A        *)
(* CancelledError from outside is consumed, remembered, and arms the       *)
(* stage's _CleanupCancellationBudget: from then on the cleanup has a      *)
(* grace period, after which it is cancelled and abandoned.  The stages    *)
(* before the release share one budget; the release of the test bed, the   *)
(* reporting and the upload each get a fresh one.                          *)
(*                                                                         *)
(* A cleanup that nobody cancels may take for ever.  KeyboardInterrupt and *)
(* SystemExit stop the event loop itself and are left out.                 *)
(***************************************************************************)
EXTENDS Naturals, Sequences

CONSTANT
    Plans  \* the teardowns to check: how many teardown tasks (none when they are
           \* skipped) and custom test handlers there are, the minions called,
           \* and, as a bound, how many CancelledErrors come from outside

ASSUME PlansAssumption ==
    Plans \subseteq [tasks : Nat, handlers : Nat, minions : SUBSET {"triage"},
                    cancels : Nat]

VARIABLE plan  \* the plan of this teardown

TeardownTasks == plan.tasks
Handlers == plan.handlers
Minions == plan.minions
MaxCancels == plan.cancels

TaskAttempts == 2

\* A cleanup: a teardown task, a handler, or the one cleanup of a later stage.
Task(i) == <<"task", i>>
Handler(i) == <<"handler", i>>
Only(s) == <<s, 0>>
SingleStages == {"release", "investigate", "triage", "upload"}
Jobs == {Task(i) : i \in 1..TeardownTasks} \cup {Handler(i) : i \in 1..Handlers}
          \cup {Only(s) : s \in SingleStages}

Stages == {"executor", "tasks", "sleep", "handlers", "done"} \cup SingleStages

VARIABLES
    stage,         \* the stage of the teardown
    queue,         \* the stage's cleanups still to run, in order
    job,           \* "none", "running", or how the current cleanup ended
    budget,        \* the deadline of the stage's budget: "none", "armed", "expired"
    attempt,       \* the attempt of run_teardown_tasks
    failures,      \* teardown tasks that failed in this attempt, in order
    failed,        \* failures_by_index: tasks whose last run failed
    interrupted,   \* {"tasks"} while run_teardown_tasks has a cancellation
    jobCancelled,  \* {"job"} while the current cleanup has a cancellation
    cancellation,  \* {"cancelled"} once a CancelledError is remembered
    errors,        \* what the raised error will contain
    runs,          \* how often each cleanup began to run
    last,          \* how each cleanup ended the last time; history
    cancels        \* CancelledErrors delivered so far

vars == <<plan, stage, queue, job, budget, attempt, failures, failed, interrupted,
          jobCancelled, cancellation, errors, runs, last, cancels>>

\* What a step inside a stage may leave alone.
taskVars == <<plan, attempt, failures, failed, interrupted>>

\* arm(): only the first call sets the deadline.
Arm == budget' = IF budget = "none" THEN "armed" ELSE budget

\* The next stages' budget: fresh, and armed at once when the one before was.
NewBudget == budget' = IF budget = "none" THEN "none" ELSE "armed"

(***************************************************************************)
(* _await_cleanup_to_completion                                            *)
(***************************************************************************)

Current == Head(queue)

\* ensure_future and the first turn of the loop: a budget that has already run
\* out abandons the cleanup before it takes its first step.
JobStarts ==
    /\ queue # <<>>
    /\ job = "none"
    /\ IF budget = "expired"
         THEN /\ job' = "timeout"
              /\ last' = [last EXCEPT ![Current] = "timeout"]
              /\ UNCHANGED runs
         ELSE /\ job' = "running"
              /\ runs' = [runs EXCEPT ![Current] = @ + 1]
              /\ UNCHANGED last
    /\ UNCHANGED <<stage, queue, budget, taskVars, jobCancelled, cancellation,
                   errors, cancels>>

\* The cleanup ends by itself; "cancelled" when it raises CancelledError.
JobEnds(how) ==
    /\ job = "running"
    /\ job' = how
    /\ last' = [last EXCEPT ![Current] = how]
    /\ jobCancelled' = IF how = "cancelled" THEN {"job"} ELSE jobCancelled
    /\ UNCHANGED <<stage, queue, budget, taskVars, cancellation, errors, runs,
                   cancels>>

\* CancelledError at the shield: consumed, remembered, and the budget is armed.
JobCancelledFromOutside ==
    /\ job = "running"
    /\ cancels < MaxCancels
    /\ cancels' = cancels + 1
    /\ jobCancelled' = {"job"}
    /\ Arm
    /\ UNCHANGED <<stage, queue, job, taskVars, cancellation, errors, runs,
                   last>>

\* The grace period ends while a cleanup is waited for, which may just make it.
DeadlinePasses ==
    /\ job = "running"
    /\ budget = "armed"
    /\ budget' = "expired"
    /\ UNCHANGED <<stage, queue, job, taskVars, jobCancelled, cancellation, errors,
                   runs, last, cancels>>

\* TimeoutError: the cleanup is cancelled and no longer waited for.
JobTimesOut ==
    /\ job = "running"
    /\ budget = "expired"
    /\ job' = "timeout"
    /\ last' = [last EXCEPT ![Current] = "timeout"]
    /\ UNCHANGED <<stage, queue, budget, taskVars, jobCancelled, cancellation, errors,
                   runs, cancels>>

Ended == job \in {"ok", "error", "cancelled", "timeout"}

\* The caller takes the pair (cancellation, error) and goes on with the queue.
JobTaken ==
    /\ Ended
    /\ queue' = Tail(queue)
    /\ job' = "none"
    /\ jobCancelled' = {}

JobErred == job \in {"error", "timeout"}

(***************************************************************************)
(* _async_run_pre_release_teardown                                         *)
(***************************************************************************)

\* All teardown tasks, pending in the first attempt.
TaskQueue == [i \in 1..TeardownTasks |-> Task(i)]

\* The handlers, in the order of custom_test_handlers.
HandlerQueue == [i \in 1..Handlers |-> Handler(i)]

\* The periodic executor, diagnostics and trace, awaited without a shield. They
\* end well, with an error, or with a CancelledError of their own or from outside.
ExecutorTornDown ==
    /\ stage = "executor"
    /\ stage' = "tasks"
    /\ queue' = TaskQueue
    /\ \/ UNCHANGED <<errors, cancellation, budget, cancels>>
       \/ /\ errors' = errors \cup {Only("executor")}
          /\ UNCHANGED <<cancellation, budget, cancels>>
       \/ /\ cancellation' = {"cancelled"}
          /\ UNCHANGED <<errors, budget, cancels>>
       \/ /\ cancels < MaxCancels
          /\ cancels' = cancels + 1
          /\ cancellation' = {"cancelled"}
          /\ Arm
          /\ UNCHANGED errors
    /\ UNCHANGED <<job, taskVars, jobCancelled, runs, last>>

\* Mutant of TaskTaken: the first failure ends the attempt.
MutantStopsAtError ==
    /\ stage = "tasks"
    /\ Ended
    /\ queue' = IF JobErred THEN <<>> ELSE Tail(queue)
    /\ job' = "none" /\ jobCancelled' = {}
    /\ failures' = IF JobErred THEN Append(failures, Current) ELSE failures
    /\ failed' = IF JobErred THEN failed \cup {Current} ELSE failed \ {Current}
    /\ interrupted' = IF jobCancelled = {} THEN interrupted ELSE {"tasks"}
    /\ UNCHANGED <<plan, stage, budget, attempt, cancellation, errors, runs, last,
                   cancels>>

\* _attempt_teardown_tasks: one task is done with.
TaskTaken ==
    /\ stage = "tasks"
    /\ JobTaken
    /\ failures' = IF JobErred THEN Append(failures, Current) ELSE failures
    /\ failed' = IF JobErred THEN failed \cup {Current}
                 ELSE IF jobCancelled = {} THEN failed \ {Current} ELSE failed
    /\ interrupted' = IF jobCancelled = {} THEN interrupted ELSE {"tasks"}
    /\ UNCHANGED <<plan, stage, budget, attempt, cancellation, errors, runs, last,
                   cancels>>

\* Mutant of LeaveTasks: the failures are dropped when a cancellation is raised.
MutantDropsFailures ==
    /\ stage' = "handlers"
    /\ queue' = HandlerQueue
    /\ errors' = IF interrupted = {} THEN errors \cup failed ELSE errors
    /\ attempt' = 1 /\ failures' = <<>> /\ failed' = {} /\ interrupted' = {}
    /\ UNCHANGED <<plan, job, jobCancelled, runs, last>>

\* run_teardown_tasks ends, its locals with it; what it raises goes into the
\* teardown's state.
LeaveTasks ==
    /\ stage' = "handlers"
    /\ queue' = HandlerQueue
    /\ errors' = errors \cup failed
    /\ attempt' = 1 /\ failures' = <<>> /\ failed' = {} /\ interrupted' = {}
    /\ UNCHANGED <<plan, job, jobCancelled, runs, last>>

\* The end of an attempt: stop when `over`, else sleep before the retry.
EndAttempt(over) ==
    /\ stage = "tasks" /\ queue = <<>> /\ job = "none"
    /\ \/ /\ over
          /\ LeaveTasks
          /\ cancellation' = IF interrupted = {} THEN cancellation ELSE {"cancelled"}
       \/ /\ ~over
          /\ stage' = "sleep"
          /\ UNCHANGED <<queue, job, taskVars, jobCancelled, errors, runs, last,
                         cancellation>>
    /\ UNCHANGED <<budget, cancels>>

\* An attempt is over: it was cancelled, nothing failed, or it cannot be
\* repeated; otherwise the failed tasks are tried again after a sleep.
TasksAttempted ==
    EndAttempt(interrupted # {} \/ failures = <<>> \/ attempt = TaskAttempts
                 \/ budget # "none")

\* Mutant of Retry: every teardown task is run again, not only the failed ones.
MutantRetriesAll ==
    /\ stage = "sleep"
    /\ stage' = "tasks"
    /\ queue' = TaskQueue
    /\ attempt' = attempt + 1
    /\ failures' = <<>>
    /\ UNCHANGED <<plan, job, budget, failed, interrupted, jobCancelled, cancellation,
                   errors, runs, last, cancels>>

\* The sleep is over: the tasks that failed are pending again.
Retry ==
    /\ stage = "sleep"
    /\ stage' = "tasks"
    /\ queue' = failures
    /\ attempt' = attempt + 1
    /\ failures' = <<>>
    /\ UNCHANGED <<plan, job, budget, failed, interrupted, jobCancelled, cancellation,
                   errors, runs, last, cancels>>

SleepCancelled ==
    /\ stage = "sleep"
    /\ cancels < MaxCancels
    /\ cancels' = cancels + 1
    /\ cancellation' = {"cancelled"}
    /\ Arm
    /\ LeaveTasks

\* The handlers' _async_test_tearDown, one after the other.
HandlerTaken ==
    /\ stage = "handlers"
    /\ JobTaken
    /\ errors' = IF JobErred THEN errors \cup {Current} ELSE errors
    /\ cancellation' = IF jobCancelled = {} THEN cancellation ELSE {"cancelled"}
    /\ UNCHANGED <<stage, budget, taskVars, runs, last, cancels>>

(***************************************************************************)
(* _async_test_tearDown_impl                                               *)
(***************************************************************************)

\* The single-cleanup stages: enter one, or pass it by.
Enter(s) == stage' = s /\ queue' = <<Only(s)>>
Skip(s) == stage' = s /\ queue' = <<>>

\* Mutant of StartRelease: the release goes on with the pre-release budget.
MutantSharedBudget ==
    /\ stage = "handlers" /\ queue = <<>> /\ job = "none"
    /\ Enter("release")
    /\ UNCHANGED <<job, budget, taskVars, jobCancelled, cancellation, errors, runs,
                   last, cancels>>

\* Mutant of StartRelease: a release after a cancellation has no deadline.
MutantUnarmedRelease ==
    /\ stage = "handlers" /\ queue = <<>> /\ job = "none"
    /\ Enter("release")
    /\ budget' = "none"
    /\ UNCHANGED <<job, taskVars, jobCancelled, cancellation, errors, runs,
                   last, cancels>>

\* resource_release_budget, armed anew when the pre-release one was.
StartRelease ==
    /\ stage = "handlers" /\ queue = <<>> /\ job = "none"
    /\ Enter("release")
    /\ NewBudget
    /\ UNCHANGED <<job, taskVars, jobCancelled, cancellation, errors, runs,
                   last, cancels>>

\* The pair of a cleanup of the later stages is recorded.
SingleTaken ==
    /\ stage \in SingleStages
    /\ JobTaken
    /\ errors' = IF JobErred THEN errors \cup {Current} ELSE errors
    /\ cancellation' = IF jobCancelled = {} THEN cancellation ELSE {"cancelled"}
    /\ UNCHANGED <<stage, budget, taskVars, runs, last, cancels>>

\* Errors are investigated: those so far, or, when closing the section fails,
\* these and that failure ("late teardown investigation").
StartReporting ==
    /\ stage = "release" /\ queue = <<>> /\ job = "none"
    /\ Only("entry") \notin errors
    /\ NewBudget
    /\ errors' \in {errors, errors \cup {Only("reporting")}}
    /\ IF errors' # {} THEN Enter("investigate") ELSE Skip("investigate")
    /\ UNCHANGED <<job, taskVars, jobCancelled, cancellation, runs, last, cancels>>

\* Triage runs with call_triage_minion, when this teardown or an earlier section
\* of the summary failed.
StartTriage ==
    /\ stage = "investigate" /\ queue = <<>> /\ job = "none"
    /\ \/ Minions # {} /\ Enter("triage")
       \/ /\ Minions = {} \/ (errors = {} /\ cancellation = {})
          /\ Skip("triage")
    /\ UNCHANGED <<job, budget, taskVars, jobCancelled, cancellation, errors, runs,
                   last, cancels>>

\* The summary is uploaded last, so that it can tell of every failure before it.
StartUpload ==
    /\ stage = "triage" /\ queue = <<>> /\ job = "none"
    /\ Enter("upload")
    /\ NewBudget
    /\ UNCHANGED <<job, taskVars, jobCancelled, cancellation, errors, runs,
                   last, cancels>>

\* The error is raised to async_test_tearDown, whose `finally` cleans the
\* summary up, which may fail too.
FinishSummary ==
    /\ stage = "upload" /\ queue = <<>> /\ job = "none"
    /\ stage' = "done"
    /\ errors' \in {errors, errors \cup {Only("summary")}}
    /\ UNCHANGED <<queue, job, budget, taskVars, jobCancelled, cancellation, runs,
                   last, cancels>>

\* Opening the section fails before anything else: only the release is tried.
EntryFails ==
    /\ stage = "executor"
    /\ Enter("release")
    /\ errors' = errors \cup {Only("entry")}
    /\ UNCHANGED <<job, budget, taskVars, jobCancelled, cancellation, runs,
                   last, cancels>>

EntryCleanedUp ==
    /\ stage = "release" /\ queue = <<>> /\ job = "none"
    /\ Only("entry") \in errors
    /\ stage' = "done"
    /\ errors' \in {errors, errors \cup {Only("summary")}}
    /\ UNCHANGED <<queue, job, budget, taskVars, jobCancelled, cancellation, runs,
                   last, cancels>>

\* The error, if any, has been raised.
Terminated == stage = "done" /\ UNCHANGED vars

(***************************************************************************)
(* The specification                                                       *)
(***************************************************************************)

Init ==
    /\ plan \in Plans
    /\ stage = "executor"
    /\ queue = <<>>
    /\ job = "none"
    /\ budget = "none"
    /\ attempt = 1
    /\ failures = <<>>
    /\ failed = {}
    /\ interrupted = {}
    /\ jobCancelled = {}
    /\ cancellation = {}
    /\ errors = {}
    /\ runs = [j \in Jobs |-> 0]
    /\ last = [j \in Jobs |-> "none"]
    /\ cancels = 0

\* What the event loop does by itself, sooner or later.
LoopStep ==
    \/ JobStarts \/ DeadlinePasses \/ JobTimesOut
    \/ ExecutorTornDown \/ TaskTaken \/ TasksAttempted \/ Retry \/ HandlerTaken
    \/ StartRelease \/ SingleTaken \/ StartReporting \/ StartTriage \/ StartUpload
    \/ FinishSummary \/ EntryCleanedUp

Next ==
    \/ LoopStep
    \/ \E how \in {"ok", "error", "cancelled"} : JobEnds(how)
    \/ JobCancelledFromOutside \/ SleepCancelled
    \/ EntryFails
    \/ Terminated

\* The event loop goes on, and so does the clock.  No cleanup is assumed to end.
Spec == Init /\ [][Next]_vars /\ WF_vars(LoopStep)

(***************************************************************************)
(* Properties                                                              *)
(***************************************************************************)

Ends == {"ok", "error", "cancelled", "timeout"}

\* The types of the variables.
TypeOK ==
    /\ plan \in Plans
    /\ stage \in Stages
    /\ queue \in Seq(Jobs)
    /\ job \in Ends \cup {"none", "running"}
    /\ job # "none" => queue # <<>>
    /\ budget \in {"none", "armed", "expired"}
    /\ attempt \in 1..TaskAttempts
    /\ failures \in Seq(Jobs) /\ failed \subseteq Jobs
    /\ interrupted \subseteq {"tasks"}
    /\ jobCancelled \subseteq {"job"}
    /\ cancellation \subseteq {"cancelled"}
    /\ errors \subseteq
         Jobs \cup {Only(s) : s \in {"executor", "reporting", "summary", "entry"}}
    /\ runs \in [Jobs -> 0..TaskAttempts]
    /\ last \in [Jobs -> Ends \cup {"none"}]
    /\ cancels \in 0..MaxCancels

\* The devices and the chassis are given back: whatever was cancelled, failed or
\* timed out before, the orchestrator's async_tearDown gets to run, with a
\* deadline of its own, before the teardown goes on to report or ends.
ReleaseAlwaysRuns ==
    stage \in {"investigate", "triage", "upload", "done"} =>
        runs[Only("release")] = 1

\* Every cleanup is started or was abandoned to an expired deadline: none is
\* passed over because one before it failed or was cancelled.
NoneSkipped ==
    stage \in {"release", "investigate", "triage", "upload", "done"}
        /\ Only("entry") \notin errors =>
        /\ \A i \in 1..TeardownTasks : last[Task(i)] # "none"
        /\ \A i \in 1..Handlers : last[Handler(i)] # "none"

\* What async_test_tearDown raises is complete and no more than the truth: every
\* cleanup whose last run failed or was abandoned is in it, a cleanup that
\* succeeded in the end is not (but a retry that succeeds while a cancellation
\* arrives does not count), and a consumed CancelledError is raised again.
NothingLost ==
    stage = "done" =>
        /\ \A j \in Jobs : last[j] \in {"error", "timeout"} => j \in errors
        /\ \A j \in Jobs : j \in errors /\ cancels = 0 => last[j] # "ok"
        /\ cancels > 0 \/ (\E j \in Jobs : last[j] = "cancelled") =>
               cancellation # {}

\* A cleanup runs a second time only when its first run failed: one that
\* succeeded is not repeated, and one that was abandoned, and may still be
\* running, gets no second copy.
RerunsOnlyFailed ==
    [][\A j \in Jobs : runs'[j] > runs[j] /\ runs[j] > 0 => last[j] = "error"]_vars

\* A cancelled teardown ends, even when no cleanup ever does.
CancelledTeardownEnds == cancels > 0 ~> stage = "done"

=============================================================================
