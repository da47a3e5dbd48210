------------------------------ MODULE TestCase ------------------------------
(***************************************************************************)
(* Test cases of a TaacRunner (src/taac/libs/taac_runner.py): run_tests,   *)
(* run_test_case, async_test_case_setUp, async_test_case_tearDown and      *)
(* _run_test_case_fallback_cleanup.                                        *)
(*                                                                         *)
(* A test case acquires a topology baseline, traffic, its handlers, a      *)
(* periodic executor and rsyslog configuration, runs its stages, and gives *)
(* everything back: in the teardown when the stages were reached, in the   *)
(* fallback cleanup otherwise.  Every await may raise, or may be where a   *)
(* cancellation arrives; the synchronous code between two awaits is one    *)
(* step.  The baseline is what BaselineLifecycle promises about it and the *)
(* periodic workers what PeriodicTaskExecutor promises.                    *)
(***************************************************************************)
EXTENDS Naturals, Sequences

CONSTANTS
    Calls,         \* the run_tests calls, each a sequence of playbooks to run
    WithBaseline,  \* playbooks with restore_topology_baseline
    WithPeriodic,  \* playbooks with periodic tasks
    Handlers,      \* how many custom test handlers there are
    Iterations,    \* iterations of every playbook
    Syslog,        \* {"rsyslog"}, or {} with skip_fboss_rsyslog
    MaxCancels     \* bound: CancelledErrors delivered

Playbooks == UNION {{Calls[c][k] : k \in DOMAIN Calls[c]} : c \in DOMAIN Calls}

ASSUME CallsAssumption ==
    /\ Calls \in Seq(Seq(Playbooks))
    /\ Calls # <<>>
    /\ \A c \in DOMAIN Calls : Calls[c] # <<>>
ASSUME CountsAssumption ==
    /\ Handlers \in Nat /\ Iterations \in Nat \ {0} /\ MaxCancels \in Nat
    /\ Syslog \subseteq {"rsyslog"}

VARIABLES
    pc,
    call, pos, iter,  \* the run_tests call, its playbook and the iteration
    baseline,         \* the topology frame: "none" or "open"
    health,           \* is_healthy of the lifecycle: "healthy" or "poisoned"
    context,          \* _topology_baseline_context: "none" or "set"
    captureFailed,    \* _topology_baseline_capture_failed: "no" or "yes"
    traffic,          \* "begun" from begin_test_case to the call of end_test_case
    executor,         \* test_case_periodic_task_executor: "none" or "owned"
    workers,          \* periodic workers: "running", and "stuck" ones a stop left
    up,               \* handlers whose setUp returned and whose tearDown has not
    pending,          \* _test_case_handlers_pending_cleanup
    queue,            \* the list that _run_post_periodic_test_case_cleanup took
    cleanupPending,   \* _test_case_cleanup_pending: "no" or "yes"
    syslogs,          \* rsyslog on the devices: "off", "on", or "partial"
    created,          \* _test_case_rsyslog_created, as a subset of Syslog
    stageExc,         \* _stage_exc
    errs,             \* errors collected by the teardown or by the fallback
    raised,           \* how the test case ends: "none" or the exception's kind
    trouble,          \* everything that went wrong in the test case; history
    cancels

caseVars == <<call, pos, iter>>
baselineVars == <<baseline, health, context, captureFailed>>
periodicVars == <<executor, workers>>
handlerVars == <<up, pending, queue, cleanupPending>>
syslogVars == <<syslogs, created>>
verdictVars == <<stageExc, errs, raised, trouble, cancels>>
held == <<baselineVars, traffic, periodicVars, handlerVars, syslogVars>>
vars == <<pc, caseVars, held, verdictVars>>

\* A TestbedError ("infra") is told apart from every other Exception ("failure").
Errors == {"failure", "infra"}

Playbook == Calls[call][pos]

Raise(kind, next) ==
    /\ pc' = next
    /\ raised' = kind
    /\ errs' = {}
    /\ trouble' = trouble \cup {kind}
    /\ UNCHANGED stageExc

\* An exception leaves the body of run_test_case; only an Exception is caught
\* (and investigated) before the finally block runs the fallback cleanup.
Escape(kind) == Raise(kind, IF kind \in Errors THEN "investigate" ELSE "fallback")

\* A CancelledError at an await.
CancelledTo(next) ==
    /\ cancels < MaxCancels
    /\ cancels' = cancels + 1
    /\ Raise("cancelled", next)

Cancelled == CancelledTo("fallback")

\* The await fails: the exception escapes.
Breaks == Cancelled \/ \E kind \in Errors : Escape(kind) /\ UNCHANGED cancels

GoOn(next) == pc' = next /\ UNCHANGED verdictVars

\* The teardown and the fallback collect errors and go on.
Collect(new, next) ==
    /\ pc' = next
    /\ errs' = errs \cup new
    /\ trouble' = trouble \cup new
    /\ UNCHANGED <<stageExc, raised, cancels>>

SomeError(next) == \E kind \in Errors : Collect({kind}, next)

(***************************************************************************)
(* _capture_topology_baseline                                              *)
(***************************************************************************)

\* _baseline_participants_for: none without restore_topology_baseline.  With it,
\* a traffic generator that cannot save its config is a TestCaseFailure.
HasParticipants == Playbook \in WithBaseline

Begin ==
    /\ pc = "begin"
    /\ captureFailed' = "no"
    /\ \/ /\ ~HasParticipants
          /\ context' = "none"
          /\ GoOn("ixia")
       \/ /\ HasParticipants
          /\ \/ context' = "set" /\ GoOn("capture")
             \/ context' = "none" /\ Escape("failure") /\ UNCHANGED cancels
    /\ UNCHANGED <<caseVars, baseline, health, traffic, periodicVars,
                   handlerVars, syslogVars>>

\* The lifecycle accepts a topology frame.
Accepts == baseline = "none" /\ health = "healthy"

Captured ==
    /\ pc = "capture"
    /\ Accepts
    /\ baseline' = "open"
    /\ GoOn("ixia")
    /\ UNCHANGED <<caseVars, health, context, captureFailed, traffic,
                   periodicVars, handlerVars, syslogVars>>

\* Mutant: a capture that times out is logged and the playbook runs without it.
MutantCaptureOptional ==
    /\ pc = "capture"
    /\ GoOn("ixia")
    /\ context' = "none"
    /\ captureFailed' = "yes"
    /\ UNCHANGED <<caseVars, baseline, health, traffic, periodicVars, handlerVars,
                   syslogVars>>

\* capture() raises: what was captured is rolled back, and the lifecycle is
\* poisoned when that fails.  A timeout is reported as an infrastructure error.
CaptureFails ==
    /\ pc = "capture"
    /\ health' \in IF Accepts THEN {health, "poisoned"} ELSE {health}
    /\ \/ Breaks /\ UNCHANGED <<context, captureFailed>>
       \/ /\ Accepts
          /\ Escape("infra")
          /\ context' = "none"
          /\ captureFailed' = "yes"
          /\ UNCHANGED cancels
    /\ UNCHANGED <<caseVars, baseline, traffic, periodicVars, handlerVars,
                   syslogVars>>

(***************************************************************************)
(* async_test_case_setUp                                                   *)
(***************************************************************************)

\* begin_test_case and the sleep that follows it; only then is a cleanup due.
IxiaBegins ==
    /\ pc = "ixia"
    /\ traffic' = "begun"
    /\ cleanupPending' = "yes"
    /\ pending' = {}
    /\ created' = {}
    /\ GoOn("handlers")
    /\ UNCHANGED <<caseVars, baselineVars, periodicVars, up, queue, syslogs>>

\* Configuring or begin_test_case raises, or the sleep is cancelled.
IxiaFails ==
    /\ pc = "ixia"
    /\ \/ traffic' = "begun" /\ Breaks
       \/ traffic' = traffic /\ Escape("failure") /\ UNCHANGED cancels
    /\ UNCHANGED <<caseVars, baselineVars, periodicVars, handlerVars, syslogVars>>

NextHandler == CHOOSE h \in 1..Handlers :
                  h \notin pending /\ \A g \in 1..(h - 1) : g \in pending

HandlerSetUp ==
    /\ pc = "handlers"
    /\ pending # 1..Handlers
    /\ \/ /\ up' = up \cup {NextHandler}
          /\ pending' = pending \cup {NextHandler}
          /\ GoOn("handlers")
       \/ Breaks /\ UNCHANGED <<up, pending>>
    /\ UNCHANGED <<caseVars, baselineVars, traffic, periodicVars, queue,
                   cleanupPending, syslogVars>>

\* Mutant: the field is assigned after create_periodic_tasks has returned.
MutantOwnedTooLate ==
    /\ pc = "handlers"
    /\ pending = 1..Handlers
    /\ workers' = workers \cup {"running"}
    /\ \/ executor' = "owned" /\ GoOn("syslog")
       \/ UNCHANGED <<executor, cancels>> /\ Escape("failure")
    /\ UNCHANGED <<caseVars, baselineVars, traffic, handlerVars, syslogVars>>

\* _start_test_case_periodic_tasks: the field is assigned before the workers
\* are created, so workers of a creation that fails have an owner.
StartPeriodic ==
    /\ pc = "handlers"
    /\ pending = 1..Handlers
    /\ \/ /\ executor = "none"
          /\ Playbook \notin WithPeriodic
          /\ GoOn("syslog")
          /\ UNCHANGED periodicVars
       \/ /\ executor = "none"
          /\ Playbook \in WithPeriodic
          /\ executor' = "owned"
          /\ \/ workers' = workers \cup {"running"} /\ GoOn("syslog")
             \/ /\ workers' \in {workers, workers \cup {"running"}}
                /\ Escape("failure")
                /\ UNCHANGED cancels
       \/ /\ executor = "owned" \/ Playbook \in WithPeriodic
          /\ Escape("failure")
          /\ UNCHANGED <<periodicVars, cancels>>
    /\ UNCHANGED <<caseVars, baselineVars, traffic, handlerVars, syslogVars>>

\* rsyslog is configured on all devices at once: some may be done when one fails.
CreateSyslog ==
    /\ pc = "syslog"
    /\ \/ /\ syslogs' = IF Syslog = {} THEN syslogs ELSE "on"
          /\ created' = created \cup Syslog
          /\ GoOn("prepare")
       \/ /\ Syslog # {}
          /\ syslogs' \in {syslogs, "partial"}
          /\ Breaks
          /\ UNCHANGED created
    /\ UNCHANGED <<caseVars, baselineVars, traffic, periodicVars, handlerVars>>

(***************************************************************************)
(* The body of run_test_case                                               *)
(***************************************************************************)

\* The setup steps and the snapshot checks before the stages: what they raise
\* passes by the finally block of the stages.
Prepare ==
    /\ pc = "prepare"
    /\ GoOn("stages") \/ Breaks
    /\ UNCHANGED <<caseVars, held>>

StagesEnd ==
    /\ pc = "stages"
    /\ pc' = "cleanup"
    /\ \/ /\ stageExc' = "none"
          /\ UNCHANGED <<errs, raised, trouble, cancels>>
       \/ \E kind \in Errors \cup {"cancelled"} :
            /\ stageExc' = kind
            /\ trouble' = trouble \cup {kind}
            /\ kind = "cancelled" => cancels < MaxCancels
            /\ cancels' = IF kind = "cancelled" THEN cancels + 1 ELSE cancels
            /\ UNCHANGED <<errs, raised>>
    /\ UNCHANGED <<caseVars, held>>

\* The finally block: snapshot checks, cleanup steps and the result tables. What
\* they raise takes the place of the stages' exception and skips the teardown.
CleanupSteps ==
    /\ pc = "cleanup"
    /\ GoOn("stop") \/ Breaks
    /\ UNCHANGED <<caseVars, held>>

(***************************************************************************)
(* async_test_case_tearDown                                                *)
(***************************************************************************)

\* stop_all_periodic_tasks raised: some thread did not end in time.
StuckWorkers == (workers \ {"running"}) \cup {"stuck"}

\* Mutant: a thread that did not end is only logged.
MutantStuckIgnored ==
    LET next == IF executor = "owned" THEN "finalize" ELSE "results"
    IN  /\ pc = "stop"
        /\ executor' = "none"
        /\ workers' = StuckWorkers
        /\ GoOn(next)
        /\ UNCHANGED <<caseVars, baselineVars, traffic, handlerVars, syslogVars>>

\* Up to its first await: the workers are stopped, the traffic is ended unless a
\* thread is stuck or the snapshot before it raises, and the executor is detached.
StopAndEndTraffic ==
    LET next == IF executor = "owned" THEN "finalize" ELSE "results"
    IN  /\ pc = "stop"
        /\ executor' = "none"
        /\ \/ /\ executor = "owned"
              /\ workers' = StuckWorkers
              /\ Collect({"failure"}, next)
              /\ UNCHANGED traffic
           \/ /\ workers' = workers \ {"running"}
              /\ \/ traffic' = "idle" /\ GoOn(next)
                 \/ traffic' \in {traffic, "idle"} /\ SomeError(next)
        /\ UNCHANGED <<caseVars, baselineVars, handlerVars, syslogVars>>

\* The checks of the detached executor and its teardown.
FinalizePeriodic ==
    /\ pc = "finalize"
    /\ GoOn("results") \/ SomeError("results") \/ Cancelled
    /\ UNCHANGED <<caseVars, held>>

\* Mutant: the topology is restored before the handlers are torn down.
MutantRestoresEarly ==
    /\ pc = "results"
    /\ GoOn("topology")
    /\ UNCHANGED <<caseVars, held>>

\* The verdict of the health checks.  An error of the evidence collection ends
\* the teardown, is raised in place of the errors collected so far, and leaves
\* the rest of the cleanup to the fallback.
Results ==
    /\ pc = "results"
    /\ \/ /\ cleanupPending' = "no"
          /\ queue' = pending
          /\ pending' = {}
          /\ GoOn("tearDown") \/ Collect({"failure"}, "tearDown")
       \/ /\ \E kind \in Errors :
               /\ pc' = "combine"
               /\ errs' = {kind}
               /\ trouble' = trouble \cup {kind}
          /\ UNCHANGED <<stageExc, raised, cancels, queue, pending, cleanupPending>>
       \/ Cancelled /\ UNCHANGED <<queue, pending, cleanupPending>>
    /\ UNCHANGED <<caseVars, baselineVars, traffic, periodicVars, up, syslogVars>>

\* _run_post_periodic_test_case_cleanup, for the teardown and for the fallback.
InCleanup == pc \in {"tearDown", "fallbackTearDown"}

\* A cancellation: the rest of the list is forgotten.
CleanupCancelled ==
    /\ CancelledTo(IF pc = "tearDown" THEN "fallback" ELSE "publish")
    /\ queue' = {}

TearDownHandler ==
    /\ InCleanup
    /\ \E h \in queue :
         /\ \A g \in queue : h <= g
         /\ \/ /\ GoOn(pc) \/ SomeError(pc)
               /\ up' = up \ {h}
               /\ queue' = queue \ {h}
            \/ CleanupCancelled /\ UNCHANGED up
    /\ UNCHANGED <<caseVars, baselineVars, traffic, periodicVars, pending,
                   cleanupPending, syslogVars>>

AfterCleanup == IF pc = "tearDown" THEN "topology" ELSE "restoreAll"

DeleteSyslog ==
    /\ InCleanup
    /\ queue = {}
    /\ created' = {}
    /\ \/ /\ created = {}
          /\ GoOn(AfterCleanup)
          /\ UNCHANGED <<syslogs, queue>>
       \/ /\ created # {}
          /\ \/ syslogs' = "off" /\ GoOn(AfterCleanup) /\ UNCHANGED queue
             \/ syslogs' = "partial" /\ SomeError(AfterCleanup) /\ UNCHANGED queue
             \/ syslogs' \in {syslogs, "partial"} /\ CleanupCancelled
    /\ UNCHANGED <<caseVars, baselineVars, traffic, periodicVars, up, pending,
                   cleanupPending>>

\* _restore_topology_baseline: the frame is popped before it is restored.
RestoreTopology ==
    /\ pc = "topology"
    /\ \/ /\ baseline = "none" \/ context = "none"
          /\ GoOn("combine")
          /\ UNCHANGED <<baseline, health>>
       \/ /\ baseline = "open" /\ context = "set"
          /\ baseline' = "none"
          /\ \/ GoOn("combine") /\ UNCHANGED health
             \/ Collect({"topology"}, "combine") /\ health' = "poisoned"
             \/ Cancelled /\ UNCHANGED health
    /\ UNCHANGED <<caseVars, context, captureFailed, traffic, periodicVars,
                   handlerVars, syslogVars>>

(***************************************************************************)
(* _raise_test_case_teardown_errors and _raise_test_case_cleanup_errors:   *)
(* an infrastructure error of the teardown takes the place of whatever the *)
(* stages raised; a cancelled stage and another teardown error become a    *)
(* BaseExceptionGroup, which no "except Exception" catches.                *)
(***************************************************************************)
CaseError ==
    IF errs = {} THEN stageExc
    ELSE IF errs \cap {"infra", "topology"} # {} THEN "infra"
    ELSE IF stageExc = "cancelled" THEN "group"
    ELSE "failure"

Combine ==
    /\ pc = "combine"
    /\ \/ /\ CaseError # "none"
          /\ Escape(CaseError)
          /\ UNCHANGED <<cancels, iter>>
       \/ /\ CaseError = "none"
          /\ errs' = {}
          /\ IF iter < Iterations
               THEN pc' = "begin" /\ iter' = iter + 1
               ELSE pc' = "fallback" /\ UNCHANGED iter
          /\ UNCHANGED <<stageExc, raised, trouble, cancels>>
    /\ UNCHANGED <<call, pos, held>>

\* Mutant: the error is taken as handled once it has been investigated.
MutantSwallows ==
    /\ pc = "investigate"
    /\ pc' = "fallback"
    /\ raised' = "none"
    /\ UNCHANGED <<caseVars, held, stageExc, errs, trouble, cancels>>

\* The investigation swallows its own errors, but not a cancellation.
Investigate ==
    /\ pc = "investigate"
    /\ GoOn("fallback") \/ Cancelled
    /\ UNCHANGED <<caseVars, held>>

(***************************************************************************)
(* _run_test_case_fallback_cleanup                                         *)
(***************************************************************************)

\* A cancellation that arrives in the fallback abandons the rest of it.
FallbackCancelled == CancelledTo("publish")

\* An executor that the teardown did not detach: it is detached and stopped.
FallbackDetaches ==
    /\ pc = "fallback"
    /\ executor = "owned"
    /\ executor' = "none"
    /\ \/ workers' = workers \ {"running"} /\ GoOn("fallbackFinalize")
       \/ workers' = StuckWorkers /\ Collect({"failure"}, "fallbackFinalize")
    /\ UNCHANGED <<caseVars, baselineVars, traffic, handlerVars, syslogVars>>

FallbackFinalizes ==
    /\ pc = "fallbackFinalize"
    /\ \/ GoOn("fallback")
       \/ SomeError("fallback")
       \/ FallbackCancelled
    /\ UNCHANGED <<caseVars, held>>

\* The handlers and rsyslog, when the teardown did not come to them.
FallbackTakesHandlers ==
    /\ pc = "fallback"
    /\ executor = "none"
    /\ \/ /\ cleanupPending = "yes"
          /\ cleanupPending' = "no"
          /\ queue' = pending
          /\ pending' = {}
          /\ GoOn("fallbackTearDown")
       \/ /\ cleanupPending = "no"
          /\ GoOn("restoreAll")
          /\ UNCHANGED <<queue, pending, cleanupPending>>
    /\ UNCHANGED <<caseVars, baselineVars, traffic, periodicVars, up, syslogVars>>

\* What the fallback makes of its errors: a note on an exception that already
\* propagates uncaught, else an error of its own.
WithFallbackErrors(new) ==
    IF raised \in {"cancelled", "group"} \/ errs \cup new = {} THEN raised
    ELSE IF "topology" \in new THEN "infra" ELSE "failure"

\* Mutant: the fallback cleanup forgets restore_all().
MutantKeepsFrame ==
    /\ pc = "restoreAll"
    /\ pc' = "publish"
    /\ raised' = WithFallbackErrors({})
    /\ errs' = {}
    /\ UNCHANGED <<caseVars, held, stageExc, trouble, cancels>>

RestoreAll ==
    /\ pc = "restoreAll"
    /\ baseline' = "none"
    /\ \/ \E new \in {{}, {"topology"}} :
            /\ baseline = "none" => new = {}
            /\ health' = IF new = {} THEN health ELSE "poisoned"
            /\ pc' = "publish"
            /\ raised' = WithFallbackErrors(new)
            /\ errs' = {}
            /\ trouble' = trouble \cup new
            /\ UNCHANGED <<stageExc, cancels>>
       \/ baseline = "open" /\ FallbackCancelled /\ UNCHANGED health
    /\ UNCHANGED <<caseVars, context, captureFailed, traffic, periodicVars,
                   handlerVars, syslogVars>>

\* The result is recorded and published, and the exception goes to run_tests.
Publish ==
    /\ pc = "publish"
    /\ GoOn("next") \/ CancelledTo("next")
    /\ UNCHANGED <<caseVars, held>>

(***************************************************************************)
(* run_tests and its caller                                                *)
(***************************************************************************)

Start(c, p) ==
    /\ call' = c /\ pos' = p /\ iter' = 1
    /\ pc' = "begin"
    /\ stageExc' = "none" /\ raised' = "none"
    /\ errs' = {} /\ trouble' = {}
    /\ UNCHANGED <<cancels, held>>

\* The run_tests call returns or raises; its caller makes the next one.
EndCall ==
    IF call < Len(Calls) THEN Start(call + 1, 1)
    ELSE pc' = "done" /\ UNCHANGED <<caseVars, held, verdictVars>>

\* Mutant: only a failed capture stops the test config.
MutantTrustsRestore == captureFailed = "yes"

\* After an Exception run_tests goes on only when the topology is known to be safe.
Unsafe == captureFailed = "yes" \/ health = "poisoned"

NextPlaybook ==
    /\ pc = "next"
    /\ raised \in {"none"} \cup Errors
    /\ raised = "none" \/ ~Unsafe
    /\ IF pos < Len(Calls[call]) THEN Start(call, pos + 1) ELSE EndCall

StopCall ==
    /\ pc = "next"
    /\ raised = "group" \/ (raised \in Errors /\ Unsafe)
    /\ EndCall

CancelRun ==
    /\ pc = "next"
    /\ raised = "cancelled"
    /\ pc' = "done"
    /\ UNCHANGED <<caseVars, held, verdictVars>>

Finished == pc = "done" /\ UNCHANGED vars

Init ==
    /\ pc = "begin"
    /\ call = 1 /\ pos = 1 /\ iter = 1
    /\ baseline = "none" /\ health = "healthy" /\ context = "none"
    /\ captureFailed = "no"
    /\ traffic = "idle"
    /\ executor = "none" /\ workers = {}
    /\ up = {} /\ pending = {} /\ queue = {} /\ cleanupPending = "no"
    /\ syslogs = "off" /\ created = {}
    /\ stageExc = "none" /\ errs = {} /\ raised = "none" /\ trouble = {}
    /\ cancels = 0

SetUp == Begin \/ Captured \/ CaptureFails \/ IxiaBegins \/ IxiaFails
           \/ HandlerSetUp \/ StartPeriodic \/ CreateSyslog
Body == Prepare \/ StagesEnd \/ CleanupSteps
TearDown == StopAndEndTraffic \/ FinalizePeriodic \/ Results
              \/ TearDownHandler \/ DeleteSyslog \/ RestoreTopology \/ Combine
Fallback == Investigate \/ FallbackDetaches \/ FallbackFinalizes
              \/ FallbackTakesHandlers \/ RestoreAll \/ Publish
RunTests == NextPlaybook \/ StopCall \/ CancelRun \/ Finished

Next == SetUp \/ Body \/ TearDown \/ Fallback \/ RunTests

Spec == Init /\ [][Next]_vars

(***************************************************************************)
(* Properties                                                              *)
(***************************************************************************)

PCs == {"begin", "capture", "ixia", "handlers", "syslog", "prepare", "stages",
        "cleanup", "stop", "finalize", "results", "tearDown", "topology",
        "combine", "investigate", "fallback", "fallbackFinalize",
        "fallbackTearDown", "restoreAll", "publish", "next", "done"}
Kinds == Errors \cup {"cancelled", "group", "topology"}

\* The variables have these shapes; the playbook run is always one of the
\* call's (the loops of run_tests and run_test_case).
TypeOK ==
    /\ pc \in PCs
    /\ call \in DOMAIN Calls /\ pos \in DOMAIN Calls[call] /\ iter \in 1..Iterations
    /\ baseline \in {"none", "open"} /\ health \in {"healthy", "poisoned"}
    /\ context \in {"none", "set"} /\ captureFailed \in {"no", "yes"}
    /\ traffic \in {"idle", "begun"}
    /\ executor \in {"none", "owned"} /\ workers \subseteq {"running", "stuck"}
    /\ up \subseteq 1..Handlers /\ pending \subseteq 1..Handlers
    /\ queue \subseteq 1..Handlers /\ cleanupPending \in {"no", "yes"}
    /\ syslogs \in {"off", "on", "partial"} /\ created \subseteq Syslog
    /\ stageExc \in {"none", "cancelled"} \cup Errors
    /\ raised \in {"none", "cancelled", "group"} \cup Errors
    /\ errs \subseteq Kinds /\ trouble \subseteq Kinds
    /\ cancels \in 0..MaxCancels

\* Whatever failed or was cancelled before, a test case (and each iteration)
\* starts with nothing left of its predecessor: the teardown and the fallback
\* of run_test_case share out the cleanup without a gap.  So the RuntimeError
\* of _start_test_case_periodic_tasks is never raised.
CleanStart ==
    pc = "begin" \/ (pc = "done" /\ raised # "cancelled") =>
      /\ executor = "none" /\ "running" \notin workers
      /\ up = {} /\ pending = {} /\ queue = {} /\ cleanupPending = "no"
      /\ syslogs # "on" /\ baseline = "none"

\* The teardown and the fallback share out what the test case acquired. Periodic
\* workers run only while the runner owns their executor, and it owns none when a
\* test case is over, however the fallback was interrupted; a handler is torn down
\* only after its setUp, and once (_test_case_handlers_pending_cleanup).
OwnedOnce ==
    /\ "running" \in workers => executor = "owned"
    /\ pc \in {"publish", "next", "done"} => executor = "none"
    /\ pending \cup queue \subseteq up

\* The stages of a playbook with restore_topology_baseline run only between the
\* capture of the baseline and its restoration (_capture_topology_baseline).
StagesCovered ==
    pc \in {"prepare", "stages", "cleanup"} /\ Playbook \in WithBaseline =>
      baseline = "open" /\ context = "set"

\* run_test_case raises exactly when something went wrong in the test case: no
\* error is lost between the stages, the teardown, the fallback and a
\* cancellation. A failed topology restoration is never reported as an ordinary
\* failure of the playbook, whatever else failed (_raise_test_case_teardown_errors).
VerdictKept ==
    pc = "next" =>
      /\ raised = "none" <=> trouble = {}
      /\ "topology" \in trouble => raised \notin {"none", "failure"}

\* No playbook is run on a topology that could not be restored: a call whose test
\* case could not restore it starts no other (_ensure_baseline_safe_for_next_playbook),
\* and in later calls capture() refuses the playbooks that ask for a baseline. (The
\* others are run: nothing looks at the lifecycle before them.)
PoisonedStops ==
    [][/\ pc' = "begin" /\ "topology" \in trouble => call' # call
       /\ pc' = "stages" /\ Playbook \in WithBaseline => health = "healthy"]_vars

\* The topology boundary is the outermost one: it is restored once the workers
\* are stopped and, unless a cancellation made the runner forget them, every
\* handler is torn down and rsyslog removed.
RestoredLast ==
    [][baseline = "open" /\ baseline' = "none" =>
         /\ executor = "none" /\ "running" \notin workers
         /\ raised = "cancelled" \/ (up = {} /\ syslogs # "on")]_vars

\* A further iteration starts with the traffic of the one before ended, although
\* the teardown does not end it while a stuck worker may still use the traffic
\* generator, nor when the snapshot before it raises (_end_ixia_test_case_safely).
TrafficEnded == pc = "begin" /\ iter > 1 => traffic = "idle"
=============================================================================
