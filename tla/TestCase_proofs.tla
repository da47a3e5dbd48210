-------------------------- MODULE TestCase_proofs --------------------------
(***************************************************************************)
(* Proofs about the test case lifecycle.  The inductive invariant says,    *)
(* for each resource, at which points of run_test_case it may be held and  *)
(* which flag or list of the runner then stands for it.                    *)
(***************************************************************************)
EXTENDS TestCase, TLAPS, WellFoundedInduction

\* Where the runner may own an executor.
Acquired == {"syslog", "prepare", "stages", "cleanup", "stop", "investigate",
             "fallback"}

\* From the finally block of run_test_case on.
Ending == {"fallback", "fallbackFinalize", "fallbackTearDown", "restoreAll",
           "publish", "next", "done"}

\* From the end of begin_test_case to the teardown of the handlers, which the
\* flag _test_case_cleanup_pending covers.
CleanupDue == {"handlers", "syslog", "prepare", "stages", "cleanup", "stop",
               "finalize", "results"}

\* Where the flag may be set.
Cleaning == CleanupDue \cup {"combine", "investigate", "fallback",
                             "fallbackFinalize"}

\* Periodic workers have an owner, and only between their start and the stop.
ExecInv ==
    /\ executor \in {"none", "owned"}
    /\ "running" \in workers => executor = "owned"
    /\ executor = "owned" => pc \in Acquired

\* A cancelled test case only ends.
CancelInv == raised = "cancelled" => pc \in Ending

\* Every handler that is up is on one of the two lists, unless a cancellation
\* forgot it, and the flag says whether the pending list still counts.
HandlerInv ==
    /\ cleanupPending \in {"no", "yes"}
    /\ pending \subseteq up /\ queue \subseteq up
    /\ up \subseteq pending \cup queue \/ raised = "cancelled"
    /\ queue # {} => pc \in {"tearDown", "fallbackTearDown"}
    /\ pc \in {"tearDown", "fallbackTearDown"} => cleanupPending = "no"
    /\ cleanupPending = "no" => pending = {}
    /\ pc \in CleanupDue => cleanupPending = "yes"
    /\ cleanupPending = "yes" => pc \in Cleaning \/ raised = "cancelled"
    /\ pc = "combine" /\ cleanupPending = "yes" => errs # {}

\* rsyslog that was configured is deleted later, unless a cancellation forgot it.
SyslogInv ==
    /\ syslogs = "on" => created # {} \/ raised = "cancelled"
    /\ created # {} => \/ cleanupPending = "yes"
                       \/ pc \in {"tearDown", "fallbackTearDown"}
                       \/ raised = "cancelled"

\* The topology frame is open only within a test case, and its context is known.
FrameInv ==
    /\ baseline \in {"none", "open"}
    /\ baseline = "open" => context = "set"
    /\ baseline = "open" => \/ pc \notin {"begin", "capture", "publish", "next", "done"}
                            \/ raised = "cancelled"
    /\ pc = "combine" /\ cleanupPending = "no" => baseline # "open"
    /\ pc = "capture" => context = "set"
    /\ pc \in {"ixia", "handlers", "syslog", "prepare", "stages", "cleanup"}
         /\ Playbook \in WithBaseline => baseline = "open"

\* What went wrong is in the exception of the stages or among the errors
\* collected, and in the fallback in the exception raised or among its errors.
VerdictInv ==
    /\ pc \in {"begin", "capture", "ixia", "handlers", "syslog", "prepare", "stages"} =>
         trouble = {} /\ errs = {} /\ raised = "none" /\ stageExc = "none"
    /\ pc \in {"cleanup", "stop", "finalize", "results", "tearDown", "topology",
               "combine"} =>
         /\ raised = "none"
         /\ trouble = {} <=> errs = {} /\ stageExc = "none"
    /\ pc = "investigate" => raised # "none" /\ trouble # {}
    /\ pc \in {"fallback", "fallbackFinalize", "fallbackTearDown", "restoreAll"} =>
         (trouble = {} <=> errs = {} /\ raised = "none")
    /\ pc \in {"publish", "next"} => (trouble = {} <=> raised = "none")

\* A failed topology restoration is known from the moment it happens: by then the
\* fallback has nothing left to do whose errors could hide it.
TopologyInv ==
    /\ stageExc # "topology"
    /\ "topology" \in trouble =>
         \/ /\ pc = "combine"
            /\ "topology" \in errs /\ cleanupPending = "no"
         \/ /\ pc \in {"investigate", "fallback", "restoreAll"}
            /\ raised \in {"infra", "cancelled", "group"}
            /\ errs = {} /\ cleanupPending = "no" /\ executor = "none"
         \/ /\ pc \in {"publish", "next", "done"}
            /\ raised \in {"infra", "cancelled", "group"}

\* After a failed restoration the lifecycle is poisoned, and with a frame open it is
\* healthy.
PoisonInv ==
    /\ call \in Nat
    /\ "topology" \in trouble => health = "poisoned"
    /\ baseline = "open" => health = "healthy"

\* Traffic is left on only with an error collected, which forbids another iteration.
TrafficInv ==
    /\ pc \in {"finalize", "results", "tearDown", "topology", "combine"} =>
         traffic = "idle" \/ errs # {}
    /\ pc = "begin" => traffic = "idle" \/ iter = 1

\* Every step keeps the workers owned.
LEMMA ExecStep ==
    ExecInv /\ [Next]_vars => ExecInv'
<1> SUFFICES ASSUME ExecInv, [Next]_vars PROVE ExecInv'
    OBVIOUS
<1> USE DEF ExecInv, Acquired, Ending, Cleaning, CleanupDue, Errors, held,
            caseVars, baselineVars, periodicVars, handlerVars, syslogVars,
            verdictVars, GoOn, Collect, SomeError, Breaks, Cancelled,
            CancelledTo, Escape, Raise
<1>1. CASE Begin
  BY <1>1 DEF Begin, HasParticipants
<1>2. CASE Captured
  BY <1>2 DEF Captured, Accepts
<1>3. CASE CaptureFails
  BY <1>3 DEF CaptureFails, Accepts
<1>4. CASE IxiaBegins
  BY <1>4 DEF IxiaBegins
<1>5. CASE IxiaFails
  BY <1>5 DEF IxiaFails
<1>6. CASE HandlerSetUp
  BY <1>6 DEF HandlerSetUp
<1>7. CASE StartPeriodic
  BY <1>7 DEF StartPeriodic
<1>8. CASE CreateSyslog
  BY <1>8 DEF CreateSyslog
<1>9. CASE Prepare
  BY <1>9 DEF Prepare
<1>10. CASE StagesEnd
  BY <1>10 DEF StagesEnd
<1>11. CASE CleanupSteps
  BY <1>11 DEF CleanupSteps
<1>12. CASE StopAndEndTraffic
  BY <1>12 DEF StopAndEndTraffic, StuckWorkers
<1>13. CASE FinalizePeriodic
  BY <1>13 DEF FinalizePeriodic
<1>14. CASE Results
  BY <1>14 DEF Results
<1>15. CASE TearDownHandler
  BY <1>15 DEF TearDownHandler, InCleanup, CleanupCancelled
<1>16. CASE DeleteSyslog
  BY <1>16 DEF DeleteSyslog, InCleanup, CleanupCancelled, AfterCleanup
<1>17. CASE RestoreTopology
  BY <1>17 DEF RestoreTopology
<1>18. CASE Combine
  BY <1>18 DEF Combine, CaseError
<1>19. CASE Investigate
  BY <1>19 DEF Investigate
<1>20. CASE FallbackDetaches
  BY <1>20 DEF FallbackDetaches, StuckWorkers
<1>21. CASE FallbackFinalizes
  BY <1>21 DEF FallbackFinalizes, FallbackCancelled
<1>22. CASE FallbackTakesHandlers
  BY <1>22 DEF FallbackTakesHandlers
<1>23. CASE RestoreAll
  BY <1>23 DEF RestoreAll, WithFallbackErrors, FallbackCancelled
<1>24. CASE Publish
  BY <1>24 DEF Publish
<1>25. CASE NextPlaybook
  BY <1>25 DEF NextPlaybook, Start, EndCall
<1>26. CASE StopCall
  BY <1>26 DEF StopCall, Start, EndCall
<1>27. CASE CancelRun
  BY <1>27 DEF CancelRun
<1>28. CASE Finished
  BY <1>28 DEF Finished, vars
<1>29. CASE UNCHANGED vars
  BY <1>29 DEF vars, caseVars
<1>. QED
  BY <1>1, <1>2, <1>3, <1>4, <1>5, <1>6, <1>7, <1>8, <1>9, <1>10, <1>11, <1>12,
     <1>13, <1>14, <1>15, <1>16, <1>17, <1>18, <1>19, <1>20, <1>21, <1>22,
     <1>23, <1>24, <1>25, <1>26, <1>27, <1>28, <1>29
  DEF Next, SetUp, Body, TearDown, Fallback, RunTests

\* No step goes back from a cancellation.
LEMMA CancelStep ==
    CancelInv /\ [Next]_vars => CancelInv'
<1> SUFFICES ASSUME CancelInv, [Next]_vars PROVE CancelInv'
    OBVIOUS
<1> USE DEF CancelInv, Acquired, Ending, Cleaning, CleanupDue, Errors, held,
            caseVars, baselineVars, periodicVars, handlerVars, syslogVars,
            verdictVars, GoOn, Collect, SomeError, Breaks, Cancelled,
            CancelledTo, Escape, Raise
<1>1. CASE Begin
  BY <1>1 DEF Begin, HasParticipants
<1>2. CASE Captured
  BY <1>2 DEF Captured, Accepts
<1>3. CASE CaptureFails
  BY <1>3 DEF CaptureFails, Accepts
<1>4. CASE IxiaBegins
  BY <1>4 DEF IxiaBegins
<1>5. CASE IxiaFails
  BY <1>5 DEF IxiaFails
<1>6. CASE HandlerSetUp
  BY <1>6 DEF HandlerSetUp
<1>7. CASE StartPeriodic
  BY <1>7 DEF StartPeriodic
<1>8. CASE CreateSyslog
  BY <1>8 DEF CreateSyslog
<1>9. CASE Prepare
  BY <1>9 DEF Prepare
<1>10. CASE StagesEnd
  BY <1>10 DEF StagesEnd
<1>11. CASE CleanupSteps
  BY <1>11 DEF CleanupSteps
<1>12. CASE StopAndEndTraffic
  BY <1>12 DEF StopAndEndTraffic, StuckWorkers
<1>13. CASE FinalizePeriodic
  BY <1>13 DEF FinalizePeriodic
<1>14. CASE Results
  BY <1>14 DEF Results
<1>15. CASE TearDownHandler
  BY <1>15 DEF TearDownHandler, InCleanup, CleanupCancelled
<1>16. CASE DeleteSyslog
  BY <1>16 DEF DeleteSyslog, InCleanup, CleanupCancelled, AfterCleanup
<1>17. CASE RestoreTopology
  BY <1>17 DEF RestoreTopology
<1>18. CASE Combine
  BY <1>18 DEF Combine, CaseError
<1>19. CASE Investigate
  BY <1>19 DEF Investigate
<1>20. CASE FallbackDetaches
  BY <1>20 DEF FallbackDetaches, StuckWorkers
<1>21. CASE FallbackFinalizes
  BY <1>21 DEF FallbackFinalizes, FallbackCancelled
<1>22. CASE FallbackTakesHandlers
  BY <1>22 DEF FallbackTakesHandlers
<1>23. CASE RestoreAll
  BY <1>23 DEF RestoreAll, WithFallbackErrors, FallbackCancelled
<1>24. CASE Publish
  BY <1>24 DEF Publish
<1>25. CASE NextPlaybook
  BY <1>25 DEF NextPlaybook, Start, EndCall
<1>26. CASE StopCall
  BY <1>26 DEF StopCall, Start, EndCall
<1>27. CASE CancelRun
  BY <1>27 DEF CancelRun
<1>28. CASE Finished
  BY <1>28 DEF Finished, vars
<1>29. CASE UNCHANGED vars
  BY <1>29 DEF vars, caseVars
<1>. QED
  BY <1>1, <1>2, <1>3, <1>4, <1>5, <1>6, <1>7, <1>8, <1>9, <1>10, <1>11, <1>12,
     <1>13, <1>14, <1>15, <1>16, <1>17, <1>18, <1>19, <1>20, <1>21, <1>22,
     <1>23, <1>24, <1>25, <1>26, <1>27, <1>28, <1>29
  DEF Next, SetUp, Body, TearDown, Fallback, RunTests

\* Every step keeps track of the handlers.
LEMMA HandlerStep ==
    HandlerInv /\ CancelInv /\ [Next]_vars => HandlerInv'
<1> SUFFICES ASSUME HandlerInv, CancelInv, [Next]_vars PROVE HandlerInv'
    OBVIOUS
<1> USE DEF HandlerInv, CancelInv, Acquired, Ending, Cleaning, CleanupDue,
            Errors, held, caseVars, baselineVars, periodicVars, handlerVars,
            syslogVars, verdictVars, GoOn, Collect, SomeError, Breaks,
            Cancelled, CancelledTo, Escape, Raise
<1>1. CASE Begin
  BY <1>1 DEF Begin, HasParticipants
<1>2. CASE Captured
  BY <1>2 DEF Captured, Accepts
<1>3. CASE CaptureFails
  BY <1>3 DEF CaptureFails, Accepts
<1>4. CASE IxiaBegins
  BY <1>4 DEF IxiaBegins
<1>5. CASE IxiaFails
  BY <1>5 DEF IxiaFails
<1>6. CASE HandlerSetUp
  BY <1>6 DEF HandlerSetUp
<1>7. CASE StartPeriodic
  BY <1>7 DEF StartPeriodic
<1>8. CASE CreateSyslog
  BY <1>8 DEF CreateSyslog
<1>9. CASE Prepare
  BY <1>9 DEF Prepare
<1>10. CASE StagesEnd
  BY <1>10 DEF StagesEnd
<1>11. CASE CleanupSteps
  BY <1>11 DEF CleanupSteps
<1>12. CASE StopAndEndTraffic
  BY <1>12 DEF StopAndEndTraffic, StuckWorkers
<1>13. CASE FinalizePeriodic
  BY <1>13 DEF FinalizePeriodic
<1>14. CASE Results
  BY <1>14 DEF Results
<1>15. CASE TearDownHandler
  BY <1>15 DEF TearDownHandler, InCleanup, CleanupCancelled
<1>16. CASE DeleteSyslog
  BY <1>16 DEF DeleteSyslog, InCleanup, CleanupCancelled, AfterCleanup
<1>17. CASE RestoreTopology
  BY <1>17 DEF RestoreTopology
<1>18. CASE Combine
  BY <1>18 DEF Combine, CaseError
<1>19. CASE Investigate
  BY <1>19 DEF Investigate
<1>20. CASE FallbackDetaches
  BY <1>20 DEF FallbackDetaches, StuckWorkers
<1>21. CASE FallbackFinalizes
  BY <1>21 DEF FallbackFinalizes, FallbackCancelled
<1>22. CASE FallbackTakesHandlers
  BY <1>22 DEF FallbackTakesHandlers
<1>23. CASE RestoreAll
  BY <1>23 DEF RestoreAll, WithFallbackErrors, FallbackCancelled
<1>24. CASE Publish
  BY <1>24 DEF Publish
<1>25. CASE NextPlaybook
  BY <1>25 DEF NextPlaybook, Start, EndCall
<1>26. CASE StopCall
  BY <1>26 DEF StopCall, Start, EndCall
<1>27. CASE CancelRun
  BY <1>27 DEF CancelRun
<1>28. CASE Finished
  BY <1>28 DEF Finished, vars
<1>29. CASE UNCHANGED vars
  BY <1>29 DEF vars, caseVars
<1>. QED
  BY <1>1, <1>2, <1>3, <1>4, <1>5, <1>6, <1>7, <1>8, <1>9, <1>10, <1>11, <1>12,
     <1>13, <1>14, <1>15, <1>16, <1>17, <1>18, <1>19, <1>20, <1>21, <1>22,
     <1>23, <1>24, <1>25, <1>26, <1>27, <1>28, <1>29
  DEF Next, SetUp, Body, TearDown, Fallback, RunTests

\* Every step keeps track of rsyslog.
LEMMA SyslogStep ==
    SyslogInv /\ CancelInv /\ HandlerInv /\ [Next]_vars => SyslogInv'
<1> SUFFICES ASSUME SyslogInv, CancelInv, HandlerInv, [Next]_vars PROVE SyslogInv'
    OBVIOUS
<1> USE DEF SyslogInv, CancelInv, HandlerInv, Acquired, Ending, Cleaning,
            CleanupDue, Errors, held, caseVars, baselineVars, periodicVars,
            handlerVars, syslogVars, verdictVars, GoOn, Collect, SomeError,
            Breaks, Cancelled, CancelledTo, Escape, Raise
<1>1. CASE Begin
  BY <1>1 DEF Begin, HasParticipants
<1>2. CASE Captured
  BY <1>2 DEF Captured, Accepts
<1>3. CASE CaptureFails
  BY <1>3 DEF CaptureFails, Accepts
<1>4. CASE IxiaBegins
  BY <1>4 DEF IxiaBegins
<1>5. CASE IxiaFails
  BY <1>5 DEF IxiaFails
<1>6. CASE HandlerSetUp
  BY <1>6 DEF HandlerSetUp
<1>7. CASE StartPeriodic
  BY <1>7 DEF StartPeriodic
<1>8. CASE CreateSyslog
  BY <1>8 DEF CreateSyslog
<1>9. CASE Prepare
  BY <1>9 DEF Prepare
<1>10. CASE StagesEnd
  BY <1>10 DEF StagesEnd
<1>11. CASE CleanupSteps
  BY <1>11 DEF CleanupSteps
<1>12. CASE StopAndEndTraffic
  BY <1>12 DEF StopAndEndTraffic, StuckWorkers
<1>13. CASE FinalizePeriodic
  BY <1>13 DEF FinalizePeriodic
<1>14. CASE Results
  BY <1>14 DEF Results
<1>15. CASE TearDownHandler
  BY <1>15 DEF TearDownHandler, InCleanup, CleanupCancelled
<1>16. CASE DeleteSyslog
  BY <1>16 DEF DeleteSyslog, InCleanup, CleanupCancelled, AfterCleanup
<1>17. CASE RestoreTopology
  BY <1>17 DEF RestoreTopology
<1>18. CASE Combine
  BY <1>18 DEF Combine, CaseError
<1>19. CASE Investigate
  BY <1>19 DEF Investigate
<1>20. CASE FallbackDetaches
  BY <1>20 DEF FallbackDetaches, StuckWorkers
<1>21. CASE FallbackFinalizes
  BY <1>21 DEF FallbackFinalizes, FallbackCancelled
<1>22. CASE FallbackTakesHandlers
  BY <1>22 DEF FallbackTakesHandlers
<1>23. CASE RestoreAll
  BY <1>23 DEF RestoreAll, WithFallbackErrors, FallbackCancelled
<1>24. CASE Publish
  BY <1>24 DEF Publish
<1>25. CASE NextPlaybook
  BY <1>25 DEF NextPlaybook, Start, EndCall
<1>26. CASE StopCall
  BY <1>26 DEF StopCall, Start, EndCall
<1>27. CASE CancelRun
  BY <1>27 DEF CancelRun
<1>28. CASE Finished
  BY <1>28 DEF Finished, vars
<1>29. CASE UNCHANGED vars
  BY <1>29 DEF vars, caseVars
<1>. QED
  BY <1>1, <1>2, <1>3, <1>4, <1>5, <1>6, <1>7, <1>8, <1>9, <1>10, <1>11, <1>12,
     <1>13, <1>14, <1>15, <1>16, <1>17, <1>18, <1>19, <1>20, <1>21, <1>22,
     <1>23, <1>24, <1>25, <1>26, <1>27, <1>28, <1>29
  DEF Next, SetUp, Body, TearDown, Fallback, RunTests

\* Every step keeps track of the topology frame.
LEMMA FrameStep ==
    FrameInv /\ CancelInv /\ HandlerInv /\ [Next]_vars => FrameInv'
<1> SUFFICES ASSUME FrameInv, CancelInv, HandlerInv, [Next]_vars PROVE FrameInv'
    OBVIOUS
<1> USE DEF FrameInv, CancelInv, HandlerInv, Playbook, Acquired, Ending,
            Cleaning, CleanupDue, Errors, held, caseVars, baselineVars,
            periodicVars, handlerVars, syslogVars, verdictVars, GoOn, Collect,
            SomeError, Breaks, Cancelled, CancelledTo, Escape, Raise
<1>1. CASE Begin
  BY <1>1 DEF Begin, HasParticipants
<1>2. CASE Captured
  BY <1>2 DEF Captured, Accepts
<1>3. CASE CaptureFails
  BY <1>3 DEF CaptureFails, Accepts
<1>4. CASE IxiaBegins
  BY <1>4 DEF IxiaBegins
<1>5. CASE IxiaFails
  BY <1>5 DEF IxiaFails
<1>6. CASE HandlerSetUp
  BY <1>6 DEF HandlerSetUp
<1>7. CASE StartPeriodic
  BY <1>7 DEF StartPeriodic
<1>8. CASE CreateSyslog
  BY <1>8 DEF CreateSyslog
<1>9. CASE Prepare
  BY <1>9 DEF Prepare
<1>10. CASE StagesEnd
  BY <1>10 DEF StagesEnd
<1>11. CASE CleanupSteps
  BY <1>11 DEF CleanupSteps
<1>12. CASE StopAndEndTraffic
  BY <1>12 DEF StopAndEndTraffic, StuckWorkers
<1>13. CASE FinalizePeriodic
  BY <1>13 DEF FinalizePeriodic
<1>14. CASE Results
  BY <1>14 DEF Results
<1>15. CASE TearDownHandler
  BY <1>15 DEF TearDownHandler, InCleanup, CleanupCancelled
<1>16. CASE DeleteSyslog
  BY <1>16 DEF DeleteSyslog, InCleanup, CleanupCancelled, AfterCleanup
<1>17. CASE RestoreTopology
  BY <1>17 DEF RestoreTopology
<1>18. CASE Combine
  BY <1>18 DEF Combine, CaseError
<1>19. CASE Investigate
  BY <1>19 DEF Investigate
<1>20. CASE FallbackDetaches
  BY <1>20 DEF FallbackDetaches, StuckWorkers
<1>21. CASE FallbackFinalizes
  BY <1>21 DEF FallbackFinalizes, FallbackCancelled
<1>22. CASE FallbackTakesHandlers
  BY <1>22 DEF FallbackTakesHandlers
<1>23. CASE RestoreAll
  BY <1>23 DEF RestoreAll, WithFallbackErrors, FallbackCancelled
<1>24. CASE Publish
  BY <1>24 DEF Publish
<1>25. CASE NextPlaybook
  BY <1>25 DEF NextPlaybook, Start, EndCall
<1>26. CASE StopCall
  BY <1>26 DEF StopCall, Start, EndCall
<1>27. CASE CancelRun
  BY <1>27 DEF CancelRun
<1>28. CASE Finished
  BY <1>28 DEF Finished, vars
<1>29. CASE UNCHANGED vars
  BY <1>29 DEF vars, caseVars
<1>. QED
  BY <1>1, <1>2, <1>3, <1>4, <1>5, <1>6, <1>7, <1>8, <1>9, <1>10, <1>11, <1>12,
     <1>13, <1>14, <1>15, <1>16, <1>17, <1>18, <1>19, <1>20, <1>21, <1>22,
     <1>23, <1>24, <1>25, <1>26, <1>27, <1>28, <1>29
  DEF Next, SetUp, Body, TearDown, Fallback, RunTests

\* Every step keeps track of what went wrong.
LEMMA VerdictStep ==
    VerdictInv /\ [Next]_vars => VerdictInv'
<1> SUFFICES ASSUME VerdictInv, [Next]_vars PROVE VerdictInv'
    OBVIOUS
<1> USE DEF VerdictInv, Acquired, Ending, Cleaning, CleanupDue, Errors, held,
            caseVars, baselineVars, periodicVars, handlerVars, syslogVars,
            verdictVars, GoOn, Collect, SomeError, Breaks, Cancelled,
            CancelledTo, Escape, Raise
<1>1. CASE Begin
  BY <1>1 DEF Begin, HasParticipants
<1>2. CASE Captured
  BY <1>2 DEF Captured, Accepts
<1>3. CASE CaptureFails
  BY <1>3 DEF CaptureFails, Accepts
<1>4. CASE IxiaBegins
  BY <1>4 DEF IxiaBegins
<1>5. CASE IxiaFails
  BY <1>5 DEF IxiaFails
<1>6. CASE HandlerSetUp
  BY <1>6 DEF HandlerSetUp
<1>7. CASE StartPeriodic
  BY <1>7 DEF StartPeriodic
<1>8. CASE CreateSyslog
  BY <1>8 DEF CreateSyslog
<1>9. CASE Prepare
  BY <1>9 DEF Prepare
<1>10. CASE StagesEnd
  BY <1>10 DEF StagesEnd
<1>11. CASE CleanupSteps
  BY <1>11 DEF CleanupSteps
<1>12. CASE StopAndEndTraffic
  BY <1>12 DEF StopAndEndTraffic, StuckWorkers
<1>13. CASE FinalizePeriodic
  BY <1>13 DEF FinalizePeriodic
<1>14. CASE Results
  BY <1>14 DEF Results
<1>15. CASE TearDownHandler
  BY <1>15 DEF TearDownHandler, InCleanup, CleanupCancelled
<1>16. CASE DeleteSyslog
  BY <1>16 DEF DeleteSyslog, InCleanup, CleanupCancelled, AfterCleanup
<1>17. CASE RestoreTopology
  BY <1>17 DEF RestoreTopology
<1>18. CASE Combine
  BY <1>18 DEF Combine, CaseError
<1>19. CASE Investigate
  BY <1>19 DEF Investigate
<1>20. CASE FallbackDetaches
  BY <1>20 DEF FallbackDetaches, StuckWorkers
<1>21. CASE FallbackFinalizes
  BY <1>21 DEF FallbackFinalizes, FallbackCancelled
<1>22. CASE FallbackTakesHandlers
  BY <1>22 DEF FallbackTakesHandlers
<1>23. CASE RestoreAll
  BY <1>23 DEF RestoreAll, WithFallbackErrors, FallbackCancelled
<1>24. CASE Publish
  BY <1>24 DEF Publish
<1>25. CASE NextPlaybook
  BY <1>25 DEF NextPlaybook, Start, EndCall
<1>26. CASE StopCall
  BY <1>26 DEF StopCall, Start, EndCall
<1>27. CASE CancelRun
  BY <1>27 DEF CancelRun
<1>28. CASE Finished
  BY <1>28 DEF Finished, vars
<1>29. CASE UNCHANGED vars
  BY <1>29 DEF vars, caseVars
<1>. QED
  BY <1>1, <1>2, <1>3, <1>4, <1>5, <1>6, <1>7, <1>8, <1>9, <1>10, <1>11, <1>12,
     <1>13, <1>14, <1>15, <1>16, <1>17, <1>18, <1>19, <1>20, <1>21, <1>22,
     <1>23, <1>24, <1>25, <1>26, <1>27, <1>28, <1>29
  DEF Next, SetUp, Body, TearDown, Fallback, RunTests

\* Every step keeps track of a failed restoration.
LEMMA TopologyStep ==
    TopologyInv /\ ExecInv /\ CancelInv /\ HandlerInv /\ [Next]_vars => TopologyInv'
<1> SUFFICES ASSUME TopologyInv, ExecInv, CancelInv, HandlerInv, [Next]_vars
             PROVE  TopologyInv'
    OBVIOUS
<1> USE DEF TopologyInv, ExecInv, CancelInv, HandlerInv, Acquired, Ending,
            Cleaning, CleanupDue, Errors, held, caseVars, baselineVars,
            periodicVars, handlerVars, syslogVars, verdictVars, GoOn, Collect,
            SomeError, Breaks, Cancelled, CancelledTo, Escape, Raise
<1>1. CASE Begin
  BY <1>1 DEF Begin, HasParticipants
<1>2. CASE Captured
  BY <1>2 DEF Captured, Accepts
<1>3. CASE CaptureFails
  BY <1>3 DEF CaptureFails, Accepts
<1>4. CASE IxiaBegins
  BY <1>4 DEF IxiaBegins
<1>5. CASE IxiaFails
  BY <1>5 DEF IxiaFails
<1>6. CASE HandlerSetUp
  BY <1>6 DEF HandlerSetUp
<1>7. CASE StartPeriodic
  BY <1>7 DEF StartPeriodic
<1>8. CASE CreateSyslog
  BY <1>8 DEF CreateSyslog
<1>9. CASE Prepare
  BY <1>9 DEF Prepare
<1>10. CASE StagesEnd
  BY <1>10 DEF StagesEnd
<1>11. CASE CleanupSteps
  BY <1>11 DEF CleanupSteps
<1>12. CASE StopAndEndTraffic
  BY <1>12 DEF StopAndEndTraffic, StuckWorkers
<1>13. CASE FinalizePeriodic
  BY <1>13 DEF FinalizePeriodic
<1>14. CASE Results
  BY <1>14 DEF Results
<1>15. CASE TearDownHandler
  BY <1>15 DEF TearDownHandler, InCleanup, CleanupCancelled
<1>16. CASE DeleteSyslog
  BY <1>16 DEF DeleteSyslog, InCleanup, CleanupCancelled, AfterCleanup
<1>17. CASE RestoreTopology
  BY <1>17 DEF RestoreTopology
<1>18. CASE Combine
  <2>1. "topology" \in errs => CaseError = "infra"
    <3>1. "topology" \in errs => errs # {} /\ errs \cap {"infra", "topology"} # {}
      OBVIOUS
    <3>. QED BY <3>1 DEF CaseError
  <2>2. CaseError # "topology"
    BY DEF CaseError
  <2>. QED BY <1>18, <2>1, <2>2 DEF Combine
<1>19. CASE Investigate
  BY <1>19 DEF Investigate
<1>20. CASE FallbackDetaches
  BY <1>20 DEF FallbackDetaches, StuckWorkers
<1>21. CASE FallbackFinalizes
  BY <1>21 DEF FallbackFinalizes, FallbackCancelled
<1>22. CASE FallbackTakesHandlers
  BY <1>22 DEF FallbackTakesHandlers
<1>23. CASE RestoreAll
  BY <1>23 DEF RestoreAll, WithFallbackErrors, FallbackCancelled
<1>24. CASE Publish
  BY <1>24 DEF Publish
<1>25. CASE NextPlaybook
  BY <1>25 DEF NextPlaybook, Start, EndCall
<1>26. CASE StopCall
  BY <1>26 DEF StopCall, Start, EndCall
<1>27. CASE CancelRun
  BY <1>27 DEF CancelRun
<1>28. CASE Finished
  BY <1>28 DEF Finished, vars
<1>29. CASE UNCHANGED vars
  BY <1>29 DEF vars, caseVars
<1>. QED
  BY <1>1, <1>2, <1>3, <1>4, <1>5, <1>6, <1>7, <1>8, <1>9, <1>10, <1>11, <1>12,
     <1>13, <1>14, <1>15, <1>16, <1>17, <1>18, <1>19, <1>20, <1>21, <1>22,
     <1>23, <1>24, <1>25, <1>26, <1>27, <1>28, <1>29
  DEF Next, SetUp, Body, TearDown, Fallback, RunTests

\* Every step keeps the lifecycle poisoned after a failed restoration.
LEMMA PoisonStep ==
    PoisonInv /\ TopologyInv /\ [Next]_vars => PoisonInv'
<1> SUFFICES ASSUME PoisonInv, TopologyInv, [Next]_vars PROVE PoisonInv'
    OBVIOUS
<1> USE DEF PoisonInv, Errors, held, caseVars, baselineVars,
            periodicVars, handlerVars, syslogVars, verdictVars, GoOn, Collect,
            SomeError, Breaks, Cancelled, CancelledTo, Escape, Raise
<1>1. CASE Begin
  BY <1>1 DEF Begin, HasParticipants
<1>2. CASE Captured
  BY <1>2 DEF Captured, Accepts
<1>3. CASE CaptureFails
  BY <1>3 DEF CaptureFails, Accepts
<1>4. CASE IxiaBegins
  BY <1>4 DEF IxiaBegins
<1>5. CASE IxiaFails
  BY <1>5 DEF IxiaFails
<1>6. CASE HandlerSetUp
  BY <1>6 DEF HandlerSetUp
<1>7. CASE StartPeriodic
  BY <1>7 DEF StartPeriodic
<1>8. CASE CreateSyslog
  BY <1>8 DEF CreateSyslog
<1>9. CASE Prepare
  BY <1>9 DEF Prepare
<1>10. CASE StagesEnd
  BY <1>10 DEF StagesEnd
<1>11. CASE CleanupSteps
  BY <1>11 DEF CleanupSteps
<1>12. CASE StopAndEndTraffic
  BY <1>12 DEF StopAndEndTraffic, StuckWorkers
<1>13. CASE FinalizePeriodic
  BY <1>13 DEF FinalizePeriodic
<1>14. CASE Results
  BY <1>14 DEF Results
<1>15. CASE TearDownHandler
  BY <1>15 DEF TearDownHandler, InCleanup, CleanupCancelled
<1>16. CASE DeleteSyslog
  BY <1>16 DEF DeleteSyslog, InCleanup, CleanupCancelled, AfterCleanup
<1>17. CASE RestoreTopology
  BY <1>17 DEF RestoreTopology
<1>18. CASE Combine
  <2>1. CaseError # "topology"
    BY DEF CaseError, TopologyInv
  <2>. QED BY <1>18, <2>1 DEF Combine
<1>19. CASE Investigate
  BY <1>19 DEF Investigate
<1>20. CASE FallbackDetaches
  BY <1>20 DEF FallbackDetaches, StuckWorkers
<1>21. CASE FallbackFinalizes
  BY <1>21 DEF FallbackFinalizes, FallbackCancelled
<1>22. CASE FallbackTakesHandlers
  BY <1>22 DEF FallbackTakesHandlers
<1>23. CASE RestoreAll
  BY <1>23 DEF RestoreAll, WithFallbackErrors, FallbackCancelled
<1>24. CASE Publish
  BY <1>24 DEF Publish
<1>25. CASE NextPlaybook
  BY <1>25 DEF NextPlaybook, Start, EndCall
<1>26. CASE StopCall
  BY <1>26 DEF StopCall, Start, EndCall
<1>27. CASE CancelRun
  BY <1>27 DEF CancelRun
<1>28. CASE Finished
  BY <1>28 DEF Finished, vars
<1>29. CASE UNCHANGED vars
  BY <1>29 DEF vars, caseVars
<1>. QED
  BY <1>1, <1>2, <1>3, <1>4, <1>5, <1>6, <1>7, <1>8, <1>9, <1>10, <1>11, <1>12,
     <1>13, <1>14, <1>15, <1>16, <1>17, <1>18, <1>19, <1>20, <1>21, <1>22,
     <1>23, <1>24, <1>25, <1>26, <1>27, <1>28, <1>29
  DEF Next, SetUp, Body, TearDown, Fallback, RunTests

\* Every step keeps track of the traffic.
LEMMA TrafficStep ==
    TrafficInv /\ [Next]_vars => TrafficInv'
<1> SUFFICES ASSUME TrafficInv, [Next]_vars PROVE TrafficInv'
    OBVIOUS
<1> USE DEF TrafficInv, Acquired, Ending, Cleaning, CleanupDue, Errors, held,
            caseVars, baselineVars, periodicVars, handlerVars, syslogVars,
            verdictVars, GoOn, Collect, SomeError, Breaks, Cancelled,
            CancelledTo, Escape, Raise
<1>1. CASE Begin
  BY <1>1 DEF Begin, HasParticipants
<1>2. CASE Captured
  BY <1>2 DEF Captured, Accepts
<1>3. CASE CaptureFails
  BY <1>3 DEF CaptureFails, Accepts
<1>4. CASE IxiaBegins
  BY <1>4 DEF IxiaBegins
<1>5. CASE IxiaFails
  BY <1>5 DEF IxiaFails
<1>6. CASE HandlerSetUp
  BY <1>6 DEF HandlerSetUp
<1>7. CASE StartPeriodic
  BY <1>7 DEF StartPeriodic
<1>8. CASE CreateSyslog
  BY <1>8 DEF CreateSyslog
<1>9. CASE Prepare
  BY <1>9 DEF Prepare
<1>10. CASE StagesEnd
  BY <1>10 DEF StagesEnd
<1>11. CASE CleanupSteps
  BY <1>11 DEF CleanupSteps
<1>12. CASE StopAndEndTraffic
  BY <1>12 DEF StopAndEndTraffic, StuckWorkers
<1>13. CASE FinalizePeriodic
  BY <1>13 DEF FinalizePeriodic
<1>14. CASE Results
  BY <1>14 DEF Results
<1>15. CASE TearDownHandler
  BY <1>15 DEF TearDownHandler, InCleanup, CleanupCancelled
<1>16. CASE DeleteSyslog
  BY <1>16 DEF DeleteSyslog, InCleanup, CleanupCancelled, AfterCleanup
<1>17. CASE RestoreTopology
  BY <1>17 DEF RestoreTopology
<1>18. CASE Combine
  BY <1>18 DEF Combine, CaseError
<1>19. CASE Investigate
  BY <1>19 DEF Investigate
<1>20. CASE FallbackDetaches
  BY <1>20 DEF FallbackDetaches, StuckWorkers
<1>21. CASE FallbackFinalizes
  BY <1>21 DEF FallbackFinalizes, FallbackCancelled
<1>22. CASE FallbackTakesHandlers
  BY <1>22 DEF FallbackTakesHandlers
<1>23. CASE RestoreAll
  BY <1>23 DEF RestoreAll, WithFallbackErrors, FallbackCancelled
<1>24. CASE Publish
  BY <1>24 DEF Publish
<1>25. CASE NextPlaybook
  BY <1>25 DEF NextPlaybook, Start, EndCall
<1>26. CASE StopCall
  BY <1>26 DEF StopCall, Start, EndCall
<1>27. CASE CancelRun
  BY <1>27 DEF CancelRun
<1>28. CASE Finished
  BY <1>28 DEF Finished, vars
<1>29. CASE UNCHANGED vars
  BY <1>29 DEF vars, caseVars
<1>. QED
  BY <1>1, <1>2, <1>3, <1>4, <1>5, <1>6, <1>7, <1>8, <1>9, <1>10, <1>11, <1>12,
     <1>13, <1>14, <1>15, <1>16, <1>17, <1>18, <1>19, <1>20, <1>21, <1>22,
     <1>23, <1>24, <1>25, <1>26, <1>27, <1>28, <1>29
  DEF Next, SetUp, Body, TearDown, Fallback, RunTests

\* The inductive invariant.
CaseInv ==
    ExecInv /\ CancelInv /\ HandlerInv /\ SyslogInv /\ FrameInv /\ VerdictInv
      /\ TopologyInv /\ PoisonInv /\ TrafficInv

\* The inductive invariant holds.
THEOREM CaseInvariant == Spec => []CaseInv
<1>1. Init => CaseInv
  BY DEF Init, CaseInv, ExecInv, CancelInv, HandlerInv, SyslogInv, FrameInv, VerdictInv,
         TopologyInv, PoisonInv, TrafficInv, CleanupDue, Ending
<1>2. CaseInv /\ [Next]_vars => CaseInv'
  BY ExecStep, CancelStep, HandlerStep, SyslogStep, FrameStep, VerdictStep,
     TopologyStep, PoisonStep, TrafficStep DEF CaseInv
<1>. QED BY <1>1, <1>2, PTL DEF Spec

\* Periodic workers run only under an executor the runner owns, and no test case
\* leaves one behind; the teardown and the fallback never tear a handler down
\* twice, nor one that was not set up: for all playbooks, handlers, cancellations.
THEOREM OwnedOnceHolds == Spec => []OwnedOnce
<1>1. CaseInv => OwnedOnce
  BY DEF CaseInv, ExecInv, HandlerInv, Acquired, OwnedOnce
<1>. QED BY <1>1, CaseInvariant, PTL

\* Every test case and every iteration starts with nothing left of its
\* predecessor, whatever failed and wherever a cancellation arrived.
THEOREM CleanStartHolds == Spec => []CleanStart
<1>1. CaseInv => CleanStart
  BY DEF CaseInv, ExecInv, CancelInv, HandlerInv, SyslogInv, FrameInv, CleanStart,
         Acquired, Cleaning, CleanupDue, Ending
<1>. QED BY <1>1, CaseInvariant, PTL

\* The stages of a playbook with restore_topology_baseline always have an open
\* frame whose context the teardown will find.
THEOREM StagesCoveredHolds == Spec => []StagesCovered
<1>1. CaseInv => StagesCovered
  BY DEF CaseInv, FrameInv, StagesCovered
<1>. QED BY <1>1, CaseInvariant, PTL

\* run_test_case raises exactly when something went wrong and, whatever else failed,
\* a failed restoration of the topology is not reported as an ordinary failure of
\* the playbook.
THEOREM VerdictKeptHolds == Spec => []VerdictKept
<1>1. CaseInv => VerdictKept
  BY DEF CaseInv, VerdictInv, TopologyInv, VerdictKept
<1>. QED BY <1>1, CaseInvariant, PTL

\* No iteration starts on the traffic of the one before.
THEOREM TrafficEndedHolds == Spec => []TrafficEnded
<1>1. CaseInv => TrafficEnded
  BY DEF CaseInv, TrafficInv, TrafficEnded
<1>. QED BY <1>1, CaseInvariant, PTL

\* The topology frame is the outermost one: RestoreTopology and RestoreAll are the
\* only steps that close it, and the invariant says what is gone by then.
THEOREM RestoredLastHolds == Spec => RestoredLast
<1> DEFINE Last == baseline = "open" /\ baseline' = "none" =>
                     /\ executor = "none" /\ "running" \notin workers
                     /\ raised = "cancelled" \/ (up = {} /\ syslogs # "on")
<1>1. ASSUME CaseInv, [Next]_vars PROVE Last
  <2> SUFFICES ASSUME baseline = "open", baseline' = "none"
               PROVE pc \in {"topology", "restoreAll"}
    BY <1>1 DEF CaseInv, ExecInv, HandlerInv, SyslogInv, Acquired, Cleaning, CleanupDue
  <2> USE DEF held, baselineVars
  <2>1. CASE Begin
    BY <2>1 DEF Begin
  <2>2. CASE Captured
    BY <2>2 DEF Captured
  <2>3. CASE CaptureFails
    BY <2>3 DEF CaptureFails
  <2>4. CASE IxiaBegins
    BY <2>4 DEF IxiaBegins
  <2>5. CASE IxiaFails
    BY <2>5 DEF IxiaFails
  <2>6. CASE HandlerSetUp
    BY <2>6 DEF HandlerSetUp
  <2>7. CASE StartPeriodic
    BY <2>7 DEF StartPeriodic
  <2>8. CASE CreateSyslog
    BY <2>8 DEF CreateSyslog
  <2>9. CASE Prepare
    BY <2>9 DEF Prepare
  <2>10. CASE StagesEnd
    BY <2>10 DEF StagesEnd
  <2>11. CASE CleanupSteps
    BY <2>11 DEF CleanupSteps
  <2>12. CASE StopAndEndTraffic
    BY <2>12 DEF StopAndEndTraffic
  <2>13. CASE FinalizePeriodic
    BY <2>13 DEF FinalizePeriodic
  <2>14. CASE Results
    BY <2>14 DEF Results
  <2>15. CASE TearDownHandler
    BY <2>15 DEF TearDownHandler
  <2>16. CASE DeleteSyslog
    BY <2>16 DEF DeleteSyslog
  <2>17. CASE RestoreTopology
    BY <2>17 DEF RestoreTopology
  <2>18. CASE Combine
    BY <2>18 DEF Combine
  <2>19. CASE Investigate
    BY <2>19 DEF Investigate
  <2>20. CASE FallbackDetaches
    BY <2>20 DEF FallbackDetaches
  <2>21. CASE FallbackFinalizes
    BY <2>21 DEF FallbackFinalizes
  <2>22. CASE FallbackTakesHandlers
    BY <2>22 DEF FallbackTakesHandlers
  <2>23. CASE RestoreAll
    BY <2>23 DEF RestoreAll
  <2>24. CASE Publish
    BY <2>24 DEF Publish
  <2>25. CASE NextPlaybook
    BY <2>25 DEF NextPlaybook, Start, EndCall
  <2>26. CASE StopCall
    BY <2>26 DEF StopCall, Start, EndCall
  <2>27. CASE CancelRun
    BY <2>27 DEF CancelRun
  <2>28. CASE Finished
    BY <2>28 DEF Finished, vars
  <2>29. CASE UNCHANGED vars
    BY <2>29 DEF vars
  <2>. QED
    BY <1>1, <2>1, <2>2, <2>3, <2>4, <2>5, <2>6, <2>7, <2>8, <2>9, <2>10, <2>11,
       <2>12, <2>13, <2>14, <2>15, <2>16, <2>17, <2>18, <2>19, <2>20, <2>21,
       <2>22, <2>23, <2>24, <2>25, <2>26, <2>27, <2>28, <2>29
    DEF Next, SetUp, Body, TearDown, Fallback, RunTests
<1>. QED BY <1>1, CaseInvariant, PTL DEF Spec, RestoredLast

\* No test case starts after one of its call whose topology could not be restored,
\* and no stages of a playbook with a baseline run on a poisoned lifecycle: only
\* Combine, NextPlaybook and StopCall start anything, and only Prepare enters the
\* stages.
THEOREM PoisonedStopsHolds == Spec => PoisonedStops
<1> DEFINE Stops == /\ pc' = "begin" /\ "topology" \in trouble => call' # call
                    /\ pc' = "stages" /\ Playbook \in WithBaseline => health = "healthy"
<1>1. ASSUME CaseInv, Next PROVE Stops
  <2> USE DEF Raise, Escape, CancelledTo, Cancelled, Breaks, GoOn, Collect, SomeError,
              Errors
  <2>1. CASE Begin
    BY <2>1 DEF Begin, HasParticipants
  <2>2. CASE Captured
    BY <2>2 DEF Captured
  <2>3. CASE CaptureFails
    BY <2>3 DEF CaptureFails
  <2>4. CASE IxiaBegins
    BY <2>4 DEF IxiaBegins
  <2>5. CASE IxiaFails
    BY <2>5 DEF IxiaFails
  <2>6. CASE HandlerSetUp
    BY <2>6 DEF HandlerSetUp
  <2>7. CASE StartPeriodic
    BY <2>7 DEF StartPeriodic
  <2>8. CASE CreateSyslog
    BY <2>8 DEF CreateSyslog
  <2>9. CASE Prepare
    BY <1>1, <2>9 DEF Prepare, CaseInv, FrameInv, PoisonInv
  <2>10. CASE StagesEnd
    BY <2>10 DEF StagesEnd
  <2>11. CASE CleanupSteps
    BY <2>11 DEF CleanupSteps
  <2>12. CASE StopAndEndTraffic
    BY <2>12 DEF StopAndEndTraffic
  <2>13. CASE FinalizePeriodic
    BY <2>13 DEF FinalizePeriodic
  <2>14. CASE Results
    BY <2>14 DEF Results
  <2>15. CASE TearDownHandler
    BY <2>15 DEF TearDownHandler, InCleanup, CleanupCancelled
  <2>16. CASE DeleteSyslog
    BY <2>16 DEF DeleteSyslog, InCleanup, CleanupCancelled, AfterCleanup
  <2>17. CASE RestoreTopology
    BY <2>17 DEF RestoreTopology
  <2>18. CASE Combine
    <3>1. "topology" \in trouble => CaseError = "infra"
      <4>1. "topology" \in trouble => errs # {} /\ errs \cap {"infra", "topology"} # {}
        BY <1>1, <2>18 DEF Combine, CaseInv, TopologyInv
      <4>. QED BY <4>1 DEF CaseError
    <3>. QED BY <2>18, <3>1 DEF Combine
  <2>19. CASE Investigate
    BY <2>19 DEF Investigate
  <2>20. CASE FallbackDetaches
    BY <2>20 DEF FallbackDetaches
  <2>21. CASE FallbackFinalizes
    BY <2>21 DEF FallbackFinalizes, FallbackCancelled
  <2>22. CASE FallbackTakesHandlers
    BY <2>22 DEF FallbackTakesHandlers
  <2>23. CASE RestoreAll
    BY <2>23 DEF RestoreAll, FallbackCancelled
  <2>24. CASE Publish
    BY <2>24 DEF Publish
  <2>25. CASE NextPlaybook
    BY <1>1, <2>25 DEF NextPlaybook, Unsafe, Start, EndCall, CaseInv, TopologyInv,
         PoisonInv
  <2>26. CASE StopCall
    BY <1>1, <2>26 DEF StopCall, Start, EndCall, CaseInv, PoisonInv
  <2>27. CASE CancelRun
    BY <2>27 DEF CancelRun
  <2>28. CASE Finished
    BY <2>28 DEF Finished, vars
  <2>. QED
    BY <1>1, <2>1, <2>2, <2>3, <2>4, <2>5, <2>6, <2>7, <2>8, <2>9, <2>10, <2>11,
       <2>12, <2>13, <2>14, <2>15, <2>16, <2>17, <2>18, <2>19, <2>20, <2>21,
       <2>22, <2>23, <2>24, <2>25, <2>26, <2>27, <2>28
    DEF Next, SetUp, Body, TearDown, Fallback, RunTests
<1>2. CaseInv /\ [Next]_vars => [Stops]_vars
  BY <1>1
<1>. QED BY <1>2, CaseInvariant, PTL DEF Spec, PoisonedStops

(***************************************************************************)
(* Types                                                                  *)
(***************************************************************************)

\* TypeOK in parts: the place in the run, what is held, the handlers, the verdict.
PlaceType ==
    /\ pc \in PCs
    /\ call \in DOMAIN Calls /\ pos \in DOMAIN Calls[call] /\ iter \in 1..Iterations

HeldType ==
    /\ baseline \in {"none", "open"} /\ health \in {"healthy", "poisoned"}
    /\ context \in {"none", "set"} /\ captureFailed \in {"no", "yes"}
    /\ traffic \in {"idle", "begun"}
    /\ executor \in {"none", "owned"} /\ workers \subseteq {"running", "stuck"}
    /\ syslogs \in {"off", "on", "partial"} /\ created \subseteq Syslog

HandlerType ==
    /\ up \subseteq 1..Handlers /\ pending \subseteq 1..Handlers
    /\ queue \subseteq 1..Handlers /\ cleanupPending \in {"no", "yes"}

VerdictType ==
    /\ stageExc \in {"none", "cancelled"} \cup Errors
    /\ raised \in {"none", "cancelled", "group"} \cup Errors
    /\ errs \subseteq Kinds /\ trouble \subseteq Kinds
    /\ cancels \in 0..MaxCancels

\* The parts are TypeOK.
LEMMA TypeParts == TypeOK <=> PlaceType /\ HeldType /\ HandlerType /\ VerdictType
BY DEF TypeOK, PlaceType, HeldType, HandlerType, VerdictType

\* The calls and their playbooks are counted from 1, and there are some.
LEMMA CallFacts ==
    /\ Len(Calls) \in Nat \ {0} /\ DOMAIN Calls = 1..Len(Calls)
    /\ \A c \in DOMAIN Calls :
         Len(Calls[c]) \in Nat \ {0} /\ DOMAIN Calls[c] = 1..Len(Calls[c])
<1>1. Len(Calls) \in Nat \ {0} /\ DOMAIN Calls = 1..Len(Calls)
  BY CallsAssumption
<1>2. ASSUME NEW c \in DOMAIN Calls
      PROVE  Len(Calls[c]) \in Nat \ {0} /\ DOMAIN Calls[c] = 1..Len(Calls[c])
  <2>1. Calls[c] \in Seq(Playbooks) /\ Calls[c] # <<>>
    BY CallsAssumption
  <2> QED
    BY <2>1
<1> QED
  BY <1>1, <1>2

\* While handlers are missing there is a next one: NextHandler is one of them.
LEMMA NextHandlerExists ==
    ASSUME HandlerType, pending # 1..Handlers
    PROVE  NextHandler \in 1..Handlers /\ NextHandler \notin pending
<1> DEFINE S == (1..Handlers) \ pending
           R == OpToRel(<, Nat)
<1>1. S \subseteq Nat
  OBVIOUS
<1>0. S # {}
  BY Zenon DEF HandlerType
<1>2. IsWellFoundedOn(R, Nat)
  BY NatLessThanWellFounded
<1>3. \A x, y \in Nat : x < y => <<x, y>> \in R
  BY DEF OpToRel
<1> HIDE DEF R, S
<1>4. PICK h \in S : \A y \in S : ~(<<y, h>> \in R)
  BY <1>0, <1>1, <1>2, WFMin
<1>5. \A y \in S : ~(y < h)
  BY <1>1, <1>3, <1>4, Zenon
<1>6. h \in 1..Handlers /\ h \notin pending /\ \A g \in 1..(h - 1) : g \in pending
  BY <1>5, CountsAssumption DEF S
<1> QED
  BY <1>6 DEF NextHandler

\* The exception of a test case is of a known kind.
LEMMA ErrorKinds ==
    ASSUME VerdictType
    PROVE  /\ CaseError \in {"none", "cancelled", "group"} \cup Errors
           /\ \A new :
                WithFallbackErrors(new) \in {"none", "cancelled", "group"} \cup Errors
BY DEF VerdictType, CaseError, WithFallbackErrors, Errors

\* run_tests starts a playbook of the call.
LEMMA StartType ==
    ASSUME NEW c \in DOMAIN Calls, NEW p \in DOMAIN Calls[c], Start(c, p)
    PROVE  PlaceType'
BY CountsAssumption DEF Start, PlaceType, PCs

\* The caller of run_tests makes a further call only while there is one.
LEMMA EndCallType ==
    ASSUME PlaceType, EndCall
    PROVE  PlaceType'
<1>1. CASE call < Len(Calls)
  <2>1. call + 1 \in DOMAIN Calls /\ Start(call + 1, 1)
    BY <1>1, CallFacts DEF PlaceType, EndCall
  <2>2. 1 \in DOMAIN Calls[call + 1]
    BY <2>1, CallFacts
  <2> QED
    BY <2>1, <2>2, StartType
<1>2. CASE ~(call < Len(Calls))
  BY <1>2 DEF EndCall, PlaceType, PCs, caseVars
<1> QED
  BY <1>1, <1>2

\* The run stays within its calls, playbooks and iterations.
LEMMA PlaceTypeStep ==
    ASSUME PlaceType, [Next]_vars
    PROVE  PlaceType'
<1> USE DEF PlaceType, PCs, held, caseVars, baselineVars, periodicVars,
      handlerVars, syslogVars, verdictVars, GoOn, Collect, SomeError, Breaks,
      Cancelled, CancelledTo, Escape, Raise
<1>1. CASE Begin
  BY <1>1 DEF Begin, HasParticipants
<1>2. CASE Captured
  BY <1>2 DEF Captured, Accepts
<1>3. CASE CaptureFails
  BY <1>3 DEF CaptureFails, Accepts
<1>4. CASE IxiaBegins
  BY <1>4 DEF IxiaBegins
<1>5. CASE IxiaFails
  BY <1>5 DEF IxiaFails
<1>6. CASE HandlerSetUp
  BY <1>6 DEF HandlerSetUp
<1>7. CASE StartPeriodic
  BY <1>7 DEF StartPeriodic
<1>8. CASE CreateSyslog
  BY <1>8 DEF CreateSyslog
<1>9. CASE Prepare
  BY <1>9 DEF Prepare
<1>10. CASE StagesEnd
  BY <1>10 DEF StagesEnd
<1>11. CASE CleanupSteps
  BY <1>11 DEF CleanupSteps
<1>12. CASE StopAndEndTraffic
  BY <1>12 DEF StopAndEndTraffic, StuckWorkers
<1>13. CASE FinalizePeriodic
  BY <1>13 DEF FinalizePeriodic
<1>14. CASE Results
  BY <1>14 DEF Results
<1>15. CASE TearDownHandler
  BY <1>15 DEF TearDownHandler, InCleanup, CleanupCancelled
<1>16. CASE DeleteSyslog
  BY <1>16 DEF DeleteSyslog, InCleanup, CleanupCancelled, AfterCleanup
<1>17. CASE RestoreTopology
  BY <1>17 DEF RestoreTopology
<1>18. CASE Combine
  BY <1>18, CountsAssumption DEF Combine
<1>19. CASE Investigate
  BY <1>19 DEF Investigate
<1>20. CASE FallbackDetaches
  BY <1>20 DEF FallbackDetaches, StuckWorkers
<1>21. CASE FallbackFinalizes
  BY <1>21 DEF FallbackFinalizes, FallbackCancelled
<1>22. CASE FallbackTakesHandlers
  BY <1>22 DEF FallbackTakesHandlers
<1>23. CASE RestoreAll
  BY <1>23 DEF RestoreAll, FallbackCancelled
<1>24. CASE Publish
  BY <1>24 DEF Publish
<1>25. CASE NextPlaybook
  <2>1. CASE pos < Len(Calls[call])
    <3>1. pos + 1 \in DOMAIN Calls[call] /\ Start(call, pos + 1)
      BY <1>25, <2>1, CallFacts DEF NextPlaybook
    <3> QED
      BY <3>1, StartType
  <2>2. CASE ~(pos < Len(Calls[call]))
    BY <1>25, <2>2, EndCallType DEF NextPlaybook
  <2> QED
    BY <2>1, <2>2
<1>26. CASE StopCall
  BY <1>26, EndCallType DEF StopCall
<1>27. CASE CancelRun
  BY <1>27 DEF CancelRun
<1>28. CASE UNCHANGED vars
  BY <1>28 DEF vars
<1> QED
  BY <1>1, <1>2, <1>3, <1>4, <1>5, <1>6, <1>7, <1>8, <1>9, <1>10, <1>11, <1>12,
     <1>13, <1>14, <1>15, <1>16, <1>17, <1>18, <1>19, <1>20, <1>21, <1>22, <1>23,
     <1>24, <1>25, <1>26, <1>27, <1>28 DEF Next, SetUp, Body, TearDown, Fallback,
     RunTests, Finished

\* What a test case holds keeps its shapes.
LEMMA HeldTypeStep ==
    ASSUME HeldType, [Next]_vars
    PROVE  HeldType'
<1> USE DEF HeldType, held, caseVars, baselineVars, periodicVars, handlerVars,
      syslogVars, verdictVars
<1>1. CASE Begin
  BY <1>1 DEF Begin, HasParticipants
<1>2. CASE Captured
  BY <1>2 DEF Captured, Accepts
<1>3. CASE CaptureFails
  BY <1>3 DEF CaptureFails, Accepts
<1>4. CASE IxiaBegins
  BY <1>4 DEF IxiaBegins
<1>5. CASE IxiaFails
  BY <1>5 DEF IxiaFails
<1>6. CASE HandlerSetUp
  BY <1>6 DEF HandlerSetUp
<1>7. CASE StartPeriodic
  BY <1>7 DEF StartPeriodic
<1>8. CASE CreateSyslog
  BY <1>8 DEF CreateSyslog
<1>9. CASE Prepare
  BY <1>9 DEF Prepare
<1>10. CASE StagesEnd
  BY <1>10 DEF StagesEnd
<1>11. CASE CleanupSteps
  BY <1>11 DEF CleanupSteps
<1>12. CASE StopAndEndTraffic
  BY <1>12 DEF StopAndEndTraffic, StuckWorkers
<1>13. CASE FinalizePeriodic
  BY <1>13 DEF FinalizePeriodic
<1>14. CASE Results
  BY <1>14 DEF Results
<1>15. CASE TearDownHandler
  BY <1>15 DEF TearDownHandler, InCleanup, CleanupCancelled
<1>16. CASE DeleteSyslog
  BY <1>16 DEF DeleteSyslog, InCleanup, CleanupCancelled, AfterCleanup
<1>17. CASE RestoreTopology
  BY <1>17 DEF RestoreTopology
<1>18. CASE Combine
  BY <1>18 DEF Combine
<1>19. CASE Investigate
  BY <1>19 DEF Investigate
<1>20. CASE FallbackDetaches
  BY <1>20 DEF FallbackDetaches, StuckWorkers
<1>21. CASE FallbackFinalizes
  BY <1>21 DEF FallbackFinalizes, FallbackCancelled
<1>22. CASE FallbackTakesHandlers
  BY <1>22 DEF FallbackTakesHandlers
<1>23. CASE RestoreAll
  BY <1>23 DEF RestoreAll, FallbackCancelled
<1>24. CASE Publish
  BY <1>24 DEF Publish
<1>25. CASE NextPlaybook
  BY <1>25 DEF NextPlaybook, Start, EndCall
<1>26. CASE StopCall
  BY <1>26 DEF StopCall, Start, EndCall
<1>27. CASE CancelRun
  BY <1>27 DEF CancelRun
<1>28. CASE UNCHANGED vars
  BY <1>28 DEF vars
<1> QED
  BY <1>1, <1>2, <1>3, <1>4, <1>5, <1>6, <1>7, <1>8, <1>9, <1>10, <1>11, <1>12,
     <1>13, <1>14, <1>15, <1>16, <1>17, <1>18, <1>19, <1>20, <1>21, <1>22, <1>23,
     <1>24, <1>25, <1>26, <1>27, <1>28 DEF Next, SetUp, Body, TearDown, Fallback,
     RunTests, Finished

\* The lists hold handlers.
LEMMA HandlerTypeStep ==
    ASSUME HandlerType, [Next]_vars
    PROVE  HandlerType'
<1> USE DEF HandlerType, held, caseVars, baselineVars, periodicVars,
      handlerVars, syslogVars, verdictVars
<1>1. CASE Begin
  BY <1>1 DEF Begin, HasParticipants
<1>2. CASE Captured
  BY <1>2 DEF Captured, Accepts
<1>3. CASE CaptureFails
  BY <1>3 DEF CaptureFails, Accepts
<1>4. CASE IxiaBegins
  BY <1>4 DEF IxiaBegins
<1>5. CASE IxiaFails
  BY <1>5 DEF IxiaFails
<1>6. CASE HandlerSetUp
  BY <1>6, NextHandlerExists DEF HandlerSetUp
<1>7. CASE StartPeriodic
  BY <1>7 DEF StartPeriodic
<1>8. CASE CreateSyslog
  BY <1>8 DEF CreateSyslog
<1>9. CASE Prepare
  BY <1>9 DEF Prepare
<1>10. CASE StagesEnd
  BY <1>10 DEF StagesEnd
<1>11. CASE CleanupSteps
  BY <1>11 DEF CleanupSteps
<1>12. CASE StopAndEndTraffic
  BY <1>12 DEF StopAndEndTraffic, StuckWorkers
<1>13. CASE FinalizePeriodic
  BY <1>13 DEF FinalizePeriodic
<1>14. CASE Results
  BY <1>14 DEF Results
<1>15. CASE TearDownHandler
  BY <1>15 DEF TearDownHandler, InCleanup, CleanupCancelled
<1>16. CASE DeleteSyslog
  BY <1>16 DEF DeleteSyslog, InCleanup, CleanupCancelled, AfterCleanup
<1>17. CASE RestoreTopology
  BY <1>17 DEF RestoreTopology
<1>18. CASE Combine
  BY <1>18 DEF Combine
<1>19. CASE Investigate
  BY <1>19 DEF Investigate
<1>20. CASE FallbackDetaches
  BY <1>20 DEF FallbackDetaches, StuckWorkers
<1>21. CASE FallbackFinalizes
  BY <1>21 DEF FallbackFinalizes, FallbackCancelled
<1>22. CASE FallbackTakesHandlers
  BY <1>22 DEF FallbackTakesHandlers
<1>23. CASE RestoreAll
  BY <1>23 DEF RestoreAll, FallbackCancelled
<1>24. CASE Publish
  BY <1>24 DEF Publish
<1>25. CASE NextPlaybook
  BY <1>25 DEF NextPlaybook, Start, EndCall
<1>26. CASE StopCall
  BY <1>26 DEF StopCall, Start, EndCall
<1>27. CASE CancelRun
  BY <1>27 DEF CancelRun
<1>28. CASE UNCHANGED vars
  BY <1>28 DEF vars
<1> QED
  BY <1>1, <1>2, <1>3, <1>4, <1>5, <1>6, <1>7, <1>8, <1>9, <1>10, <1>11, <1>12,
     <1>13, <1>14, <1>15, <1>16, <1>17, <1>18, <1>19, <1>20, <1>21, <1>22, <1>23,
     <1>24, <1>25, <1>26, <1>27, <1>28 DEF Next, SetUp, Body, TearDown, Fallback,
     RunTests, Finished

\* Each way in which a step ends keeps the verdict within its kinds.
LEMMA VerdictMoves ==
    ASSUME VerdictType
    PROVE  /\ \A next : GoOn(next) => VerdictType'
           /\ \A next : SomeError(next) => VerdictType'
           /\ \A next : Collect({"failure"}, next) => VerdictType'
           /\ \A next : Collect({"topology"}, next) => VerdictType'
           /\ \A next : CancelledTo(next) => VerdictType'
           /\ \A kind : /\ kind \in {"cancelled", "group"} \cup Errors
                        /\ Escape(kind) /\ UNCHANGED cancels
                        => VerdictType'
           /\ Breaks => VerdictType'
<1>1. ASSUME NEW next, GoOn(next) PROVE VerdictType'
  BY <1>1 DEF GoOn, verdictVars, VerdictType
<1>2. ASSUME NEW next, NEW S, S \subseteq Kinds, Collect(S, next) PROVE VerdictType'
  BY <1>2 DEF Collect, VerdictType
<1>3. ASSUME NEW next, SomeError(next) PROVE VerdictType'
  BY <1>2, <1>3 DEF SomeError, Kinds, Errors
<1>4. ASSUME NEW next, NEW kind, kind \in {"cancelled", "group"} \cup Errors,
             Raise(kind, next), cancels' \in 0..MaxCancels
      PROVE  VerdictType'
  BY <1>4 DEF Raise, VerdictType, Kinds
<1>5. ASSUME NEW next, CancelledTo(next) PROVE VerdictType'
  <2>1. cancels' \in 0..MaxCancels
    BY <1>5, CountsAssumption DEF CancelledTo, VerdictType
  <2> QED
    BY <1>4, <1>5, <2>1 DEF CancelledTo
<1>6. ASSUME NEW kind, kind \in {"cancelled", "group"} \cup Errors,
             Escape(kind), UNCHANGED cancels
      PROVE  VerdictType'
  <2>1. cancels' \in 0..MaxCancels
    BY <1>6 DEF VerdictType
  <2> QED
    BY <1>4, <1>6, <2>1 DEF Escape
<1>7. ASSUME Breaks PROVE VerdictType'
  BY <1>5, <1>6, <1>7 DEF Breaks, Cancelled
<1>8. {"failure"} \subseteq Kinds /\ {"topology"} \subseteq Kinds
  BY DEF Kinds, Errors
<1> QED
  BY <1>1, <1>2, <1>3, <1>5, <1>6, <1>7, <1>8

\* The verdict is of the known kinds.
LEMMA VerdictTypeStep ==
    ASSUME VerdictType, [Next]_vars
    PROVE  VerdictType'
<1>1. CASE Begin
  BY <1>1, VerdictMoves DEF Begin, HasParticipants, Errors
<1>2. CASE Captured
  BY <1>2, VerdictMoves DEF Captured, Accepts
<1>3. CASE CaptureFails
  BY <1>3, VerdictMoves DEF CaptureFails, Accepts, Errors
<1>4. CASE IxiaBegins
  BY <1>4, VerdictMoves DEF IxiaBegins
<1>5. CASE IxiaFails
  BY <1>5, VerdictMoves DEF IxiaFails, Errors
<1>6. CASE HandlerSetUp
  BY <1>6, VerdictMoves DEF HandlerSetUp
<1>7. CASE StartPeriodic
  BY <1>7, VerdictMoves DEF StartPeriodic, Errors
<1>8. CASE CreateSyslog
  BY <1>8, VerdictMoves DEF CreateSyslog
<1>9. CASE Prepare
  BY <1>9, VerdictMoves DEF Prepare
<1>10. CASE StagesEnd
  <2>1. stageExc' \in {"none", "cancelled"} \cup Errors /\ UNCHANGED <<errs, raised>>
    BY <1>10 DEF StagesEnd
  <2>2. trouble' \subseteq Kinds
    BY <1>10 DEF StagesEnd, VerdictType, Kinds
  <2>3. cancels' = cancels \/ (cancels < MaxCancels /\ cancels' = cancels + 1)
    BY <1>10 DEF StagesEnd
  <2>4. cancels' \in 0..MaxCancels
    BY <2>3, CountsAssumption DEF VerdictType
  <2> QED
    BY <2>1, <2>2, <2>4 DEF VerdictType
<1>11. CASE CleanupSteps
  BY <1>11, VerdictMoves DEF CleanupSteps
<1>12. CASE StopAndEndTraffic
  BY <1>12, VerdictMoves DEF StopAndEndTraffic, StuckWorkers
<1>13. CASE FinalizePeriodic
  BY <1>13, VerdictMoves DEF FinalizePeriodic, Cancelled
<1>14. CASE Results
  BY <1>14, VerdictMoves DEF Results, VerdictType, Kinds, Errors, Cancelled
<1>15. CASE TearDownHandler
  BY <1>15, VerdictMoves DEF TearDownHandler, InCleanup, CleanupCancelled
<1>16. CASE DeleteSyslog
  BY <1>16, VerdictMoves DEF DeleteSyslog, InCleanup, CleanupCancelled,
     AfterCleanup
<1>17. CASE RestoreTopology
  BY <1>17, VerdictMoves DEF RestoreTopology, Cancelled
<1>18. CASE Combine
  BY <1>18, VerdictMoves, ErrorKinds DEF Combine, VerdictType, Kinds, Errors,
     verdictVars
<1>19. CASE Investigate
  BY <1>19, VerdictMoves DEF Investigate, Cancelled
<1>20. CASE FallbackDetaches
  BY <1>20, VerdictMoves DEF FallbackDetaches, StuckWorkers
<1>21. CASE FallbackFinalizes
  BY <1>21, VerdictMoves DEF FallbackFinalizes, FallbackCancelled
<1>22. CASE FallbackTakesHandlers
  BY <1>22, VerdictMoves DEF FallbackTakesHandlers
<1>23. CASE RestoreAll
  BY <1>23, VerdictMoves, ErrorKinds DEF RestoreAll, FallbackCancelled,
     VerdictType, Kinds, Errors, verdictVars
<1>24. CASE Publish
  BY <1>24, VerdictMoves DEF Publish
<1>25. CASE NextPlaybook
  BY <1>25, VerdictMoves DEF NextPlaybook, Start, EndCall, VerdictType, Kinds,
     Errors, verdictVars
<1>26. CASE StopCall
  BY <1>26, VerdictMoves DEF StopCall, Start, EndCall, VerdictType, Kinds,
     Errors, verdictVars
<1>27. CASE CancelRun
  BY <1>27, VerdictMoves DEF CancelRun, VerdictType, Kinds, Errors, verdictVars
<1>28. CASE UNCHANGED vars
  BY <1>28, VerdictMoves DEF vars, VerdictType, vars, verdictVars
<1> QED
  BY <1>1, <1>2, <1>3, <1>4, <1>5, <1>6, <1>7, <1>8, <1>9, <1>10, <1>11, <1>12,
     <1>13, <1>14, <1>15, <1>16, <1>17, <1>18, <1>19, <1>20, <1>21, <1>22, <1>23,
     <1>24, <1>25, <1>26, <1>27, <1>28 DEF Next, SetUp, Body, TearDown, Fallback,
     RunTests, Finished

\* The variables keep their shapes, and the playbook run is always one of its call,
\* through every error and cancellation.
THEOREM CaseTypeCorrect == Spec => []TypeOK
<1> DEFINE Parts == PlaceType /\ HeldType /\ HandlerType /\ VerdictType
<1>1. Init => Parts
  BY CallFacts, CountsAssumption DEF Init, PlaceType, HeldType, HandlerType,
     VerdictType, PCs, Kinds, Errors
<1>2. Parts /\ [Next]_vars => Parts'
  BY PlaceTypeStep, HeldTypeStep, HandlerTypeStep, VerdictTypeStep
<1>3. Parts => TypeOK
  BY TypeParts
<1> QED
  BY <1>1, <1>2, <1>3, PTL DEF Spec
=============================================================================
