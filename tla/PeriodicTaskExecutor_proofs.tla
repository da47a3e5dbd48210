--------------------- MODULE PeriodicTaskExecutor_proofs ---------------------
(***************************************************************************)
(* Proofs about PeriodicTaskExecutor, for every set of threads and         *)
(* processes and any number of teardowns.                                  *)
(***************************************************************************)
EXTENDS PeriodicTaskExecutor, TLAPS

\* What teardown() has not begun with, and where a stop has been waited for.
BeforeTeardown == {"new", "creating", "idle", "stopping", "stopped", "stop_failed",
                   "checking"}
AfterStop == {"stopped", "stop_failed", "checking", "uploading", "finally", "defer",
              "shutdown", "shutting", "torn_down"}

(***************************************************************************)
(* The inductive invariant                                                 *)
(***************************************************************************)

\* Until teardown() is called there is no helper and nobody has touched the
\* Manager.
UntouchedInv ==
    /\ caller \in BeforeTeardown =>
         /\ manager # "down" /\ shutdowns = 0 /\ helper = "none"
    /\ caller = "new" => managerRef = "none"

\* At most one party can call shutdown(): whoever took the reference.
OnceInv ==
    /\ managerRef = "set" =>
         /\ caller # "shutting" /\ helper # "shutting" /\ shutdowns = 0
    /\ caller = "shutting" => helper # "shutting" /\ shutdowns = 0
    /\ helper = "shutting" => shutdowns = 0
    /\ shutdowns <= 1

\* A process is joined or killed before a stop returns, and never starts again.
ProcessInv ==
    /\ caller \in {"stopping", "teardown"} =>
         \A t \in Processes : Alive(t) => t \in toJoin
    /\ caller \in AfterStop => \A t \in Processes : ~Alive(t)

\* Who is about to shut the Manager down has seen every thread end, or given up
\* on it.
ThreadInv ==
    /\ caller \in {"stopped", "checking", "shutdown", "shutting"} =>
         \A t \in Threads : ~Alive(t)
    /\ helper = "joining" => \A t \in Threads : Alive(t) => t \in awaited
    /\ helper \in {"shutdown", "shutting"} =>
         \A t \in Threads : Alive(t) => t \in forced

\* A helper, or a Manager that is down, outlives the processes.
DownInv ==
    /\ helper # "none" \/ manager = "down" => \A t \in Processes : ~Alive(t)
    /\ manager = "down" => \A t \in Threads : Alive(t) => t \in forced

ExecutorInv ==
    TypeOK /\ UntouchedInv /\ OnceInv /\ ProcessInv /\ ThreadInv /\ DownInv

(***************************************************************************)
(* What a worker's own steps change                                        *)
(***************************************************************************)

\* A worker moves on its own: nobody comes to life, the caller, the helper and the
\* Manager stay where they are.
LEMMA WorkerChanges ==
    ASSUME TypeOK, NEW t \in Tasks, WorkerStep(t) \/ TaskEnds(t)
    PROVE  /\ TypeOK'
           /\ UNCHANGED <<managerVars, callerVars, helperVars>>
           /\ \A u \in Tasks : Alive(u)' => Alive(u)
<1> USE DEF TypeOK, Alive, Leaves, Fails, managerVars, callerVars, helperVars
<1>1. CASE WorkerStarts(t)
  BY <1>1 DEF WorkerStarts
<1>2. CASE WorkerLoops(t)
  BY <1>2 DEF WorkerLoops
<1>3. CASE WorkerWakes(t)
  BY <1>3 DEF WorkerWakes
<1>4. CASE WorkerPublishes(t)
  BY <1>4 DEF WorkerPublishes
<1>5. CASE WorkerRuns(t)
  BY <1>5 DEF WorkerRuns
<1>6. CASE WorkerFails(t)
  BY <1>6 DEF WorkerFails
<1> QED
  BY <1>1, <1>2, <1>3, <1>4, <1>5, <1>6 DEF WorkerStep, TaskEnds

(***************************************************************************)
(* One lemma per part of the invariant                                     *)
(***************************************************************************)

\* The variables keep their types.
LEMMA TypeStep ==
    ASSUME TypeOK, [Next]_vars
    PROVE  TypeOK'
<1> USE DEF TypeOK, workerVars, managerVars, callerVars, helperVars
<1>1. CASE CreateNothing
  BY <1>1 DEF CreateNothing
<1>2. CASE CreateManager
  BY <1>2 DEF CreateManager
<1>3. ASSUME NEW t \in Tasks, CreateWorker(t) PROVE TypeOK'
  BY <1>3 DEF CreateWorker
<1>4. CASE CreateReturns
  BY <1>4 DEF CreateReturns
<1>5. CASE Stop
  BY <1>5 DEF Stop, StartStop
<1>6. ASSUME NEW t \in Tasks, StopProcess(t) PROVE TypeOK'
  BY <1>6 DEF StopProcess
<1>7. ASSUME NEW t \in Tasks, JoinThread(t) PROVE TypeOK'
  BY <1>7 DEF JoinThread
<1>8. CASE StopReturns
  BY <1>8 DEF StopReturns, LiveThreads
<1>9. CASE FinalChecks
  BY <1>9 DEF FinalChecks
<1>10. CASE TeardownAfterStop
  BY <1>10 DEF TeardownAfterStop
<1>11. CASE Teardown
  BY <1>11 DEF Teardown, StartStop
<1>12. CASE TeardownStopped
  BY <1>12 DEF TeardownStopped
<1>13. CASE Uploaded
  BY <1>13 DEF Uploaded
<1>14. CASE Finally
  BY <1>14 DEF Finally, LiveThreads
<1>15. CASE Defer
  BY <1>15 DEF Defer, LiveThreads, HelperAlive
<1>16. CASE HelperJoined
  BY <1>16 DEF HelperJoined
<1>17. CASE CallerTakesManager
  BY <1>17 DEF CallerTakesManager, TakeManager
<1>18. CASE HelperTakesManager
  BY <1>18 DEF HelperTakesManager, TakeManager
<1>19. CASE CallerShutsManager
  BY <1>19 DEF CallerShutsManager, ManagerShutdown
<1>20. CASE HelperShutsManager
  BY <1>20 DEF HelperShutsManager, ManagerShutdown
<1>21. ASSUME NEW t \in Tasks, WorkerStep(t) \/ TaskEnds(t) PROVE TypeOK'
  BY <1>21, WorkerChanges
<1>22. CASE UNCHANGED vars
  BY <1>22 DEF vars
<1> QED
  BY <1>1, <1>2, <1>3, <1>4, <1>5, <1>6, <1>7, <1>8, <1>9, <1>10, <1>11, <1>12,
     <1>13, <1>14, <1>15, <1>16, <1>17, <1>18, <1>19, <1>20, <1>21, <1>22 DEF Next,
     CallerChooses, CallerContinues, HelperStep

\* No call before teardown() reaches the Manager's end or makes a helper.
LEMMA UntouchedStep ==
    ASSUME ExecutorInv, [Next]_vars
    PROVE  UntouchedInv'
<1> USE DEF ExecutorInv, TypeOK, UntouchedInv, BeforeTeardown, workerVars,
      managerVars, callerVars, helperVars
<1>1. CASE CreateNothing
  BY <1>1 DEF CreateNothing
<1>2. CASE CreateManager
  BY <1>2 DEF CreateManager
<1>3. ASSUME NEW t \in Tasks, CreateWorker(t) PROVE UntouchedInv'
  BY <1>3 DEF CreateWorker
<1>4. CASE CreateReturns
  BY <1>4 DEF CreateReturns
<1>5. CASE Stop
  BY <1>5 DEF Stop, StartStop
<1>6. ASSUME NEW t \in Tasks, StopProcess(t) PROVE UntouchedInv'
  BY <1>6 DEF StopProcess
<1>7. ASSUME NEW t \in Tasks, JoinThread(t) PROVE UntouchedInv'
  BY <1>7 DEF JoinThread
<1>8. CASE StopReturns
  BY <1>8 DEF StopReturns, LiveThreads
<1>9. CASE FinalChecks
  BY <1>9 DEF FinalChecks
<1>10. CASE TeardownAfterStop
  BY <1>10 DEF TeardownAfterStop
<1>11. CASE Teardown
  BY <1>11 DEF Teardown, StartStop
<1>12. CASE TeardownStopped
  BY <1>12 DEF TeardownStopped
<1>13. CASE Uploaded
  BY <1>13 DEF Uploaded
<1>14. CASE Finally
  BY <1>14 DEF Finally, LiveThreads
<1>15. CASE Defer
  BY <1>15 DEF Defer, LiveThreads, HelperAlive
<1>16. CASE HelperJoined
  BY <1>16 DEF HelperJoined
<1>17. CASE CallerTakesManager
  BY <1>17 DEF CallerTakesManager, TakeManager
<1>18. CASE HelperTakesManager
  BY <1>18 DEF HelperTakesManager, TakeManager
<1>19. CASE CallerShutsManager
  BY <1>19 DEF CallerShutsManager, ManagerShutdown
<1>20. CASE HelperShutsManager
  BY <1>20 DEF HelperShutsManager, ManagerShutdown
<1>21. ASSUME NEW t \in Tasks, WorkerStep(t) \/ TaskEnds(t) PROVE UntouchedInv'
  BY <1>21, WorkerChanges
<1>22. CASE UNCHANGED vars
  BY <1>22 DEF vars
<1> QED
  BY <1>1, <1>2, <1>3, <1>4, <1>5, <1>6, <1>7, <1>8, <1>9, <1>10, <1>11, <1>12,
     <1>13, <1>14, <1>15, <1>16, <1>17, <1>18, <1>19, <1>20, <1>21, <1>22 DEF Next,
     CallerChooses, CallerContinues, HelperStep

\* The reference is taken by one party, under _manager_lock.
LEMMA OnceStep ==
    ASSUME ExecutorInv, [Next]_vars
    PROVE  OnceInv'
<1> USE DEF ExecutorInv, TypeOK, OnceInv, UntouchedInv, BeforeTeardown,
      workerVars, managerVars, callerVars, helperVars
<1>1. CASE CreateNothing
  BY <1>1 DEF CreateNothing
<1>2. CASE CreateManager
  BY <1>2 DEF CreateManager
<1>3. ASSUME NEW t \in Tasks, CreateWorker(t) PROVE OnceInv'
  BY <1>3 DEF CreateWorker
<1>4. CASE CreateReturns
  BY <1>4 DEF CreateReturns
<1>5. CASE Stop
  BY <1>5 DEF Stop, StartStop
<1>6. ASSUME NEW t \in Tasks, StopProcess(t) PROVE OnceInv'
  BY <1>6 DEF StopProcess
<1>7. ASSUME NEW t \in Tasks, JoinThread(t) PROVE OnceInv'
  BY <1>7 DEF JoinThread
<1>8. CASE StopReturns
  BY <1>8 DEF StopReturns, LiveThreads
<1>9. CASE FinalChecks
  BY <1>9 DEF FinalChecks
<1>10. CASE TeardownAfterStop
  BY <1>10 DEF TeardownAfterStop
<1>11. CASE Teardown
  BY <1>11 DEF Teardown, StartStop
<1>12. CASE TeardownStopped
  BY <1>12 DEF TeardownStopped
<1>13. CASE Uploaded
  BY <1>13 DEF Uploaded
<1>14. CASE Finally
  BY <1>14 DEF Finally, LiveThreads
<1>15. CASE Defer
  BY <1>15 DEF Defer, LiveThreads, HelperAlive
<1>16. CASE HelperJoined
  BY <1>16 DEF HelperJoined
<1>17. CASE CallerTakesManager
  BY <1>17 DEF CallerTakesManager, TakeManager
<1>18. CASE HelperTakesManager
  BY <1>18 DEF HelperTakesManager, TakeManager
<1>19. CASE CallerShutsManager
  BY <1>19 DEF CallerShutsManager, ManagerShutdown
<1>20. CASE HelperShutsManager
  BY <1>20 DEF HelperShutsManager, ManagerShutdown
<1>21. ASSUME NEW t \in Tasks, WorkerStep(t) \/ TaskEnds(t) PROVE OnceInv'
  BY <1>21, WorkerChanges
<1>22. CASE UNCHANGED vars
  BY <1>22 DEF vars
<1> QED
  BY <1>1, <1>2, <1>3, <1>4, <1>5, <1>6, <1>7, <1>8, <1>9, <1>10, <1>11, <1>12,
     <1>13, <1>14, <1>15, <1>16, <1>17, <1>18, <1>19, <1>20, <1>21, <1>22 DEF Next,
     CallerChooses, CallerContinues, HelperStep

\* Joining and killing leaves no process behind.
LEMMA ProcessStep ==
    ASSUME ExecutorInv, [Next]_vars
    PROVE  ProcessInv'
<1> USE TasksAssumption DEF ExecutorInv, TypeOK, ProcessInv, Alive, Tasks,
      AfterStop, workerVars, managerVars, callerVars, helperVars
<1>1. CASE CreateNothing
  BY <1>1 DEF CreateNothing
<1>2. CASE CreateManager
  BY <1>2 DEF CreateManager
<1>3. ASSUME NEW t \in Tasks, CreateWorker(t) PROVE ProcessInv'
  BY <1>3 DEF CreateWorker
<1>4. CASE CreateReturns
  BY <1>4 DEF CreateReturns
<1>5. CASE Stop
  BY <1>5 DEF Stop, StartStop
<1>6. ASSUME NEW t \in Tasks, StopProcess(t) PROVE ProcessInv'
  BY <1>6 DEF StopProcess
<1>7. ASSUME NEW t \in Tasks, JoinThread(t) PROVE ProcessInv'
  BY <1>7 DEF JoinThread
<1>8. CASE StopReturns
  BY <1>8 DEF StopReturns, LiveThreads
<1>9. CASE FinalChecks
  BY <1>9 DEF FinalChecks
<1>10. CASE TeardownAfterStop
  BY <1>10 DEF TeardownAfterStop
<1>11. CASE Teardown
  BY <1>11 DEF Teardown, StartStop
<1>12. CASE TeardownStopped
  BY <1>12 DEF TeardownStopped
<1>13. CASE Uploaded
  BY <1>13 DEF Uploaded
<1>14. CASE Finally
  BY <1>14 DEF Finally, LiveThreads
<1>15. CASE Defer
  BY <1>15 DEF Defer, LiveThreads, HelperAlive
<1>16. CASE HelperJoined
  BY <1>16 DEF HelperJoined
<1>17. CASE CallerTakesManager
  BY <1>17 DEF CallerTakesManager, TakeManager
<1>18. CASE HelperTakesManager
  BY <1>18 DEF HelperTakesManager, TakeManager
<1>19. CASE CallerShutsManager
  BY <1>19 DEF CallerShutsManager, ManagerShutdown
<1>20. CASE HelperShutsManager
  BY <1>20 DEF HelperShutsManager, ManagerShutdown
<1>21. ASSUME NEW t \in Tasks, WorkerStep(t) \/ TaskEnds(t) PROVE ProcessInv'
  BY <1>21, WorkerChanges
<1>22. CASE UNCHANGED vars
  BY <1>22 DEF vars
<1> QED
  BY <1>1, <1>2, <1>3, <1>4, <1>5, <1>6, <1>7, <1>8, <1>9, <1>10, <1>11, <1>12,
     <1>13, <1>14, <1>15, <1>16, <1>17, <1>18, <1>19, <1>20, <1>21, <1>22 DEF Next,
     CallerChooses, CallerContinues, HelperStep

\* The caller's and the helper's view of the threads stays true.
LEMMA ThreadStep ==
    ASSUME ExecutorInv, [Next]_vars
    PROVE  ThreadInv'
<1> USE TasksAssumption DEF ExecutorInv, TypeOK, ThreadInv, UntouchedInv,
      BeforeTeardown, Alive, Tasks, workerVars, managerVars, callerVars,
      helperVars
<1>1. CASE CreateNothing
  BY <1>1 DEF CreateNothing
<1>2. CASE CreateManager
  BY <1>2 DEF CreateManager
<1>3. ASSUME NEW t \in Tasks, CreateWorker(t) PROVE ThreadInv'
  BY <1>3 DEF CreateWorker
<1>4. CASE CreateReturns
  BY <1>4 DEF CreateReturns
<1>5. CASE Stop
  BY <1>5 DEF Stop, StartStop
<1>6. ASSUME NEW t \in Tasks, StopProcess(t) PROVE ThreadInv'
  BY <1>6 DEF StopProcess
<1>7. ASSUME NEW t \in Tasks, JoinThread(t) PROVE ThreadInv'
  BY <1>7 DEF JoinThread
<1>8. CASE StopReturns
  BY <1>8 DEF StopReturns, LiveThreads
<1>9. CASE FinalChecks
  BY <1>9 DEF FinalChecks
<1>10. CASE TeardownAfterStop
  BY <1>10 DEF TeardownAfterStop
<1>11. CASE Teardown
  BY <1>11 DEF Teardown, StartStop
<1>12. CASE TeardownStopped
  BY <1>12 DEF TeardownStopped
<1>13. CASE Uploaded
  BY <1>13 DEF Uploaded
<1>14. CASE Finally
  BY <1>14 DEF Finally, LiveThreads
<1>15. CASE Defer
  BY <1>15 DEF Defer, LiveThreads, HelperAlive
<1>16. CASE HelperJoined
  BY <1>16 DEF HelperJoined
<1>17. CASE CallerTakesManager
  BY <1>17 DEF CallerTakesManager, TakeManager
<1>18. CASE HelperTakesManager
  BY <1>18 DEF HelperTakesManager, TakeManager
<1>19. CASE CallerShutsManager
  BY <1>19 DEF CallerShutsManager, ManagerShutdown
<1>20. CASE HelperShutsManager
  BY <1>20 DEF HelperShutsManager, ManagerShutdown
<1>21. ASSUME NEW t \in Tasks, WorkerStep(t) \/ TaskEnds(t) PROVE ThreadInv'
  BY <1>21, WorkerChanges
<1>22. CASE UNCHANGED vars
  BY <1>22 DEF vars
<1> QED
  BY <1>1, <1>2, <1>3, <1>4, <1>5, <1>6, <1>7, <1>8, <1>9, <1>10, <1>11, <1>12,
     <1>13, <1>14, <1>15, <1>16, <1>17, <1>18, <1>19, <1>20, <1>21, <1>22 DEF Next,
     CallerChooses, CallerContinues, HelperStep

\* Nobody comes to life under a Manager that is down.
LEMMA DownStep ==
    ASSUME ExecutorInv, [Next]_vars
    PROVE  DownInv'
<1> USE TasksAssumption DEF ExecutorInv, TypeOK, DownInv, ThreadInv, ProcessInv,
      UntouchedInv, BeforeTeardown, AfterStop, Alive, Tasks, workerVars,
      managerVars, callerVars, helperVars
<1>1. CASE CreateNothing
  BY <1>1 DEF CreateNothing
<1>2. CASE CreateManager
  BY <1>2 DEF CreateManager
<1>3. ASSUME NEW t \in Tasks, CreateWorker(t) PROVE DownInv'
  BY <1>3 DEF CreateWorker
<1>4. CASE CreateReturns
  BY <1>4 DEF CreateReturns
<1>5. CASE Stop
  BY <1>5 DEF Stop, StartStop
<1>6. ASSUME NEW t \in Tasks, StopProcess(t) PROVE DownInv'
  BY <1>6 DEF StopProcess
<1>7. ASSUME NEW t \in Tasks, JoinThread(t) PROVE DownInv'
  BY <1>7 DEF JoinThread
<1>8. CASE StopReturns
  BY <1>8 DEF StopReturns, LiveThreads
<1>9. CASE FinalChecks
  BY <1>9 DEF FinalChecks
<1>10. CASE TeardownAfterStop
  BY <1>10 DEF TeardownAfterStop
<1>11. CASE Teardown
  BY <1>11 DEF Teardown, StartStop
<1>12. CASE TeardownStopped
  BY <1>12 DEF TeardownStopped
<1>13. CASE Uploaded
  BY <1>13 DEF Uploaded
<1>14. CASE Finally
  BY <1>14 DEF Finally, LiveThreads
<1>15. CASE Defer
  BY <1>15 DEF Defer, LiveThreads, HelperAlive
<1>16. CASE HelperJoined
  BY <1>16 DEF HelperJoined
<1>17. CASE CallerTakesManager
  BY <1>17 DEF CallerTakesManager, TakeManager
<1>18. CASE HelperTakesManager
  BY <1>18 DEF HelperTakesManager, TakeManager
<1>19. CASE CallerShutsManager
  BY <1>19 DEF CallerShutsManager, ManagerShutdown
<1>20. CASE HelperShutsManager
  BY <1>20 DEF HelperShutsManager, ManagerShutdown
<1>21. ASSUME NEW t \in Tasks, WorkerStep(t) \/ TaskEnds(t) PROVE DownInv'
  BY <1>21, WorkerChanges
<1>22. CASE UNCHANGED vars
  BY <1>22 DEF vars
<1> QED
  BY <1>1, <1>2, <1>3, <1>4, <1>5, <1>6, <1>7, <1>8, <1>9, <1>10, <1>11, <1>12,
     <1>13, <1>14, <1>15, <1>16, <1>17, <1>18, <1>19, <1>20, <1>21, <1>22 DEF Next,
     CallerChooses, CallerContinues, HelperStep

(***************************************************************************)
(* The theorems                                                            *)
(***************************************************************************)

\* The parts together are an invariant of the executor.
THEOREM ExecutorInvariant == Spec => []ExecutorInv
<1>1. Init => ExecutorInv
  BY TasksAssumption DEF Init, ExecutorInv, TypeOK, UntouchedInv, OnceInv, ProcessInv,
     ThreadInv, DownInv, Alive, Tasks, BeforeTeardown, AfterStop
<1>2. ExecutorInv /\ [Next]_vars => ExecutorInv'
  BY TypeStep, UntouchedStep, OnceStep, ProcessStep, ThreadStep, DownStep DEF
       ExecutorInv
<1> QED
  BY <1>1, <1>2, PTL DEF Spec

\* The variables keep their types, whatever the workers and the helper do.
THEOREM ExecutorTypeCorrect == Spec => []TypeOK
<1>1. ExecutorInv => TypeOK
  BY DEF ExecutorInv
<1> QED
  BY <1>1, ExecutorInvariant, PTL

\* manager.shutdown() is called at most once, however teardown() and the helper
\* thread race for _manager.
THEOREM ShutdownOnceHolds == Spec => []ShutdownOnce
<1>1. ExecutorInv => ShutdownOnce
  BY DEF ExecutorInv, OnceInv, ShutdownOnce
<1> QED
  BY <1>1, ExecutorInvariant, PTL

\* When the Manager is down, every process has ended, and every thread but those
\* the helper waited for to its deadline.
THEOREM ManagerOutlivesWorkersHolds == Spec => []ManagerOutlivesWorkers
<1>1. ExecutorInv => ManagerOutlivesWorkers
  BY DEF ExecutorInv, DownInv, ManagerOutlivesWorkers, LiveWorkers, Tasks
<1> QED
  BY <1>1, ExecutorInvariant, PTL

\* The runner's final checks read the data of workers that have all ended, from a
\* Manager nobody has shut down.
THEOREM FinalChecksAreStableHolds == Spec => []FinalChecksAreStable
<1>1. ExecutorInv => FinalChecksAreStable
  BY DEF ExecutorInv, UntouchedInv, ProcessInv, ThreadInv, FinalChecksAreStable,
     LiveWorkers, Tasks, BeforeTeardown, AfterStop
<1> QED
  BY <1>1, ExecutorInvariant, PTL
=============================================================================
