------------------------ MODULE PeriodicTaskExecutor ------------------------
(***************************************************************************)
(* The background tasks of a playbook:                                     *)
(* src/taac/libs/periodic_task_executor.py and periodic_task_worker.py.    *)
(*                                                                         *)
(* Actors: the caller (taac_runner.py), one worker per periodic task (a    *)
(* thread when the task needs the IXIA, a forkserver process otherwise),   *)
(* and the helper thread that shuts the multiprocessing Manager down when  *)
(* threads outlive teardown().  Workers keep their data in the Manager.    *)
(*                                                                         *)
(* A worker inside its task's _run may never come back: an IXIA call can   *)
(* hang.  Processes are killed then; threads cannot be.                    *)
(***************************************************************************)
EXTENDS Naturals, FiniteSets

CONSTANTS
    Threads,           \* periodic tasks with ixia_needed
    Processes,         \* the other periodic tasks
    Retryable,         \* tasks with retryable set
    TerminateOnError,  \* tasks with terminate_on_error set
    MaxTeardowns       \* bound: calls of teardown()

Tasks == Threads \cup Processes

ASSUME TasksAssumption ==
    /\ Threads \cap Processes = {}
    /\ Retryable \subseteq Tasks
    /\ TerminateOnError \subseteq Tasks
    /\ MaxTeardowns \in Nat

VARIABLES
    worker,      \* where each task's worker is
    hasError,    \* tasks whose has_error Value is set
    stopEvent,   \* the Event shared by all workers
    managerRef,  \* self._manager: "none" or "set"
    manager,     \* the Manager process: "off", "up" or "down"
    shutdowns,   \* calls of manager.shutdown()
    caller,      \* the statement the calling task is at
    toCreate,    \* tasks create_periodic_tasks has not started yet
    toJoin,      \* workers stop_all_periodic_tasks has not joined yet
    teardowns,   \* calls of teardown() so far
    helper,      \* the PeriodicTaskManagerShutdown thread
    awaited,     \* the live threads the helper joins
    forced       \* history: threads alive when the helper's deadline passed

workerVars == <<worker, hasError>>
managerVars == <<managerRef, manager, shutdowns>>
callerVars == <<caller, toCreate, toJoin, teardowns>>
helperVars == <<helper, awaited, forced>>
vars == <<workerVars, stopEvent, managerVars, callerVars, helperVars>>

Alive(t) == worker[t] \notin {"absent", "dead"}

LiveThreads == {t \in Threads : Alive(t)}

LiveWorkers == {t \in Tasks : Alive(t)}

(***************************************************************************)
(* create_periodic_tasks                                                   *)
(***************************************************************************)

\* Nothing to run, or the Manager could not be made in three attempts:
\* nothing is started.
CreateNothing ==
    /\ caller = "new"
    /\ caller' = "idle"
    /\ UNCHANGED <<workerVars, stopEvent, managerVars, toCreate, toJoin,
                   teardowns, helperVars>>

CreateManager ==
    /\ caller = "new"
    /\ Tasks # {}
    /\ caller' = "creating"
    /\ managerRef' = "set"
    /\ manager' = "up"
    /\ toCreate' = Tasks
    /\ UNCHANGED <<workerVars, stopEvent, shutdowns, toJoin, teardowns, helperVars>>

CreateWorker(t) ==
    /\ caller = "creating"
    /\ t \in toCreate
    /\ toCreate' = toCreate \ {t}
    /\ worker' = [worker EXCEPT ![t] = "starting"]
    /\ UNCHANGED <<hasError, stopEvent, managerVars, caller, toJoin, teardowns,
                   helperVars>>

\* All tasks are started, or starting one raised and the rest never are.
CreateReturns ==
    /\ caller = "creating"
    /\ caller' = "idle"
    /\ toCreate' = {}
    /\ UNCHANGED <<workerVars, stopEvent, managerVars, toJoin, teardowns, helperVars>>

(***************************************************************************)
(* The worker                                                              *)
(***************************************************************************)

\* The worker leaves its loop: a process still has a log to publish.
Leaves(t) ==
    worker' = [worker EXCEPT ![t] = IF t \in Processes THEN "publish" ELSE "dead"]

\* A failure that ends the worker, from the loop or from getting ready for it.
Fails(t) ==
    /\ Leaves(t)
    /\ hasError' = hasError \cup {t}
    /\ stopEvent' = IF t \in TerminateOnError THEN "set" ELSE stopEvent

WorkerStarts(t) ==
    /\ worker[t] = "starting"
    /\ \/ /\ worker' = [worker EXCEPT ![t] = "loop"]
          /\ UNCHANGED <<hasError, stopEvent>>
       \/ Fails(t)
    /\ UNCHANGED <<managerVars, callerVars, helperVars>>

\* Mutant of WorkerLoops: the stop event is not looked at.
MutantLoopsOn(t) ==
    /\ worker[t] = "loop"
    /\ worker' = [worker EXCEPT ![t] = "running"]
    /\ UNCHANGED <<hasError, stopEvent, managerVars, callerVars, helperVars>>

\* The head of `while not stop_event.is_set()`, max_runtime included.
WorkerLoops(t) ==
    /\ worker[t] = "loop"
    /\ \/ stopEvent = "clear" /\ worker' = [worker EXCEPT ![t] = "running"]
       \/ Leaves(t)
    /\ UNCHANGED <<hasError, stopEvent, managerVars, callerVars, helperVars>>

\* One run of the task ends: it succeeds or is retried, and the worker waits.
WorkerRuns(t) ==
    /\ worker[t] = "running"
    /\ worker' = [worker EXCEPT ![t] = "waiting"]
    /\ UNCHANGED <<hasError, stopEvent, managerVars, callerVars, helperVars>>

WorkerFails(t) ==
    /\ worker[t] = "running"
    /\ t \notin Retryable
    /\ Fails(t)
    /\ UNCHANGED <<managerVars, callerVars, helperVars>>

\* stop_event.wait: the interval passes or the event is set.
WorkerWakes(t) ==
    /\ worker[t] = "waiting"
    /\ worker' = [worker EXCEPT ![t] = "loop"]
    /\ UNCHANGED <<hasError, stopEvent, managerVars, callerVars, helperVars>>

WorkerPublishes(t) ==
    /\ worker[t] = "publish"
    /\ worker' = [worker EXCEPT ![t] = "dead"]
    /\ UNCHANGED <<hasError, stopEvent, managerVars, callerVars, helperVars>>

(***************************************************************************)
(* stop_all_periodic_tasks                                                 *)
(***************************************************************************)

\* `from` is "stopping" for the runner's own call, "teardown" for teardown()'s.
StartStop(from) ==
    /\ stopEvent' = "set"
    /\ toJoin' = {t \in Tasks : worker[t] # "absent"}
    /\ caller' = from

Stop ==
    /\ caller = "idle"
    /\ StartStop("stopping")
    /\ UNCHANGED <<workerVars, managerVars, toCreate, teardowns, helperVars>>

\* join(5), and for a process still alive terminate() and kill().
StopProcess(t) ==
    /\ caller \in {"stopping", "teardown"}
    /\ t \in toJoin \cap Processes
    /\ toJoin' = toJoin \ {t}
    /\ worker' = [worker EXCEPT ![t] = "dead"]
    /\ UNCHANGED <<hasError, stopEvent, managerVars, caller, toCreate, teardowns,
                   helperVars>>

\* Mutant of JoinThread: the join has no timeout.
MutantJoinsForever(t) ==
    /\ caller \in {"stopping", "teardown"}
    /\ toJoin \cap Processes = {}
    /\ t \in toJoin
    /\ ~Alive(t)
    /\ toJoin' = toJoin \ {t}
    /\ UNCHANGED <<workerVars, stopEvent, managerVars, caller, toCreate, teardowns,
                   helperVars>>

\* join(5) on a thread: it has ended, or the join times out.
JoinThread(t) ==
    /\ caller \in {"stopping", "teardown"}
    /\ toJoin \cap Processes = {}
    /\ t \in toJoin
    /\ toJoin' = toJoin \ {t}
    /\ UNCHANGED <<workerVars, stopEvent, managerVars, caller, toCreate, teardowns,
                   helperVars>>

\* Mutant of StopReturns: threads that are still alive go unnoticed.
MutantStopAlwaysOk ==
    /\ caller = "stopping"
    /\ toJoin = {}
    /\ caller' = "stopped"
    /\ UNCHANGED <<workerVars, stopEvent, managerVars, toCreate, toJoin, teardowns,
                   helperVars>>

\* live_threads decides between returning and RuntimeError.
StopReturns ==
    /\ caller = "stopping"
    /\ toJoin = {}
    /\ caller' = IF LiveThreads = {} THEN "stopped" ELSE "stop_failed"
    /\ UNCHANGED <<workerVars, stopEvent, managerVars, toCreate, toJoin, teardowns,
                   helperVars>>

(***************************************************************************)
(* The runner's use: final checks, then teardown()                         *)
(***************************************************************************)

\* _finalize_test_case_periodic_task_executor: the final checks read the
\* Manager's data only when stop_all_periodic_tasks returned.
FinalChecks ==
    /\ caller = "stopped"
    /\ caller' = "checking"
    /\ UNCHANGED <<workerVars, stopEvent, managerVars, toCreate, toJoin, teardowns,
                   helperVars>>

\* teardown(stop_tasks=False) after the runner's own stop; it uploads the logs
\* unless the final checks already did.
TeardownAfterStop ==
    /\ caller \in {"checking", "stop_failed"}
    /\ teardowns' = teardowns + 1
    /\ caller' = IF caller = "checking" THEN "finally" ELSE "uploading"
    /\ UNCHANGED <<workerVars, stopEvent, managerVars, toCreate, toJoin, helperVars>>

\* teardown(stop_tasks=True).
Teardown ==
    /\ caller \in {"idle", "torn_down"}
    /\ teardowns < MaxTeardowns
    /\ teardowns' = teardowns + 1
    /\ StartStop("teardown")
    /\ UNCHANGED <<workerVars, managerVars, toCreate, helperVars>>

TeardownStopped ==
    /\ caller = "teardown"
    /\ toJoin = {}
    /\ caller' = "uploading"
    /\ UNCHANGED <<workerVars, stopEvent, managerVars, toCreate, toJoin, teardowns,
                   helperVars>>

\* The workers' logs are uploaded, or uploading fails or is cancelled.
Uploaded ==
    /\ caller = "uploading"
    /\ caller' = "finally"
    /\ UNCHANGED <<workerVars, stopEvent, managerVars, toCreate, toJoin, teardowns,
                   helperVars>>

\* Mutant of Finally: the Manager is shut down under live threads.
MutantShutsAtOnce ==
    /\ caller = "finally"
    /\ caller' = "shutdown"
    /\ UNCHANGED <<workerVars, stopEvent, managerVars, toCreate, toJoin, teardowns,
                   helperVars>>

\* The `finally` of teardown: shut the Manager down now, or defer it.
Finally ==
    /\ caller = "finally"
    /\ caller' = IF LiveThreads # {} THEN "defer" ELSE "shutdown"
    /\ UNCHANGED <<workerVars, stopEvent, managerVars, toCreate, toJoin, teardowns,
                   helperVars>>

(***************************************************************************)
(* _defer_manager_shutdown_until_threads_exit and _shutdown_manager        *)
(***************************************************************************)

HelperAlive == helper \notin {"none", "dead"}

\* The threads are looked at again: the last may have ended meanwhile.
Defer ==
    /\ caller = "defer"
    /\ \/ /\ HelperAlive
          /\ caller' = "torn_down"
          /\ UNCHANGED <<helper, awaited>>
       \/ /\ ~HelperAlive /\ LiveThreads = {}
          /\ caller' = "shutdown"
          /\ UNCHANGED <<helper, awaited>>
       \/ /\ ~HelperAlive /\ LiveThreads # {}
          /\ caller' = "torn_down"
          /\ helper' = "joining"
          /\ awaited' = LiveThreads
    /\ UNCHANGED <<workerVars, stopEvent, managerVars, toCreate, toJoin, teardowns,
                   forced>>

\* Mutant of HelperJoined: the helper's joins have no deadline.
MutantNoDeadline ==
    /\ helper = "joining"
    /\ \A t \in awaited : ~Alive(t)
    /\ helper' = "shutdown"
    /\ UNCHANGED <<workerVars, stopEvent, managerVars, callerVars, awaited, forced>>

\* shutdown_after_join: every awaited thread has ended, or the deadline passed.
HelperJoined ==
    /\ helper = "joining"
    /\ helper' = "shutdown"
    /\ forced' = forced \cup {t \in awaited : Alive(t)}
    /\ UNCHANGED <<workerVars, stopEvent, managerVars, callerVars, awaited>>

\* Mutant of TakeManager: self._manager is not cleared under the lock.
MutantKeepsRef(taken) ==
    /\ taken = managerRef
    /\ UNCHANGED managerRef

\* The part of _shutdown_manager under _manager_lock.
TakeManager(taken) ==
    /\ taken = managerRef
    /\ managerRef' = "none"

CallerTakesManager ==
    /\ caller = "shutdown"
    /\ \/ TakeManager("none") /\ caller' = "torn_down"
       \/ TakeManager("set") /\ caller' = "shutting"
    /\ UNCHANGED <<workerVars, stopEvent, manager, shutdowns, toCreate, toJoin,
                   teardowns, helperVars>>

HelperTakesManager ==
    /\ helper = "shutdown"
    /\ \/ TakeManager("none") /\ helper' = "dead"
       \/ TakeManager("set") /\ helper' = "shutting"
    /\ UNCHANGED <<workerVars, stopEvent, manager, shutdowns, callerVars, awaited,
                   forced>>

ManagerShutdown ==
    /\ manager' = "down"
    /\ shutdowns' = shutdowns + 1
    /\ UNCHANGED <<workerVars, stopEvent, managerRef, toCreate, toJoin, teardowns,
                   awaited, forced>>

CallerShutsManager ==
    /\ caller = "shutting"
    /\ caller' = "torn_down"
    /\ UNCHANGED helper
    /\ ManagerShutdown

HelperShutsManager ==
    /\ helper = "shutting"
    /\ helper' = "dead"
    /\ UNCHANGED caller
    /\ ManagerShutdown

(***************************************************************************)
(* The specification                                                       *)
(***************************************************************************)

Init ==
    /\ worker = [t \in Tasks |-> "absent"]
    /\ hasError = {}
    /\ stopEvent = "clear"
    /\ managerRef = "none"
    /\ manager = "off"
    /\ shutdowns = 0
    /\ caller = "new"
    /\ toCreate = {}
    /\ toJoin = {}
    /\ teardowns = 0
    /\ helper = "none"
    /\ awaited = {}
    /\ forced = {}

\* What the caller does next is its own choice only here.
CallerChooses == CreateNothing \/ CreateManager \/ Stop \/ Teardown

\* A call that has begun goes on; joins and uploads have deadlines.
CallerContinues ==
    \/ \E t \in Tasks : CreateWorker(t) \/ StopProcess(t) \/ JoinThread(t)
    \/ CreateReturns
    \/ StopReturns
    \/ FinalChecks
    \/ TeardownAfterStop
    \/ TeardownStopped
    \/ Uploaded
    \/ Finally
    \/ Defer
    \/ CallerTakesManager
    \/ CallerShutsManager

HelperStep == HelperJoined \/ HelperTakesManager \/ HelperShutsManager

\* All of a worker's steps but the end of its task's own _run.
WorkerStep(t) ==
    WorkerStarts(t) \/ WorkerLoops(t) \/ WorkerWakes(t) \/ WorkerPublishes(t)

TaskEnds(t) == WorkerRuns(t) \/ WorkerFails(t)

Next ==
    \/ CallerChooses
    \/ CallerContinues
    \/ HelperStep
    \/ \E t \in Tasks : WorkerStep(t) \/ TaskEnds(t)

\* No fairness for TaskEnds: a task may hang. None for CallerChooses.
Fairness ==
    /\ WF_vars(CallerContinues)
    /\ WF_vars(HelperStep)
    /\ \A t \in Tasks : WF_vars(WorkerStep(t))

Spec == Init /\ [][Next]_vars /\ Fairness

(***************************************************************************)
(* Properties                                                              *)
(***************************************************************************)

\* The variables hold the values the executor and its workers give them.
TypeOK ==
    /\ worker \in [Tasks -> {"absent", "starting", "loop", "running", "waiting",
                             "publish", "dead"}]
    /\ hasError \subseteq Tasks
    /\ stopEvent \in {"clear", "set"}
    /\ managerRef \in {"none", "set"}
    /\ manager \in {"off", "up", "down"}
    /\ shutdowns \in Nat
    /\ caller \in {"new", "creating", "idle", "stopping", "stopped", "stop_failed",
                   "checking", "teardown", "uploading", "finally", "defer",
                   "shutdown", "shutting", "torn_down"}
    /\ toCreate \subseteq Tasks
    /\ toJoin \subseteq Tasks
    /\ toCreate # {} => caller = "creating"
    /\ toJoin # {} => caller \in {"stopping", "teardown"}
    /\ teardowns \in Nat
    /\ helper \in {"none", "joining", "shutdown", "shutting", "dead"}
    /\ awaited \subseteq Threads
    /\ forced \subseteq Threads

\* The Manager outlives everyone who keeps data in it: once it is down, the only
\* live workers are threads that the helper waited for to its deadline.
ManagerOutlivesWorkers == manager = "down" => LiveWorkers \subseteq forced

\* The final checks read data that nobody writes any more, from a Manager that is
\* still there ("already stopped them for stable final checks", teardown).
FinalChecksAreStable ==
    caller = "checking" => LiveWorkers = {} /\ manager # "down"

\* The Manager is shut down at most once, however teardown() and the helper race.
ShutdownOnce == shutdowns <= 1

\* A teardown releases the Manager even when a thread never ends.
ManagerReleased == teardowns > 0 ~> manager # "up"

\* stop_all_periodic_tasks returns even when a worker hangs in its task.
StopTerminates ==
    caller \in {"stopping", "teardown"} ~> caller \notin {"stopping", "teardown"}

\* Setting the event, by stop_all_periodic_tasks or by one task's
\* terminate_on_error, ends every worker that is not inside its task.
StopReachesAll ==
    \A t \in Tasks :
      stopEvent = "set" /\ worker[t] \in {"waiting", "loop"} ~> ~Alive(t)
=============================================================================
