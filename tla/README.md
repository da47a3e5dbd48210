# TLA+ models of the TAAC test runner

TAAC drives network tests: it sets a test bed up (switches and a traffic
generator), runs playbooks against it, and gives the bed back. Almost nothing of
what makes it correct is arithmetic; it is cleanup. Every `await` of the runner can
raise, time out or be where a cancellation arrives, threads outlive the calls that
started them, and afterwards somebody else uses the same devices. These modules
model that core: the ownership of what a test acquires, the order in which it is
given back, what happens to the errors on the way, what several threads and several
runs do to one traffic generator, and what the process finally says about the run.

## Inventory

| Part | State it keeps | Operations | Interacts with | What is hard | What makes it correct |
|---|---|---|---|---|---|
| Baseline lifecycle (`taac/libs/baseline_lifecycle.py`) | stack of frames with captures, restoration failures | `capture`, `restore`, `restore_all`, `is_healthy` | participants (snapshot, restore, verify, release) under deadlines | partial capture, failing undo, cancellation inside the undo | frames nest; a healthy lifecycle accounts for every snapshot; a failure is never forgotten |
| Periodic task executor (`taac/libs/periodic_task_executor.py`, `periodic_task_worker.py`) | workers, stop event, Manager process, helper thread | create, run loop, stop, final checks, teardown | the runner; threads that use the IXIA; the Manager's process | threads that cannot be killed, two parties that shut the Manager down | the Manager outlives its users, is shut down once and in the end |
| Test case lifecycle (`taac/libs/taac_runner.py`, `run_tests`, `run_test_case`) | executor, pending handlers, cleanup flag, rsyslog flag, baseline context, errors | setUp, stages, teardown, fallback cleanup | all of the above, the traffic generator | the cleanup is shared by two code paths through flags; errors compete for one exception | nothing of a test case survives it; the verdict is kept; the topology is restored last |
| Test config teardown (`taac_runner.py`, `async_test_tearDown`) | cancellation budget, failures by task, remembered cancellation | run and retry teardown tasks, handlers, release, reporting, upload | cleanup coroutines behind `asyncio.shield` | repeated cancellations, cleanups that hang | the bed is always released; nothing is skipped or lost; a cancelled teardown ends |
| Test setup and setup orchestrator (`test_setup_orchestrator.py`, `ixia_candidate.py`, `traffic_generator.py`) | traffic generator, IXIA, selected candidate, butler, chunker, reservations | `async_test_setUp`, candidate fallback, `async_tearDown` | Basset, isolation, the session client, the API servers | a dozen acquisitions that fail or are cancelled between two of them; a cleanup that fails too | nothing acquired is forgotten once its call returned; the fallback is clean; what is not released is reported; the user's session survives |
| OSS entry point (`taac/runner/oss_*.py`, `result_formatter.py`) | results, retry state, timer | `main`, `execute_playbook`, `classify_exception`, `get_exit_code` | `TaacRunner` | a timer that cancels at any await, retries, setups that fail | exit 0 is earned, and never given to a run the timer cut off; every cell is accounted for; every bed that was set up is torn down |
| IXIA client (`taac/ixia/ixia.py`, `taac_ixia.py`) | session, apply lock, session quarantine, scenario quarantine | apply, mutation transactions, `connect`, quarantine, reset | API server; threads of periodic tasks; churn scenarios | an apply nobody can tell the outcome of, stale recoveries, replacement of the session | nothing is applied to a session in an unknown or unrestored state; a transaction has the session to itself; only a request without a deadline keeps the lock |
| IXIA recovery (`taac/ixia/recovery.py`) | cooldown file of the host | `restart_ixnetwork`, the `@external_api` wrapper, the gate between playbooks | other runs on the chassis | a restart makes other runs restart; nested retries; clocks | the restarts from one host are a cooldown apart unless two attempts cross; calls end; the cooldown ends |
| IXIA config cache | files and their keys | lookup, validate, replace | setup | a session made for a lookup that then fails | its session and its fall-through are in the setup |
| Collectors (`taac/libs/collectors/`) | thread, its loop, stop flag | `start`, `stop`, exit hook, poll | health checks | a thread inside a blocking call, restart while it still runs | `stop()` is honest; one thread polls; a thread told to stop ends |
| Churn runner (`taac/abstractions/churn/`) | scenario quarantine in the client | apply, measure, restore | IXIA client | failure between apply and restore | its quarantine is in the client's model; the repository has only the interface of a `ChurnAction` |
| IXIA baseline participant (`ixia_config_baseline.py`) | saved config file | save, load, verify, remove in threads | the lifecycle | a thread a timeout does not stop | any participant of the lifecycle; its threads are not modelled |
| Steps, stages, tasks, custom handlers | none of their own | run | devices | any may fail or hang | awaits with every outcome |
| Health checks, topology compiler, playbooks and test configs, drivers, FPF and OTG libraries, utilities, packaging | data or remote calls | - | - | - | not modelled, see below |

`async_test_setUp` reserves and isolates the bed and connects an IXIA. `run_tests` is
called by `tictaac_oss.py` once for all playbooks and by the executor of the OSS entry
point once per playbook and DUT. `run_test_case` opens a topology frame in the
lifecycle, begins the traffic, sets the handlers up, starts the periodic executor and
configures rsyslog; its teardown closes them in the opposite order, and its fallback
cleanup closes whatever the teardown did not come to. Steps, periodic tasks and churn
scenarios mutate the IXIA session from several threads; any of their requests may find
the chassis wedged and recover it. `main()` wraps setup, playbooks and teardown of one
config in one `asyncio.wait_for`. The places where this is hard to test are the
`hazards` of `PROJECT.json`, each at its line.

## Modules

Every module has one action per await, request or synchronous block between two of
them; an await has an outcome for success, for an Exception and, where one can be
delivered, for a CancelledError. `PROJECT.json` maps each definition to its lines.
Definitions called `Mutant...` are plausible bugs of the definition they precede;
they are not part of any specification and serve to show that a property can fail.

**BaselineLifecycle** - `frames` is `_frames`, `restorationFailures` is
`_restoration_failures`; `pc`, `mode`, `cur`, `todo`, `errors` are the locals of the
running coroutine (one at a time is inside a lifecycle). `Capture`,
`CaptureCompletes`, `CaptureBreaks` and `RejectCapture` are `capture()`; the
`Undo...`, `Restore...`, `Verify...` and `Release...` actions are
`_restore_captures`, used by rollback, `restore` and `restore_all` alike. The
participants are external: `held` are the snapshots they keep, `dirty` the captured
states that `TestChanges` has changed since. `abandoned` is a history variable.

**BaselineContract** - what the lifecycle promises its caller, without participants,
snapshots or the awaits inside a call: a capture adds one baseline or changes nothing,
a restoration takes the innermost off, or all of them; what is left unrestored poisons
the lifecycle for good; every call returns. `BaselineLifecycle` instantiates it
(`Contract`) with a refinement mapping: the frames without their captures, healthy or
poisoned, the call being made, and how the last one ended. `TestCase` uses the
lifecycle as this contract describes it.

**PeriodicTaskExecutor** - three kinds of actors interleave: the caller, one worker
per task (threads for tasks that need the IXIA, processes otherwise), and the helper
thread that `teardown()` starts when threads outlive it. A worker inside its task may
never come back; a process can be killed then, a thread cannot. `forced` is a history
variable: the threads still alive when the helper's deadline passed.

**TestCase** - `run_tests`, `run_test_case`, its setUp, teardown and fallback.
`pc` names the await. The lifecycle appears as `BaselineContract` (a frame is opened,
or the capture fails and may poison; restoring pops the frame first), the executor as
what `PeriodicTaskExecutor` promises (after a stop no worker runs, except threads that
are stuck). `trouble` is a history variable with everything that went wrong. An
infrastructure error (`TestbedError`) is told apart from other Exceptions because the
code does.

**TestTeardown** - `plan` is what the test config has to clean up, chosen at the
start; `queue` is the cleanups of the stage, `job` the one that runs behind the shield,
`budget` its `_CleanupCancellationBudget`. The stages before the release share a
budget; release, reporting and upload get one each. `failures` is the list of an
attempt of `run_teardown_tasks`: its order is the order of the second attempt.
`errors` are the errors the teardown will raise, `cancellation` the CancelledError it
remembers.

**SetupOrchestrator** - `async_test_setUp` from the reservations to the chosen IXIA
and `async_tearDown`. `opts` are the options of the runner, chosen at the start. The
fields of the orchestrator and of its traffic generator's client are variables of
their own; `reserved`, `live` and `renamed` are external: what Basset, the isolation
and the API servers hold. A session is `<<candidate, number>>`; `TornDown` and
`TearDownRaises` tell what the code can see of its removal (`complete`, `handle`) from
whether the server still has it, and `spent` says that the client library's object, once its
`remove()` was refused, makes no further request. The IXIA client is synchronous and
blocks the event loop, so no cancellation arrives inside it. `reported`, `refused`,
`unclaimed` and `stranded` are history: the ways in which something is given up. So is
`unreturned`: a reservation call that raises or is cancelled may have reserved any part
of what it was asked for, and the code has no value to remember it by, since `butler`
and the list of query reservations are assigned after the await.

**OSSEntryPoint** - `results` is the aggregator's list; `fired` and `cancel` model the
timer of `asyncio.wait_for`. The loop that marks the remaining cells of a config after
its lifecycle was left looks at one cell after the other, as it does in the code.
`Check` is the list of questions `get_exit_code` asks in turn, its catch-all
`any(status.failed)` included. `setUp`, `tornDown` and `cut` are history.

**Collector** - the caller of `start()` and `stop()` and every thread it ever started.
`stopFlag`, `thread` and `loopOf` are the three fields they share. A thread in a poll
may block without seeing the flag or the cancellation queued on its loop. `told` and
`left` are history: the threads `stop()` was called for, and gave up on.

**IxiaMutation** - any number of threads around `_bounded_apply_lock`: bounded and
legacy applies, the three mutation transactions with verification and rollback,
`connect()`, and the quarantine, recovery and reset of a scenario. `reason` and
`quarantined` are the session quarantine, `recordGen`, `recordSession` and
`generation` the scenario quarantine; `ambiguous` and `unrestored` are external: the
sessions whose real state is unknown, and what each scenario left changed in which
session. A recovery restores the baseline of the generation it read, and no other;
`overwritten` is history, the records a later `quarantine_scenario` replaced. The
properties compare the two sides. `Unbounded` says which requests have no deadline: all
of the transactions' own, and the applies that are not `apply_changes_bounded`.

**IxiaRecovery** - runs on hosts that share a chassis; `file` and `age` are the
cooldown file of each host. Opening it truncates it, so a reader may find it empty.
`level` and `retried` are the nested `@external_api` wrappers. Time is ticks. `raced` is
history: the runs whose attempt crossed another one of their host that the file did not
show, because it was not written yet or could not be.

`MC...` modules hold the constants of the runs that a `.cfg` cannot express.

## Runs

| Run | Instance | Distinct states | Shows |
|---|---|---|---|
| `baseline` | 2 participants, 1 test config, 1 invocation, 1 playbook, 5 request tuples (empty, single, both orders, a duplicate) | 131,292 | `Nested`, `SafeToReuse`, `FailureIsFinal`, `ImplementsContract` (safety and liveness of the contract) |
| `periodic` | 2 threads (one retryable), 1 process that stops everybody on an error, up to 2 teardowns | 16,549 | `ManagerOutlivesWorkers`, `FinalChecksAreStable`, `ShutdownOnce`, `ManagerReleased`, `StopTerminates`, `StopReachesAll` |
| `testcase` | two `run_tests` calls, of three and of two playbooks; 2 iterations, 2 handlers, rsyslog, 2 cancellations | 119,113 | `CleanStart`, `OwnedOnce`, `StagesCovered`, `VerdictKept`, `TrafficEnded`, `PoisonedStops`, `RestoredLast` |
| `teardown` | 2 teardown tasks with 2 cancellations, or 2 handlers and the triage with 1 | 461,984 | `ReleaseAlwaysRuns`, `NoneSkipped`, `NothingLost`, `RerunsOnlyFailed`, `CancelledTeardownEnds` |
| `setup` | 2 candidates with 3 attempts each, 2 query reservations, 8 sets of options | 2,679,901 | `NothingForgotten`, `CleanFallback`, `ReleasedOrReported`, `ExistingSessionKept` |
| `oss_main` | 3 cells in 2 configs, 1 retry, four kinds of exceptions | 55,455 | `SuccessIsEarned`, `RemainingMarked`, `SetUpTornDown`, `CutOffIsSeen` |
| `collector` | 3 starts | 2,364 | `StopIsHonest`, `NoPollAfterRestart`, `ToldThreadsEnd` |
| `mutation` | 2 threads, 3 sessions, 3 scenario quarantines, 2 attempts | 1,177,054 | `NoApplyToAmbiguous`, `NoApplyToUnrestored`, `TransactionIsolated`, `LockReleased` |
| `recovery` | 2 runs on 1 host, one with nested calls, a disk that may fail, a timestamp in the future | 137,810 | `SpacedOnHost`, `CallsEnd`, `CooldownEnds` |
| `oss_shared_playbook`, `setup_second_remove`, `recovery_spacing` | the smallest instance that shows it, or the one of the passing run | - | a disagreement between the code and its documentation or tests, below |

The comment above each property states it and names the code it is about.

### Why the bounds are enough

- Frames nest at most twice (`Nested` says so), and an undo handles one participant
  after the other: with two participants one can fail before, after or with the
  other. The calls on a lifecycle follow one another; frames of
  several invocations are covered by the proof of `NestedHolds`.
- Two threads let one end and the other hang; two teardowns let the second race the
  helper of the first.
- Three playbooks give every test case a predecessor and a successor, and the second
  call a predecessor in another call; two handlers let a cancellation fall between
  two teardowns. A cancelled test case ends the run unless a second error replaces
  the cancellation, so two cancellations reach every combination of the teardown and
  the fallback. What is proved (below) does not depend on these bounds.
- A teardown task is retried once by the code (`TaskAttempts`), so two tasks show one
  succeeding while the other is repeated; one cancellation arms a budget, the second
  finds it armed. Handlers and the triage are stages of their own after the tasks.
- Two candidates give the fallback a first and a last one, and the three attempts
  of the code leave sessions of two attempts before; two reservations let one release fail and the other follow. The
  options are taken alone and where the code combines them.
- With `--retry 1` a cell is tried twice, the smallest number that needs the
  bookkeeping of the original result.
- With three starts a thread can be left behind by a first stop, and the flag cleared
  by a second start and by a third. The proofs cover every number.
- Two threads let one wait, sleep between retries or hold a stale recovery while the
  other applies; three sessions and generations let a stale one meet a replacement of
  a replacement. The proofs cover every number of each.
- Two runs on one host race for the file; a `Cooldown` of four ticks holds a whole
  recovery (check, stamp, POST, restart and poll) with ticks to spare and is short
  enough to end.
- `MaxCancels`, `cancels` of a plan, `MaxTeardowns`, `Iterations`, `Retry`,
  `MaxTries`, `MaxStarts`, `MaxSessions`, `MaxGenerations`, `Skew` and `Cooldown` are
  the only bounds on behaviour, and appear in guards.

### Fairness

- `BaselineLifecycle`: weak fairness of a step of the running call. Every participant
  call runs under `asyncio.timeout` (`_run`), so an await ends.
- `PeriodicTaskExecutor`: weak fairness of the caller's own statements (every join has
  a timeout), of the helper, and of every worker's loop; none for a worker inside its
  task, which may hang.
- `TestTeardown`: weak fairness of the event loop and of a deadline that is armed; none
  for a cleanup, which may take for ever. So `CancelledTeardownEnds` is claimed only of
  a teardown that was cancelled.
- `Collector`: weak fairness of the caller's and the threads' own statements. Nothing
  is assumed of the device: `ToldThreadsEnd` excepts threads inside a call for ever.
- `IxiaMutation`: weak fairness of a thread in the lock where its next step is bounded:
  a bounded apply and its abort, which have deadlines, and the sleep between retries.
  None for a request that `_send_with_deadline` sends without a timeout because no
  `request_deadline` scope is open (legacy applies, the writes, verification and
  rollback of a transaction), and none for the order in which waiting threads get the
  lock. So `LockReleased` says that a thread which keeps the lock for ever hangs in one
  such request: it does not loop, and no timeout or failed abort leaves the lock held.
- `IxiaRecovery`: requests end, deadlines pass, time passes and a restart of the tier
  ends; that a wedged tier recovers by itself is not assumed.
- `TestCase`, `SetupOrchestrator` and `OSSEntryPoint` state no liveness: nothing bounds a
  step of a playbook, a reservation, or a playbook or teardown whose timer is spent.

Deadlock is checked everywhere except in `periodic`, where a torn-down executor has
nothing left to do; the others stutter explicitly when they have ended, or accept
another call.

## Proofs

The proofs rest on the assumptions next to the constants only. TLC evaluates all of
them.

`BaselineLifecycle_proofs` (for every set of participants, contexts and requests):

- `TypeCorrect`: `TypeOK` is inductive.
- `NestedHolds`: `Nested` alone is not inductive, because the check of
  `_validate_capture` and the push of the frame are several awaits apart.
  `CaptureStillValid` says that what was checked still holds at every one of them.
- `FailureIsFinalHolds`: the action property follows from the same invariant.
- `SafeToReuseHolds`: between calls, a healthy lifecycle accounts for every snapshot.
  During a call a snapshot may also belong to the call, or its failure to the local
  `errors`; `Accounted` says so. `RestoredIsClean` (a snapshot being verified or
  released without errors is not dirty) and `IdleHasNoErrors` complete the induction.
  The proof needs the library's facts on `Front` and `Last`, restated as `FrontLast`.
- `ContractKept`: the lifecycle implements the safety part of `BaselineContract`. `ContractStep`
  shows for each action which step of the contract, or which stutter, it maps to, under
  `ContractInv`: `NestedInv` for the frame a capture adds, and `ModeInv`, which says
  that the call of the contract can be read off `mode` while captures are undone.
  `OutlineAppend` and `OutlineFront` say what pushing and popping a frame is under the
  mapping.

`TestCase_proofs` (for every list of calls, every number of handlers, iterations and
cancellations):

- `CaseInv` is a conjunction of small invariants, each with its own step lemma that has
  one case per action: `ExecInv` (where the runner may own an executor), `CancelInv` (a
  cancelled test case only ends), `HandlerInv` (every handler that is up is on one of
  the two lists, and `_test_case_cleanup_pending` says whether the first still counts),
  `SyslogInv`, `FrameInv`, `VerdictInv`, `TopologyInv` and `TrafficInv`. The later ones
  use `CancelInv` and `HandlerInv`: without the flag, nothing ties the lists to the
  point the runner is at.
- From it follow `OwnedOnceHolds`, `CleanStartHolds`, `StagesCoveredHolds`,
  `VerdictKeptHolds`, `TrafficEndedHolds` and the action property `RestoredLastHolds`.
- The infrastructure half of `VerdictKeptHolds` is the least obvious: the fallback
  would replace an infrastructure error by an ordinary one if it collected an error of
  its own. By the time a topology restoration fails there is nothing left for it to
  clean up.
- `PoisonedStopsHolds` adds `PoisonInv`: after a failed restoration the lifecycle is
  poisoned, and with a frame open it is healthy.
- `CaseTypeCorrect` takes `TypeOK` in four parts. `NextHandlerExists` shows by
  well-founded choice that a missing handler has a least one, so that the CHOOSE in
  `NextHandler` is never empty; `EndCallType` that no call or playbook is run beyond
  the last.

`Collector_proofs` (for every number of starts):

- `CollectorInv` places every thread: one that is not the last one started runs only
  because `stop()` gave up on it (`OthersAreLeft`), and then its cancellation is queued
  and it is past its checks of the flag (`LeftAreCancelled`), so that a restart, which
  clears the flag, does not revive it. `LoopPublished` and `StopArrives` say why: while
  `stop()` joins, the thread is cancelled or has yet to look at the flag.
- From it follow `CollectorTypeCorrect`, `StopIsHonestHolds` and the action property
  `NoPollAfterRestartHolds`.

`IxiaMutation_proofs` (for every number of threads, sessions, generations and attempts):

- `Inv` is `TypeOK` with `LockInv` (who is past the lock owns it), `GateInv` (a thread
  that applies passed `assert_session_not_quarantined`, and it still holds),
  `SessionInv`, `AmbiguousInv` (an ambiguous current session is quarantined),
  `RecordInv`, `RecoveryInv` (a recovery that verified the session of the
  record's generation is not stale) and `UnrestoredInv` (what is unrestored in the
  current session has the record, or its record was replaced).
  `GateInv` needs the other ones: each way of lifting a quarantine must be shown to
  leave nothing behind it.
- From it follow `TypeCorrect`, `NoApplyToAmbiguousHolds`, `NoApplyToUnrestoredHolds`
  and the action property `TransactionIsolatedHolds`.

`PeriodicTaskExecutor_proofs` (for every set of threads and processes, and any number
of teardowns):

- `ExecutorInv` follows the reference to the Manager. `OnceInv` says that the party in
  `shutdown()` took it, so the other finds none; `ProcessInv` and `ThreadInv` say whom a
  stop, a teardown or the helper has already seen end; `DownInv` carries that beyond the
  shutdown, and `UntouchedInv` says that nothing of this happens before `teardown()`.
  `WorkerChanges` is the fact the interleaving rests on: a worker's own step changes
  neither caller, helper nor Manager, and no worker comes back to life.
- From it follow `ExecutorTypeCorrect`, `ShutdownOnceHolds`,
  `ManagerOutlivesWorkersHolds` and `FinalChecksAreStableHolds`.

`SetupOrchestrator_proofs` (for every number of candidates and attempts, every set of
query reservations and every set of options):

- `SetupInv` says who owns what. `OwnerInv`: every session on a server is the one the
  client is connected to, at the candidate that is current, or was given up. It is not
  inductive without `HandleInv` (the client knows the id of its session until it
  destroys it, and makes another only then) and `RemovedInv` (a teardown that counts as
  complete, or an object that is spent, left no session behind unless the server
  refused). `ExistingInv` keeps the client away from any session but the user's;
  `FieldInv` ties each reservation whose call returned to the field the teardown will
  look at (what is in `unreturned` has none, and is excepted in both theorems), and
  `ReleaseInv` says what the teardown is done with.
- From it follow `SetupTypeCorrect`, `NothingForgottenHolds`, `CleanFallbackHolds`,
  `ReleasedOrReportedHolds` and `ExistingSessionKeptHolds`.

`OSSEntryPoint_proofs` (for every list of configs and cells, every number of retries and
every set of exceptions):

- `SetUpTornDownHolds` needs `BedInv`: only the current config's bed may be up, and only
  between its setup and the end of its teardown.
- `SuccessIsEarnedHolds` needs `EarnedInv`: nothing is recorded after the exit code was
  computed. `ExitCodeFacts` says that `get_exit_code`, the least of the ranks, is
  SUCCESS only if no result failed. `MinIsLeast` and `MaxIsMember` are the facts on
  `Min` and `Max` this uses, from the well-foundedness of the naturals.
- `RemainingMarkedHolds` follows `MarkedInv`, which says at every place of `main()` which
  cells have a result. Its hypothesis `NoSharedCells` is not a convenience: with a cell in
  two configs the property is false, as `oss_shared_playbook` shows.
- `CutOffIsSeenHolds` has the stronger hypothesis `CellsDiffer` (no cell is in two configs
  or twice in one): a cell that looks executed need not be the one that was cut off.
  `FreshInv` says that the cells not reached yet have no result, and `CutInv` that a
  config that was cut off has a cell whose result is a failure, or is about to be marked:
  the first result of a cell whose retry is cut off is the transient failure that asked
  for the retry.

`TestTeardown_proofs` (for every number of tasks, handlers and cancellations):

- The properties speak of the end of the teardown; `TeardownInv` says where every
  cleanup is at every step: in a stage ahead (`UntouchedInv`), waiting (`TodoInv`), the
  current one (`CurrentInv`), to be tried again (`FailuresInv`), or done with
  (`CoverInv`). `LostInv` and `TruthInv` say who carries a failure to the raised error,
  and that nothing else is raised; `CancelInv` the same of a CancelledError, which on its
  way is local to the shielded await, to the attempt and to the teardown. `QueueInv` says
  that no cleanup is in the lists twice, without which a second attempt could not be
  told from a second run of the first. `ReleaseInv` needs `BudgetInv`: the release starts
  on a budget of its own, so before any deadline.
- From it follow `TeardownTypeCorrect`, `ReleaseAlwaysRunsHolds`, `NoneSkippedHolds`,
  `NothingLostHolds` and the action property `RerunsOnlyFailedHolds`.

TLC also checked the inductive invariants of these four modules on the instance of the
component's run.

Only model-checked: liveness, which the prover does not handle (`ManagerReleased`,
`StopTerminates`, `StopReachesAll`, `CancelledTeardownEnds`, `ToldThreadsEnd`,
`LockReleased`, `CallsEnd`, `CooldownEnds` and the fairness part of
`ImplementsContract`), and `IxiaRecovery` with its action property
`SpacedOnHost`, which is about clocks and is checked on the instance above.

## What disagrees with the documentation

Each of these has a run that fails, with the shortest behaviour as its counterexample.

- `oss_shared_playbook`: a config whose setup fails records nothing for a playbook that
  an earlier config also ran on the DUT; the run can exit 0. The same holds of a config
  that the timer cuts off.
- `setup_second_remove`: when the server refuses to remove a candidate's session, the
  first to see it is `create_basic_setup`, which logs it. The strict cleanup of the
  orchestrator, which is to abort the fallback in that case, calls the same `remove()`
  again, which makes no request, and the next candidate is tried.
- `recovery_spacing`: the cooldown is documented as the chassis's, backed by Scuba; it
  is a file of the host, and a run on another host restarts the tier within it.

These were met while modelling and have no run:

- With `--retry 2` a cell that passes on its second retry still exits TRANSIENT_ERROR:
  only the first result's transient mark is cleared.
- `run_tests` wraps every exception, so the executor classifies an infrastructure error
  of a playbook as FAILED.
- A playbook that fails while `--timeout` cancels it swallows the cancellation; the next
  playbook starts without a timer.
- A run that exits TESTBED_ERROR or CONNECTION_ERROR can have a JUnit file in which
  everything passed.
- With one `run_tests` call per playbook, as the OSS executor makes them, a playbook
  without a topology baseline runs on a topology whose restoration failed. Within a call
  `PoisonedStops` holds, and a playbook with a baseline is refused by `capture()`.
- The comment at `traffic_generator.py:340` says the cold path re-uses the session that
  the cache lookup connected; `_create_basic_setup` destroys it first (`ixia.py:8345`).
- The comment at `recovery.py:434` says the clamp keeps a timestamp in the future from
  trapping the chassis; a clamped age of 0 is still younger than the cooldown, until the
  timestamp has passed. `CooldownEnds` holds because it does pass.
- `wait_for(collector.stop(), timeout=15)` (`fpf_collector_tasks.py:432`) cannot fire:
  `stop()` joins its thread synchronously.

Behaviour that nothing in the repository forbids, but that a reader should know of:

- A cancellation inside `_restore_captures` drops the captures left and the errors so
  far, and the lifecycle stays healthy; `SafeToReuse` excepts such contexts.
- Traffic begun by a setUp that fails later is not ended by the fallback cleanup;
  `TrafficEnded` holds between iterations only.
- A topology restoration that fails in the fallback of a test case that raises a group
  is a note on that group.
- A `--timeout` that fires during the teardown marks nothing, because every cell has a
  result; a run whose playbooks passed exits 0.
- A cancellation in the fallback before `restore_all` leaves the frame open.
- A cleanup that was abandoned is cancelled but not awaited, so it may still run while
  the bed is released; `run_tasks` repeats its whole list when one task fails.
- The OSS entry point does not tear down a bed whose setup failed half way.
- A reservation call that raises or is cancelled after it reserved something leaves it to
  nobody: the field that stands for it is assigned after the await. `NothingForgotten`
  and `ReleasedOrReported` except it.
- `quarantine_scenario` replaces the record of an earlier scenario. The recovery of the
  later one lifts the quarantine although the earlier one's changes may be unrestored;
  `NoApplyToUnrestored` excepts replaced records.
- A legacy apply, or a request of a transaction outside a deadline scope, that the server
  never answers keeps `_bounded_apply_lock` for ever, and every other apply waits.
- Two runs on one host can both pass the cooldown check before either writes, and one
  that reads between another's truncation and its write sees no cooldown;
  `SpacedOnHost` excepts these crossings. The guard
  against other users' sessions sees none while the API is down, which is when it is
  asked.

## Not modelled

The implementation has 367,212 lines in 675 files. Most of them are definitions of
playbooks, stages, steps and test configs, parsers, and the remote calls a step makes:
they have no state, order or failure handling of their own that a model could check,
and the map covers a small share of the lines for that reason. What is left out:

- Health checks, drivers, FPF and OTG libraries: remote calls and predicates on their
  answers, with no state of their own between calls.
- Topology compiler, playbooks, test configs, test bed parameters: deterministic
  translation of data, or data.
- The threads of the IXIA baseline participant: what one does after its deadline.
- The inside of Basset, of the isolation and of the API server, which are external; the
  expiry of a scenario quarantine (an expired one still refuses) and the lengths of
  deadlines; the tracer, which logs requests; the contents of cached configs; the rows
  a collector keeps.
- KeyboardInterrupt and SystemExit, which stop the event loop.
- What a cleanup does after it was abandoned, and what a step does to a device.
- Logging, result publishing and report formats.

## Plan

Done, in this order: lifecycle, periodic executor, teardown, entry point, test case;
then the lifecycle's contract and its refinement, the setup orchestrator, the
collectors, the mutation of an IXIA session and its recovery; then the inductive
invariants of every module but the recovery.

1. Proofs: `SpacedOnHost` of the recovery.
2. An abstract "each resource is given back once" that `TestCase` implements, and the
   composition of `TestCase` with `TestTeardown` under the entry point's timer.
