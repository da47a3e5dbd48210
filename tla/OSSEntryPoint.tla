---------------------------- MODULE OSSEntryPoint ----------------------------
(***************************************************************************)
(* The OSS command line: main() of src/taac/runner/oss_entry_point.py with *)
(* OSSTestExecutor.execute_playbook, classify_exception and the exit code  *)
(* of OSSResultAggregator.                                                 *)
(*                                                                         *)
(* main() runs its test configs one after the other, each under one        *)
(* asyncio.wait_for.  A cell is a (playbook name, DUT) pair; two configs   *)
(* share a cell when they share the names.                                 *)
(*                                                                         *)
(* The timer is that of asyncio.timeout: it cancels the lifecycle once,    *)
(* and turns the CancelledError that comes out of it into a TimeoutError.  *)
(***************************************************************************)
EXTENDS Naturals, Sequences, FiniteSetsExt

CONSTANTS
    Cells,   \* for each config, in order, the sequence of its cells
    Retry,   \* --retry
    Kinds    \* the exceptions that playbooks and setups raise

Configs == DOMAIN Cells
AllCells == UNION {{Cells[c][k] : k \in DOMAIN Cells[c]} : c \in Configs}

ASSUME CellsAssumption ==
    /\ Cells \in Seq(Seq(AllCells))
    /\ Cells # <<>>
    /\ \A c \in Configs : Cells[c] # <<>>
ASSUME RetryAssumption == Retry \in Nat
ASSUME KindsAssumption == {"none", "cancelled"} \cap Kinds = {}

FailedStatuses == {"FAILED", "ERROR", "TIMEOUT", "SETUP_FAILED",
                   "TEARDOWN_FAILED", "TESTBED_FAILED", "CONNECTION_FAILED"}
Statuses ==
    FailedStatuses \cup {"PASSED", "SKIPPED", "OMITTED", "RETRIED", "NOT_RUN"}

Failed(r) == r.status \in FailedStatuses

ExitCodes == {"SUCCESS", "TEST_CASE_FAILURE", "NO_TESTS_FOUND", "CONFIG_ERROR",
              "INFRA_ERROR", "TESTBED_ERROR", "TRANSIENT_ERROR",
              "TIMEOUT_ERROR", "CONNECTION_ERROR"}

VARIABLES
    pc,        \* where main() is
    config,    \* the config being executed
    cell,      \* the cell of the config being executed
    attempt,   \* 0, or the retry of the cell being executed
    original,  \* the index of the cell's first result
    results,   \* OSSResultAggregator.results
    fired,     \* the configs whose --timeout has fired
    cancel,    \* {"pending"} while the timer's CancelledError is on its way
    leaving,   \* what the lifecycle is left with: "none", "cancelled" or a kind
    exit,      \* the exit code, or "none"
    setUp,     \* the configs whose async_test_setUp completed; history
    tornDown,  \* the configs whose async_test_tearDown was run; history
    cut        \* the configs a CancelledError took out of setup or cells; history

vars == <<pc, config, cell, attempt, original, results, fired, cancel, leaving,
          exit, setUp, tornDown, cut>>

cellVars == <<cell, attempt, original>>

\* classify_exception: the first entry of the map that matches.
Status(kind) ==
    CASE kind \in {"TestCaseFailure", "AssertionError"} -> "FAILED"
      [] kind = "SkipTest"           -> "SKIPPED"
      [] kind = "TimeoutError"       -> "TIMEOUT"
      [] kind = "OSSTestbedError"    -> "TESTBED_FAILED"
      [] kind = "OSSConnectionError" -> "CONNECTION_FAILED"
      [] kind = "OSSTransientError"  -> "ERROR"
      [] kind = "OSSSetupError"      -> "SETUP_FAILED"
      [] kind = "OSSTeardownError"   -> "TEARDOWN_FAILED"
      [] OTHER                       -> "ERROR"

IsTransient(kind) == IF kind = "OSSTransientError" THEN "transient" ELSE "final"

Result(x, status, flag) ==
    [config |-> config, cell |-> x, status |-> status, flag |-> flag]

\* execute_playbook: what escapes run_tests, and its result.  run_tests wraps an
\* exception of the playbook into a TestCaseFailure ("raise"), or finds the
\* baseline unsafe ("unsafe"); a group that holds a CancelledError passes it by,
\* and the group's first other member decides ("group").
Escaping(how, kind) ==
    CASE how = "raise"  -> "TestCaseFailure"
      [] how = "unsafe" -> "TestbedError"
      [] how = "group"  -> kind

PlaybookResult(how, kind) ==
    IF how = "pass"
      THEN Result(Cells[config][cell], "PASSED", "final")
      ELSE Result(Cells[config][cell], Status(Escaping(how, kind)),
                  IsTransient(Escaping(how, kind)))

\* Mutant of Check: get_exit_code has no catch-all for the statuses that failed.
MutantNoCatchAll(n, r) ==
    CASE n = 1 -> r.status = "FAILED" \/ (r.status = "ERROR" /\ r.flag = "final")
      [] n = 2 -> r.status = "TESTBED_FAILED"
      [] n = 3 -> r.status = "CONNECTION_FAILED"
      [] n = 4 -> r.status = "TIMEOUT"
      [] n = 5 -> r.flag = "transient"
      [] n = 6 -> r.status = "SETUP_FAILED"
      [] n = 7 -> FALSE
      [] n = 8 -> TRUE

\* get_exit_code: what it asks of a result, in order; the seventh question is the
\* catch-all, the eighth stands for the final return.
Check(n, r) ==
    CASE n = 1 -> r.status = "FAILED" \/ (r.status = "ERROR" /\ r.flag = "final")
      [] n = 2 -> r.status = "TESTBED_FAILED"
      [] n = 3 -> r.status = "CONNECTION_FAILED"
      [] n = 4 -> r.status = "TIMEOUT"
      [] n = 5 -> r.flag = "transient"
      [] n = 6 -> r.status = "SETUP_FAILED"
      [] n = 7 -> Failed(r)
      [] n = 8 -> TRUE

\* The first question that a result answers.
Rank(r) == Min({n \in 1..8 : Check(n, r)})

CodeOfRank ==
    <<"TEST_CASE_FAILURE", "TESTBED_ERROR", "CONNECTION_ERROR", "TIMEOUT_ERROR",
      "TRANSIENT_ERROR", "INFRA_ERROR", "TEST_CASE_FAILURE", "SUCCESS">>

ExitCode ==
    IF results = <<>> THEN "NO_TESTS_FOUND"
    ELSE CodeOfRank[Min({Rank(results[i]) : i \in DOMAIN results})]

(***************************************************************************)
(* main(): configs                                                         *)
(***************************************************************************)

\* main() returns before or between the configs.
Leave(code) ==
    /\ pc' = "left"
    /\ exit' = code
    /\ UNCHANGED <<config, cellVars, results, fired, cancel, leaving, setUp,
                   tornDown, cut>>

\* The outer except clauses of main().
LadderCodes == {"CONFIG_ERROR", "TESTBED_ERROR", "CONNECTION_ERROR", "INFRA_ERROR"}

\* The configs are loaded and are to be run.
Load ==
    /\ pc = "load"
    /\ pc' = "construct"
    /\ UNCHANGED <<config, cellVars, results, fired, cancel, leaving, exit, setUp,
                   tornDown, cut>>

\* A config does not load, there is nothing to run, or --list-tests or --dry-run.
LoadLeaves ==
    /\ pc = "load"
    /\ \E code \in LadderCodes \cup {"SUCCESS", "NO_TESTS_FOUND"} : Leave(code)

\* TaacRunner() and its executor are made; the timer starts with the lifecycle.
Construct ==
    /\ pc = "construct"
    /\ pc' = "setup"
    /\ UNCHANGED <<config, cellVars, results, fired, cancel, leaving, exit, setUp,
                   tornDown, cut>>

\* TaacRunner() raises outside the inner try: main() returns at once.
ConstructFails ==
    /\ pc = "construct"
    /\ \E code \in LadderCodes : Leave(code)

NextConfig ==
    /\ pc' = IF config = Len(Cells) THEN "report" ELSE "construct"
    /\ config' = IF config = Len(Cells) THEN config ELSE config + 1
    /\ cell' = 1
    /\ attempt' = 0
    /\ original' = 0
    /\ cancel' = {}
    /\ leaving' = "none"

(***************************************************************************)
(* _run_lifecycle                                                          *)
(***************************************************************************)

\* asyncio.wait_for's timer: one CancelledError for the lifecycle.
TimeoutFires ==
    /\ pc \in {"setup", "cell", "teardown"}
    /\ config \notin fired
    /\ fired' = fired \cup {config}
    /\ cancel' = {"pending"}
    /\ UNCHANGED <<pc, config, cellVars, results, leaving, exit, setUp, tornDown,
                   cut>>

SetUpCompletes ==
    /\ pc = "setup"
    /\ cancel = {}
    /\ pc' = "cell"
    /\ setUp' = setUp \cup {config}
    /\ UNCHANGED <<config, cellVars, results, fired, cancel, leaving, exit,
                   tornDown, cut>>

\* async_test_setUp raises, before the try: no teardown.
SetUpFails ==
    /\ pc = "setup"
    /\ leaving' \in IF cancel = {} THEN Kinds \cup {"cancelled"} ELSE {"cancelled"}
    /\ pc' = "left_lifecycle"
    /\ cut' = IF leaving' = "cancelled" THEN cut \cup {config} ELSE cut
    /\ UNCHANGED <<config, cellVars, results, fired, cancel, exit, setUp, tornDown>>

NextCell ==
    /\ pc' = IF cell = Len(Cells[config]) THEN "teardown" ELSE "cell"
    /\ cell' = IF cell = Len(Cells[config]) THEN cell ELSE cell + 1
    /\ attempt' = 0
    /\ original' = 0

\* The first execution of a cell: recorded, and retried when it was transient.
FirstTry(r) ==
    /\ results' = Append(results, r)
    /\ IF Retry > 0 /\ r.flag = "transient" /\ Failed(r)
         THEN /\ attempt' = 1
              /\ original' = Len(results) + 1
              /\ UNCHANGED <<pc, cell>>
         ELSE NextCell

\* A retry: the first that does not fail settles the original.
Retried(r) ==
    IF Failed(r)
      THEN /\ results' = Append(results, r)
           /\ IF attempt < Retry
                THEN attempt' = attempt + 1 /\ UNCHANGED <<pc, cell, original>>
                ELSE NextCell
      ELSE /\ results' = Append([results EXCEPT ![original].status = "RETRIED",
                                                ![original].flag = "final"], r)
           /\ NextCell

\* The playbook of the cell ends in a result.  A CancelledError on its way is
\* swallowed when something else fails too.
PlaybookEnds(how, kind) ==
    /\ pc = "cell"
    /\ how = "pass" => cancel = {}
    /\ cancel' = {}
    /\ IF attempt = 0 THEN FirstTry(PlaybookResult(how, kind)) ELSE Retried(PlaybookResult(how, kind))
    /\ UNCHANGED <<config, fired, leaving, exit, setUp, tornDown, cut>>

\* Mutant of PlaybookCancelled: the teardown is not in a `finally`.
MutantNoFinally ==
    /\ pc = "cell"
    /\ pc' = "left_lifecycle"
    /\ cancel' = {}
    /\ leaving' = "cancelled"
    /\ cut' = cut \cup {config}
    /\ UNCHANGED <<config, cellVars, results, fired, exit, setUp, tornDown>>

\* Nothing but CancelledErrors escape run_tests: no result, straight to `finally`.
PlaybookCancelled ==
    /\ pc = "cell"
    /\ pc' = "teardown"
    /\ cancel' = {}
    /\ leaving' = "cancelled"
    /\ cut' = cut \cup {config}
    /\ UNCHANGED <<config, cellVars, results, fired, exit, setUp, tornDown>>

\* async_test_tearDown ends: its errors are logged and dropped, a cancellation it
\* consumed is raised again.
TearDownEnds ==
    /\ pc = "teardown"
    /\ tornDown' = tornDown \cup {config}
    /\ pc' = "left_lifecycle"
    /\ leaving' = IF cancel = {} THEN leaving ELSE "cancelled"
    /\ cancel' = {}
    /\ UNCHANGED <<config, cellVars, results, fired, exit, setUp, cut>>

(***************************************************************************)
(* After the lifecycle                                                     *)
(***************************************************************************)

LifecycleReturns ==
    /\ pc = "left_lifecycle"
    /\ leaving = "none"
    /\ NextConfig
    /\ UNCHANGED <<results, fired, exit, setUp, tornDown, cut>>

\* A CancelledError that is not the timer's is no Exception: it leaves main().
MainCrashes ==
    /\ pc = "left_lifecycle"
    /\ leaving = "cancelled"
    /\ config \notin fired
    /\ pc' = "crashed"
    /\ UNCHANGED <<config, cellVars, results, fired, cancel, leaving, exit, setUp,
                   tornDown, cut>>

\* wait_for raises: the timer's TimeoutError, or what the setup raised.
LifecycleRaises ==
    /\ pc = "left_lifecycle"
    /\ leaving # "none"
    /\ leaving = "cancelled" => config \in fired
    /\ pc' = "mark"
    /\ cell' = 1
    /\ leaving' = IF leaving = "cancelled" THEN "TimeoutError" ELSE leaving
    /\ UNCHANGED <<config, attempt, original, results, fired, cancel, exit, setUp,
                   tornDown, cut>>

\* Some result has this playbook and DUT.
Executed(x) == \E i \in DOMAIN results : results[i].cell = x

\* The loop that marks the cells comes to its next one, or is over.
NextMark ==
    IF cell = Len(Cells[config])
      THEN NextConfig
      ELSE /\ cell' = cell + 1
           /\ UNCHANGED <<pc, config, attempt, original, cancel, leaving>>

\* Mutant of MarkRemaining: the loop ends with the first cell that was executed.
MutantStopsMarking ==
    /\ pc = "mark"
    /\ LET x == Cells[config][cell]
       IN  IF Executed(x)
             THEN UNCHANGED results /\ NextConfig
             ELSE /\ results' = Append(results,
                                Result(x, Status(leaving), IsTransient(leaving)))
                  /\ NextMark
    /\ UNCHANGED <<fired, exit, setUp, tornDown, cut>>

\* Mutant of MarkRemaining: the cells the timer cut off are NOT_RUN, which is no
\* failure.
MutantNotRun ==
    /\ pc = "mark"
    /\ LET x == Cells[config][cell]
           status == IF leaving = "TimeoutError" THEN "NOT_RUN" ELSE Status(leaving)
       IN  results' = IF Executed(x) THEN results
                      ELSE Append(results, Result(x, status, IsTransient(leaving)))
    /\ NextMark
    /\ UNCHANGED <<fired, exit, setUp, tornDown, cut>>

\* A remaining cell gets a result: TIMEOUT, or what the setup raised.
MarkRemaining ==
    /\ pc = "mark"
    /\ LET x == Cells[config][cell]
       IN  results' = IF Executed(x) THEN results
                      ELSE Append(results,
                             Result(x, Status(leaving), IsTransient(leaving)))
    /\ NextMark
    /\ UNCHANGED <<fired, exit, setUp, tornDown, cut>>

\* The summary is printed, the output written and the exit code returned.
Report ==
    /\ pc = "report"
    /\ pc' = "done"
    /\ exit' = ExitCode
    /\ UNCHANGED <<config, cellVars, results, fired, cancel, leaving, setUp,
                   tornDown, cut>>

\* The output file cannot be written.
ReportFails ==
    /\ pc = "report"
    /\ Leave("INFRA_ERROR")

Ended == pc \in {"done", "left", "crashed"}

Terminated == Ended /\ UNCHANGED vars

(***************************************************************************)
(* The specification                                                       *)
(***************************************************************************)

Init ==
    /\ pc = "load"
    /\ config = 1
    /\ cell = 1
    /\ attempt = 0
    /\ original = 0
    /\ results = <<>>
    /\ fired = {}
    /\ cancel = {}
    /\ leaving = "none"
    /\ exit = "none"
    /\ setUp = {}
    /\ tornDown = {}
    /\ cut = {}

MainStep ==
    \/ Load \/ LoadLeaves \/ Construct \/ ConstructFails
    \/ SetUpCompletes \/ SetUpFails
    \/ PlaybookEnds("pass", "none")
    \/ \E kind \in Kinds : PlaybookEnds("raise", kind) \/ PlaybookEnds("group", kind)
    \/ PlaybookEnds("unsafe", "TestbedError")
    \/ PlaybookCancelled \/ TearDownEnds
    \/ LifecycleReturns \/ MainCrashes \/ LifecycleRaises \/ MarkRemaining
    \/ Report \/ ReportFails

Next == MainStep \/ TimeoutFires \/ Terminated

\* No fairness: nothing bounds a setup, a playbook or a teardown but the timer,
\* and that fires once.
Spec == Init /\ [][Next]_vars

(***************************************************************************)
(* Properties                                                              *)
(***************************************************************************)

\* The types of the variables.
TypeOK ==
    /\ pc \in {"load", "construct", "setup", "cell", "teardown", "left_lifecycle",
               "mark", "report", "done", "left", "crashed"}
    /\ config \in Configs
    /\ cell \in DOMAIN Cells[config]
    /\ attempt \in 0..Retry
    /\ original \in 0..Len(results)
    /\ attempt > 0 => original > 0
    /\ results \in
         Seq([config : Configs, cell : AllCells, status : Statuses,
              flag : {"transient", "final"}])
    /\ fired \subseteq Configs
    /\ cancel \subseteq {"pending"}
    /\ leaving \in Kinds \cup {"none", "cancelled", "TimeoutError"}
    /\ exit \in ExitCodes \cup {"none"}
    /\ setUp \subseteq Configs /\ tornDown \subseteq Configs /\ cut \subseteq Configs

\* The results of a cell of a config, and the index of the newest.
ResultsOf(c, x) ==
    {i \in DOMAIN results : results[i].config = c /\ results[i].cell = x}
Newest(c, x) == results[Max(ResultsOf(c, x))]
HasResult(c, x) == ResultsOf(c, x) # {}

\* Exit code 0 is earned: the last thing known of every cell that was run, after
\* retries, timeouts and failed setups, is a pass or a skip.
SuccessIsEarned ==
    pc = "done" /\ exit = "SUCCESS" =>
        \A c \in Configs, x \in AllCells :
            HasResult(c, x) => ~Failed(Newest(c, x))

\* "Mark remaining playbooks/duts as failed for this config": when main() is
\* done, every cell of every config has a result.
RemainingMarked ==
    pc = "done" =>
        \A c \in Configs : \A k \in DOMAIN Cells[c] : HasResult(c, Cells[c][k])

\* A test bed that was set up is torn down before the next config is set up and
\* before main() ends, unless the process dies: also after a timeout.
SetUpTornDown ==
    pc \in {"construct", "setup", "report", "done", "left", "crashed"} =>
        setUp \subseteq tornDown

\* A config that the timer cut off, in its setup or in a cell, is seen in the exit
\* code: whatever its other cells and the other configs gave, it is not 0.
CutOffIsSeen == pc = "done" /\ exit = "SUCCESS" => cut = {}
=============================================================================
