----------------------------- MODULE Collector -----------------------------
(***************************************************************************)
(* The polling threads of src/taac/libs/collectors/base_collector.py       *)
(*                                                                         *)
(* start() runs a daemon thread with an event loop of its own that polls a *)
(* device until the collector is stopped.  stop() sets a flag, queues the  *)
(* cancellation of the tasks on the thread's loop, and joins the thread    *)
(* for ten seconds; a thread that is inside a synchronous network call     *)
(* sees neither, and stop() gives up.  A restart clears the flag the       *)
(* thread it left behind has yet to see.                                   *)
(***************************************************************************)
EXTENDS Naturals

CONSTANT MaxStarts      \* how often start() is called

ASSUME MaxStartsAssumption == MaxStarts \in Nat

VARIABLES
    stopFlag,   \* self._stop_flag
    thread,     \* self._thread: the last thread started, 0 for None
    loopOf,     \* self._thread_loop: whose loop it is, 0 for None
    pc,         \* where each thread is
    cancels,    \* threads on whose loop _cancel_all is queued
    caller,     \* where the caller of start() and stop() is
    result,     \* what the last stop() logged
    told,       \* history: threads that stop() was called for
    left        \* history: threads that stop() gave up on

vars == <<stopFlag, thread, loopOf, pc, cancels, caller, result, told, left>>

Threads == 1..MaxStarts

\* Threads that are running Python code of the collector.
Alive == {t \in Threads : pc[t] \notin {"none", "dead"}}

\* A thread's run_until_complete has ended and its loop is closed.
Ended(t) ==
    /\ pc' = [pc EXCEPT ![t] = "dead"]
    /\ cancels' = cancels \ {t}

Moves(t, from, to) ==
    /\ pc[t] = from
    /\ pc' = [pc EXCEPT ![t] = to]

(***************************************************************************)
(* The caller                                                              *)
(***************************************************************************)

\* Callers start a collector once, or again after they stopped it.
Start ==
    /\ caller = "idle"
    /\ thread < MaxStarts
    /\ thread # 0 => thread \in told
    /\ stopFlag' = "clear"
    /\ thread' = thread + 1
    /\ pc' = [pc EXCEPT ![thread + 1] = "created"]
    /\ result' = "none"
    /\ UNCHANGED <<loopOf, cancels, caller, told, left>>

\* stop(), and _atexit_stop() unless there is nothing to stop.
StopCalled(next) ==
    /\ caller = "idle"
    /\ stopFlag' = "set"
    /\ told' = told \cup ({thread} \cap Threads)
    /\ caller' = next
    /\ UNCHANGED <<thread, loopOf, pc, cancels, result, left>>

Stop == StopCalled("stop_cancel")

AtExit ==
    /\ thread # 0
    /\ stopFlag = "clear" \/ thread \in Alive
    /\ StopCalled("exit_cancel")

AtExitNothingToStop ==
    /\ caller = "idle"
    /\ thread = 0 \/ (stopFlag = "set" /\ thread \notin Alive)
    /\ caller' = "exited"
    /\ UNCHANGED <<stopFlag, thread, loopOf, pc, cancels, result, told, left>>

\* Mutant of CancelThreadTasks: the tasks are not cancelled, only the flag is set.
MutantFlagOnly ==
    /\ caller \in {"stop_cancel", "exit_cancel"}
    /\ caller' = IF caller = "stop_cancel" THEN "stop_join" ELSE "exit_join"
    /\ UNCHANGED <<stopFlag, thread, loopOf, pc, cancels, result, told, left>>

\* _cancel_thread_tasks: nothing happens when no loop is known or it is closed.
CancelThreadTasks ==
    /\ caller \in {"stop_cancel", "exit_cancel"}
    /\ caller' = IF caller = "stop_cancel" THEN "stop_join" ELSE "exit_join"
    /\ cancels' = cancels \cup ({loopOf} \cap Alive)
    /\ UNCHANGED <<stopFlag, thread, loopOf, pc, result, told, left>>

\* Mutant of JoinEnds: the thread is not waited for.
MutantNoJoin ==
    /\ caller \in {"stop_join", "exit_join"}
    /\ caller' = IF caller = "stop_join" THEN "idle" ELSE "exited"
    /\ result' = IF caller = "stop_join" THEN "stopped" ELSE result
    /\ UNCHANGED <<stopFlag, thread, loopOf, pc, cancels, told, left>>

\* There is no thread, or it has ended within the timeout. Only stop() logs how
\* it went.
JoinEnds ==
    /\ caller \in {"stop_join", "exit_join"}
    /\ thread \notin Alive
    /\ caller' = IF caller = "stop_join" THEN "idle" ELSE "exited"
    /\ result' = IF caller = "stop_join" THEN "stopped" ELSE result
    /\ UNCHANGED <<stopFlag, thread, loopOf, pc, cancels, told, left>>

\* The join times out. A thread that is not inside a synchronous call comes to
\* its next await, and so to its end, within the timeout.
JoinTimesOut ==
    /\ caller \in {"stop_join", "exit_join"}
    /\ thread \in Alive
    /\ pc[thread] = "blocked"
    /\ caller' = IF caller = "stop_join" THEN "idle" ELSE "exited"
    /\ result' = IF caller = "stop_join" THEN "gave_up" ELSE result
    /\ left' = left \cup {thread}
    /\ UNCHANGED <<stopFlag, thread, loopOf, pc, cancels, told>>

(***************************************************************************)
(* A thread                                                                *)
(***************************************************************************)

\* _thread_target creates its loop and publishes it.
AssignLoop(t) ==
    /\ Moves(t, "created", "ready")
    /\ loopOf' = t
    /\ UNCHANGED <<stopFlag, thread, cancels, caller, result, told, left>>

\* _run_loop opens its file; a cancellation that is already queued runs first
\* and the coroutine is never entered, and so is the end when the file cannot
\* be opened.
EnterRunLoop(t) ==
    /\ pc[t] = "ready"
    /\ \/ t \notin cancels /\ Moves(t, "ready", "check") /\ UNCHANGED cancels
       \/ Ended(t)
    /\ UNCHANGED <<stopFlag, thread, loopOf, caller, result, told, left>>

\* Mutant of CheckFlag: the loop does not look at the flag.
MutantNoFlag(t) ==
    /\ Moves(t, "check", "poll")
    /\ UNCHANGED <<stopFlag, thread, loopOf, cancels, caller, result, told, left>>

\* while not self._stop_flag.is_set()
CheckFlag(t) ==
    /\ pc[t] = "check"
    /\ \/ stopFlag = "clear" /\ Moves(t, "check", "poll") /\ UNCHANGED cancels
       \/ stopFlag = "set" /\ Ended(t)
    /\ UNCHANGED <<stopFlag, thread, loopOf, caller, result, told, left>>

\* _poll_once enters a synchronous call of a driver, and may come back from it.
PollBlocks(t) ==
    /\ Moves(t, "poll", "blocked")
    /\ UNCHANGED <<stopFlag, thread, loopOf, cancels, caller, result, told, left>>

PollUnblocks(t) ==
    /\ Moves(t, "blocked", "poll")
    /\ UNCHANGED <<stopFlag, thread, loopOf, cancels, caller, result, told, left>>

\* _poll_once returns, fails or exceeds its timeout, with or without another
\* await after its last synchronous call.
PollEnds(t) ==
    /\ pc[t] \in {"poll", "blocked"}
    /\ pc' = [pc EXCEPT ![t] = "sleep"]
    /\ UNCHANGED <<stopFlag, thread, loopOf, cancels, caller, result, told, left>>

\* The loop is back in control and runs _cancel_all: both awaits of _run_loop
\* leave the while loop.
CancelArrives(t) ==
    /\ t \in cancels
    /\ pc[t] \in {"poll", "sleep"}
    /\ Ended(t)
    /\ UNCHANGED <<stopFlag, thread, loopOf, caller, result, told, left>>

\* asyncio.sleep is over; a queued _cancel_all has run by then.
Wakes(t) ==
    /\ t \notin cancels
    /\ Moves(t, "sleep", "check")
    /\ UNCHANGED <<stopFlag, thread, loopOf, cancels, caller, result, told, left>>

(***************************************************************************)
(* The specification                                                       *)
(***************************************************************************)

Init ==
    /\ stopFlag = "clear"
    /\ thread = 0
    /\ loopOf = 0
    /\ pc = [t \in Threads |-> "none"]
    /\ cancels = {}
    /\ caller = "idle"
    /\ result = "none"
    /\ told = {}
    /\ left = {}

\* Statements of the caller that take a bounded time.
CallerStep == CancelThreadTasks \/ JoinEnds \/ JoinTimesOut

\* What a thread does on its own: all but coming back from a synchronous call.
ThreadStep(t) ==
    \/ AssignLoop(t)
    \/ EnterRunLoop(t)
    \/ CheckFlag(t)
    \/ CancelArrives(t)
    \/ Wakes(t)

PollStep(t) == PollBlocks(t) \/ PollUnblocks(t) \/ PollEnds(t)

\* The process has exited: daemon threads are gone with it.
Exited == caller = "exited" /\ UNCHANGED vars

Next ==
    \/ Start
    \/ Stop
    \/ AtExit
    \/ AtExitNothingToStop
    \/ CallerStep
    \/ \E t \in Threads : ThreadStep(t) \/ PollStep(t)
    \/ Exited

\* The event loop and the joins go on by themselves; nothing is assumed of a poll.
Spec ==
    /\ Init
    /\ [][Next]_vars
    /\ WF_vars(CallerStep)
    /\ \A t \in Threads : WF_vars(ThreadStep(t))

(***************************************************************************)
(* Properties                                                              *)
(***************************************************************************)

\* The variables hold values of the shapes base_collector.py gives them.
TypeOK ==
    /\ stopFlag \in {"clear", "set"}
    /\ thread \in 0..MaxStarts
    /\ loopOf \in 0..MaxStarts
    /\ pc \in [Threads -> {"none", "created", "ready", "check", "poll", "blocked",
                           "sleep", "dead"}]
    /\ cancels \subseteq Threads
    /\ caller \in {"idle", "stop_cancel", "stop_join", "exit_cancel", "exit_join",
                   "exited"}
    /\ result \in {"none", "stopped", "gave_up"}
    /\ told \subseteq Threads
    /\ left \subseteq Threads

\* When stop() logs "stopped", the only threads that may still run are those an
\* earlier stop() gave up on and said so.
StopIsHonest == result = "stopped" => Alive \subseteq left

\* A thread that stop() gave up on never begins another poll, although the
\* restart cleared the flag it was to see: the cancellation queued on its loop
\* catches it at its next await. So two threads never poll for one collector,
\* except for the sample that was under way.
NoPollAfterRestart ==
    [][\A t \in left :
         pc[t] \notin {"poll", "blocked"} => pc'[t] \notin {"poll", "blocked"}]_vars

\* A thread that was told to stop ends, or stays inside a synchronous call for
\* ever, whatever restarts come after.
ToldThreadsEnd ==
    \A t \in Threads : t \in told ~> [](t \notin Alive \/ pc[t] \in {"poll", "blocked"})
=============================================================================
