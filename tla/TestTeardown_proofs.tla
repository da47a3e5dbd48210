------------------------- MODULE TestTeardown_proofs -------------------------
(***************************************************************************)
(* Theorems about TestTeardown, for every number of teardown tasks, custom *)
(* handlers and cancellations.                                             *)
(*                                                                         *)
(* The properties speak of the end of the teardown or of one cleanup; the  *)
(* inductive invariant TeardownInv says, at every step, where each cleanup *)
(* is: ahead of the stage (UntouchedInv), waiting in the queue (TodoInv),  *)
(* the current one (CurrentInv), to be tried again (FailuresInv), or done  *)
(* with (CoverInv), and who carries its failure (LostInv, TruthInv) and a  *)
(* cancellation (CancelInv) from the cleanup to the raised error.          *)
(***************************************************************************)
EXTENDS TestTeardown, TLAPS, SequenceTheorems

\* The elements of a sequence, those after the first, and that no two are equal.
Elems(s) == {s[i] : i \in 1..Len(s)}
Rest(s) == {s[i] : i \in 2..Len(s)}
Distinct(s) == \A i, k \in 1..Len(s) : s[i] = s[k] => i = k

\* The stages, and the cleanups by their stage, in the order of the teardown.
Place ==
    [executor |-> 0, tasks |-> 1, task |-> 1, sleep |-> 1, handlers |-> 2,
     handler |-> 2, release |-> 3, investigate |-> 4, triage |-> 5, upload |-> 6,
     done |-> 7]

\* The cleanups in the queue that are still to be started.
Todo == IF job = "none" THEN Elems(queue) ELSE Rest(queue)

\* The queue holds cleanups of the stage, each once and none that has failed in
\* this attempt; what belongs to run_teardown_tasks is gone when it is left.
QueueInv ==
    /\ Distinct(queue) /\ Distinct(failures)
    /\ Elems(queue) \cap Elems(failures) = {}
    /\ \A q \in Elems(queue) : Place[q[1]] = Place[stage]
    /\ \A f \in Elems(failures) \cup failed : f[1] = "task"
    /\ stage \in {"executor", "sleep", "done"} => queue = <<>>
    /\ stage \notin {"tasks", "sleep"} =>
         failures = <<>> /\ failed = {} /\ interrupted = {} /\ attempt = 1

\* Nothing has happened to a cleanup of a later stage.
UntouchedInv ==
    \A j \in Jobs : Place[j[1]] > Place[stage] =>
        runs[j] = 0 /\ last[j] = "none" /\ j \notin errors

\* The budget before the first cleanup, in the sleep, and after a timeout.
BudgetInv ==
    /\ stage = "executor" => budget = "none"
    /\ stage = "sleep" => budget = "none" /\ attempt = 1 /\ interrupted = {}
    /\ job = "timeout" => budget = "expired"

\* What waits has not run in this attempt; in the second it failed in the first.
TodoInv ==
    \A q \in Todo :
        runs[q] = attempt - 1 /\ last[q] = IF attempt = 1 THEN "none" ELSE "error"

\* The current cleanup has begun, unless it was abandoned, and how it ended.
CurrentInv ==
    /\ job \in {"running", "ok", "error", "cancelled"} => runs[Current] = attempt
    /\ Ended => last[Current] = job

\* What may be tried again has run once and failed.
FailuresInv ==
    attempt = 1 /\ budget = "none" =>
        \A f \in Elems(failures) : runs[f] = 1 /\ last[f] = "error"

\* The release starts before its deadline.
ReleaseInv ==
    /\ stage = "release" /\ queue # <<>> /\ job = "none" => budget # "expired"
    /\ stage = "release" /\ (queue = <<>> \/ job # "none") =>
         runs[Only("release")] = 1
    /\ ReleaseAlwaysRuns

\* A cleanup of this or an earlier stage has ended or is in the queue.
CoverInv ==
    \A j \in Jobs : Place[j[1]] <= Place[stage] /\ j[1] \in {"task", "handler"}
                      /\ Only("entry") \notin errors =>
        last[j] # "none" \/ j \in Elems(queue)

\* A failure is on its way to the raised error.
LostInv ==
    \A j \in Jobs : last[j] \in {"error", "timeout"} =>
        j \in errors \cup failed \/ (Ended /\ j = Current)

\* Only what failed is, unless a cancellation interfered.
TruthInv ==
    \A j \in Jobs : j \in errors \cup failed /\ cancels = 0 /\ last[j] = "ok" =>
        Ended /\ j = Current

\* The errors are of cleanups that are done with.
FreshInv ==
    /\ \A q \in Elems(queue) : q \notin errors
    /\ stage \in {"tasks", "sleep"} =>
         \A j \in Jobs : j[1] = "task" => j \notin errors

\* So is a cancellation.
CancelInv ==
    /\ jobCancelled # {} => job # "none" /\ (cancels > 0 \/ job = "cancelled")
    /\ cancels > 0 \/ (\E j \in Jobs : last[j] = "cancelled") =>
         cancellation # {} \/ interrupted # {} \/ jobCancelled # {}

TeardownInv ==
    /\ TypeOK /\ QueueInv /\ UntouchedInv /\ BudgetInv /\ TodoInv /\ CurrentInv
    /\ FailuresInv /\ ReleaseInv /\ CoverInv /\ LostInv /\ TruthInv
    /\ FreshInv /\ CancelInv

(***************************************************************************)
(* Facts about sequences and cleanups                                      *)
(***************************************************************************)

\* The empty sequence.
LEMMA EmptyFacts ==
    /\ Elems(<<>>) = {} /\ Rest(<<>>) = {} /\ Distinct(<<>>)
    /\ \A S : <<>> \in Seq(S)
BY DEF Elems, Rest, Distinct

\* A sequence of one element.
LEMMA SingletonFacts ==
    ASSUME NEW x
    PROVE  /\ <<x>> # <<>> /\ Elems(<<x>>) = {x} /\ Rest(<<x>>) = {}
           /\ Distinct(<<x>>) /\ Head(<<x>>) = x
           /\ \A S : x \in S => <<x>> \in Seq(S)
BY DEF Elems, Rest, Distinct

\* The elements of a sequence are of its type.
LEMMA ElemsType ==
    ASSUME NEW S, NEW s \in Seq(S)
    PROVE  Elems(s) \subseteq S /\ Rest(s) \subseteq S /\ (Elems(s) = {} <=> s = <<>>)
<1>1. Len(s) \in Nat /\ \A i \in 1..Len(s) : s[i] \in S
  OBVIOUS
<1>2. Elems(s) \subseteq S /\ Rest(s) \subseteq S
  BY <1>1 DEF Elems, Rest
<1>3. s # <<>> => s[1] \in Elems(s)
  BY <1>1 DEF Elems
<1> QED
  BY <1>2, <1>3, EmptyFacts

\* The first element is taken off.
LEMMA TailFacts ==
    ASSUME NEW S, NEW s \in Seq(S), s # <<>>
    PROVE  /\ Head(s) \in S /\ Tail(s) \in Seq(S)
           /\ Elems(s) = {Head(s)} \cup Rest(s)
           /\ Elems(Tail(s)) = Rest(s)
           /\ Distinct(s) => Head(s) \notin Rest(s) /\ Distinct(Tail(s))
<1>1. /\ Len(s) \in Nat /\ Len(s) >= 1 /\ Head(s) = s[1]
      /\ Len(Tail(s)) = Len(s) - 1
      /\ \A i \in 1..(Len(s) - 1) : Tail(s)[i] = s[i + 1]
  OBVIOUS
<1>2. Head(s) \in S /\ Tail(s) \in Seq(S)
  OBVIOUS
<1>3. Elems(s) = {Head(s)} \cup Rest(s)
  BY <1>1 DEF Elems, Rest
<1>4. Elems(Tail(s)) = Rest(s)
  <2>1. ASSUME NEW i \in 2..Len(s) PROVE s[i] \in Elems(Tail(s))
    <3>1. i - 1 \in 1..(Len(s) - 1) /\ Tail(s)[i - 1] = s[i]
      BY <1>1
    <3> QED
      BY <1>1, <3>1 DEF Elems
  <2>2. ASSUME NEW i \in 1..(Len(s) - 1) PROVE Tail(s)[i] \in Rest(s)
    BY <1>1 DEF Rest
  <2> QED
    BY <1>1, <2>1, <2>2 DEF Elems, Rest
<1>5. ASSUME Distinct(s) PROVE Head(s) \notin Rest(s) /\ Distinct(Tail(s))
  BY <1>1, <1>5 DEF Distinct, Rest
<1> QED
  BY <1>2, <1>3, <1>4, <1>5

\* An element is added at the end.
LEMMA AppendFacts ==
    ASSUME NEW S, NEW s \in Seq(S), NEW x \in S
    PROVE  /\ Append(s, x) \in Seq(S)
           /\ Elems(Append(s, x)) = Elems(s) \cup {x}
           /\ Distinct(s) /\ x \notin Elems(s) => Distinct(Append(s, x))
<1>1. /\ Append(s, x) \in Seq(S) /\ Len(s) \in Nat
      /\ Len(Append(s, x)) = Len(s) + 1
      /\ \A i \in 1..Len(s) : Append(s, x)[i] = s[i]
      /\ Append(s, x)[Len(s) + 1] = x
  OBVIOUS
<1>2. Elems(Append(s, x)) = Elems(s) \cup {x}
  BY <1>1 DEF Elems
<1>3. ASSUME Distinct(s), x \notin Elems(s) PROVE Distinct(Append(s, x))
  BY <1>1, <1>3 DEF Distinct, Elems
<1> QED
  BY <1>1, <1>2, <1>3

\* A cleanup is of one kind, which decides its stage.
LEMMA JobFacts ==
    /\ \A j \in Jobs : j[1] \in {"task", "handler"} \cup SingleStages
    /\ \A j \in Jobs : j[1] = "task" <=> \E i \in 1..TeardownTasks : j = Task(i)
    /\ \A j \in Jobs : j[1] = "handler" <=> \E i \in 1..Handlers : j = Handler(i)
    /\ \A s \in SingleStages : Only(s) \in Jobs
    /\ \A j \in Jobs : j[1] \in SingleStages => j = Only(j[1])
    /\ \A s : Only(s)[1] = s
    /\ \A i \in 1..TeardownTasks : Task(i) \in Jobs
    /\ \A i \in 1..Handlers : Handler(i) \in Jobs
BY DEF Jobs, Task, Handler, Only, SingleStages

\* The places of the stages, one by one.
LEMMA PlaceFacts ==
    /\ Place["executor"] = 0 /\ Place["tasks"] = 1 /\ Place["task"] = 1
    /\ Place["sleep"] = 1 /\ Place["handlers"] = 2 /\ Place["handler"] = 2
    /\ Place["release"] = 3 /\ Place["investigate"] = 4 /\ Place["triage"] = 5
    /\ Place["upload"] = 6 /\ Place["done"] = 7
BY DEF Place

\* The queue of the first attempt lists each teardown task once.
LEMMA QueueOfTasks ==
    ASSUME plan \in Plans
    PROVE  /\ TaskQueue \in Seq(Jobs) /\ Distinct(TaskQueue)
           /\ Elems(TaskQueue) \subseteq Jobs
           /\ \A j \in Jobs : j \in Elems(TaskQueue) <=> j[1] = "task"
<1>1. TeardownTasks \in Nat
  BY PlansAssumption DEF TeardownTasks
<1>2. /\ TaskQueue \in Seq(Jobs) /\ Len(TaskQueue) = TeardownTasks
      /\ \A i \in 1..TeardownTasks : TaskQueue[i] = Task(i)
  BY <1>1, JobFacts DEF TaskQueue
<1>3. \A i, k : Task(i) = Task(k) => i = k
  BY DEF Task
<1>4. Distinct(TaskQueue)
  BY <1>2, <1>3 DEF Distinct
<1>5. \A j \in Jobs : j \in Elems(TaskQueue) <=> \E i \in 1..TeardownTasks : j = Task(i)
  BY <1>2 DEF Elems
<1> QED
  BY <1>2, <1>4, <1>5, JobFacts, ElemsType

\* The queue of the handlers lists each handler once.
LEMMA QueueOfHandlers ==
    ASSUME plan \in Plans
    PROVE  /\ HandlerQueue \in Seq(Jobs) /\ Distinct(HandlerQueue)
           /\ Elems(HandlerQueue) \subseteq Jobs
           /\ \A j \in Jobs : j \in Elems(HandlerQueue) <=> j[1] = "handler"
<1>1. Handlers \in Nat
  BY PlansAssumption DEF Handlers
<1>2. /\ HandlerQueue \in Seq(Jobs) /\ Len(HandlerQueue) = Handlers
      /\ \A i \in 1..Handlers : HandlerQueue[i] = Handler(i)
  BY <1>1, JobFacts DEF HandlerQueue
<1>3. \A i, k : Handler(i) = Handler(k) => i = k
  BY DEF Handler
<1>4. Distinct(HandlerQueue)
  BY <1>2, <1>3 DEF Distinct
<1>5. \A j \in Jobs : j \in Elems(HandlerQueue) <=> \E i \in 1..Handlers : j = Handler(i)
  BY <1>2 DEF Elems
<1> QED
  BY <1>2, <1>4, <1>5, JobFacts, ElemsType

\* The plan does not change.
LEMMA PlanKept ==
    ASSUME [Next]_vars
    PROVE  plan' = plan /\ Jobs' = Jobs /\ MaxCancels' = MaxCancels
<1>1. plan' = plan
  BY DEF Next, LoopStep, Terminated, JobStarts, DeadlinePasses, JobTimesOut,
     ExecutorTornDown, TaskTaken, TasksAttempted, EndAttempt, LeaveTasks, Retry,
     HandlerTaken, StartRelease, SingleTaken, StartReporting, StartTriage,
     StartUpload, FinishSummary, EntryCleanedUp, JobEnds, JobCancelledFromOutside,
     SleepCancelled, EntryFails, taskVars, vars
<1> QED
  BY <1>1 DEF Jobs, MaxCancels, TeardownTasks, Handlers

\* The first cleanup of the queue and the others.
LEMMA CurrentFacts ==
    ASSUME TypeOK, QueueInv, queue # <<>>
    PROVE  /\ Current \in Jobs /\ Current \in Elems(queue)
           /\ Current \notin Rest(queue) /\ Rest(queue) \subseteq Jobs
           /\ Elems(queue) = {Current} \cup Rest(queue)
           /\ Tail(queue) \in Seq(Jobs) /\ Distinct(Tail(queue))
           /\ Elems(Tail(queue)) = Rest(queue)
BY TailFacts, ElemsType DEF TypeOK, QueueInv, Current

\* The kind of a cleanup decides its place and the other way round.
LEMMA KindFacts ==
    /\ \A j \in Jobs : Place[j[1]] = 1 <=> j[1] = "task"
    /\ \A j \in Jobs : Place[j[1]] = 2 <=> j[1] = "handler"
    /\ \A j \in Jobs : Place[j[1]] = 3 => j = Only("release")
    /\ \A j \in Jobs : Place[j[1]] \in 1..6
    /\ Only("release") \in Jobs /\ Only("release")[1] = "release"
<1>1. \A j \in Jobs : j[1] \in {"task", "handler", "release", "investigate",
                               "triage", "upload"}
  BY JobFacts DEF SingleStages
<1>2. \A j \in Jobs : j[1] = "release" => j = Only("release")
  BY JobFacts DEF SingleStages
<1>3. Only("release") \in Jobs /\ Only("release")[1] = "release"
  BY JobFacts DEF SingleStages
<1> QED
  BY <1>1, <1>2, <1>3, PlaceFacts

\* The cleanup of a later stage alone in the queue.
LEMMA OnlyFacts ==
    ASSUME NEW s \in SingleStages
    PROVE  /\ Only(s) \in Jobs /\ Only(s)[1] = s
           /\ <<Only(s)>> # <<>> /\ Elems(<<Only(s)>>) = {Only(s)}
           /\ Distinct(<<Only(s)>>)
BY JobFacts, SingletonFacts

\* The errors that are of no cleanup.
LEMMA OtherErrors ==
    \A s \in {"executor", "reporting", "summary", "entry"} : Only(s) \notin Jobs
BY JobFacts DEF SingleStages

\* In the stages that have no cleanup nothing runs.
LEMMA IdleFacts ==
    ASSUME TypeOK, QueueInv, stage \in {"executor", "sleep", "done"}
    PROVE  queue = <<>> /\ job = "none"
BY DEF TypeOK, QueueInv

(***************************************************************************)
(* TeardownInv is inductive                                                *)
(***************************************************************************)

\* TypeOK in four parts.
TypeSeqs ==
    /\ plan \in Plans
    /\ queue \in Seq(Jobs) /\ failures \in Seq(Jobs)
    /\ job # "none" => queue # <<>>

TypeFlags ==
    /\ stage \in Stages
    /\ job \in Ends \cup {"none", "running"}
    /\ budget \in {"none", "armed", "expired"}
    /\ attempt \in 1..TaskAttempts
    /\ interrupted \subseteq {"tasks"}
    /\ jobCancelled \subseteq {"job"}
    /\ cancellation \subseteq {"cancelled"}
    /\ cancels \in 0..MaxCancels

TypeSets ==
    /\ failed \subseteq Jobs
    /\ errors \subseteq
         Jobs \cup {Only(s) : s \in {"executor", "reporting", "summary", "entry"}}

TypeHistory ==
    /\ runs \in [Jobs -> 0..TaskAttempts]
    /\ last \in [Jobs -> Ends \cup {"none"}]

\* The four parts are TypeOK.
LEMMA TypeParts == TypeOK <=> TypeSeqs /\ TypeFlags /\ TypeSets /\ TypeHistory
BY DEF TypeOK, TypeSeqs, TypeFlags, TypeSets, TypeHistory

\* The queues stay sequences of cleanups.
LEMMA TypeSeqsStep ==
    ASSUME TypeSeqs, QueueInv, [Next]_vars
    PROVE  TypeSeqs'
<1>a. plan' = plan /\ Jobs' = Jobs /\ MaxCancels' = MaxCancels
  BY PlanKept
<1>b. queue \in Seq(Jobs) /\ failures \in Seq(Jobs) /\ plan \in Plans
  BY DEF TypeSeqs
<1>c. queue # <<>> => Current \in Jobs /\ Tail(queue) \in Seq(Jobs)
  BY <1>b, TailFacts DEF Current
<1>d. \A s \in SingleStages : <<Only(s)>> \in Seq(Jobs) /\ <<Only(s)>> # <<>>
  BY JobFacts, SingletonFacts
<1>e. \A j \in Jobs : Append(failures, j) \in Seq(Jobs)
  BY <1>b, AppendFacts
<1>h. stage \in {"executor", "sleep"} => job = "none"
  BY DEF TypeSeqs, QueueInv
<1>f. TaskQueue \in Seq(Jobs)
  BY <1>b, QueueOfTasks
<1>g. HandlerQueue \in Seq(Jobs)
  BY <1>b, QueueOfHandlers
<1>1. CASE JobStarts
  BY <1>1, <1>a, <1>b DEF JobStarts, taskVars, TypeSeqs
<1>2. CASE DeadlinePasses
  BY <1>2, <1>a, <1>b DEF DeadlinePasses, taskVars, TypeSeqs
<1>3. CASE JobTimesOut
  BY <1>3, <1>a, <1>b DEF JobTimesOut, taskVars, TypeSeqs
<1>4. CASE ExecutorTornDown
  BY <1>4, <1>a, <1>b, <1>f, <1>h DEF ExecutorTornDown, Arm, taskVars, TypeSeqs
<1>5. CASE TaskTaken
  BY <1>5, <1>a, <1>b, <1>c, <1>e, EmptyFacts DEF TaskTaken, JobTaken, JobErred,
     Ended, TypeSeqs
<1>6. CASE TasksAttempted
  BY <1>6, <1>a, <1>b, <1>g, EmptyFacts DEF TasksAttempted, EndAttempt,
     LeaveTasks, taskVars, TypeSeqs
<1>7. CASE Retry
  BY <1>7, <1>a, <1>b, <1>h, EmptyFacts DEF Retry, TypeSeqs
<1>8. CASE HandlerTaken
  BY <1>8, <1>a, <1>b, <1>c DEF HandlerTaken, JobTaken, JobErred, Ended,
     taskVars, TypeSeqs
<1>9. CASE StartRelease
  BY <1>9, <1>a, <1>b, <1>d DEF StartRelease, Enter, NewBudget, taskVars,
     SingleStages, TypeSeqs
<1>10. CASE SingleTaken
  BY <1>10, <1>a, <1>b, <1>c DEF SingleTaken, JobTaken, JobErred, Ended,
     SingleStages, taskVars, TypeSeqs
<1>11. CASE StartReporting
  BY <1>11, <1>a, <1>b, <1>d, EmptyFacts DEF StartReporting, Enter, Skip,
     NewBudget, taskVars, SingleStages, TypeSeqs
<1>12. CASE StartTriage
  BY <1>12, <1>a, <1>b, <1>d, EmptyFacts DEF StartTriage, Enter, Skip, taskVars,
     SingleStages, TypeSeqs
<1>13. CASE StartUpload
  BY <1>13, <1>a, <1>b, <1>d DEF StartUpload, Enter, NewBudget, taskVars,
     SingleStages, TypeSeqs
<1>14. CASE FinishSummary
  BY <1>14, <1>a, <1>b DEF FinishSummary, taskVars, TypeSeqs
<1>15. CASE EntryCleanedUp
  BY <1>15, <1>a, <1>b DEF EntryCleanedUp, taskVars, TypeSeqs
<1>16. ASSUME NEW how \in {"ok", "error", "cancelled"}, JobEnds(how) PROVE TypeSeqs'
  BY <1>16, <1>a, <1>b DEF JobEnds, taskVars, TypeSeqs
<1>17. CASE JobCancelledFromOutside
  BY <1>17, <1>a, <1>b DEF JobCancelledFromOutside, Arm, taskVars, TypeSeqs
<1>18. CASE SleepCancelled
  BY <1>18, <1>a, <1>b, <1>g, <1>h, EmptyFacts DEF SleepCancelled, Arm,
     LeaveTasks, TypeSeqs
<1>19. CASE EntryFails
  BY <1>19, <1>a, <1>b, <1>d DEF EntryFails, Enter, taskVars, SingleStages,
     TypeSeqs
<1>20. CASE UNCHANGED vars
  BY <1>20, <1>a, <1>b DEF vars, TypeSeqs
<1> QED
  BY <1>1, <1>2, <1>3, <1>4, <1>5, <1>6, <1>7, <1>8, <1>9, <1>10, <1>11, <1>12,
     <1>13, <1>14, <1>15, <1>16, <1>17, <1>18, <1>19, <1>20 DEF Next, LoopStep,
     Terminated

\* The stage, the attempt and the flags keep their ranges.
LEMMA TypeFlagsStep ==
    ASSUME TypeSeqs, TypeFlags, BudgetInv, [Next]_vars
    PROVE  TypeFlags'
<1>a. plan' = plan /\ Jobs' = Jobs /\ MaxCancels' = MaxCancels
  BY PlanKept
<1>b. MaxCancels \in Nat
  BY PlansAssumption DEF TypeSeqs, MaxCancels
<1>c. TaskAttempts = 2 /\ (stage = "sleep" => attempt = 1)
  BY DEF TaskAttempts, BudgetInv
<1>1. CASE JobStarts
  BY <1>1, <1>a, <1>b, <1>c DEF JobStarts, taskVars, Ends, TypeFlags
<1>2. CASE DeadlinePasses
  BY <1>2, <1>a, <1>b, <1>c DEF DeadlinePasses, taskVars, TypeFlags
<1>3. CASE JobTimesOut
  BY <1>3, <1>a, <1>b, <1>c DEF JobTimesOut, taskVars, Ends, TypeFlags
<1>4. CASE ExecutorTornDown
  <2>1. stage' = "tasks" /\ UNCHANGED <<job, attempt, interrupted, jobCancelled>>
    BY <1>4 DEF ExecutorTornDown, taskVars
  <2>2. /\ cancellation' \in {cancellation, {"cancelled"}}
        /\ budget' \in {budget, "armed"}
        /\ cancels' = cancels \/ (cancels < MaxCancels /\ cancels' = cancels + 1)
    BY <1>4 DEF ExecutorTornDown, Arm
  <2> QED
    BY <1>a, <1>b, <1>c, <2>1, <2>2 DEF Stages, TypeFlags
<1>5. CASE TaskTaken
  BY <1>5, <1>a, <1>b, <1>c DEF TaskTaken, JobTaken, JobErred, Ended, TypeFlags
<1>6. CASE TasksAttempted
  <2>1. /\ stage' \in {"handlers", "sleep"} /\ attempt' \in {1, attempt}
        /\ interrupted' = {} \/ interrupted' = interrupted
        /\ cancellation' = cancellation \/ cancellation' = {"cancelled"}
    BY <1>6 DEF TasksAttempted, EndAttempt, LeaveTasks, taskVars
  <2>2. UNCHANGED <<job, jobCancelled, budget, cancels>>
    BY <1>6 DEF TasksAttempted, EndAttempt, LeaveTasks
  <2>3. stage' \in Stages /\ attempt' \in 1..TaskAttempts
    BY <1>c, <2>1 DEF Stages, TypeFlags
  <2>4. interrupted' \subseteq {"tasks"} /\ cancellation' \subseteq {"cancelled"}
    BY <2>1 DEF TypeFlags
  <2> QED
    BY <1>a, <2>2, <2>3, <2>4 DEF TypeFlags
<1>7. CASE Retry
  BY <1>7, <1>a, <1>b, <1>c DEF Retry, Stages, SingleStages, TypeFlags
<1>8. CASE HandlerTaken
  BY <1>8, <1>a, <1>b, <1>c DEF HandlerTaken, JobTaken, JobErred, Ended,
     taskVars, TypeFlags
<1>9. CASE StartRelease
  BY <1>9, <1>a, <1>b, <1>c DEF StartRelease, Enter, NewBudget, taskVars,
     Stages, SingleStages, TypeFlags
<1>10. CASE SingleTaken
  BY <1>10, <1>a, <1>b, <1>c DEF SingleTaken, JobTaken, JobErred, Ended,
     SingleStages, taskVars, TypeFlags
<1>11. CASE StartReporting
  BY <1>11, <1>a, <1>b, <1>c DEF StartReporting, Enter, Skip, NewBudget,
     taskVars, Stages, SingleStages, TypeFlags
<1>12. CASE StartTriage
  BY <1>12, <1>a, <1>b, <1>c DEF StartTriage, Enter, Skip, taskVars, Stages,
     SingleStages, TypeFlags
<1>13. CASE StartUpload
  BY <1>13, <1>a, <1>b, <1>c DEF StartUpload, Enter, NewBudget, taskVars,
     Stages, SingleStages, TypeFlags
<1>14. CASE FinishSummary
  BY <1>14, <1>a, <1>b, <1>c DEF FinishSummary, taskVars, Stages, SingleStages,
     TypeFlags
<1>15. CASE EntryCleanedUp
  BY <1>15, <1>a, <1>b, <1>c DEF EntryCleanedUp, taskVars, Stages, SingleStages,
     TypeFlags
<1>16. ASSUME NEW how \in {"ok", "error", "cancelled"}, JobEnds(how) PROVE TypeFlags'
  BY <1>16, <1>a, <1>b, <1>c DEF JobEnds, taskVars, Ends, TypeFlags
<1>17. CASE JobCancelledFromOutside
  BY <1>17, <1>a, <1>b, <1>c DEF JobCancelledFromOutside, Arm, taskVars,
     TypeFlags
<1>18. CASE SleepCancelled
  BY <1>18, <1>a, <1>b, <1>c DEF SleepCancelled, Arm, LeaveTasks, Stages,
     SingleStages, TypeFlags
<1>19. CASE EntryFails
  BY <1>19, <1>a, <1>b, <1>c DEF EntryFails, Enter, taskVars, Stages,
     SingleStages, TypeFlags
<1>20. CASE UNCHANGED vars
  BY <1>20, <1>a, <1>b, <1>c DEF vars, TypeFlags
<1> QED
  BY <1>1, <1>2, <1>3, <1>4, <1>5, <1>6, <1>7, <1>8, <1>9, <1>10, <1>11, <1>12,
     <1>13, <1>14, <1>15, <1>16, <1>17, <1>18, <1>19, <1>20 DEF Next, LoopStep,
     Terminated

\* Only cleanups and the four other errors are recorded.
LEMMA TypeSetsStep ==
    ASSUME TypeSeqs, TypeSets, [Next]_vars
    PROVE  TypeSets'
<1>a. plan' = plan /\ Jobs' = Jobs /\ MaxCancels' = MaxCancels
  BY PlanKept
<1>b. queue # <<>> => Current \in Jobs
  BY TailFacts DEF TypeSeqs, Current
<1>c. Ended => queue # <<>>
  BY DEF TypeSeqs, Ended
<1>1. CASE JobStarts
  BY <1>1, <1>a DEF JobStarts, taskVars, TypeSets
<1>2. CASE DeadlinePasses
  BY <1>2, <1>a DEF DeadlinePasses, taskVars, TypeSets
<1>3. CASE JobTimesOut
  BY <1>3, <1>a DEF JobTimesOut, taskVars, TypeSets
<1>4. CASE ExecutorTornDown
  BY <1>4, <1>a DEF ExecutorTornDown, Arm, taskVars, TypeSets
<1>5. CASE TaskTaken
  BY <1>5, <1>a, <1>b, <1>c DEF TaskTaken, JobTaken, JobErred, Ended, TypeSets
<1>6. CASE TasksAttempted
  BY <1>6, <1>a DEF TasksAttempted, EndAttempt, LeaveTasks, taskVars, TypeSets
<1>7. CASE Retry
  BY <1>7, <1>a DEF Retry, TypeSets
<1>8. CASE HandlerTaken
  BY <1>8, <1>a, <1>b, <1>c DEF HandlerTaken, JobTaken, JobErred, Ended,
     taskVars, TypeSets
<1>9. CASE StartRelease
  BY <1>9, <1>a DEF StartRelease, Enter, NewBudget, taskVars, TypeSets
<1>10. CASE SingleTaken
  BY <1>10, <1>a, <1>b, <1>c DEF SingleTaken, JobTaken, JobErred, Ended,
     SingleStages, taskVars, TypeSets
<1>11. CASE StartReporting
  BY <1>11, <1>a DEF StartReporting, Enter, Skip, NewBudget, taskVars, TypeSets
<1>12. CASE StartTriage
  BY <1>12, <1>a DEF StartTriage, Enter, Skip, taskVars, TypeSets
<1>13. CASE StartUpload
  BY <1>13, <1>a DEF StartUpload, Enter, NewBudget, taskVars, TypeSets
<1>14. CASE FinishSummary
  BY <1>14, <1>a DEF FinishSummary, taskVars, TypeSets
<1>15. CASE EntryCleanedUp
  BY <1>15, <1>a DEF EntryCleanedUp, taskVars, TypeSets
<1>16. ASSUME NEW how \in {"ok", "error", "cancelled"}, JobEnds(how) PROVE TypeSets'
  BY <1>16, <1>a DEF JobEnds, taskVars, TypeSets
<1>17. CASE JobCancelledFromOutside
  BY <1>17, <1>a DEF JobCancelledFromOutside, Arm, taskVars, TypeSets
<1>18. CASE SleepCancelled
  BY <1>18, <1>a DEF SleepCancelled, Arm, LeaveTasks, TypeSets
<1>19. CASE EntryFails
  BY <1>19, <1>a DEF EntryFails, Enter, taskVars, TypeSets
<1>20. CASE UNCHANGED vars
  BY <1>20, <1>a DEF vars, TypeSets
<1> QED
  BY <1>1, <1>2, <1>3, <1>4, <1>5, <1>6, <1>7, <1>8, <1>9, <1>10, <1>11, <1>12,
     <1>13, <1>14, <1>15, <1>16, <1>17, <1>18, <1>19, <1>20 DEF Next, LoopStep,
     Terminated

\* A cleanup begins to run at most twice.
LEMMA TypeHistoryStep ==
    ASSUME TypeSeqs, TypeFlags, TypeHistory, TodoInv, [Next]_vars
    PROVE  TypeHistory'
<1>a. plan' = plan /\ Jobs' = Jobs /\ MaxCancels' = MaxCancels
  BY PlanKept
<1>b. queue # <<>> => Current \in Jobs /\ Current \in Elems(queue)
  BY TailFacts DEF TypeSeqs, Current
<1>c. job # "none" => queue # <<>>
  BY DEF TypeSeqs
<1>d. attempt \in 1..TaskAttempts /\ TaskAttempts = 2
  BY DEF TypeFlags, TaskAttempts
<1>e. job = "none" /\ queue # <<>> => runs[Current] = attempt - 1
  BY <1>b DEF TodoInv, Todo
<1>1. CASE JobStarts
  BY <1>1, <1>a, <1>b, <1>d, <1>e DEF JobStarts, taskVars, Ends, TypeHistory
<1>2. CASE DeadlinePasses
  BY <1>2, <1>a DEF DeadlinePasses, taskVars, TypeHistory
<1>3. CASE JobTimesOut
  BY <1>3, <1>a, <1>b, <1>c DEF JobTimesOut, taskVars, Ends, TypeHistory
<1>4. CASE ExecutorTornDown
  BY <1>4, <1>a DEF ExecutorTornDown, Arm, taskVars, TypeHistory
<1>5. CASE TaskTaken
  BY <1>5, <1>a DEF TaskTaken, JobTaken, JobErred, Ended, TypeHistory
<1>6. CASE TasksAttempted
  BY <1>6, <1>a DEF TasksAttempted, EndAttempt, LeaveTasks, taskVars,
     TypeHistory
<1>7. CASE Retry
  BY <1>7, <1>a DEF Retry, TypeHistory
<1>8. CASE HandlerTaken
  BY <1>8, <1>a DEF HandlerTaken, JobTaken, JobErred, Ended, taskVars,
     TypeHistory
<1>9. CASE StartRelease
  BY <1>9, <1>a DEF StartRelease, Enter, NewBudget, taskVars, TypeHistory
<1>10. CASE SingleTaken
  BY <1>10, <1>a DEF SingleTaken, JobTaken, JobErred, Ended, SingleStages,
     taskVars, TypeHistory
<1>11. CASE StartReporting
  BY <1>11, <1>a DEF StartReporting, Enter, Skip, NewBudget, taskVars,
     TypeHistory
<1>12. CASE StartTriage
  BY <1>12, <1>a DEF StartTriage, Enter, Skip, taskVars, TypeHistory
<1>13. CASE StartUpload
  BY <1>13, <1>a DEF StartUpload, Enter, NewBudget, taskVars, TypeHistory
<1>14. CASE FinishSummary
  BY <1>14, <1>a DEF FinishSummary, taskVars, TypeHistory
<1>15. CASE EntryCleanedUp
  BY <1>15, <1>a DEF EntryCleanedUp, taskVars, TypeHistory
<1>16. ASSUME NEW how \in {"ok", "error", "cancelled"}, JobEnds(how) PROVE TypeHistory'
  BY <1>16, <1>a, <1>b, <1>c DEF JobEnds, taskVars, Ends, TypeHistory
<1>17. CASE JobCancelledFromOutside
  BY <1>17, <1>a DEF JobCancelledFromOutside, Arm, taskVars, TypeHistory
<1>18. CASE SleepCancelled
  BY <1>18, <1>a DEF SleepCancelled, Arm, LeaveTasks, TypeHistory
<1>19. CASE EntryFails
  BY <1>19, <1>a DEF EntryFails, Enter, taskVars, TypeHistory
<1>20. CASE UNCHANGED vars
  BY <1>20, <1>a DEF vars, TypeHistory
<1> QED
  BY <1>1, <1>2, <1>3, <1>4, <1>5, <1>6, <1>7, <1>8, <1>9, <1>10, <1>11, <1>12,
     <1>13, <1>14, <1>15, <1>16, <1>17, <1>18, <1>19, <1>20 DEF Next, LoopStep,
     Terminated

\* Every step keeps the types.
LEMMA TypeStep ==
    ASSUME TypeOK, QueueInv, BudgetInv, TodoInv, [Next]_vars
    PROVE  TypeOK'
<1>1. TypeSeqs /\ TypeFlags /\ TypeSets /\ TypeHistory
  BY TypeParts
<1>2. TypeSeqs' /\ TypeFlags' /\ TypeSets' /\ TypeHistory'
  BY <1>1, TypeSeqsStep, TypeFlagsStep, TypeSetsStep, TypeHistoryStep
<1>3. (TypeOK <=> TypeSeqs /\ TypeFlags /\ TypeSets /\ TypeHistory)'
  BY TypeParts, PTL
<1> QED
  BY <1>2, <1>3

\* The queue is of the stage and lists a cleanup once.
LEMMA QueueStep ==
    ASSUME TypeOK, QueueInv, BudgetInv, [Next]_vars
    PROVE  QueueInv'
<1>a. plan' = plan /\ Jobs' = Jobs /\ MaxCancels' = MaxCancels
  BY PlanKept
<1>b. queue # <<>> =>
        /\ Current \in Jobs /\ Current \notin Rest(queue)
        /\ Elems(queue) = {Current} \cup Rest(queue)
        /\ Distinct(Tail(queue)) /\ Elems(Tail(queue)) = Rest(queue)
  BY CurrentFacts
<1>c. job # "none" => queue # <<>>
  BY DEF TypeOK
<1>d. Elems(queue) \subseteq Jobs /\ Rest(queue) \subseteq Jobs /\ plan \in Plans
  BY ElemsType DEF TypeOK
<1>e. stage \in {"executor", "sleep", "done"} => queue = <<>> /\ job = "none"
  BY IdleFacts
<1>f. \A q \in Elems(queue) : Place[q[1]] = Place[stage]
  BY DEF QueueInv
<1>g. Place[stage] \in 0..7
  BY PlaceFacts DEF TypeOK, Stages, SingleStages
<1>i. /\ \A j \in Jobs : Elems(Append(failures, j)) = Elems(failures) \cup {j}
      /\ \A j \in Jobs \ Elems(failures) : Distinct(Append(failures, j))
      /\ Elems(failures) \subseteq Jobs /\ Elems(queue) \cap Elems(failures) = {}
  BY AppendFacts, ElemsType DEF TypeOK, QueueInv
<1>1. CASE JobStarts
  BY <1>1, <1>a, <1>b, <1>c, <1>d, <1>e, PlaceFacts, KindFacts DEF JobStarts,
     taskVars, QueueInv
<1>2. CASE DeadlinePasses
  BY <1>2, <1>a, <1>b, <1>c, <1>d, <1>e, PlaceFacts, KindFacts DEF
     DeadlinePasses, taskVars, QueueInv
<1>3. CASE JobTimesOut
  BY <1>3, <1>a, <1>b, <1>c, <1>d, <1>e, PlaceFacts, KindFacts DEF JobTimesOut,
     taskVars, QueueInv
<1>4. CASE ExecutorTornDown
  BY <1>4, <1>a, <1>b, <1>c, <1>d, <1>e, PlaceFacts, KindFacts, QueueOfTasks DEF
     ExecutorTornDown, Arm, taskVars, QueueInv
<1>5. CASE TaskTaken
  BY <1>5, <1>a, <1>b, <1>c, <1>d, <1>e, PlaceFacts, KindFacts, <1>i DEF
     TaskTaken, JobTaken, JobErred, Ended, QueueInv
<1>6. CASE TasksAttempted
  BY <1>6, <1>a, <1>b, <1>c, <1>d, <1>e, PlaceFacts, KindFacts, QueueOfHandlers,
     EmptyFacts DEF TasksAttempted, EndAttempt, LeaveTasks, taskVars, QueueInv
<1>7. CASE Retry
  BY <1>7, <1>a, <1>b, <1>c, <1>d, <1>e, PlaceFacts, KindFacts, EmptyFacts DEF
     Retry, QueueInv
<1>8. CASE HandlerTaken
  BY <1>8, <1>a, <1>b, <1>c, <1>d, <1>e, PlaceFacts, KindFacts DEF HandlerTaken,
     JobTaken, JobErred, Ended, taskVars, QueueInv
<1>9. CASE StartRelease
  BY <1>9, <1>a, <1>b, <1>c, <1>d, <1>e, PlaceFacts, KindFacts, OnlyFacts DEF
     StartRelease, Enter, NewBudget, taskVars, SingleStages, QueueInv
<1>10. CASE SingleTaken
  BY <1>10, <1>a, <1>b, <1>c, <1>d, <1>e, PlaceFacts, KindFacts DEF SingleTaken,
     JobTaken, JobErred, Ended, SingleStages, taskVars, QueueInv
<1>11. CASE StartReporting
  BY <1>11, <1>a, <1>b, <1>c, <1>d, <1>e, PlaceFacts, KindFacts, OnlyFacts,
     EmptyFacts DEF StartReporting, Enter, Skip, NewBudget, taskVars, SingleStages,
     QueueInv
<1>12. CASE StartTriage
  BY <1>12, <1>a, <1>b, <1>c, <1>d, <1>e, PlaceFacts, KindFacts, OnlyFacts,
     EmptyFacts DEF StartTriage, Enter, Skip, taskVars, SingleStages, QueueInv
<1>13. CASE StartUpload
  BY <1>13, <1>a, <1>b, <1>c, <1>d, <1>e, PlaceFacts, KindFacts, OnlyFacts DEF
     StartUpload, Enter, NewBudget, taskVars, SingleStages, QueueInv
<1>14. CASE FinishSummary
  BY <1>14, <1>a, <1>b, <1>c, <1>d, <1>e, PlaceFacts, KindFacts DEF
     FinishSummary, taskVars, QueueInv
<1>15. CASE EntryCleanedUp
  BY <1>15, <1>a, <1>b, <1>c, <1>d, <1>e, PlaceFacts, KindFacts DEF
     EntryCleanedUp, taskVars, QueueInv
<1>16. ASSUME NEW how \in {"ok", "error", "cancelled"}, JobEnds(how) PROVE QueueInv'
  BY <1>16, <1>a, <1>b, <1>c, <1>d, <1>e, PlaceFacts, KindFacts DEF JobEnds,
     taskVars, QueueInv
<1>17. CASE JobCancelledFromOutside
  BY <1>17, <1>a, <1>b, <1>c, <1>d, <1>e, PlaceFacts, KindFacts DEF
     JobCancelledFromOutside, Arm, taskVars, QueueInv
<1>18. CASE SleepCancelled
  BY <1>18, <1>a, <1>b, <1>c, <1>d, <1>e, PlaceFacts, KindFacts,
     QueueOfHandlers, EmptyFacts DEF SleepCancelled, Arm, LeaveTasks, QueueInv
<1>19. CASE EntryFails
  BY <1>19, <1>a, <1>b, <1>c, <1>d, <1>e, PlaceFacts, KindFacts, OnlyFacts DEF
     EntryFails, Enter, taskVars, SingleStages, QueueInv
<1>20. CASE UNCHANGED vars
  BY <1>20, <1>a, <1>b, <1>c, <1>d, <1>e, PlaceFacts, KindFacts DEF vars,
     QueueInv
<1> QED
  BY <1>1, <1>2, <1>3, <1>4, <1>5, <1>6, <1>7, <1>8, <1>9, <1>10, <1>11, <1>12,
     <1>13, <1>14, <1>15, <1>16, <1>17, <1>18, <1>19, <1>20 DEF Next, LoopStep,
     Terminated

\* A cleanup is not touched before its stage.
LEMMA UntouchedStep ==
    ASSUME TypeOK, QueueInv, UntouchedInv, [Next]_vars
    PROVE  UntouchedInv'
<1>a. plan' = plan /\ Jobs' = Jobs /\ MaxCancels' = MaxCancels
  BY PlanKept
<1>b. queue # <<>> =>
        /\ Current \in Jobs /\ Current \notin Rest(queue)
        /\ Elems(queue) = {Current} \cup Rest(queue)
        /\ Distinct(Tail(queue)) /\ Elems(Tail(queue)) = Rest(queue)
  BY CurrentFacts
<1>c. job # "none" => queue # <<>>
  BY DEF TypeOK
<1>d. Elems(queue) \subseteq Jobs /\ Rest(queue) \subseteq Jobs /\ plan \in Plans
  BY ElemsType DEF TypeOK
<1>e. stage \in {"executor", "sleep", "done"} => queue = <<>> /\ job = "none"
  BY IdleFacts
<1>f. \A q \in Elems(queue) : Place[q[1]] = Place[stage]
  BY DEF QueueInv
<1>g. Place[stage] \in 0..7
  BY PlaceFacts DEF TypeOK, Stages, SingleStages
<1>h. runs \in [Jobs -> 0..TaskAttempts] /\ last \in [Jobs -> Ends \cup {"none"}]
  BY DEF TypeOK
<1>1. CASE JobStarts
  BY <1>1, <1>a, <1>b, <1>c, <1>d, <1>e, PlaceFacts, KindFacts, <1>f, <1>g, <1>h
     DEF JobStarts, taskVars, UntouchedInv
<1>2. CASE DeadlinePasses
  BY <1>2, <1>a, <1>b, <1>c, <1>d, <1>e, PlaceFacts, KindFacts, <1>f, <1>g DEF
     DeadlinePasses, taskVars, UntouchedInv
<1>3. CASE JobTimesOut
  BY <1>3, <1>a, <1>b, <1>c, <1>d, <1>e, PlaceFacts, KindFacts, <1>f, <1>g, <1>h
     DEF JobTimesOut, taskVars, UntouchedInv
<1>4. CASE ExecutorTornDown
  <2>1. /\ stage = "executor" /\ stage' = "tasks" /\ UNCHANGED <<runs, last>>
        /\ errors' = errors \/ errors' = errors \cup {Only("executor")}
    BY <1>4 DEF ExecutorTornDown, taskVars
  <2> QED
    BY <1>a, <1>g, <2>1, PlaceFacts, KindFacts, OtherErrors DEF UntouchedInv
<1>5. CASE TaskTaken
  BY <1>5, <1>a, <1>b, <1>c, <1>d, <1>e, PlaceFacts, KindFacts, <1>f, <1>g DEF
     TaskTaken, JobTaken, JobErred, Ended, UntouchedInv
<1>6. CASE TasksAttempted
  <2>1. /\ stage = "tasks" /\ stage' \in {"handlers", "sleep"} /\ UNCHANGED <<runs, last>>
        /\ errors' = errors \/ errors' = errors \cup failed
    BY <1>6 DEF TasksAttempted, EndAttempt, LeaveTasks
  <2>2. \A f \in failed : f[1] = "task"
    BY DEF QueueInv
  <2> QED
    BY <1>a, <2>1, <2>2, PlaceFacts, KindFacts DEF UntouchedInv
<1>7. CASE Retry
  BY <1>7, <1>a, <1>b, <1>c, <1>d, <1>e, PlaceFacts, KindFacts, <1>f, <1>g,
     EmptyFacts DEF Retry, UntouchedInv
<1>8. CASE HandlerTaken
  BY <1>8, <1>a, <1>b, <1>c, <1>d, <1>e, PlaceFacts, KindFacts, <1>f, <1>g DEF
     HandlerTaken, JobTaken, JobErred, Ended, taskVars, UntouchedInv
<1>9. CASE StartRelease
  BY <1>9, <1>a, <1>b, <1>c, <1>d, <1>e, PlaceFacts, KindFacts, <1>f, <1>g,
     OnlyFacts DEF StartRelease, Enter, NewBudget, taskVars, SingleStages,
     UntouchedInv
<1>10. CASE SingleTaken
  BY <1>10, <1>a, <1>b, <1>c, <1>d, <1>e, PlaceFacts, KindFacts, <1>f, <1>g DEF
     SingleTaken, JobTaken, JobErred, Ended, SingleStages, taskVars, UntouchedInv
<1>11. CASE StartReporting
  <2>1. /\ stage = "release" /\ stage' = "investigate" /\ UNCHANGED <<runs, last>>
        /\ errors' = errors \/ errors' = errors \cup {Only("reporting")}
    BY <1>11 DEF StartReporting, Enter, Skip
  <2> QED
    BY <1>a, <2>1, PlaceFacts, KindFacts, OtherErrors DEF UntouchedInv
<1>12. CASE StartTriage
  BY <1>12, <1>a, <1>b, <1>c, <1>d, <1>e, PlaceFacts, KindFacts, <1>f, <1>g,
     OnlyFacts, EmptyFacts DEF StartTriage, Enter, Skip, taskVars, SingleStages,
     UntouchedInv
<1>13. CASE StartUpload
  BY <1>13, <1>a, <1>b, <1>c, <1>d, <1>e, PlaceFacts, KindFacts, <1>f, <1>g,
     OnlyFacts DEF StartUpload, Enter, NewBudget, taskVars, SingleStages,
     UntouchedInv
<1>14. CASE FinishSummary
  BY <1>14, <1>a, <1>b, <1>c, <1>d, <1>e, PlaceFacts, KindFacts, <1>f, <1>g,
     OtherErrors DEF FinishSummary, taskVars, UntouchedInv
<1>15. CASE EntryCleanedUp
  BY <1>15, <1>a, <1>b, <1>c, <1>d, <1>e, PlaceFacts, KindFacts, <1>f, <1>g,
     OtherErrors DEF EntryCleanedUp, taskVars, UntouchedInv
<1>16. ASSUME NEW how \in {"ok", "error", "cancelled"}, JobEnds(how) PROVE UntouchedInv'
  BY <1>16, <1>a, <1>b, <1>c, <1>d, <1>e, PlaceFacts, KindFacts, <1>f, <1>g,
     <1>h DEF JobEnds, taskVars, UntouchedInv
<1>17. CASE JobCancelledFromOutside
  BY <1>17, <1>a, <1>b, <1>c, <1>d, <1>e, PlaceFacts, KindFacts, <1>f, <1>g DEF
     JobCancelledFromOutside, Arm, taskVars, UntouchedInv
<1>18. CASE SleepCancelled
  BY <1>18, <1>a, <1>b, <1>c, <1>d, <1>e, PlaceFacts, KindFacts, <1>f, <1>g,
     QueueOfHandlers, EmptyFacts DEF SleepCancelled, Arm, LeaveTasks, QueueInv,
     UntouchedInv
<1>19. CASE EntryFails
  BY <1>19, <1>a, <1>b, <1>c, <1>d, <1>e, PlaceFacts, KindFacts, <1>f, <1>g,
     OnlyFacts, OtherErrors DEF EntryFails, Enter, taskVars, SingleStages,
     UntouchedInv
<1>20. CASE UNCHANGED vars
  BY <1>20, <1>a, <1>b, <1>c, <1>d, <1>e, PlaceFacts, KindFacts, <1>f, <1>g DEF
     vars, UntouchedInv
<1> QED
  BY <1>1, <1>2, <1>3, <1>4, <1>5, <1>6, <1>7, <1>8, <1>9, <1>10, <1>11, <1>12,
     <1>13, <1>14, <1>15, <1>16, <1>17, <1>18, <1>19, <1>20 DEF Next, LoopStep,
     Terminated

\* The budget is not armed before the first cleanup nor when the tasks are retried.
LEMMA BudgetStep ==
    ASSUME TypeOK, QueueInv, BudgetInv, [Next]_vars
    PROVE  BudgetInv'
<1>a. plan' = plan /\ Jobs' = Jobs /\ MaxCancels' = MaxCancels
  BY PlanKept
<1>b. queue # <<>> =>
        /\ Current \in Jobs /\ Current \notin Rest(queue)
        /\ Elems(queue) = {Current} \cup Rest(queue)
        /\ Distinct(Tail(queue)) /\ Elems(Tail(queue)) = Rest(queue)
  BY CurrentFacts
<1>c. job # "none" => queue # <<>>
  BY DEF TypeOK
<1>d. Elems(queue) \subseteq Jobs /\ Rest(queue) \subseteq Jobs /\ plan \in Plans
  BY ElemsType DEF TypeOK
<1>e. stage \in {"executor", "sleep", "done"} => queue = <<>> /\ job = "none"
  BY IdleFacts
<1>f. \A q \in Elems(queue) : Place[q[1]] = Place[stage]
  BY DEF QueueInv
<1>g. Place[stage] \in 0..7
  BY PlaceFacts DEF TypeOK, Stages, SingleStages
<1>1. CASE JobStarts
  BY <1>1, <1>e DEF JobStarts, taskVars, BudgetInv
<1>2. CASE DeadlinePasses
  BY <1>2, <1>e DEF DeadlinePasses, taskVars, BudgetInv
<1>3. CASE JobTimesOut
  BY <1>3, <1>e DEF JobTimesOut, taskVars, BudgetInv
<1>4. CASE ExecutorTornDown
  BY <1>4, <1>e DEF ExecutorTornDown, Arm, taskVars, BudgetInv
<1>5. CASE TaskTaken
  BY <1>5, <1>e DEF TaskTaken, JobTaken, JobErred, Ended, BudgetInv
<1>6. CASE TasksAttempted
  BY <1>6, <1>e DEF TasksAttempted, EndAttempt, LeaveTasks, taskVars,
     TaskAttempts, TypeOK, BudgetInv
<1>7. CASE Retry
  BY <1>7, <1>e DEF Retry, BudgetInv
<1>8. CASE HandlerTaken
  BY <1>8, <1>e DEF HandlerTaken, JobTaken, JobErred, Ended, taskVars, BudgetInv
<1>9. CASE StartRelease
  BY <1>9, <1>e DEF StartRelease, Enter, NewBudget, taskVars, BudgetInv
<1>10. CASE SingleTaken
  BY <1>10, <1>e DEF SingleTaken, JobTaken, JobErred, Ended, SingleStages,
     taskVars, BudgetInv
<1>11. CASE StartReporting
  BY <1>11, <1>e DEF StartReporting, Enter, Skip, NewBudget, taskVars, BudgetInv
<1>12. CASE StartTriage
  BY <1>12, <1>e DEF StartTriage, Enter, Skip, taskVars, BudgetInv
<1>13. CASE StartUpload
  BY <1>13, <1>e DEF StartUpload, Enter, NewBudget, taskVars, BudgetInv
<1>14. CASE FinishSummary
  BY <1>14, <1>e DEF FinishSummary, taskVars, BudgetInv
<1>15. CASE EntryCleanedUp
  BY <1>15, <1>e DEF EntryCleanedUp, taskVars, BudgetInv
<1>16. ASSUME NEW how \in {"ok", "error", "cancelled"}, JobEnds(how) PROVE BudgetInv'
  BY <1>16, <1>e DEF JobEnds, taskVars, TypeOK, BudgetInv
<1>17. CASE JobCancelledFromOutside
  BY <1>17, <1>e DEF JobCancelledFromOutside, Arm, taskVars, BudgetInv
<1>18. CASE SleepCancelled
  BY <1>18, <1>e DEF SleepCancelled, Arm, LeaveTasks, BudgetInv
<1>19. CASE EntryFails
  BY <1>19, <1>e DEF EntryFails, Enter, taskVars, BudgetInv
<1>20. CASE UNCHANGED vars
  BY <1>20, <1>e DEF vars, BudgetInv
<1> QED
  BY <1>1, <1>2, <1>3, <1>4, <1>5, <1>6, <1>7, <1>8, <1>9, <1>10, <1>11, <1>12,
     <1>13, <1>14, <1>15, <1>16, <1>17, <1>18, <1>19, <1>20 DEF Next, LoopStep,
     Terminated

\* What waits has not run in this attempt.
LEMMA TodoStep ==
    ASSUME TypeOK, QueueInv, UntouchedInv, BudgetInv, TodoInv, FailuresInv, [Next]_vars
    PROVE  TodoInv'
<1>a. plan' = plan /\ Jobs' = Jobs /\ MaxCancels' = MaxCancels
  BY PlanKept
<1>b. queue # <<>> =>
        /\ Current \in Jobs /\ Current \notin Rest(queue)
        /\ Elems(queue) = {Current} \cup Rest(queue)
        /\ Distinct(Tail(queue)) /\ Elems(Tail(queue)) = Rest(queue)
  BY CurrentFacts
<1>c. job # "none" => queue # <<>>
  BY DEF TypeOK
<1>d. Elems(queue) \subseteq Jobs /\ Rest(queue) \subseteq Jobs /\ plan \in Plans
  BY ElemsType DEF TypeOK
<1>e. stage \in {"executor", "sleep", "done"} => queue = <<>> /\ job = "none"
  BY IdleFacts
<1>f. \A q \in Elems(queue) : Place[q[1]] = Place[stage]
  BY DEF QueueInv
<1>g. Place[stage] \in 0..7
  BY PlaceFacts DEF TypeOK, Stages, SingleStages
<1>h. runs \in [Jobs -> 0..TaskAttempts] /\ last \in [Jobs -> Ends \cup {"none"}]
  BY DEF TypeOK
<1>1. CASE JobStarts
  BY <1>1, <1>a, <1>b, <1>c, <1>d, <1>e, PlaceFacts, KindFacts, <1>h DEF
     JobStarts, taskVars, TodoInv, Todo
<1>2. CASE DeadlinePasses
  BY <1>2, <1>a, <1>b, <1>c, <1>d, <1>e, PlaceFacts, KindFacts DEF
     DeadlinePasses, taskVars, TodoInv, Todo
<1>3. CASE JobTimesOut
  BY <1>3, <1>a, <1>b, <1>c, <1>d, <1>e, PlaceFacts, KindFacts, <1>h DEF
     JobTimesOut, taskVars, TodoInv, Todo
<1>4. CASE ExecutorTornDown
  BY <1>4, <1>a, <1>b, <1>c, <1>d, <1>e, PlaceFacts, KindFacts, QueueOfTasks DEF
     ExecutorTornDown, Arm, taskVars, UntouchedInv, QueueInv, TodoInv, Todo
<1>5. CASE TaskTaken
  BY <1>5, <1>a, <1>b, <1>c, <1>d, <1>e, PlaceFacts, KindFacts DEF TaskTaken,
     JobTaken, JobErred, Ended, TodoInv, Todo
<1>6. CASE TasksAttempted
  BY <1>6, <1>a, <1>b, <1>c, <1>d, <1>e, PlaceFacts, KindFacts, QueueOfHandlers,
     EmptyFacts DEF TasksAttempted, EndAttempt, LeaveTasks, taskVars, UntouchedInv,
     QueueInv, TodoInv, Todo
<1>7. CASE Retry
  BY <1>7, <1>a, <1>b, <1>c, <1>d, <1>e, PlaceFacts, KindFacts, EmptyFacts DEF
     Retry, BudgetInv, FailuresInv, TodoInv, Todo
<1>8. CASE HandlerTaken
  BY <1>8, <1>a, <1>b, <1>c, <1>d, <1>e, PlaceFacts, KindFacts DEF HandlerTaken,
     JobTaken, JobErred, Ended, taskVars, TodoInv, Todo
<1>9. CASE StartRelease
  BY <1>9, <1>a, <1>b, <1>c, <1>d, <1>e, PlaceFacts, KindFacts, OnlyFacts DEF
     StartRelease, Enter, NewBudget, taskVars, SingleStages, UntouchedInv,
     QueueInv, TodoInv, Todo
<1>10. CASE SingleTaken
  BY <1>10, <1>a, <1>b, <1>c, <1>d, <1>e, PlaceFacts, KindFacts DEF SingleTaken,
     JobTaken, JobErred, Ended, SingleStages, taskVars, TodoInv, Todo
<1>11. CASE StartReporting
  BY <1>11, <1>a, <1>b, <1>c, <1>d, <1>e, PlaceFacts, KindFacts, OnlyFacts,
     EmptyFacts DEF StartReporting, Enter, Skip, NewBudget, taskVars, SingleStages,
     UntouchedInv, QueueInv, TodoInv, Todo
<1>12. CASE StartTriage
  BY <1>12, <1>a, <1>b, <1>c, <1>d, <1>e, PlaceFacts, KindFacts, OnlyFacts,
     EmptyFacts DEF StartTriage, Enter, Skip, taskVars, SingleStages, UntouchedInv,
     QueueInv, TodoInv, Todo
<1>13. CASE StartUpload
  BY <1>13, <1>a, <1>b, <1>c, <1>d, <1>e, PlaceFacts, KindFacts, OnlyFacts DEF
     StartUpload, Enter, NewBudget, taskVars, SingleStages, UntouchedInv, QueueInv,
     TodoInv, Todo
<1>14. CASE FinishSummary
  BY <1>14, <1>a, <1>b, <1>c, <1>d, <1>e, PlaceFacts, KindFacts DEF
     FinishSummary, taskVars, TodoInv, Todo
<1>15. CASE EntryCleanedUp
  BY <1>15, <1>a, <1>b, <1>c, <1>d, <1>e, PlaceFacts, KindFacts DEF
     EntryCleanedUp, taskVars, TodoInv, Todo
<1>16. ASSUME NEW how \in {"ok", "error", "cancelled"}, JobEnds(how) PROVE TodoInv'
  BY <1>16, <1>a, <1>b, <1>c, <1>d, <1>e, PlaceFacts, KindFacts, <1>h DEF
     JobEnds, taskVars, TodoInv, Todo
<1>17. CASE JobCancelledFromOutside
  BY <1>17, <1>a, <1>b, <1>c, <1>d, <1>e, PlaceFacts, KindFacts DEF
     JobCancelledFromOutside, Arm, taskVars, TodoInv, Todo
<1>18. CASE SleepCancelled
  BY <1>18, <1>a, <1>b, <1>c, <1>d, <1>e, PlaceFacts, KindFacts,
     QueueOfHandlers, EmptyFacts DEF SleepCancelled, Arm, LeaveTasks, UntouchedInv,
     QueueInv, TodoInv, Todo
<1>19. CASE EntryFails
  BY <1>19, <1>a, <1>b, <1>c, <1>d, <1>e, PlaceFacts, KindFacts, OnlyFacts DEF
     EntryFails, Enter, taskVars, SingleStages, UntouchedInv, QueueInv, TodoInv,
     Todo
<1>20. CASE UNCHANGED vars
  BY <1>20, <1>a, <1>b, <1>c, <1>d, <1>e, PlaceFacts, KindFacts DEF vars,
     TodoInv, Todo
<1> QED
  BY <1>1, <1>2, <1>3, <1>4, <1>5, <1>6, <1>7, <1>8, <1>9, <1>10, <1>11, <1>12,
     <1>13, <1>14, <1>15, <1>16, <1>17, <1>18, <1>19, <1>20 DEF Next, LoopStep,
     Terminated

\* A cleanup that was not abandoned has begun in this attempt.
LEMMA CurrentStep ==
    ASSUME TypeOK, QueueInv, TodoInv, CurrentInv, [Next]_vars
    PROVE  CurrentInv'
<1>a. plan' = plan /\ Jobs' = Jobs /\ MaxCancels' = MaxCancels
  BY PlanKept
<1>b. queue # <<>> =>
        /\ Current \in Jobs /\ Current \notin Rest(queue)
        /\ Elems(queue) = {Current} \cup Rest(queue)
        /\ Distinct(Tail(queue)) /\ Elems(Tail(queue)) = Rest(queue)
  BY CurrentFacts
<1>c. job # "none" => queue # <<>>
  BY DEF TypeOK
<1>d. Elems(queue) \subseteq Jobs /\ Rest(queue) \subseteq Jobs /\ plan \in Plans
  BY ElemsType DEF TypeOK
<1>e. stage \in {"executor", "sleep", "done"} => queue = <<>> /\ job = "none"
  BY IdleFacts
<1>f. \A q \in Elems(queue) : Place[q[1]] = Place[stage]
  BY DEF QueueInv
<1>g. Place[stage] \in 0..7
  BY PlaceFacts DEF TypeOK, Stages, SingleStages
<1>h. runs \in [Jobs -> 0..TaskAttempts] /\ last \in [Jobs -> Ends \cup {"none"}]
  BY DEF TypeOK
<1>1. CASE JobStarts
  <2>1. /\ queue # <<>> /\ Current \in Jobs /\ runs[Current] = attempt - 1
        /\ Current' = Current /\ attempt' = attempt
    BY <1>1, <1>b DEF JobStarts, taskVars, TodoInv, Todo, Current
  <2>2. attempt \in Nat
    BY DEF TypeOK
  <2>3. CASE budget = "expired"
    BY <1>1, <1>h, <2>1, <2>3 DEF JobStarts, CurrentInv, Ended
  <2>4. CASE budget # "expired"
    <3>1. job' = "running" /\ runs'[Current] = attempt
      BY <1>1, <1>h, <2>1, <2>2, <2>4 DEF JobStarts
    <3> QED
      BY <2>1, <3>1 DEF CurrentInv, Ended
  <2> QED
    BY <2>3, <2>4
<1>2. CASE DeadlinePasses
  BY <1>2, <1>a, <1>b, <1>c, <1>e DEF DeadlinePasses, taskVars, CurrentInv,
     Ended, Current
<1>3. CASE JobTimesOut
  BY <1>3, <1>a, <1>b, <1>c, <1>e, <1>h DEF JobTimesOut, taskVars, CurrentInv,
     Ended, Current
<1>4. CASE ExecutorTornDown
  BY <1>4, <1>a, <1>b, <1>c, <1>e DEF ExecutorTornDown, Arm, taskVars,
     CurrentInv, Ended, Current
<1>5. CASE TaskTaken
  BY <1>5, <1>a, <1>b, <1>c, <1>e DEF TaskTaken, JobTaken, JobErred, Ended,
     CurrentInv, Ended, Current
<1>6. CASE TasksAttempted
  BY <1>6, <1>a, <1>b, <1>c, <1>e DEF TasksAttempted, EndAttempt, LeaveTasks,
     taskVars, CurrentInv, Ended, Current
<1>7. CASE Retry
  BY <1>7, <1>a, <1>b, <1>c, <1>e DEF Retry, CurrentInv, Ended, Current
<1>8. CASE HandlerTaken
  BY <1>8, <1>a, <1>b, <1>c, <1>e DEF HandlerTaken, JobTaken, JobErred, Ended,
     taskVars, CurrentInv, Ended, Current
<1>9. CASE StartRelease
  BY <1>9, <1>a, <1>b, <1>c, <1>e DEF StartRelease, Enter, NewBudget, taskVars,
     CurrentInv, Ended, Current
<1>10. CASE SingleTaken
  BY <1>10, <1>a, <1>b, <1>c, <1>e DEF SingleTaken, JobTaken, JobErred, Ended,
     SingleStages, taskVars, CurrentInv, Ended, Current
<1>11. CASE StartReporting
  BY <1>11, <1>a, <1>b, <1>c, <1>e DEF StartReporting, Enter, Skip, NewBudget,
     taskVars, CurrentInv, Ended, Current
<1>12. CASE StartTriage
  BY <1>12, <1>a, <1>b, <1>c, <1>e DEF StartTriage, Enter, Skip, taskVars,
     CurrentInv, Ended, Current
<1>13. CASE StartUpload
  BY <1>13, <1>a, <1>b, <1>c, <1>e DEF StartUpload, Enter, NewBudget, taskVars,
     CurrentInv, Ended, Current
<1>14. CASE FinishSummary
  BY <1>14, <1>a, <1>b, <1>c, <1>e DEF FinishSummary, taskVars, CurrentInv,
     Ended, Current
<1>15. CASE EntryCleanedUp
  BY <1>15, <1>a, <1>b, <1>c, <1>e DEF EntryCleanedUp, taskVars, CurrentInv,
     Ended, Current
<1>16. ASSUME NEW how \in {"ok", "error", "cancelled"}, JobEnds(how) PROVE CurrentInv'
  BY <1>16, <1>a, <1>b, <1>c, <1>e, <1>h DEF JobEnds, taskVars, CurrentInv,
     Ended, Current
<1>17. CASE JobCancelledFromOutside
  BY <1>17, <1>a, <1>b, <1>c, <1>e DEF JobCancelledFromOutside, Arm, taskVars,
     CurrentInv, Ended, Current
<1>18. CASE SleepCancelled
  BY <1>18, <1>a, <1>b, <1>c, <1>e DEF SleepCancelled, Arm, LeaveTasks,
     CurrentInv, Ended, Current
<1>19. CASE EntryFails
  BY <1>19, <1>a, <1>b, <1>c, <1>e DEF EntryFails, Enter, taskVars, CurrentInv,
     Ended, Current
<1>20. CASE UNCHANGED vars
  BY <1>20, <1>a, <1>b, <1>c, <1>e DEF vars, CurrentInv, Ended, Current
<1> QED
  BY <1>1, <1>2, <1>3, <1>4, <1>5, <1>6, <1>7, <1>8, <1>9, <1>10, <1>11, <1>12,
     <1>13, <1>14, <1>15, <1>16, <1>17, <1>18, <1>19, <1>20 DEF Next, LoopStep,
     Terminated

\* What is tried again has run once and failed.
LEMMA FailuresStep ==
    ASSUME TypeOK, QueueInv, BudgetInv, CurrentInv, FailuresInv, [Next]_vars
    PROVE  FailuresInv'
<1>a. plan' = plan /\ Jobs' = Jobs /\ MaxCancels' = MaxCancels
  BY PlanKept
<1>b. queue # <<>> =>
        /\ Current \in Jobs /\ Current \notin Rest(queue)
        /\ Elems(queue) = {Current} \cup Rest(queue)
        /\ Distinct(Tail(queue)) /\ Elems(Tail(queue)) = Rest(queue)
  BY CurrentFacts
<1>c. job # "none" => queue # <<>>
  BY DEF TypeOK
<1>d. Elems(queue) \subseteq Jobs /\ Rest(queue) \subseteq Jobs /\ plan \in Plans
  BY ElemsType DEF TypeOK
<1>e. stage \in {"executor", "sleep", "done"} => queue = <<>> /\ job = "none"
  BY IdleFacts
<1>f. \A q \in Elems(queue) : Place[q[1]] = Place[stage]
  BY DEF QueueInv
<1>g. Place[stage] \in 0..7
  BY PlaceFacts DEF TypeOK, Stages, SingleStages
<1>h. runs \in [Jobs -> 0..TaskAttempts] /\ last \in [Jobs -> Ends \cup {"none"}]
  BY DEF TypeOK
<1>i. /\ \A j \in Jobs : Elems(Append(failures, j)) = Elems(failures) \cup {j}
      /\ \A j \in Jobs \ Elems(failures) : Distinct(Append(failures, j))
      /\ Elems(failures) \subseteq Jobs /\ Elems(queue) \cap Elems(failures) = {}
  BY AppendFacts, ElemsType DEF TypeOK, QueueInv
<1>1. CASE JobStarts
  BY <1>1, <1>b, <1>c, <1>e, <1>h, <1>i DEF JobStarts, taskVars, FailuresInv
<1>2. CASE DeadlinePasses
  BY <1>2, <1>b, <1>c, <1>e DEF DeadlinePasses, taskVars, FailuresInv
<1>3. CASE JobTimesOut
  BY <1>3, <1>b, <1>c, <1>e, <1>h, <1>i DEF JobTimesOut, taskVars, FailuresInv
<1>4. CASE ExecutorTornDown
  BY <1>4, <1>b, <1>c, <1>e DEF ExecutorTornDown, Arm, taskVars, FailuresInv
<1>5. CASE TaskTaken
  BY <1>5, <1>b, <1>c, <1>e, <1>i DEF TaskTaken, JobTaken, JobErred, Ended,
     BudgetInv, CurrentInv, FailuresInv
<1>6. CASE TasksAttempted
  BY <1>6, <1>b, <1>c, <1>e, EmptyFacts DEF TasksAttempted, EndAttempt,
     LeaveTasks, taskVars, FailuresInv
<1>7. CASE Retry
  BY <1>7, <1>b, <1>c, <1>e, EmptyFacts DEF Retry, FailuresInv
<1>8. CASE HandlerTaken
  BY <1>8, <1>b, <1>c, <1>e DEF HandlerTaken, JobTaken, JobErred, Ended,
     taskVars, FailuresInv
<1>9. CASE StartRelease
  BY <1>9, <1>b, <1>c, <1>e DEF StartRelease, Enter, NewBudget, taskVars,
     FailuresInv
<1>10. CASE SingleTaken
  BY <1>10, <1>b, <1>c, <1>e DEF SingleTaken, JobTaken, JobErred, Ended,
     SingleStages, taskVars, FailuresInv
<1>11. CASE StartReporting
  BY <1>11, <1>b, <1>c, <1>e DEF StartReporting, Enter, Skip, NewBudget,
     taskVars, FailuresInv
<1>12. CASE StartTriage
  BY <1>12, <1>b, <1>c, <1>e DEF StartTriage, Enter, Skip, taskVars, FailuresInv
<1>13. CASE StartUpload
  BY <1>13, <1>b, <1>c, <1>e DEF StartUpload, Enter, NewBudget, taskVars,
     FailuresInv
<1>14. CASE FinishSummary
  BY <1>14, <1>b, <1>c, <1>e DEF FinishSummary, taskVars, FailuresInv
<1>15. CASE EntryCleanedUp
  BY <1>15, <1>b, <1>c, <1>e DEF EntryCleanedUp, taskVars, FailuresInv
<1>16. ASSUME NEW how \in {"ok", "error", "cancelled"}, JobEnds(how) PROVE FailuresInv'
  BY <1>16, <1>b, <1>c, <1>e, <1>h, <1>i DEF JobEnds, taskVars, FailuresInv
<1>17. CASE JobCancelledFromOutside
  BY <1>17, <1>b, <1>c, <1>e DEF JobCancelledFromOutside, Arm, taskVars,
     FailuresInv
<1>18. CASE SleepCancelled
  BY <1>18, <1>b, <1>c, <1>e, EmptyFacts DEF SleepCancelled, Arm, LeaveTasks,
     FailuresInv
<1>19. CASE EntryFails
  BY <1>19, <1>b, <1>c, <1>e DEF EntryFails, Enter, taskVars, FailuresInv
<1>20. CASE UNCHANGED vars
  BY <1>20, <1>b, <1>c, <1>e DEF vars, FailuresInv
<1> QED
  BY <1>1, <1>2, <1>3, <1>4, <1>5, <1>6, <1>7, <1>8, <1>9, <1>10, <1>11, <1>12,
     <1>13, <1>14, <1>15, <1>16, <1>17, <1>18, <1>19, <1>20 DEF Next, LoopStep,
     Terminated

\* The release gets to run.
LEMMA ReleaseStep ==
    ASSUME TypeOK, QueueInv, BudgetInv, TodoInv, CurrentInv, ReleaseInv, [Next]_vars
    PROVE  ReleaseInv'
<1>a. plan' = plan /\ Jobs' = Jobs /\ MaxCancels' = MaxCancels
  BY PlanKept
<1>b. queue # <<>> =>
        /\ Current \in Jobs /\ Current \notin Rest(queue)
        /\ Elems(queue) = {Current} \cup Rest(queue)
        /\ Distinct(Tail(queue)) /\ Elems(Tail(queue)) = Rest(queue)
  BY CurrentFacts
<1>c. job # "none" => queue # <<>>
  BY DEF TypeOK
<1>d. Elems(queue) \subseteq Jobs /\ Rest(queue) \subseteq Jobs /\ plan \in Plans
  BY ElemsType DEF TypeOK
<1>e. stage \in {"executor", "sleep", "done"} => queue = <<>> /\ job = "none"
  BY IdleFacts
<1>f. \A q \in Elems(queue) : Place[q[1]] = Place[stage]
  BY DEF QueueInv
<1>g. Place[stage] \in 0..7
  BY PlaceFacts DEF TypeOK, Stages, SingleStages
<1>h. runs \in [Jobs -> 0..TaskAttempts] /\ last \in [Jobs -> Ends \cup {"none"}]
  BY DEF TypeOK
<1>1. CASE JobStarts
  BY <1>1, <1>a, <1>b, <1>c, <1>d, <1>e, PlaceFacts, KindFacts, <1>f, <1>g, <1>h
     DEF JobStarts, taskVars, TodoInv, Todo, QueueInv, ReleaseInv,
     ReleaseAlwaysRuns
<1>2. CASE DeadlinePasses
  BY <1>2, <1>a, <1>b, <1>c, <1>d, <1>e, PlaceFacts, KindFacts, <1>f, <1>g DEF
     DeadlinePasses, taskVars, ReleaseInv, ReleaseAlwaysRuns
<1>3. CASE JobTimesOut
  BY <1>3, <1>a, <1>b, <1>c, <1>d, <1>e, PlaceFacts, KindFacts, <1>f, <1>g, <1>h
     DEF JobTimesOut, taskVars, ReleaseInv, ReleaseAlwaysRuns
<1>4. CASE ExecutorTornDown
  BY <1>4, <1>a, <1>b, <1>c, <1>d, <1>e, PlaceFacts, KindFacts, <1>f, <1>g,
     QueueOfTasks DEF ExecutorTornDown, Arm, taskVars, ReleaseInv,
     ReleaseAlwaysRuns
<1>5. CASE TaskTaken
  BY <1>5, <1>a, <1>b, <1>c, <1>d, <1>e, PlaceFacts, KindFacts, <1>f, <1>g DEF
     TaskTaken, JobTaken, JobErred, Ended, ReleaseInv, ReleaseAlwaysRuns
<1>6. CASE TasksAttempted
  BY <1>6, <1>a, <1>b, <1>c, <1>d, <1>e, PlaceFacts, KindFacts, <1>f, <1>g,
     QueueOfHandlers, EmptyFacts DEF TasksAttempted, EndAttempt, LeaveTasks,
     taskVars, ReleaseInv, ReleaseAlwaysRuns
<1>7. CASE Retry
  BY <1>7, <1>a, <1>b, <1>c, <1>d, <1>e, PlaceFacts, KindFacts, <1>f, <1>g,
     EmptyFacts DEF Retry, ReleaseInv, ReleaseAlwaysRuns
<1>8. CASE HandlerTaken
  BY <1>8, <1>a, <1>b, <1>c, <1>d, <1>e, PlaceFacts, KindFacts, <1>f, <1>g DEF
     HandlerTaken, JobTaken, JobErred, Ended, taskVars, ReleaseInv,
     ReleaseAlwaysRuns
<1>9. CASE StartRelease
  BY <1>9, <1>a, <1>b, <1>c, <1>d, <1>e, PlaceFacts, KindFacts, <1>f, <1>g,
     OnlyFacts DEF StartRelease, Enter, NewBudget, taskVars, SingleStages, TypeOK,
     ReleaseInv, ReleaseAlwaysRuns
<1>10. CASE SingleTaken
  <2>1. /\ stage' = stage /\ job # "none" /\ queue # <<>> /\ queue' = Tail(queue)
        /\ runs' = runs
    BY <1>10, <1>c DEF SingleTaken, JobTaken, Ended
  <2>2. ASSUME stage = "release" PROVE queue' = <<>>
    <3>1. \A q \in Elems(queue) : q = Only("release")
      BY <1>d, <1>f, <2>2, PlaceFacts, KindFacts
    <3>2. Rest(queue) = {}
      BY <1>b, <2>1, <3>1
    <3>3. Tail(queue) \in Seq(Jobs) /\ Elems(Tail(queue)) = {}
      BY <2>1, <3>2, CurrentFacts
    <3> QED
      BY <2>1, <3>3, ElemsType
  <2> QED
    BY <2>1, <2>2 DEF ReleaseInv, ReleaseAlwaysRuns
<1>11. CASE StartReporting
  BY <1>11, <1>a, <1>b, <1>c, <1>d, <1>e, PlaceFacts, KindFacts, <1>f, <1>g,
     OnlyFacts, EmptyFacts DEF StartReporting, Enter, Skip, NewBudget, taskVars,
     SingleStages, ReleaseInv, ReleaseAlwaysRuns
<1>12. CASE StartTriage
  BY <1>12, <1>a, <1>b, <1>c, <1>d, <1>e, PlaceFacts, KindFacts, <1>f, <1>g,
     OnlyFacts, EmptyFacts DEF StartTriage, Enter, Skip, taskVars, SingleStages,
     ReleaseInv, ReleaseAlwaysRuns
<1>13. CASE StartUpload
  BY <1>13, <1>a, <1>b, <1>c, <1>d, <1>e, PlaceFacts, KindFacts, <1>f, <1>g,
     OnlyFacts DEF StartUpload, Enter, NewBudget, taskVars, SingleStages,
     ReleaseInv, ReleaseAlwaysRuns
<1>14. CASE FinishSummary
  BY <1>14, <1>a, <1>b, <1>c, <1>d, <1>e, PlaceFacts, KindFacts, <1>f, <1>g DEF
     FinishSummary, taskVars, ReleaseInv, ReleaseAlwaysRuns
<1>15. CASE EntryCleanedUp
  BY <1>15, <1>a, <1>b, <1>c, <1>d, <1>e, PlaceFacts, KindFacts, <1>f, <1>g DEF
     EntryCleanedUp, taskVars, ReleaseInv, ReleaseAlwaysRuns
<1>16. ASSUME NEW how \in {"ok", "error", "cancelled"}, JobEnds(how) PROVE ReleaseInv'
  BY <1>16, <1>a, <1>b, <1>c, <1>d, <1>e, PlaceFacts, KindFacts, <1>f, <1>g,
     <1>h DEF JobEnds, taskVars, ReleaseInv, ReleaseAlwaysRuns
<1>17. CASE JobCancelledFromOutside
  BY <1>17, <1>a, <1>b, <1>c, <1>d, <1>e, PlaceFacts, KindFacts, <1>f, <1>g DEF
     JobCancelledFromOutside, Arm, taskVars, ReleaseInv, ReleaseAlwaysRuns
<1>18. CASE SleepCancelled
  BY <1>18, <1>a, <1>b, <1>c, <1>d, <1>e, PlaceFacts, KindFacts, <1>f, <1>g,
     QueueOfHandlers, EmptyFacts DEF SleepCancelled, Arm, LeaveTasks, ReleaseInv,
     ReleaseAlwaysRuns
<1>19. CASE EntryFails
  BY <1>19, <1>a, <1>b, <1>c, <1>d, <1>e, PlaceFacts, KindFacts, <1>f, <1>g,
     OnlyFacts DEF EntryFails, Enter, taskVars, SingleStages, BudgetInv,
     ReleaseInv, ReleaseAlwaysRuns
<1>20. CASE UNCHANGED vars
  BY <1>20, <1>a, <1>b, <1>c, <1>d, <1>e, PlaceFacts, KindFacts, <1>f, <1>g DEF
     vars, ReleaseInv, ReleaseAlwaysRuns
<1> QED
  BY <1>1, <1>2, <1>3, <1>4, <1>5, <1>6, <1>7, <1>8, <1>9, <1>10, <1>11, <1>12,
     <1>13, <1>14, <1>15, <1>16, <1>17, <1>18, <1>19, <1>20 DEF Next, LoopStep,
     Terminated

\* No cleanup is passed over.
LEMMA CoverStep ==
    ASSUME TypeOK, QueueInv, CurrentInv, CoverInv, [Next]_vars
    PROVE  CoverInv'
<1>a. plan' = plan /\ Jobs' = Jobs /\ MaxCancels' = MaxCancels
  BY PlanKept
<1>b. queue # <<>> =>
        /\ Current \in Jobs /\ Current \notin Rest(queue)
        /\ Elems(queue) = {Current} \cup Rest(queue)
        /\ Distinct(Tail(queue)) /\ Elems(Tail(queue)) = Rest(queue)
  BY CurrentFacts
<1>c. job # "none" => queue # <<>>
  BY DEF TypeOK
<1>d. Elems(queue) \subseteq Jobs /\ Rest(queue) \subseteq Jobs /\ plan \in Plans
  BY ElemsType DEF TypeOK
<1>e. stage \in {"executor", "sleep", "done"} => queue = <<>> /\ job = "none"
  BY IdleFacts
<1>f. \A q \in Elems(queue) : Place[q[1]] = Place[stage]
  BY DEF QueueInv
<1>g. Place[stage] \in 0..7
  BY PlaceFacts DEF TypeOK, Stages, SingleStages
<1>h. runs \in [Jobs -> 0..TaskAttempts] /\ last \in [Jobs -> Ends \cup {"none"}]
  BY DEF TypeOK
<1>1. CASE JobStarts
  BY <1>1, <1>a, <1>b, <1>c, <1>d, <1>e, PlaceFacts, KindFacts, <1>f, <1>g, <1>h
     DEF JobStarts, taskVars, CoverInv
<1>2. CASE DeadlinePasses
  BY <1>2, <1>a, <1>b, <1>c, <1>d, <1>e, PlaceFacts, KindFacts, <1>f, <1>g DEF
     DeadlinePasses, taskVars, CoverInv
<1>3. CASE JobTimesOut
  BY <1>3, <1>a, <1>b, <1>c, <1>d, <1>e, PlaceFacts, KindFacts, <1>f, <1>g, <1>h
     DEF JobTimesOut, taskVars, CoverInv
<1>4. CASE ExecutorTornDown
  BY <1>4, <1>a, <1>b, <1>c, <1>d, <1>e, PlaceFacts, KindFacts, <1>f, <1>g,
     QueueOfTasks, OtherErrors DEF ExecutorTornDown, Arm, taskVars, CoverInv
<1>5. CASE TaskTaken
  BY <1>5, <1>a, <1>b, <1>c, <1>d, <1>e, PlaceFacts, KindFacts, <1>f, <1>g DEF
     TaskTaken, JobTaken, JobErred, Ended, CurrentInv, CoverInv
<1>6. CASE TasksAttempted
  BY <1>6, <1>a, <1>b, <1>c, <1>d, <1>e, PlaceFacts, KindFacts, <1>f, <1>g,
     QueueOfHandlers, EmptyFacts DEF TasksAttempted, EndAttempt, LeaveTasks,
     taskVars, CoverInv
<1>7. CASE Retry
  BY <1>7, <1>a, <1>b, <1>c, <1>d, <1>e, PlaceFacts, KindFacts, <1>f, <1>g,
     EmptyFacts DEF Retry, CoverInv
<1>8. CASE HandlerTaken
  BY <1>8, <1>a, <1>b, <1>c, <1>d, <1>e, PlaceFacts, KindFacts, <1>f, <1>g DEF
     HandlerTaken, JobTaken, JobErred, Ended, taskVars, CurrentInv, CoverInv
<1>9. CASE StartRelease
  BY <1>9, <1>a, <1>b, <1>c, <1>d, <1>e, PlaceFacts, KindFacts, <1>f, <1>g,
     OnlyFacts, EmptyFacts DEF StartRelease, Enter, NewBudget, taskVars,
     SingleStages, CoverInv
<1>10. CASE SingleTaken
  BY <1>10, <1>a, <1>b, <1>c, <1>d, <1>e, PlaceFacts, KindFacts, <1>f, <1>g DEF
     SingleTaken, JobTaken, JobErred, Ended, SingleStages, taskVars, CurrentInv,
     CoverInv
<1>11. CASE StartReporting
  BY <1>11, <1>a, <1>b, <1>c, <1>d, <1>e, PlaceFacts, KindFacts, <1>f, <1>g,
     OnlyFacts, EmptyFacts, OtherErrors DEF StartReporting, Enter, Skip, NewBudget,
     taskVars, SingleStages, CoverInv
<1>12. CASE StartTriage
  BY <1>12, <1>a, <1>b, <1>c, <1>d, <1>e, PlaceFacts, KindFacts, <1>f, <1>g,
     OnlyFacts, EmptyFacts DEF StartTriage, Enter, Skip, taskVars, SingleStages,
     CoverInv
<1>13. CASE StartUpload
  BY <1>13, <1>a, <1>b, <1>c, <1>d, <1>e, PlaceFacts, KindFacts, <1>f, <1>g,
     OnlyFacts, EmptyFacts DEF StartUpload, Enter, NewBudget, taskVars,
     SingleStages, CoverInv
<1>14. CASE FinishSummary
  BY <1>14, <1>a, <1>b, <1>c, <1>d, <1>e, PlaceFacts, KindFacts, <1>f, <1>g,
     OtherErrors, EmptyFacts DEF FinishSummary, taskVars, CoverInv
<1>15. CASE EntryCleanedUp
  BY <1>15, <1>a, <1>b, <1>c, <1>d, <1>e, PlaceFacts, KindFacts, <1>f, <1>g,
     OtherErrors, EmptyFacts DEF EntryCleanedUp, taskVars, CoverInv
<1>16. ASSUME NEW how \in {"ok", "error", "cancelled"}, JobEnds(how) PROVE CoverInv'
  BY <1>16, <1>a, <1>b, <1>c, <1>d, <1>e, PlaceFacts, KindFacts, <1>f, <1>g,
     <1>h DEF JobEnds, taskVars, CoverInv
<1>17. CASE JobCancelledFromOutside
  BY <1>17, <1>a, <1>b, <1>c, <1>d, <1>e, PlaceFacts, KindFacts, <1>f, <1>g DEF
     JobCancelledFromOutside, Arm, taskVars, CoverInv
<1>18. CASE SleepCancelled
  BY <1>18, <1>a, <1>b, <1>c, <1>d, <1>e, PlaceFacts, KindFacts, <1>f, <1>g,
     QueueOfHandlers, EmptyFacts DEF SleepCancelled, Arm, LeaveTasks, CoverInv
<1>19. CASE EntryFails
  BY <1>19, <1>a, <1>b, <1>c, <1>d, <1>e, PlaceFacts, KindFacts, <1>f, <1>g,
     OnlyFacts, OtherErrors DEF EntryFails, Enter, taskVars, SingleStages, CoverInv
<1>20. CASE UNCHANGED vars
  BY <1>20, <1>a, <1>b, <1>c, <1>d, <1>e, PlaceFacts, KindFacts, <1>f, <1>g DEF
     vars, CoverInv
<1> QED
  BY <1>1, <1>2, <1>3, <1>4, <1>5, <1>6, <1>7, <1>8, <1>9, <1>10, <1>11, <1>12,
     <1>13, <1>14, <1>15, <1>16, <1>17, <1>18, <1>19, <1>20 DEF Next, LoopStep,
     Terminated

\* A cancellation is handed on.
LEMMA CancelStep ==
    ASSUME TypeOK, QueueInv, BudgetInv, CurrentInv, CancelInv, [Next]_vars
    PROVE  CancelInv'
<1>a. plan' = plan /\ Jobs' = Jobs /\ MaxCancels' = MaxCancels
  BY PlanKept
<1>b. queue # <<>> =>
        /\ Current \in Jobs /\ Current \notin Rest(queue)
        /\ Elems(queue) = {Current} \cup Rest(queue)
        /\ Distinct(Tail(queue)) /\ Elems(Tail(queue)) = Rest(queue)
  BY CurrentFacts
<1>c. job # "none" => queue # <<>>
  BY DEF TypeOK
<1>d. Elems(queue) \subseteq Jobs /\ Rest(queue) \subseteq Jobs /\ plan \in Plans
  BY ElemsType DEF TypeOK
<1>e. stage \in {"executor", "sleep", "done"} => queue = <<>> /\ job = "none"
  BY IdleFacts
<1>f. \A q \in Elems(queue) : Place[q[1]] = Place[stage]
  BY DEF QueueInv
<1>g. Place[stage] \in 0..7
  BY PlaceFacts DEF TypeOK, Stages, SingleStages
<1>h. runs \in [Jobs -> 0..TaskAttempts] /\ last \in [Jobs -> Ends \cup {"none"}]
  BY DEF TypeOK
<1>1. CASE JobStarts
  BY <1>1, <1>a, <1>b, <1>c, <1>e, <1>h DEF JobStarts, taskVars, CancelInv
<1>2. CASE DeadlinePasses
  BY <1>2, <1>a, <1>b, <1>c, <1>e DEF DeadlinePasses, taskVars, CancelInv
<1>3. CASE JobTimesOut
  BY <1>3, <1>a, <1>b, <1>c, <1>e, <1>h DEF JobTimesOut, taskVars, CancelInv
<1>4. CASE ExecutorTornDown
  BY <1>4, <1>a, <1>b, <1>c, <1>e DEF ExecutorTornDown, Arm, taskVars, CancelInv
<1>5. CASE TaskTaken
  BY <1>5, <1>a, <1>b, <1>c, <1>e DEF TaskTaken, JobTaken, JobErred, Ended,
     CancelInv
<1>6. CASE TasksAttempted
  BY <1>6, <1>a, <1>b, <1>c, <1>e DEF TasksAttempted, EndAttempt, LeaveTasks,
     taskVars, CancelInv
<1>7. CASE Retry
  BY <1>7, <1>a, <1>b, <1>c, <1>e DEF Retry, CancelInv
<1>8. CASE HandlerTaken
  BY <1>8, <1>a, <1>b, <1>c, <1>e DEF HandlerTaken, JobTaken, JobErred, Ended,
     taskVars, CancelInv
<1>9. CASE StartRelease
  BY <1>9, <1>a, <1>b, <1>c, <1>e DEF StartRelease, Enter, NewBudget, taskVars,
     CancelInv
<1>10. CASE SingleTaken
  BY <1>10, <1>a, <1>b, <1>c, <1>e DEF SingleTaken, JobTaken, JobErred, Ended,
     SingleStages, taskVars, CancelInv
<1>11. CASE StartReporting
  BY <1>11, <1>a, <1>b, <1>c, <1>e DEF StartReporting, Enter, Skip, NewBudget,
     taskVars, CancelInv
<1>12. CASE StartTriage
  BY <1>12, <1>a, <1>b, <1>c, <1>e DEF StartTriage, Enter, Skip, taskVars,
     CancelInv
<1>13. CASE StartUpload
  BY <1>13, <1>a, <1>b, <1>c, <1>e DEF StartUpload, Enter, NewBudget, taskVars,
     CancelInv
<1>14. CASE FinishSummary
  BY <1>14, <1>a, <1>b, <1>c, <1>e DEF FinishSummary, taskVars, CancelInv
<1>15. CASE EntryCleanedUp
  BY <1>15, <1>a, <1>b, <1>c, <1>e DEF EntryCleanedUp, taskVars, CancelInv
<1>16. ASSUME NEW how \in {"ok", "error", "cancelled"}, JobEnds(how) PROVE CancelInv'
  BY <1>16, <1>a, <1>b, <1>c, <1>e, <1>h DEF JobEnds, taskVars, CancelInv
<1>17. CASE JobCancelledFromOutside
  BY <1>17, <1>a, <1>b, <1>c, <1>e DEF JobCancelledFromOutside, Arm, taskVars,
     TypeOK, CancelInv
<1>18. CASE SleepCancelled
  BY <1>18, <1>a, <1>b, <1>c, <1>e DEF SleepCancelled, Arm, LeaveTasks,
     CancelInv
<1>19. CASE EntryFails
  BY <1>19, <1>a, <1>b, <1>c, <1>e DEF EntryFails, Enter, taskVars, CancelInv
<1>20. CASE UNCHANGED vars
  BY <1>20, <1>a, <1>b, <1>c, <1>e DEF vars, CancelInv
<1> QED
  BY <1>1, <1>2, <1>3, <1>4, <1>5, <1>6, <1>7, <1>8, <1>9, <1>10, <1>11, <1>12,
     <1>13, <1>14, <1>15, <1>16, <1>17, <1>18, <1>19, <1>20 DEF Next, LoopStep,
     Terminated

\* A failure is handed on.
LEMMA LostStep ==
    ASSUME TypeOK, QueueInv, CurrentInv, LostInv, [Next]_vars
    PROVE  LostInv'
<1>a. plan' = plan /\ Jobs' = Jobs /\ MaxCancels' = MaxCancels
  BY PlanKept
<1>b. queue # <<>> =>
        /\ Current \in Jobs /\ Current \notin Rest(queue)
        /\ Elems(queue) = {Current} \cup Rest(queue)
        /\ Distinct(Tail(queue)) /\ Elems(Tail(queue)) = Rest(queue)
  BY CurrentFacts
<1>c. job # "none" => queue # <<>>
  BY DEF TypeOK
<1>d. Elems(queue) \subseteq Jobs /\ Rest(queue) \subseteq Jobs /\ plan \in Plans
  BY ElemsType DEF TypeOK
<1>e. stage \in {"executor", "sleep", "done"} => queue = <<>> /\ job = "none"
  BY IdleFacts
<1>f. \A q \in Elems(queue) : Place[q[1]] = Place[stage]
  BY DEF QueueInv
<1>g. Place[stage] \in 0..7
  BY PlaceFacts DEF TypeOK, Stages, SingleStages
<1>h. runs \in [Jobs -> 0..TaskAttempts] /\ last \in [Jobs -> Ends \cup {"none"}]
  BY DEF TypeOK
<1>1. CASE JobStarts
  BY <1>1, <1>a, <1>b, <1>c, <1>e, <1>h DEF JobStarts, taskVars, LostInv, Ended,
     Current
<1>2. CASE DeadlinePasses
  BY <1>2, <1>a, <1>b, <1>c, <1>e DEF DeadlinePasses, taskVars, LostInv, Ended,
     Current
<1>3. CASE JobTimesOut
  BY <1>3, <1>a, <1>b, <1>c, <1>e, <1>h DEF JobTimesOut, taskVars, LostInv,
     Ended, Current
<1>4. CASE ExecutorTornDown
  BY <1>4, <1>a, <1>b, <1>c, <1>e DEF ExecutorTornDown, Arm, taskVars, LostInv,
     Ended, Current
<1>5. CASE TaskTaken
  BY <1>5, <1>a, <1>b, <1>c, <1>e DEF TaskTaken, JobTaken, JobErred, Ended,
     CurrentInv, LostInv, Ended, Current
<1>6. CASE TasksAttempted
  BY <1>6, <1>a, <1>b, <1>c, <1>e DEF TasksAttempted, EndAttempt, LeaveTasks,
     taskVars, LostInv, Ended, Current
<1>7. CASE Retry
  BY <1>7, <1>a, <1>b, <1>c, <1>e DEF Retry, LostInv, Ended, Current
<1>8. CASE HandlerTaken
  BY <1>8, <1>a, <1>b, <1>c, <1>e DEF HandlerTaken, JobTaken, JobErred, Ended,
     taskVars, CurrentInv, LostInv, Ended, Current
<1>9. CASE StartRelease
  BY <1>9, <1>a, <1>b, <1>c, <1>e DEF StartRelease, Enter, NewBudget, taskVars,
     LostInv, Ended, Current
<1>10. CASE SingleTaken
  BY <1>10, <1>a, <1>b, <1>c, <1>e DEF SingleTaken, JobTaken, JobErred, Ended,
     SingleStages, taskVars, CurrentInv, LostInv, Ended, Current
<1>11. CASE StartReporting
  BY <1>11, <1>a, <1>b, <1>c, <1>e DEF StartReporting, Enter, Skip, NewBudget,
     taskVars, LostInv, Ended, Current
<1>12. CASE StartTriage
  BY <1>12, <1>a, <1>b, <1>c, <1>e DEF StartTriage, Enter, Skip, taskVars,
     LostInv, Ended, Current
<1>13. CASE StartUpload
  BY <1>13, <1>a, <1>b, <1>c, <1>e DEF StartUpload, Enter, NewBudget, taskVars,
     LostInv, Ended, Current
<1>14. CASE FinishSummary
  BY <1>14, <1>a, <1>b, <1>c, <1>e DEF FinishSummary, taskVars, LostInv, Ended,
     Current
<1>15. CASE EntryCleanedUp
  BY <1>15, <1>a, <1>b, <1>c, <1>e DEF EntryCleanedUp, taskVars, LostInv, Ended,
     Current
<1>16. ASSUME NEW how \in {"ok", "error", "cancelled"}, JobEnds(how) PROVE LostInv'
  BY <1>16, <1>a, <1>b, <1>c, <1>e, <1>h DEF JobEnds, taskVars, LostInv, Ended,
     Current
<1>17. CASE JobCancelledFromOutside
  BY <1>17, <1>a, <1>b, <1>c, <1>e DEF JobCancelledFromOutside, Arm, taskVars,
     LostInv, Ended, Current
<1>18. CASE SleepCancelled
  BY <1>18, <1>a, <1>b, <1>c, <1>e DEF SleepCancelled, Arm, LeaveTasks, LostInv,
     Ended, Current
<1>19. CASE EntryFails
  BY <1>19, <1>a, <1>b, <1>c, <1>e DEF EntryFails, Enter, taskVars, LostInv,
     Ended, Current
<1>20. CASE UNCHANGED vars
  BY <1>20, <1>a, <1>b, <1>c, <1>e DEF vars, LostInv, Ended, Current
<1> QED
  BY <1>1, <1>2, <1>3, <1>4, <1>5, <1>6, <1>7, <1>8, <1>9, <1>10, <1>11, <1>12,
     <1>13, <1>14, <1>15, <1>16, <1>17, <1>18, <1>19, <1>20 DEF Next, LoopStep,
     Terminated

\* Nothing else is handed on.
LEMMA TruthStep ==
    ASSUME TypeOK, QueueInv, CurrentInv, CancelInv, FreshInv, TruthInv, [Next]_vars
    PROVE  TruthInv'
<1>a. plan' = plan /\ Jobs' = Jobs /\ MaxCancels' = MaxCancels
  BY PlanKept
<1>b. queue # <<>> =>
        /\ Current \in Jobs /\ Current \notin Rest(queue)
        /\ Elems(queue) = {Current} \cup Rest(queue)
        /\ Distinct(Tail(queue)) /\ Elems(Tail(queue)) = Rest(queue)
  BY CurrentFacts
<1>c. job # "none" => queue # <<>>
  BY DEF TypeOK
<1>d. Elems(queue) \subseteq Jobs /\ Rest(queue) \subseteq Jobs /\ plan \in Plans
  BY ElemsType DEF TypeOK
<1>e. stage \in {"executor", "sleep", "done"} => queue = <<>> /\ job = "none"
  BY IdleFacts
<1>f. \A q \in Elems(queue) : Place[q[1]] = Place[stage]
  BY DEF QueueInv
<1>g. Place[stage] \in 0..7
  BY PlaceFacts DEF TypeOK, Stages, SingleStages
<1>h. runs \in [Jobs -> 0..TaskAttempts] /\ last \in [Jobs -> Ends \cup {"none"}]
  BY DEF TypeOK
<1>i. cancels \in Nat
  BY DEF TypeOK
<1>j. stage \notin {"tasks", "sleep"} => failed = {}
  BY DEF QueueInv
<1>1. CASE JobStarts
  BY <1>1, <1>a, <1>b, <1>c, <1>e, <1>i, <1>h DEF JobStarts, taskVars, TruthInv,
     Ended, Current
<1>2. CASE DeadlinePasses
  BY <1>2, <1>a, <1>b, <1>c, <1>e, <1>i DEF DeadlinePasses, taskVars, TruthInv,
     Ended, Current
<1>3. CASE JobTimesOut
  BY <1>3, <1>a, <1>b, <1>c, <1>e, <1>i, <1>h DEF JobTimesOut, taskVars,
     TruthInv, Ended, Current
<1>4. CASE ExecutorTornDown
  BY <1>4, <1>a, <1>b, <1>c, <1>e, <1>i, OtherErrors DEF ExecutorTornDown, Arm,
     taskVars, TruthInv, Ended, Current
<1>5. CASE TaskTaken
  BY <1>5, <1>a, <1>b, <1>c, <1>e, <1>i DEF TaskTaken, JobTaken, JobErred,
     Ended, CurrentInv, CancelInv, FreshInv, TruthInv, Ended, Current
<1>6. CASE TasksAttempted
  BY <1>6, <1>a, <1>b, <1>c, <1>e, <1>i DEF TasksAttempted, EndAttempt,
     LeaveTasks, taskVars, TruthInv, Ended, Current
<1>7. CASE Retry
  BY <1>7, <1>a, <1>b, <1>c, <1>e, <1>i DEF Retry, TruthInv, Ended, Current
<1>8. CASE HandlerTaken
  BY <1>8, <1>a, <1>b, <1>c, <1>e, <1>i, <1>j DEF HandlerTaken, JobTaken,
     JobErred, Ended, taskVars, CurrentInv, FreshInv, TruthInv, Ended, Current
<1>9. CASE StartRelease
  BY <1>9, <1>a, <1>b, <1>c, <1>e, <1>i DEF StartRelease, Enter, NewBudget,
     taskVars, TruthInv, Ended, Current
<1>10. CASE SingleTaken
  BY <1>10, <1>a, <1>b, <1>c, <1>e, <1>i, <1>j DEF SingleTaken, JobTaken,
     JobErred, Ended, SingleStages, taskVars, CurrentInv, FreshInv, TruthInv,
     Ended, Current
<1>11. CASE StartReporting
  BY <1>11, <1>a, <1>b, <1>c, <1>e, <1>i, OtherErrors DEF StartReporting, Enter,
     Skip, NewBudget, taskVars, TruthInv, Ended, Current
<1>12. CASE StartTriage
  BY <1>12, <1>a, <1>b, <1>c, <1>e, <1>i DEF StartTriage, Enter, Skip, taskVars,
     TruthInv, Ended, Current
<1>13. CASE StartUpload
  BY <1>13, <1>a, <1>b, <1>c, <1>e, <1>i DEF StartUpload, Enter, NewBudget,
     taskVars, TruthInv, Ended, Current
<1>14. CASE FinishSummary
  BY <1>14, <1>a, <1>b, <1>c, <1>e, <1>i, OtherErrors DEF FinishSummary,
     taskVars, TruthInv, Ended, Current
<1>15. CASE EntryCleanedUp
  BY <1>15, <1>a, <1>b, <1>c, <1>e, <1>i, OtherErrors DEF EntryCleanedUp,
     taskVars, TruthInv, Ended, Current
<1>16. ASSUME NEW how \in {"ok", "error", "cancelled"}, JobEnds(how) PROVE TruthInv'
  BY <1>16, <1>a, <1>b, <1>c, <1>e, <1>i, <1>h DEF JobEnds, taskVars, TruthInv,
     Ended, Current
<1>17. CASE JobCancelledFromOutside
  BY <1>17, <1>a, <1>b, <1>c, <1>e, <1>i DEF JobCancelledFromOutside, Arm,
     taskVars, TruthInv, Ended, Current
<1>18. CASE SleepCancelled
  BY <1>18, <1>a, <1>b, <1>c, <1>e, <1>i DEF SleepCancelled, Arm, LeaveTasks,
     TruthInv, Ended, Current
<1>19. CASE EntryFails
  BY <1>19, <1>a, <1>b, <1>c, <1>e, <1>i, OtherErrors DEF EntryFails, Enter,
     taskVars, TruthInv, Ended, Current
<1>20. CASE UNCHANGED vars
  BY <1>20, <1>a, <1>b, <1>c, <1>e, <1>i DEF vars, TruthInv, Ended, Current
<1> QED
  BY <1>1, <1>2, <1>3, <1>4, <1>5, <1>6, <1>7, <1>8, <1>9, <1>10, <1>11, <1>12,
     <1>13, <1>14, <1>15, <1>16, <1>17, <1>18, <1>19, <1>20 DEF Next, LoopStep,
     Terminated

\* A cleanup is in the queue before it is in the errors.
LEMMA FreshStep ==
    ASSUME TypeOK, QueueInv, UntouchedInv, FreshInv, [Next]_vars
    PROVE  FreshInv'
<1>a. plan' = plan /\ Jobs' = Jobs /\ MaxCancels' = MaxCancels
  BY PlanKept
<1>b. queue # <<>> =>
        /\ Current \in Jobs /\ Current \notin Rest(queue)
        /\ Elems(queue) = {Current} \cup Rest(queue)
        /\ Distinct(Tail(queue)) /\ Elems(Tail(queue)) = Rest(queue)
  BY CurrentFacts
<1>c. job # "none" => queue # <<>>
  BY DEF TypeOK
<1>d. Elems(queue) \subseteq Jobs /\ Rest(queue) \subseteq Jobs /\ plan \in Plans
  BY ElemsType DEF TypeOK
<1>e. stage \in {"executor", "sleep", "done"} => queue = <<>> /\ job = "none"
  BY IdleFacts
<1>f. \A q \in Elems(queue) : Place[q[1]] = Place[stage]
  BY DEF QueueInv
<1>g. Place[stage] \in 0..7
  BY PlaceFacts DEF TypeOK, Stages, SingleStages
<1>i. /\ \A j \in Jobs : Elems(Append(failures, j)) = Elems(failures) \cup {j}
      /\ \A j \in Jobs \ Elems(failures) : Distinct(Append(failures, j))
      /\ Elems(failures) \subseteq Jobs /\ Elems(queue) \cap Elems(failures) = {}
  BY AppendFacts, ElemsType DEF TypeOK, QueueInv
<1>1. CASE JobStarts
  BY <1>1, <1>a, <1>b, <1>c, <1>d, <1>e, PlaceFacts, KindFacts, <1>f, <1>g DEF
     JobStarts, taskVars, FreshInv
<1>2. CASE DeadlinePasses
  BY <1>2, <1>a, <1>b, <1>c, <1>d, <1>e, PlaceFacts, KindFacts, <1>f, <1>g DEF
     DeadlinePasses, taskVars, FreshInv
<1>3. CASE JobTimesOut
  BY <1>3, <1>a, <1>b, <1>c, <1>d, <1>e, PlaceFacts, KindFacts, <1>f, <1>g DEF
     JobTimesOut, taskVars, FreshInv
<1>4. CASE ExecutorTornDown
  BY <1>4, <1>a, <1>b, <1>c, <1>d, <1>e, PlaceFacts, KindFacts, <1>f, <1>g,
     QueueOfTasks, OtherErrors DEF ExecutorTornDown, Arm, taskVars, UntouchedInv,
     FreshInv
<1>5. CASE TaskTaken
  BY <1>5, <1>a, <1>b, <1>c, <1>d, <1>e, PlaceFacts, KindFacts, <1>f, <1>g DEF
     TaskTaken, JobTaken, JobErred, Ended, FreshInv
<1>6. CASE TasksAttempted
  BY <1>6, <1>a, <1>b, <1>c, <1>d, <1>e, PlaceFacts, KindFacts, <1>f, <1>g,
     QueueOfHandlers, EmptyFacts DEF TasksAttempted, EndAttempt, LeaveTasks,
     taskVars, QueueInv, UntouchedInv, FreshInv
<1>7. CASE Retry
  BY <1>7, <1>a, <1>b, <1>c, <1>d, <1>e, PlaceFacts, KindFacts, <1>f, <1>g,
     EmptyFacts, <1>i DEF Retry, QueueInv, FreshInv
<1>8. CASE HandlerTaken
  BY <1>8, <1>a, <1>b, <1>c, <1>d, <1>e, PlaceFacts, KindFacts, <1>f, <1>g DEF
     HandlerTaken, JobTaken, JobErred, Ended, taskVars, FreshInv
<1>9. CASE StartRelease
  BY <1>9, <1>a, <1>b, <1>c, <1>d, <1>e, PlaceFacts, KindFacts, <1>f, <1>g,
     OnlyFacts DEF StartRelease, Enter, NewBudget, taskVars, SingleStages,
     UntouchedInv, FreshInv
<1>10. CASE SingleTaken
  BY <1>10, <1>a, <1>b, <1>c, <1>d, <1>e, PlaceFacts, KindFacts, <1>f, <1>g DEF
     SingleTaken, JobTaken, JobErred, Ended, SingleStages, taskVars, FreshInv
<1>11. CASE StartReporting
  <2>1. /\ stage' = "investigate" /\ stage = "release"
        /\ queue' = <<>> \/ queue' = <<Only("investigate")>>
        /\ errors' = errors \/ errors' = errors \cup {Only("reporting")}
    BY <1>11 DEF StartReporting, Enter, Skip
  <2>2. /\ Only("investigate") \in Jobs /\ Only("investigate")[1] = "investigate"
        /\ Elems(<<Only("investigate")>>) = {Only("investigate")}
    BY OnlyFacts DEF SingleStages
  <2>3. Only("investigate") \notin errors'
    BY <2>1, <2>2, PlaceFacts, OtherErrors DEF UntouchedInv
  <2> QED
    BY <2>1, <2>2, <2>3, EmptyFacts DEF FreshInv
<1>12. CASE StartTriage
  BY <1>12, <1>a, <1>b, <1>c, <1>d, <1>e, PlaceFacts, KindFacts, <1>f, <1>g,
     OnlyFacts, EmptyFacts DEF StartTriage, Enter, Skip, taskVars, SingleStages,
     UntouchedInv, FreshInv
<1>13. CASE StartUpload
  BY <1>13, <1>a, <1>b, <1>c, <1>d, <1>e, PlaceFacts, KindFacts, <1>f, <1>g,
     OnlyFacts DEF StartUpload, Enter, NewBudget, taskVars, SingleStages,
     UntouchedInv, FreshInv
<1>14. CASE FinishSummary
  BY <1>14, <1>a, <1>b, <1>c, <1>d, <1>e, PlaceFacts, KindFacts, <1>f, <1>g,
     OtherErrors DEF FinishSummary, taskVars, FreshInv
<1>15. CASE EntryCleanedUp
  BY <1>15, <1>a, <1>b, <1>c, <1>d, <1>e, PlaceFacts, KindFacts, <1>f, <1>g,
     OtherErrors DEF EntryCleanedUp, taskVars, FreshInv
<1>16. ASSUME NEW how \in {"ok", "error", "cancelled"}, JobEnds(how) PROVE FreshInv'
  BY <1>16, <1>a, <1>b, <1>c, <1>d, <1>e, PlaceFacts, KindFacts, <1>f, <1>g DEF
     JobEnds, taskVars, FreshInv
<1>17. CASE JobCancelledFromOutside
  BY <1>17, <1>a, <1>b, <1>c, <1>d, <1>e, PlaceFacts, KindFacts, <1>f, <1>g DEF
     JobCancelledFromOutside, Arm, taskVars, FreshInv
<1>18. CASE SleepCancelled
  BY <1>18, <1>a, <1>b, <1>c, <1>d, <1>e, PlaceFacts, KindFacts, <1>f, <1>g,
     QueueOfHandlers, EmptyFacts DEF SleepCancelled, Arm, LeaveTasks, QueueInv,
     UntouchedInv, FreshInv
<1>19. CASE EntryFails
  BY <1>19, <1>a, <1>b, <1>c, <1>d, <1>e, PlaceFacts, KindFacts, <1>f, <1>g,
     OnlyFacts, OtherErrors DEF EntryFails, Enter, taskVars, SingleStages,
     UntouchedInv, FreshInv
<1>20. CASE UNCHANGED vars
  BY <1>20, <1>a, <1>b, <1>c, <1>d, <1>e, PlaceFacts, KindFacts, <1>f, <1>g DEF
     vars, FreshInv
<1> QED
  BY <1>1, <1>2, <1>3, <1>4, <1>5, <1>6, <1>7, <1>8, <1>9, <1>10, <1>11, <1>12,
     <1>13, <1>14, <1>15, <1>16, <1>17, <1>18, <1>19, <1>20 DEF Next, LoopStep,
     Terminated

\* A teardown that begins satisfies the invariant.
LEMMA TeardownInit == Init => TeardownInv
<1> SUFFICES ASSUME Init PROVE TeardownInv
  OBVIOUS
<1>1. TypeSeqs /\ TypeFlags /\ TypeSets /\ TypeHistory
  <2>1. TypeSeqs
    BY EmptyFacts DEF Init, TypeSeqs
  <2>2. MaxCancels \in Nat
    BY PlansAssumption DEF Init, MaxCancels
  <2>3. TypeFlags
    BY <2>2 DEF Init, TypeFlags, Stages, Ends, TaskAttempts
  <2>4. TypeSets /\ TypeHistory
    BY DEF Init, TypeSets, TypeHistory, TaskAttempts
  <2> QED
    BY <2>1, <2>3, <2>4
<1>2. TypeOK
  BY <1>1, TypeParts
<1>3. QueueInv
  BY EmptyFacts DEF Init, QueueInv
<1>4. /\ stage = "executor" /\ job = "none" /\ queue = <<>> /\ failures = <<>>
      /\ budget = "none" /\ errors = {} /\ failed = {} /\ cancels = 0
      /\ jobCancelled = {} /\ \A j \in Jobs : runs[j] = 0 /\ last[j] = "none"
  BY DEF Init
<1>5. UntouchedInv /\ BudgetInv /\ TodoInv /\ FailuresInv
  BY <1>4, EmptyFacts DEF UntouchedInv, BudgetInv, TodoInv, Todo, FailuresInv
<1>6. CurrentInv /\ ReleaseInv
  BY <1>4 DEF CurrentInv, Ended, ReleaseInv, ReleaseAlwaysRuns
<1>7. CoverInv
  BY <1>4, PlaceFacts, KindFacts DEF CoverInv
<1>8. LostInv /\ TruthInv /\ FreshInv /\ CancelInv
  BY <1>4, EmptyFacts DEF LostInv, TruthInv, FreshInv, CancelInv
<1> QED
  BY <1>2, <1>3, <1>5, <1>6, <1>7, <1>8 DEF TeardownInv

\* Every step keeps the invariant.
LEMMA TeardownStep == TeardownInv /\ [Next]_vars => TeardownInv'
BY TypeStep, QueueStep, UntouchedStep, BudgetStep, TodoStep, CurrentStep,
   FailuresStep, ReleaseStep, CoverStep, LostStep, TruthStep, FreshStep, CancelStep
   DEF TeardownInv

(***************************************************************************)
(* Theorems                                                                *)
(***************************************************************************)

\* At every step of the teardown each cleanup is ahead, waiting, running, to be
\* retried or done with, and its failure and every cancellation have a bearer.
THEOREM TeardownInvariant == Spec => []TeardownInv
BY TeardownInit, TeardownStep, PTL DEF Spec

\* The variables of the teardown keep their shapes; no cleanup runs three times.
THEOREM TeardownTypeCorrect == Spec => []TypeOK
<1>1. TeardownInv => TypeOK
  BY DEF TeardownInv
<1> QED
  BY <1>1, TeardownInvariant, PTL

\* The release of the test bed runs before the teardown reports or ends, whatever
\* failed, hung or was cancelled before it: its budget is fresh.
THEOREM ReleaseAlwaysRunsHolds == Spec => []ReleaseAlwaysRuns
<1>1. TeardownInv => ReleaseAlwaysRuns
  BY DEF TeardownInv, ReleaseInv
<1> QED
  BY <1>1, TeardownInvariant, PTL

\* No teardown task and no handler is passed over because one before it failed,
\* hung or was cancelled.
THEOREM NoneSkippedHolds == Spec => []NoneSkipped
<1>1. TeardownInv => NoneSkipped
  <2> SUFFICES ASSUME TeardownInv, Only("entry") \notin errors,
                      stage \in {"release", "investigate", "triage", "upload", "done"}
               PROVE  /\ \A i \in 1..TeardownTasks : last[Task(i)] # "none"
                      /\ \A i \in 1..Handlers : last[Handler(i)] # "none"
    BY DEF NoneSkipped
  <2>1. \A j \in Jobs : j[1] \in {"task", "handler"} =>
            Place[j[1]] < Place[stage] /\ j \notin Elems(queue)
    BY PlaceFacts DEF TeardownInv, QueueInv
  <2>2. \A j \in Jobs : j[1] \in {"task", "handler"} => last[j] # "none"
    BY <2>1, PlaceFacts, KindFacts DEF TeardownInv, CoverInv
  <2> QED
    BY <2>2, JobFacts
<1> QED
  BY <1>1, TeardownInvariant, PTL

\* What async_test_tearDown raises names every cleanup whose last run failed and,
\* without a cancellation, no other; a consumed CancelledError is raised again.
THEOREM NothingLostHolds == Spec => []NothingLost
<1>1. TeardownInv => NothingLost
  <2> SUFFICES ASSUME TeardownInv, stage = "done" PROVE NothingLost
    BY DEF NothingLost
  <2>1. failed = {} /\ interrupted = {} /\ queue = <<>> /\ job = "none" /\ ~Ended
    BY DEF TeardownInv, QueueInv, TypeOK, Ended
  <2>2. jobCancelled = {}
    BY <2>1 DEF TeardownInv, CancelInv
  <2>3. \A j \in Jobs : last[j] \in {"error", "timeout"} => j \in errors
    BY <2>1 DEF TeardownInv, LostInv
  <2>4. \A j \in Jobs : j \in errors /\ cancels = 0 => last[j] # "ok"
    BY <2>1 DEF TeardownInv, TruthInv
  <2>5. cancels > 0 \/ (\E j \in Jobs : last[j] = "cancelled") => cancellation # {}
    BY <2>1, <2>2 DEF TeardownInv, CancelInv
  <2> QED
    BY <2>3, <2>4, <2>5 DEF NothingLost
<1> QED
  BY <1>1, TeardownInvariant, PTL

\* A cleanup runs again only after a run of its own that failed: not after a
\* success, and not while an abandoned run may still be going on.
THEOREM RerunsOnlyFailedHolds == Spec => RerunsOnlyFailed
<1> DEFINE Rerun == \A j \in Jobs : runs'[j] > runs[j] /\ runs[j] > 0 => last[j] = "error"
<1>1. TeardownInv /\ [Next]_vars => [Rerun]_vars
  <2> SUFFICES ASSUME TeardownInv, [Next]_vars PROVE Rerun \/ UNCHANGED vars
    OBVIOUS
  <2>1. runs \in [Jobs -> 0..TaskAttempts] /\ attempt \in 1..TaskAttempts /\ TypeOK /\ QueueInv
    BY DEF TeardownInv, TypeOK
  <2>2. CASE JobStarts
    <3>1. /\ queue # <<>> /\ job = "none"
          /\ runs' = runs \/ runs' = [runs EXCEPT ![Current] = @ + 1]
      BY <2>2 DEF JobStarts
    <3>2. Current \in Jobs /\ Current \in Elems(queue)
      BY <2>1, <3>1, CurrentFacts
    <3>3. runs[Current] = attempt - 1 /\ (attempt # 1 => last[Current] = "error")
      BY <3>1, <3>2 DEF TeardownInv, TodoInv, Todo
    <3>4. ASSUME NEW j \in Jobs, runs'[j] > runs[j], runs[j] > 0 PROVE last[j] = "error"
      <4>1. j = Current
        BY <2>1, <3>1, <3>2, <3>4 DEF TaskAttempts
      <4> QED
        BY <2>1, <3>3, <3>4, <4>1 DEF TaskAttempts
    <3> QED
      BY <3>4
  <2>3. CASE ~JobStarts
    <3>1. runs' = runs
      BY <2>3 DEF Next, LoopStep, Terminated, DeadlinePasses, JobTimesOut,
         ExecutorTornDown, TaskTaken, TasksAttempted, EndAttempt, LeaveTasks, Retry,
         HandlerTaken, StartRelease, SingleTaken, StartReporting, StartTriage,
         StartUpload, FinishSummary, EntryCleanedUp, JobEnds,
         JobCancelledFromOutside, SleepCancelled, EntryFails, vars
    <3> QED
      BY <2>1, <3>1 DEF TaskAttempts
  <2> QED
    BY <2>2, <2>3
<1> QED
  BY <1>1, TeardownInvariant, PTL DEF Spec, RerunsOnlyFailed
=============================================================================
