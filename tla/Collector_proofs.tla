------------------------- MODULE Collector_proofs -------------------------
(***************************************************************************)
(* Proofs about Collector, for every number of restarts.                   *)
(***************************************************************************)
EXTENDS Collector, TLAPS

Running == {"created", "ready", "check", "poll", "blocked", "sleep"}

Stopping == {"stop_cancel", "stop_join", "exit_cancel", "exit_join"}

Joining == {"stop_join", "exit_join"}

\* Threads are started in the order of their numbers.
StartedInOrder == \A t \in Threads : pc[t] = "none" <=> thread < t

\* Only threads that were started are told to stop, and only those are left.
ToldWereStarted ==
    /\ \A t \in told : t <= thread
    /\ left \subseteq told

\* A thread that is not the last one started runs only because stop() gave up.
OthersAreLeft == \A t \in Threads : pc[t] \in Running /\ t # thread => t \in left

\* Between calls, a thread that was told to stop runs only because of that.
ToldAreLeft ==
    caller \notin Stopping =>
        \A t \in told : pc[t] \in Running => t \in left

\* A thread stop() gave up on has its cancellation queued and is past the checks
\* of the flag that come before its next await.
LeftAreCancelled ==
    \A t \in left : pc[t] \in Running =>
        t \in cancels /\ pc[t] \in {"poll", "blocked", "sleep"}

\* _thread_loop is the loop of the last thread once that thread has made one.
LoopPublished ==
    \A t \in Threads : t = thread /\ pc[t] \in Running \ {"created"} => loopOf = t

\* While stop() is on its way the flag is set, and once it joins, the thread is
\* cancelled or has yet to look at the flag.
StopArrives ==
    /\ caller \in Stopping => /\ stopFlag = "set"
                              /\ thread # 0 => thread \in told
    /\ caller \in Joining =>
         \A t \in Threads : t = thread /\ pc[t] \in Running =>
             t \in cancels \/ pc[t] \in {"created", "ready", "check"}

\* "stopped" was logged of the thread that stop() joined.
JoinedHasEnded ==
    result = "stopped" => \A t \in Threads : t = thread => pc[t] \notin Running

CollectorInv ==
    /\ TypeOK
    /\ StartedInOrder
    /\ ToldWereStarted
    /\ OthersAreLeft
    /\ ToldAreLeft
    /\ LeftAreCancelled
    /\ LoopPublished
    /\ StopArrives
    /\ JoinedHasEnded

\* The variables keep their types in every step of caller and threads.
LEMMA TypeOKStep ==
    ASSUME CollectorInv, [Next]_vars PROVE TypeOK'
<1> USE MaxStartsAssumption DEF CollectorInv, TypeOK, TypeOK, Threads, Running,
     Stopping, Joining
<1>1. CASE Start
  BY <1>1 DEF Start
<1>2. ASSUME NEW next \in {"stop_cancel", "exit_cancel"}, StopCalled(next) PROVE  TypeOK'
  BY <1>2 DEF StopCalled
<1>3. CASE AtExitNothingToStop
  BY <1>3 DEF AtExitNothingToStop
<1>4. CASE CancelThreadTasks
  BY <1>4 DEF CancelThreadTasks, Alive
<1>5. CASE JoinEnds
  BY <1>5 DEF JoinEnds, Alive
<1>6. CASE JoinTimesOut
  BY <1>6 DEF JoinTimesOut, Alive
<1>7. ASSUME NEW t \in Threads, AssignLoop(t) PROVE  TypeOK'
  BY <1>7 DEF AssignLoop, Moves
<1>8. ASSUME NEW t \in Threads, EnterRunLoop(t) PROVE  TypeOK'
  BY <1>8 DEF EnterRunLoop, Moves, Ended
<1>9. ASSUME NEW t \in Threads, CheckFlag(t) PROVE  TypeOK'
  BY <1>9 DEF CheckFlag, Moves, Ended
<1>10. ASSUME NEW t \in Threads, PollBlocks(t) PROVE  TypeOK'
  BY <1>10 DEF PollBlocks, Moves
<1>11. ASSUME NEW t \in Threads, PollUnblocks(t) PROVE  TypeOK'
  BY <1>11 DEF PollUnblocks, Moves
<1>12. ASSUME NEW t \in Threads, PollEnds(t) PROVE  TypeOK'
  BY <1>12 DEF PollEnds, Moves
<1>13. ASSUME NEW t \in Threads, CancelArrives(t) PROVE  TypeOK'
  BY <1>13 DEF CancelArrives, Moves, Ended
<1>14. ASSUME NEW t \in Threads, Wakes(t) PROVE  TypeOK'
  BY <1>14 DEF Wakes, Moves
<1>15. CASE UNCHANGED vars
  BY <1>15 DEF vars
<1> QED
  BY <1>1, <1>2, <1>3, <1>4, <1>5, <1>6, <1>7, <1>8, <1>9, <1>10, <1>11, <1>12,
       <1>13, <1>14, <1>15 DEF Next, Stop, AtExit, CallerStep, ThreadStep, PollStep,
       Exited

\* start() makes the next thread in order and no step unmakes one.
LEMMA StartedInOrderStep ==
    ASSUME CollectorInv, [Next]_vars PROVE StartedInOrder'
<1> USE MaxStartsAssumption DEF CollectorInv, TypeOK, StartedInOrder,
     ToldWereStarted, OthersAreLeft,
    ToldAreLeft, LeftAreCancelled, LoopPublished, StopArrives, JoinedHasEnded,
    Threads, Running, Stopping, Joining
<1>1. CASE Start
  BY <1>1 DEF Start
<1>2. ASSUME NEW next \in {"stop_cancel", "exit_cancel"}, StopCalled(next) PROVE  StartedInOrder'
  BY <1>2 DEF StopCalled
<1>3. CASE AtExitNothingToStop
  BY <1>3 DEF AtExitNothingToStop
<1>4. CASE CancelThreadTasks
  BY <1>4 DEF CancelThreadTasks, Alive
<1>5. CASE JoinEnds
  BY <1>5 DEF JoinEnds, Alive
<1>6. CASE JoinTimesOut
  BY <1>6 DEF JoinTimesOut, Alive
<1>7. ASSUME NEW t \in Threads, AssignLoop(t) PROVE  StartedInOrder'
  BY <1>7 DEF AssignLoop, Moves
<1>8. ASSUME NEW t \in Threads, EnterRunLoop(t) PROVE  StartedInOrder'
  BY <1>8 DEF EnterRunLoop, Moves, Ended
<1>9. ASSUME NEW t \in Threads, CheckFlag(t) PROVE  StartedInOrder'
  BY <1>9 DEF CheckFlag, Moves, Ended
<1>10. ASSUME NEW t \in Threads, PollBlocks(t) PROVE  StartedInOrder'
  BY <1>10 DEF PollBlocks, Moves
<1>11. ASSUME NEW t \in Threads, PollUnblocks(t) PROVE  StartedInOrder'
  BY <1>11 DEF PollUnblocks, Moves
<1>12. ASSUME NEW t \in Threads, PollEnds(t) PROVE  StartedInOrder'
  BY <1>12 DEF PollEnds, Moves
<1>13. ASSUME NEW t \in Threads, CancelArrives(t) PROVE  StartedInOrder'
  BY <1>13 DEF CancelArrives, Moves, Ended
<1>14. ASSUME NEW t \in Threads, Wakes(t) PROVE  StartedInOrder'
  BY <1>14 DEF Wakes, Moves
<1>15. CASE UNCHANGED vars
  BY <1>15 DEF vars
<1> QED
  BY <1>1, <1>2, <1>3, <1>4, <1>5, <1>6, <1>7, <1>8, <1>9, <1>10, <1>11, <1>12,
       <1>13, <1>14, <1>15 DEF Next, Stop, AtExit, CallerStep, ThreadStep, PollStep,
       Exited

\* Only started threads are told to stop or left.
LEMMA ToldWereStartedStep ==
    ASSUME CollectorInv, [Next]_vars PROVE ToldWereStarted'
<1> USE MaxStartsAssumption DEF CollectorInv, TypeOK, StartedInOrder,
     ToldWereStarted, OthersAreLeft,
    ToldAreLeft, LeftAreCancelled, LoopPublished, StopArrives, JoinedHasEnded,
    Threads, Running, Stopping, Joining
<1>1. CASE Start
  BY <1>1 DEF Start
<1>2. ASSUME NEW next \in {"stop_cancel", "exit_cancel"}, StopCalled(next) PROVE  ToldWereStarted'
  BY <1>2 DEF StopCalled
<1>3. CASE AtExitNothingToStop
  BY <1>3 DEF AtExitNothingToStop
<1>4. CASE CancelThreadTasks
  BY <1>4 DEF CancelThreadTasks, Alive
<1>5. CASE JoinEnds
  BY <1>5 DEF JoinEnds, Alive
<1>6. CASE JoinTimesOut
  BY <1>6 DEF JoinTimesOut, Alive
<1>7. ASSUME NEW t \in Threads, AssignLoop(t) PROVE  ToldWereStarted'
  BY <1>7 DEF AssignLoop, Moves
<1>8. ASSUME NEW t \in Threads, EnterRunLoop(t) PROVE  ToldWereStarted'
  BY <1>8 DEF EnterRunLoop, Moves, Ended
<1>9. ASSUME NEW t \in Threads, CheckFlag(t) PROVE  ToldWereStarted'
  BY <1>9 DEF CheckFlag, Moves, Ended
<1>10. ASSUME NEW t \in Threads, PollBlocks(t) PROVE  ToldWereStarted'
  BY <1>10 DEF PollBlocks, Moves
<1>11. ASSUME NEW t \in Threads, PollUnblocks(t) PROVE  ToldWereStarted'
  BY <1>11 DEF PollUnblocks, Moves
<1>12. ASSUME NEW t \in Threads, PollEnds(t) PROVE  ToldWereStarted'
  BY <1>12 DEF PollEnds, Moves
<1>13. ASSUME NEW t \in Threads, CancelArrives(t) PROVE  ToldWereStarted'
  BY <1>13 DEF CancelArrives, Moves, Ended
<1>14. ASSUME NEW t \in Threads, Wakes(t) PROVE  ToldWereStarted'
  BY <1>14 DEF Wakes, Moves
<1>15. CASE UNCHANGED vars
  BY <1>15 DEF vars
<1> QED
  BY <1>1, <1>2, <1>3, <1>4, <1>5, <1>6, <1>7, <1>8, <1>9, <1>10, <1>11, <1>12,
       <1>13, <1>14, <1>15 DEF Next, Stop, AtExit, CallerStep, ThreadStep, PollStep,
       Exited

\* start() after stop() leaves a thread behind only if stop() gave up on it.
LEMMA OthersAreLeftStep ==
    ASSUME CollectorInv, [Next]_vars PROVE OthersAreLeft'
<1> USE MaxStartsAssumption DEF CollectorInv, TypeOK, StartedInOrder,
     ToldWereStarted, OthersAreLeft,
    ToldAreLeft, LeftAreCancelled, LoopPublished, StopArrives, JoinedHasEnded,
    Threads, Running, Stopping, Joining
<1>1. CASE Start
  BY <1>1 DEF Start
<1>2. ASSUME NEW next \in {"stop_cancel", "exit_cancel"}, StopCalled(next) PROVE  OthersAreLeft'
  BY <1>2 DEF StopCalled
<1>3. CASE AtExitNothingToStop
  BY <1>3 DEF AtExitNothingToStop
<1>4. CASE CancelThreadTasks
  BY <1>4 DEF CancelThreadTasks, Alive
<1>5. CASE JoinEnds
  BY <1>5 DEF JoinEnds, Alive
<1>6. CASE JoinTimesOut
  BY <1>6 DEF JoinTimesOut, Alive
<1>7. ASSUME NEW t \in Threads, AssignLoop(t) PROVE  OthersAreLeft'
  BY <1>7 DEF AssignLoop, Moves
<1>8. ASSUME NEW t \in Threads, EnterRunLoop(t) PROVE  OthersAreLeft'
  BY <1>8 DEF EnterRunLoop, Moves, Ended
<1>9. ASSUME NEW t \in Threads, CheckFlag(t) PROVE  OthersAreLeft'
  BY <1>9 DEF CheckFlag, Moves, Ended
<1>10. ASSUME NEW t \in Threads, PollBlocks(t) PROVE  OthersAreLeft'
  BY <1>10 DEF PollBlocks, Moves
<1>11. ASSUME NEW t \in Threads, PollUnblocks(t) PROVE  OthersAreLeft'
  BY <1>11 DEF PollUnblocks, Moves
<1>12. ASSUME NEW t \in Threads, PollEnds(t) PROVE  OthersAreLeft'
  BY <1>12 DEF PollEnds, Moves
<1>13. ASSUME NEW t \in Threads, CancelArrives(t) PROVE  OthersAreLeft'
  BY <1>13 DEF CancelArrives, Moves, Ended
<1>14. ASSUME NEW t \in Threads, Wakes(t) PROVE  OthersAreLeft'
  BY <1>14 DEF Wakes, Moves
<1>15. CASE UNCHANGED vars
  BY <1>15 DEF vars
<1> QED
  BY <1>1, <1>2, <1>3, <1>4, <1>5, <1>6, <1>7, <1>8, <1>9, <1>10, <1>11, <1>12,
       <1>13, <1>14, <1>15 DEF Next, Stop, AtExit, CallerStep, ThreadStep, PollStep,
       Exited

\* stop() returns with its thread running only if it gave up on it.
LEMMA ToldAreLeftStep ==
    ASSUME CollectorInv, [Next]_vars PROVE ToldAreLeft'
<1> USE MaxStartsAssumption DEF CollectorInv, TypeOK, StartedInOrder,
     ToldWereStarted, OthersAreLeft,
    ToldAreLeft, LeftAreCancelled, LoopPublished, StopArrives, JoinedHasEnded,
    Threads, Running, Stopping, Joining
<1>1. CASE Start
  BY <1>1 DEF Start
<1>2. ASSUME NEW next \in {"stop_cancel", "exit_cancel"}, StopCalled(next) PROVE  ToldAreLeft'
  BY <1>2 DEF StopCalled
<1>3. CASE AtExitNothingToStop
  BY <1>3 DEF AtExitNothingToStop
<1>4. CASE CancelThreadTasks
  BY <1>4 DEF CancelThreadTasks, Alive
<1>5. CASE JoinEnds
  BY <1>5 DEF JoinEnds, Alive
<1>6. CASE JoinTimesOut
  BY <1>6 DEF JoinTimesOut, Alive
<1>7. ASSUME NEW t \in Threads, AssignLoop(t) PROVE  ToldAreLeft'
  BY <1>7 DEF AssignLoop, Moves
<1>8. ASSUME NEW t \in Threads, EnterRunLoop(t) PROVE  ToldAreLeft'
  BY <1>8 DEF EnterRunLoop, Moves, Ended
<1>9. ASSUME NEW t \in Threads, CheckFlag(t) PROVE  ToldAreLeft'
  BY <1>9 DEF CheckFlag, Moves, Ended
<1>10. ASSUME NEW t \in Threads, PollBlocks(t) PROVE  ToldAreLeft'
  BY <1>10 DEF PollBlocks, Moves
<1>11. ASSUME NEW t \in Threads, PollUnblocks(t) PROVE  ToldAreLeft'
  BY <1>11 DEF PollUnblocks, Moves
<1>12. ASSUME NEW t \in Threads, PollEnds(t) PROVE  ToldAreLeft'
  BY <1>12 DEF PollEnds, Moves
<1>13. ASSUME NEW t \in Threads, CancelArrives(t) PROVE  ToldAreLeft'
  BY <1>13 DEF CancelArrives, Moves, Ended
<1>14. ASSUME NEW t \in Threads, Wakes(t) PROVE  ToldAreLeft'
  BY <1>14 DEF Wakes, Moves
<1>15. CASE UNCHANGED vars
  BY <1>15 DEF vars
<1> QED
  BY <1>1, <1>2, <1>3, <1>4, <1>5, <1>6, <1>7, <1>8, <1>9, <1>10, <1>11, <1>12,
       <1>13, <1>14, <1>15 DEF Next, Stop, AtExit, CallerStep, ThreadStep, PollStep,
       Exited

\* stop() gives up only on a thread whose cancellation is queued, and a restart does not take it back.
LEMMA LeftAreCancelledStep ==
    ASSUME CollectorInv, [Next]_vars PROVE LeftAreCancelled'
<1> USE MaxStartsAssumption DEF CollectorInv, TypeOK, StartedInOrder,
     ToldWereStarted, OthersAreLeft,
    ToldAreLeft, LeftAreCancelled, LoopPublished, StopArrives, JoinedHasEnded,
    Threads, Running, Stopping, Joining
<1>1. CASE Start
  BY <1>1 DEF Start
<1>2. ASSUME NEW next \in {"stop_cancel", "exit_cancel"}, StopCalled(next) PROVE  LeftAreCancelled'
  BY <1>2 DEF StopCalled
<1>3. CASE AtExitNothingToStop
  BY <1>3 DEF AtExitNothingToStop
<1>4. CASE CancelThreadTasks
  BY <1>4 DEF CancelThreadTasks, Alive
<1>5. CASE JoinEnds
  BY <1>5 DEF JoinEnds, Alive
<1>6. CASE JoinTimesOut
  BY <1>6 DEF JoinTimesOut, Alive
<1>7. ASSUME NEW t \in Threads, AssignLoop(t) PROVE  LeftAreCancelled'
  BY <1>7 DEF AssignLoop, Moves
<1>8. ASSUME NEW t \in Threads, EnterRunLoop(t) PROVE  LeftAreCancelled'
  BY <1>8 DEF EnterRunLoop, Moves, Ended
<1>9. ASSUME NEW t \in Threads, CheckFlag(t) PROVE  LeftAreCancelled'
  BY <1>9 DEF CheckFlag, Moves, Ended
<1>10. ASSUME NEW t \in Threads, PollBlocks(t) PROVE  LeftAreCancelled'
  BY <1>10 DEF PollBlocks, Moves
<1>11. ASSUME NEW t \in Threads, PollUnblocks(t) PROVE  LeftAreCancelled'
  BY <1>11 DEF PollUnblocks, Moves
<1>12. ASSUME NEW t \in Threads, PollEnds(t) PROVE  LeftAreCancelled'
  BY <1>12 DEF PollEnds, Moves
<1>13. ASSUME NEW t \in Threads, CancelArrives(t) PROVE  LeftAreCancelled'
  BY <1>13 DEF CancelArrives, Moves, Ended
<1>14. ASSUME NEW t \in Threads, Wakes(t) PROVE  LeftAreCancelled'
  BY <1>14 DEF Wakes, Moves
<1>15. CASE UNCHANGED vars
  BY <1>15 DEF vars
<1> QED
  BY <1>1, <1>2, <1>3, <1>4, <1>5, <1>6, <1>7, <1>8, <1>9, <1>10, <1>11, <1>12,
       <1>13, <1>14, <1>15 DEF Next, Stop, AtExit, CallerStep, ThreadStep, PollStep,
       Exited

\* _thread_target publishes its loop before anything can block it.
LEMMA LoopPublishedStep ==
    ASSUME CollectorInv, [Next]_vars PROVE LoopPublished'
<1> USE MaxStartsAssumption DEF CollectorInv, TypeOK, StartedInOrder,
     ToldWereStarted, OthersAreLeft,
    ToldAreLeft, LeftAreCancelled, LoopPublished, StopArrives, JoinedHasEnded,
    Threads, Running, Stopping, Joining
<1>1. CASE Start
  BY <1>1 DEF Start
<1>2. ASSUME NEW next \in {"stop_cancel", "exit_cancel"}, StopCalled(next) PROVE  LoopPublished'
  BY <1>2 DEF StopCalled
<1>3. CASE AtExitNothingToStop
  BY <1>3 DEF AtExitNothingToStop
<1>4. CASE CancelThreadTasks
  BY <1>4 DEF CancelThreadTasks, Alive
<1>5. CASE JoinEnds
  BY <1>5 DEF JoinEnds, Alive
<1>6. CASE JoinTimesOut
  BY <1>6 DEF JoinTimesOut, Alive
<1>7. ASSUME NEW t \in Threads, AssignLoop(t) PROVE  LoopPublished'
  BY <1>7 DEF AssignLoop, Moves
<1>8. ASSUME NEW t \in Threads, EnterRunLoop(t) PROVE  LoopPublished'
  BY <1>8 DEF EnterRunLoop, Moves, Ended
<1>9. ASSUME NEW t \in Threads, CheckFlag(t) PROVE  LoopPublished'
  BY <1>9 DEF CheckFlag, Moves, Ended
<1>10. ASSUME NEW t \in Threads, PollBlocks(t) PROVE  LoopPublished'
  BY <1>10 DEF PollBlocks, Moves
<1>11. ASSUME NEW t \in Threads, PollUnblocks(t) PROVE  LoopPublished'
  BY <1>11 DEF PollUnblocks, Moves
<1>12. ASSUME NEW t \in Threads, PollEnds(t) PROVE  LoopPublished'
  BY <1>12 DEF PollEnds, Moves
<1>13. ASSUME NEW t \in Threads, CancelArrives(t) PROVE  LoopPublished'
  BY <1>13 DEF CancelArrives, Moves, Ended
<1>14. ASSUME NEW t \in Threads, Wakes(t) PROVE  LoopPublished'
  BY <1>14 DEF Wakes, Moves
<1>15. CASE UNCHANGED vars
  BY <1>15 DEF vars
<1> QED
  BY <1>1, <1>2, <1>3, <1>4, <1>5, <1>6, <1>7, <1>8, <1>9, <1>10, <1>11, <1>12,
       <1>13, <1>14, <1>15 DEF Next, Stop, AtExit, CallerStep, ThreadStep, PollStep,
       Exited

\* The flag, or the queued cancellation, reaches the thread that stop() joins.
LEMMA StopArrivesStep ==
    ASSUME CollectorInv, [Next]_vars PROVE StopArrives'
<1> USE MaxStartsAssumption DEF CollectorInv, TypeOK, StartedInOrder,
     ToldWereStarted, OthersAreLeft,
    ToldAreLeft, LeftAreCancelled, LoopPublished, StopArrives, JoinedHasEnded,
    Threads, Running, Stopping, Joining
<1>1. CASE Start
  BY <1>1 DEF Start
<1>2. ASSUME NEW next \in {"stop_cancel", "exit_cancel"}, StopCalled(next) PROVE  StopArrives'
  BY <1>2 DEF StopCalled
<1>3. CASE AtExitNothingToStop
  BY <1>3 DEF AtExitNothingToStop
<1>4. CASE CancelThreadTasks
  BY <1>4 DEF CancelThreadTasks, Alive
<1>5. CASE JoinEnds
  BY <1>5 DEF JoinEnds, Alive
<1>6. CASE JoinTimesOut
  BY <1>6 DEF JoinTimesOut, Alive
<1>7. ASSUME NEW t \in Threads, AssignLoop(t) PROVE  StopArrives'
  BY <1>7 DEF AssignLoop, Moves
<1>8. ASSUME NEW t \in Threads, EnterRunLoop(t) PROVE  StopArrives'
  BY <1>8 DEF EnterRunLoop, Moves, Ended
<1>9. ASSUME NEW t \in Threads, CheckFlag(t) PROVE  StopArrives'
  BY <1>9 DEF CheckFlag, Moves, Ended
<1>10. ASSUME NEW t \in Threads, PollBlocks(t) PROVE  StopArrives'
  BY <1>10 DEF PollBlocks, Moves
<1>11. ASSUME NEW t \in Threads, PollUnblocks(t) PROVE  StopArrives'
  BY <1>11 DEF PollUnblocks, Moves
<1>12. ASSUME NEW t \in Threads, PollEnds(t) PROVE  StopArrives'
  BY <1>12 DEF PollEnds, Moves
<1>13. ASSUME NEW t \in Threads, CancelArrives(t) PROVE  StopArrives'
  BY <1>13 DEF CancelArrives, Moves, Ended
<1>14. ASSUME NEW t \in Threads, Wakes(t) PROVE  StopArrives'
  BY <1>14 DEF Wakes, Moves
<1>15. CASE UNCHANGED vars
  BY <1>15 DEF vars
<1> QED
  BY <1>1, <1>2, <1>3, <1>4, <1>5, <1>6, <1>7, <1>8, <1>9, <1>10, <1>11, <1>12,
       <1>13, <1>14, <1>15 DEF Next, Stop, AtExit, CallerStep, ThreadStep, PollStep,
       Exited

\* A thread that has ended stays so until the next start().
LEMMA JoinedHasEndedStep ==
    ASSUME CollectorInv, [Next]_vars PROVE JoinedHasEnded'
<1> USE MaxStartsAssumption DEF CollectorInv, TypeOK, StartedInOrder,
     ToldWereStarted, OthersAreLeft,
    ToldAreLeft, LeftAreCancelled, LoopPublished, StopArrives, JoinedHasEnded,
    Threads, Running, Stopping, Joining
<1>1. CASE Start
  BY <1>1 DEF Start
<1>2. ASSUME NEW next \in {"stop_cancel", "exit_cancel"}, StopCalled(next) PROVE  JoinedHasEnded'
  BY <1>2 DEF StopCalled
<1>3. CASE AtExitNothingToStop
  BY <1>3 DEF AtExitNothingToStop
<1>4. CASE CancelThreadTasks
  BY <1>4 DEF CancelThreadTasks, Alive
<1>5. CASE JoinEnds
  BY <1>5 DEF JoinEnds, Alive
<1>6. CASE JoinTimesOut
  BY <1>6 DEF JoinTimesOut, Alive
<1>7. ASSUME NEW t \in Threads, AssignLoop(t) PROVE  JoinedHasEnded'
  BY <1>7 DEF AssignLoop, Moves
<1>8. ASSUME NEW t \in Threads, EnterRunLoop(t) PROVE  JoinedHasEnded'
  BY <1>8 DEF EnterRunLoop, Moves, Ended
<1>9. ASSUME NEW t \in Threads, CheckFlag(t) PROVE  JoinedHasEnded'
  BY <1>9 DEF CheckFlag, Moves, Ended
<1>10. ASSUME NEW t \in Threads, PollBlocks(t) PROVE  JoinedHasEnded'
  BY <1>10 DEF PollBlocks, Moves
<1>11. ASSUME NEW t \in Threads, PollUnblocks(t) PROVE  JoinedHasEnded'
  BY <1>11 DEF PollUnblocks, Moves
<1>12. ASSUME NEW t \in Threads, PollEnds(t) PROVE  JoinedHasEnded'
  BY <1>12 DEF PollEnds, Moves
<1>13. ASSUME NEW t \in Threads, CancelArrives(t) PROVE  JoinedHasEnded'
  BY <1>13 DEF CancelArrives, Moves, Ended
<1>14. ASSUME NEW t \in Threads, Wakes(t) PROVE  JoinedHasEnded'
  BY <1>14 DEF Wakes, Moves
<1>15. CASE UNCHANGED vars
  BY <1>15 DEF vars
<1> QED
  BY <1>1, <1>2, <1>3, <1>4, <1>5, <1>6, <1>7, <1>8, <1>9, <1>10, <1>11, <1>12,
       <1>13, <1>14, <1>15 DEF Next, Stop, AtExit, CallerStep, ThreadStep, PollStep,
       Exited

\* The inductive invariant of the collector.
THEOREM CollectorInvariant == Spec => []CollectorInv
<1>1. Init => CollectorInv
  BY MaxStartsAssumption
  DEF Init, CollectorInv, TypeOK, StartedInOrder, ToldWereStarted, OthersAreLeft,
      ToldAreLeft, LeftAreCancelled, LoopPublished, StopArrives, JoinedHasEnded, Threads,
      Running, Stopping, Joining
<1>2. CollectorInv /\ [Next]_vars => CollectorInv'
  BY TypeOKStep, StartedInOrderStep, ToldWereStartedStep, OthersAreLeftStep,
     ToldAreLeftStep, LeftAreCancelledStep, LoopPublishedStep, StopArrivesStep, JoinedHasEndedStep
  DEF CollectorInv
<1> QED
  BY <1>1, <1>2, PTL DEF Spec

\* Type correctness of the state that caller and threads share.
THEOREM CollectorTypeCorrect == Spec => []TypeOK
<1>1. CollectorInv => TypeOK
  BY DEF CollectorInv
<1> QED
  BY <1>1, CollectorInvariant, PTL

\* stop() logs "stopped" only when no thread runs but those it once gave up on.
THEOREM StopIsHonestHolds == Spec => []StopIsHonest
<1>1. CollectorInv => StopIsHonest
  BY DEF CollectorInv, StopIsHonest, Alive, TypeOK, JoinedHasEnded, OthersAreLeft,
         Running, Threads
<1> QED
  BY <1>1, CollectorInvariant, PTL

\* A thread that stop() gave up on begins no poll, whatever restarts follow.
THEOREM NoPollAfterRestartHolds == Spec => NoPollAfterRestart
<1> DEFINE Quiet == \A t \in left : pc[t] \notin {"poll", "blocked"}
                                      => pc'[t] \notin {"poll", "blocked"}
<1>1. CollectorInv /\ [Next]_vars => [Quiet]_vars
  <2> SUFFICES ASSUME CollectorInv, Next PROVE Quiet
    BY DEF vars
  <2> TAKE t \in left
  <2> HAVE pc[t] \notin {"poll", "blocked"}
  <2> USE MaxStartsAssumption
      DEF CollectorInv, TypeOK, StartedInOrder, ToldWereStarted, LeftAreCancelled,
          Threads, Running
  <2>1. t \in Threads /\ t <= thread /\ pc[t] \in {"sleep", "dead"}
    OBVIOUS
  <2>2. pc[t] = "sleep" => t \in cancels
    OBVIOUS
  <2>3. CASE Start
    BY <2>1, <2>3 DEF Start
  <2>4. CASE Stop \/ AtExit \/ AtExitNothingToStop \/ CallerStep \/ Exited
    BY <2>1, <2>4 DEF Stop, AtExit, StopCalled, AtExitNothingToStop, CallerStep,
                      CancelThreadTasks, JoinEnds, JoinTimesOut, Exited, vars
  <2>5. ASSUME NEW u \in Threads, ThreadStep(u) \/ PollStep(u)
        PROVE  pc'[t] \notin {"poll", "blocked"}
    BY <2>1, <2>2, <2>5
    DEF ThreadStep, PollStep, AssignLoop, EnterRunLoop, CheckFlag, CancelArrives,
        Wakes, PollBlocks, PollUnblocks, PollEnds, Moves, Ended
  <2> QED
    BY <2>3, <2>4, <2>5 DEF Next
<1> QED
  BY <1>1, CollectorInvariant, PTL DEF Spec, NoPollAfterRestart
=============================================================================
