---------------------- MODULE BaselineLifecycle_proofs ----------------------
(***************************************************************************)
(* What holds of BaselineLifecycle for any participants, contexts and      *)
(* requests.  TypeInv carries the shape of the variables; Inv adds what    *)
(* each await of a call still owes, which is what makes Nested and         *)
(* SafeToReuse inductive.                                                  *)
(***************************************************************************)
EXTENDS BaselineLifecycle, TLAPS

\* Front and Last take a nonempty sequence apart.
LEMMA FrontLast ==
    ASSUME NEW S, NEW s \in Seq(S), s # <<>>
    PROVE  /\ Front(s) \in Seq(S)
           /\ Len(Front(s)) = Len(s) - 1
           /\ \A i \in 1..(Len(s) - 1) : Front(s)[i] = s[i]
           /\ Last(s) = s[Len(s)]
           /\ Last(s) \in S
           /\ Len(s) \in Nat \ {0}
<1>1. Len(s) \in Nat \ {0} /\ \A i \in 1..Len(s) : s[i] \in S
  OBVIOUS
<1>2. Last(s) = s[Len(s)] /\ Last(s) \in S
  BY <1>1 DEF Last
<1>3. Len(s) - 1 \in Nat /\ 1..(Len(s) - 1) \subseteq 1..Len(s)
  BY <1>1
<1>4. Front(s) = [i \in 1..(Len(s) - 1) |-> s[i]]
  BY <1>1, <1>3 DEF Front
<1>5. Front(s) \in Seq(S) /\ Len(Front(s)) = Len(s) - 1
  BY <1>1, <1>3, <1>4
<1>. QED BY <1>1, <1>2, <1>4, <1>5

\* Every step keeps the variables within their types, at every await of
\* baseline_lifecycle.py.
LEMMA TypeStep == TypeOK /\ [Next]_vars => TypeOK'
<1> SUFFICES ASSUME TypeOK, [Next]_vars PROVE TypeOK'
    OBVIOUS
<1> USE DEF TypeOK, Return
<1>1. CASE CaptureCall
  <2>1. ASSUME NEW scope \in Scopes, NEW context \in Contexts,
               NEW ordered \in Requests, Capture(scope, context, ordered)
        PROVE  TypeOK'
    BY <2>1, RequestsAssumption DEF Capture, Frames
  <2>2. ASSUME NEW scope \in Scopes, NEW context \in Contexts,
               NEW ordered \in Requests, RejectCapture(scope, context, ordered)
        PROVE  TypeOK'
    BY <2>2 DEF RejectCapture
  <2>. QED BY <1>1, <2>1, <2>2 DEF CaptureCall
<1>2. CASE RestoreCall
  <2>1. ASSUME NEW caller \in {"restore", "restore_all"}, StartRestore(caller)
        PROVE  TypeOK'
    BY <2>1, FrontLast DEF StartRestore, Top
  <2>2. ASSUME NEW scope \in Scopes, NEW context \in Contexts,
               RejectRestore(scope, context)
        PROVE  TypeOK'
    BY <2>2 DEF RejectRestore
  <2>. QED BY <1>2, <2>1, <2>2 DEF RestoreCall, Restore, RestoreAll
<1>3. CASE \E p \in Participants : TestChanges(p)
  BY <1>3 DEF TestChanges, callVars
<1>4. CASE Step
  <2>1. CASE CaptureCompletes
    <3>1. cur \in Frames /\ Head(todo) \in Participants /\ Tail(todo) \in Seq(Participants)
      BY <2>1 DEF CaptureCompletes
    <3>2. Append(cur.captures, Head(todo)) \in Seq(Participants)
      BY <3>1 DEF Frames
    <3>4. cur' \in Frames
      BY <2>1, <3>1, <3>2 DEF CaptureCompletes, Frames
    <3>3. <<Head(todo), cur.context>> \in Snapshots
      BY <3>1 DEF Snapshots, Frames
    <3>. QED BY <2>1, <3>1, <3>3, <3>4 DEF CaptureCompletes
  <2>2. CASE PushFrame
    BY <2>2 DEF PushFrame
  <2>3. CASE CaptureBreaks("failed") \/ CaptureBreaks("cancelled")
    <3>1. pc' = "undo" /\ mode' \in {"failed", "cancelled"} /\ todo' = <<>>
      BY <2>3 DEF CaptureBreaks
    <3>2. UNCHANGED <<frames, restorationFailures, cur, errors, result, held, dirty,
                      abandoned>>
      BY <2>3 DEF CaptureBreaks
    <3>3. cur \in Frames
      BY <2>3 DEF CaptureBreaks
    <3>. QED BY <3>1, <3>2, <3>3
  <2>4. CASE UndoNext
    BY <2>4 DEF UndoNext
  <2>5. CASE RestoreCompletes \/ VerifyCompletes
    BY <2>5 DEF RestoreCompletes, VerifyCompletes
  <2>6. CASE UndoFails \/ UndoCancelled
    <3>1. Last(cur.captures) \in Participants
      BY <2>6, FrontLast DEF UndoFails, UndoCancelled, Frames
    <3>. QED BY <2>6, <3>1 DEF UndoFails, UndoCancelled
  <2>7. ASSUME NEW errs \in SUBSET Participants, AfterRelease(errs),
               held' \in SUBSET held
        PROVE  TypeOK'
    <3>1. Front(cur.captures) \in Seq(Participants)
      BY <2>7, FrontLast DEF AfterRelease, Frames
    <3>2. cur' \in Frames
      BY <2>7, <3>1 DEF AfterRelease, Frames
    <3>. QED BY <2>7, <3>2 DEF AfterRelease
  <2>8. CASE ReleaseCompletes
    BY <2>7, <2>8 DEF ReleaseCompletes
  <2>9. CASE ReleaseFails
    <3>1. Last(cur.captures) \in Participants
      BY <2>9, FrontLast DEF ReleaseFails, AfterRelease, Frames
    <3>. QED BY <2>7, <2>9, <3>1 DEF ReleaseFails
  <2>10. CASE AbandonUndo
    BY <2>10 DEF AbandonUndo, Frames
  <2>11. CASE UndoReturns
    <3>1. CASE mode = "restore_all" /\ frames # <<>>
      <4>1. Front(frames) \in Seq(Frames) /\ Top \in Frames
        BY <3>1, FrontLast DEF Top
      <4>. QED BY <2>11, <3>1, <4>1 DEF UndoReturns
    <3>2. CASE ~(mode = "restore_all" /\ frames # <<>>)
      <4> DEFINE how == IF mode \in {"failed", "cancelled"} THEN mode
                        ELSE IF errors = {} THEN "ok" ELSE "errors"
      <4>1. how \in {"failed", "cancelled", "ok", "errors"}
        OBVIOUS
      <4>2. Return(how) /\ UNCHANGED <<frames, held, dirty, abandoned>>
        BY <2>11, <3>2 DEF UndoReturns
      <4>3. restorationFailures' \subseteq Participants
        BY <2>11 DEF UndoReturns
      <4> HIDE DEF how
      <4>. QED BY <4>1, <4>2, <4>3
    <3>. QED BY <3>1, <3>2
  <2>. QED BY <1>4, <2>1, <2>2, <2>3, <2>4, <2>5, <2>6, <2>8, <2>9, <2>10, <2>11 DEF Step
<1>5. CASE UNCHANGED vars
  BY <1>5 DEF vars, callVars
<1>. QED BY <1>1, <1>2, <1>3, <1>4, <1>5 DEF Next

\* The variables keep the shapes baseline_lifecycle.py gives them, for every set
\* of participants, contexts and requests.
THEOREM TypeCorrect == Spec => []TypeOK
<1>1. Init => TypeOK
  BY DEF Init, TypeOK, NoFrame
<1>. QED BY <1>1, TypeStep, PTL DEF Spec

(***************************************************************************)
(* Nested                                                                  *)
(***************************************************************************)

\* What _validate_capture checked still holds at every await of the capture.
CaptureStillValid == pc = "capture" => ValidCapture(cur.scope, cur.context)

NestedInv == TypeOK /\ Nested /\ CaptureStillValid

\* Popping a frame keeps the rest nested.
LEMMA NestedPop ==
    ASSUME TypeOK, Nested, frames # <<>>, frames' = Front(frames)
    PROVE  Nested'
  BY FrontLast DEF Nested, TypeOK

\* Every step keeps the frames nested, the push at the end of a capture included.
LEMMA NestedStep == NestedInv /\ [Next]_vars => NestedInv'
<1> SUFFICES ASSUME NestedInv, [Next]_vars PROVE Nested' /\ CaptureStillValid'
    BY TypeStep DEF NestedInv
<1> USE DEF NestedInv
<1>1. CASE UNCHANGED <<frames, restorationFailures>> /\ pc' # "capture"
  BY <1>1 DEF Nested, CaptureStillValid
<1>2. CASE UNCHANGED <<frames, restorationFailures, pc, cur>>
  BY <1>2 DEF Nested, CaptureStillValid, ValidCapture, isHealthy, Top
<1>3. ASSUME NEW scope \in Scopes, NEW context \in Contexts,
             NEW ordered \in Requests, Capture(scope, context, ordered)
      PROVE  Nested' /\ CaptureStillValid'
  BY <1>3 DEF Capture, Nested, CaptureStillValid, ValidCapture, isHealthy, Top
<1>4. ASSUME NEW caller, StartRestore(caller)
      PROVE  Nested' /\ CaptureStillValid'
  BY <1>4, NestedPop DEF StartRestore, CaptureStillValid
<1>5. CASE CaptureCompletes
  <2>1. cur'.scope = cur.scope /\ cur'.context = cur.context
    BY <1>5 DEF CaptureCompletes, TypeOK, Frames
  <2>. QED
    BY <1>5, <2>1 DEF CaptureCompletes, Nested, CaptureStillValid, ValidCapture,
                      isHealthy, Top
<1>6. CASE PushFrame
  <2>1. /\ frames \in Seq(Frames) /\ cur \in Frames
        /\ ValidCapture(cur.scope, cur.context)
    BY <1>6 DEF PushFrame, TypeOK, CaptureStillValid
  <2>2. /\ Len(frames') = Len(frames) + 1
        /\ \A i \in 1..Len(frames) : frames'[i] = frames[i]
        /\ frames'[Len(frames) + 1] = cur
        /\ Len(frames) \in Nat
    BY <1>6, <2>1 DEF PushFrame
  <2>3. CASE cur.scope = "topology"
    <3>1. Len(frames) = 0 /\ cur.context.playbook_name = NoPlaybook
      BY <2>1, <2>3 DEF ValidCapture
    <3>. QED
      BY <1>6, <2>2, <2>3, <3>1 DEF Nested, CaptureStillValid, PushFrame, Return
  <2>4. CASE cur.scope = "playbook"
    <3>1. /\ frames # <<>> /\ frames[Len(frames)].scope = "topology"
          /\ cur.context.playbook_name # NoPlaybook
          /\ cur.context.test_config_name = frames[Len(frames)].context.test_config_name
          /\ cur.context.invocation_id = frames[Len(frames)].context.invocation_id
      BY <2>1, <2>4 DEF ValidCapture, Top, Last
    <3>2. Len(frames) \in Nat \ {0}
      BY <2>1, <3>1, FrontLast
    <3>3. Len(frames) <= 2 /\ (Len(frames) = 2 => frames[2].scope = "playbook")
      BY DEF Nested
    <3>5. Len(frames) # 2
      <4> SUFFICES ASSUME Len(frames) = 2 PROVE FALSE
          OBVIOUS
      <4>1. frames[2].scope = "topology"
        BY <3>1
      <4>. QED BY <3>3, <4>1
    <3>6. Len(frames) <= 2
      BY <3>3
    <3>4. Len(frames) = 1
      <4>1. \A n \in Nat \ {0} : n <= 2 /\ n # 2 => n = 1
        OBVIOUS
      <4>. QED BY <3>2, <3>5, <3>6, <4>1, Zenon
    <3>. QED
      BY <1>6, <2>2, <2>4, <3>1, <3>4 DEF Nested, CaptureStillValid, PushFrame, Return
  <2>. QED BY <2>1, <2>3, <2>4 DEF Frames, Scopes
<1>7. CASE UndoReturns
  <2>1. CASE frames' = Front(frames) /\ frames # <<>>
    BY <1>7, <2>1, NestedPop DEF UndoReturns, CaptureStillValid, Return
  <2>2. CASE UNCHANGED frames
    BY <1>7, <2>2 DEF UndoReturns, Nested, CaptureStillValid, Return
  <2>. QED BY <1>7, <2>1, <2>2 DEF UndoReturns
<1>8. CASE CaptureBreaks("failed") \/ CaptureBreaks("cancelled")
  BY <1>1, <1>8 DEF CaptureBreaks
<1>9. CASE UndoNext \/ RestoreCompletes \/ VerifyCompletes
  BY <1>1, <1>9 DEF UndoNext, RestoreCompletes, VerifyCompletes
<1>10. CASE UndoFails \/ UndoCancelled
  BY <1>1, <1>10 DEF UndoFails, UndoCancelled
<1>11. CASE ReleaseCompletes \/ ReleaseFails \/ AbandonUndo
  BY <1>1, <1>11 DEF ReleaseCompletes, ReleaseFails, AfterRelease, AbandonUndo, Return
<1>12. CASE UNCHANGED vars \/ \E p \in Participants : TestChanges(p)
  BY <1>2, <1>12 DEF vars, callVars, TestChanges
<1>13. CASE CaptureCall
  BY <1>2, <1>3, <1>13 DEF CaptureCall, RejectCapture
<1>14. CASE RestoreCall
  BY <1>2, <1>4, <1>14 DEF RestoreCall, RejectRestore, Restore, RestoreAll
<1>. QED
  BY <1>5, <1>6, <1>7, <1>8, <1>9, <1>10, <1>11, <1>12, <1>13, <1>14 DEF Next, Step

\* The frame stack is a topology baseline with at most one playbook baseline of
\* the same test config and invocation above it, whatever is called, fails or is
\* cancelled.
THEOREM NestedHolds == Spec => []Nested
<1>1. Init => NestedInv
  BY DEF Init, NestedInv, TypeOK, NoFrame, Nested, CaptureStillValid
<1>2. NestedInv => Nested
  BY DEF NestedInv
<1>. QED BY <1>1, <1>2, NestedStep, PTL DEF Spec

\* A recorded restoration failure is never forgotten and no frame is pushed after
\* it, although health is only looked at before the first await of a capture.
THEOREM FailureIsFinalHolds == Spec => FailureIsFinal
<1> DEFINE Final == /\ restorationFailures \subseteq restorationFailures'
                    /\ Len(frames') > Len(frames) => isHealthy
<1>1. ASSUME NestedInv, [Next]_vars PROVE [Final]_vars
  <2>1. CASE UNCHANGED <<frames, restorationFailures>>
    <3>1. frames \in Seq(Frames)
      BY <1>1 DEF NestedInv, TypeOK
    <3>2. ~(Len(frames') > Len(frames))
      BY <2>1, <3>1
    <3>. QED BY <2>1, <3>2
  <2>2. CASE PushFrame
    BY <1>1, <2>2 DEF PushFrame, NestedInv, CaptureStillValid, ValidCapture
  <2>3. ASSUME frames # <<>>, frames' = Front(frames) PROVE ~(Len(frames') > Len(frames))
    BY <1>1, <2>3, FrontLast DEF NestedInv, TypeOK
  <2>4. CASE UndoReturns
    <3>1. restorationFailures \subseteq restorationFailures'
      BY <2>4 DEF UndoReturns
    <3>2. CASE frames # <<>> /\ frames' = Front(frames)
      BY <2>3, <3>1, <3>2
    <3>3. CASE UNCHANGED frames
      <4>1. frames \in Seq(Frames)
        BY <1>1 DEF NestedInv, TypeOK
      <4>2. ~(Len(frames') > Len(frames))
        BY <3>3, <4>1
      <4>. QED BY <3>1, <4>2
    <3>. QED BY <2>4, <3>2, <3>3 DEF UndoReturns
  <2>5. ASSUME NEW caller, StartRestore(caller) PROVE Final
    BY <2>3, <2>5 DEF StartRestore
  <2>6. CASE UndoNext \/ RestoreCompletes \/ VerifyCompletes \/ UndoFails \/ UndoCancelled
    BY <2>1, <2>6 DEF UndoNext, RestoreCompletes, VerifyCompletes, UndoFails,
         UndoCancelled
  <2>7. CASE ReleaseCompletes \/ ReleaseFails \/ AbandonUndo
    BY <2>1, <2>7 DEF ReleaseCompletes, ReleaseFails, AfterRelease, AbandonUndo
  <2>8. CASE CaptureCompletes \/ CaptureBreaks("failed") \/ CaptureBreaks("cancelled")
    BY <2>1, <2>8 DEF CaptureCompletes, CaptureBreaks
  <2>9. CASE CaptureCall \/ \E p \in Participants : TestChanges(p)
    BY <2>1, <2>9 DEF CaptureCall, Capture, RejectCapture, TestChanges
  <2>10. CASE RestoreCall
    BY <2>1, <2>5, <2>10 DEF RestoreCall, RejectRestore, Restore, RestoreAll
  <2>11. CASE UNCHANGED vars
    BY <2>11
  <2>. QED BY <1>1, <2>2, <2>4, <2>6, <2>7, <2>8, <2>9, <2>10, <2>11 DEF Next, Step
<1>2. Init => NestedInv
  BY DEF Init, NestedInv, TypeOK, NoFrame, Nested, CaptureStillValid
<1>. QED BY <1>1, <1>2, NestedStep, PTL DEF Spec, FailureIsFinal

(***************************************************************************)
(* SafeToReuse                                                             *)
(***************************************************************************)

\* While a call runs, what it has yet to undo is its own.
InCall(s) == pc # "idle" /\ s \in SnapshotsOf(cur)

\* What the running call may leave behind: it has an error to report, or it is
\* releasing under a cancellation.
Excused(s) ==
    \/ s[2] \in abandoned
    \/ (pc = "release_cancelled" \/ errors # {}) /\ s[2] = cur.context

\* Until a failure is recorded, each snapshot held or changed is accounted for.
Accounted ==
    restorationFailures = {} =>
      \A s \in held \cup dirty : s \in Owned \/ InCall(s) \/ Excused(s)

\* Once restored, the snapshot being undone is not changed any more.
RestoredIsClean ==
    pc \in {"verify", "release"} /\ errors = {} => CurrentSnapshot \notin dirty

\* No call: no errors of one.
IdleHasNoErrors == pc \in {"idle", "capture"} => errors = {}

ReuseInv == TypeOK /\ Accounted /\ RestoredIsClean /\ IdleHasNoErrors

\* Popping a frame splits what the frames own.
LEMMA OwnedPop ==
    ASSUME TypeOK, frames # <<>>, frames' = Front(frames)
    PROVE  \A s : s \in Owned => s \in Owned' \/ s \in SnapshotsOf(Top)
<1> SUFFICES ASSUME NEW s \in Owned PROVE s \in Owned' \/ s \in SnapshotsOf(Top)
    OBVIOUS
<1>1. PICK i \in DOMAIN frames : s \in SnapshotsOf(frames[i])
  BY DEF Owned
<1>2. /\ Len(frames') = Len(frames) - 1
      /\ \A j \in 1..(Len(frames) - 1) : frames'[j] = frames[j]
      /\ Top = frames[Len(frames)]
      /\ Len(frames) \in Nat \ {0}
      /\ frames' \in Seq(Frames) /\ frames \in Seq(Frames)
  BY FrontLast DEF TypeOK, Top
<1>3. CASE i = Len(frames)
  BY <1>1, <1>2, <1>3
<1>4. CASE i # Len(frames)
  <2>1. i \in DOMAIN frames' /\ frames'[i] = frames[i]
    BY <1>1, <1>2, <1>4
  <2>2. s \in SnapshotsOf(frames'[i])
    BY <1>1, <2>1
  <2>. QED BY <2>1, <2>2 DEF Owned
<1>. QED BY <1>3, <1>4

\* Pushing the current frame adds its snapshots to what the frames own.
LEMMA OwnedPush ==
    ASSUME frames \in Seq(Frames), cur \in Frames, frames' = Append(frames, cur)
    PROVE  \A s : s \in Owned \/ s \in SnapshotsOf(cur) => s \in Owned'
<1>1. /\ DOMAIN frames = 1..Len(frames) /\ Len(frames) \in Nat
      /\ DOMAIN frames' = 1..(Len(frames) + 1)
      /\ \A i \in 1..Len(frames) : frames'[i] = frames[i]
      /\ frames'[Len(frames) + 1] = cur
  OBVIOUS
<1>2. ASSUME NEW s, s \in Owned PROVE s \in Owned'
  <2>1. PICK i \in DOMAIN frames : s \in SnapshotsOf(frames[i])
    BY <1>2 DEF Owned
  <2>2. i \in DOMAIN frames' /\ s \in SnapshotsOf(frames'[i])
    BY <1>1, <2>1
  <2>. QED BY <2>2 DEF Owned
<1>3. ASSUME NEW s, s \in SnapshotsOf(cur) PROVE s \in Owned'
  <2>1. Len(frames) + 1 \in DOMAIN frames'
    BY <1>1
  <2>. QED BY <1>1, <1>3, <2>1 DEF Owned
<1>. QED BY <1>2, <1>3

\* A frame's snapshots are of its context.
LEMMA SnapshotContext ==
    ASSUME NEW f, NEW s \in SnapshotsOf(f) PROVE s[2] = f.context
  BY DEF SnapshotsOf

\* Every step keeps the accounts of ReuseInv.
LEMMA ReuseStep == ReuseInv /\ [Next]_vars => ReuseInv'
<1> SUFFICES ASSUME ReuseInv, [Next]_vars
             PROVE  Accounted' /\ RestoredIsClean' /\ IdleHasNoErrors'
    BY TypeStep DEF ReuseInv
<1> USE DEF ReuseInv
<1>t. TypeOK /\ TypeOK'
  BY TypeStep
<1>1. CASE UNCHANGED <<frames, restorationFailures, pc, cur, errors, held, dirty, abandoned>>
  BY <1>1 DEF Accounted, RestoredIsClean, IdleHasNoErrors, InCall, Excused, Owned,
              CurrentSnapshot
<1>2. ASSUME NEW p \in Participants, TestChanges(p)
      PROVE  Accounted' /\ RestoredIsClean' /\ IdleHasNoErrors'
  BY <1>2 DEF TestChanges, callVars, Accounted, RestoredIsClean, IdleHasNoErrors,
              InCall, Excused, Owned
<1>3. ASSUME NEW scope \in Scopes, NEW context \in Contexts,
             NEW ordered \in Requests, Capture(scope, context, ordered)
      PROVE  Accounted' /\ RestoredIsClean' /\ IdleHasNoErrors'
  BY <1>3 DEF Capture, Accounted, RestoredIsClean, IdleHasNoErrors, InCall,
       Excused, Owned
<1>4. ASSUME NEW caller, StartRestore(caller)
      PROVE  Accounted' /\ RestoredIsClean' /\ IdleHasNoErrors'
  BY <1>4, OwnedPop DEF StartRestore, Accounted, RestoredIsClean, IdleHasNoErrors,
                        InCall, Excused
<1>5. CASE CaptureCompletes
  <2>1. SnapshotsOf(cur') = SnapshotsOf(cur) \cup {<<Head(todo), cur.context>>}
    <3>1. /\ cur.captures \in Seq(Participants)
          /\ cur'.captures = Append(cur.captures, Head(todo))
          /\ cur'.context = cur.context
      BY <1>5, <1>t DEF CaptureCompletes, TypeOK, Frames
    <3>2. /\ DOMAIN cur.captures = 1..Len(cur.captures) /\ Len(cur.captures) \in Nat
          /\ DOMAIN cur'.captures = 1..(Len(cur.captures) + 1)
          /\ \A i \in 1..Len(cur.captures) : cur'.captures[i] = cur.captures[i]
          /\ cur'.captures[Len(cur.captures) + 1] = Head(todo)
      BY <3>1
    <3>. QED BY <3>1, <3>2 DEF SnapshotsOf
  <2>. QED BY <1>5, <2>1 DEF CaptureCompletes, Accounted, RestoredIsClean,
                             IdleHasNoErrors, InCall, Excused, Owned
<1>6. CASE PushFrame
  <2>1. \A s : s \in Owned \/ s \in SnapshotsOf(cur) => s \in Owned'
    BY <1>6, <1>t, OwnedPush DEF PushFrame, TypeOK
  <2>. QED BY <1>6, <2>1 DEF PushFrame, Return, Accounted, RestoredIsClean,
                             IdleHasNoErrors, InCall, Excused
<1>7. CASE CaptureBreaks("failed") \/ CaptureBreaks("cancelled")
  BY <1>7 DEF CaptureBreaks, Accounted, RestoredIsClean, IdleHasNoErrors, InCall,
              Excused, Owned
<1>8. CASE UndoNext \/ RestoreCompletes \/ VerifyCompletes
  BY <1>8 DEF UndoNext, RestoreCompletes, VerifyCompletes, Accounted, RestoredIsClean,
              IdleHasNoErrors, InCall, Excused, Owned, CurrentSnapshot
<1>9. CASE UndoFails \/ UndoCancelled
  BY <1>9 DEF UndoFails, UndoCancelled, Accounted, RestoredIsClean, IdleHasNoErrors,
              InCall, Excused, Owned, CurrentSnapshot
<1>10. CASE ReleaseCompletes \/ ReleaseFails
  <2>1. SnapshotsOf(cur) = SnapshotsOf(cur') \cup {CurrentSnapshot}
    <3>1. /\ cur.captures \in Seq(Participants) /\ cur.captures # <<>>
          /\ cur'.captures = Front(cur.captures)
          /\ cur'.context = cur.context
      BY <1>10, <1>t DEF ReleaseCompletes, ReleaseFails, AfterRelease, TypeOK, Frames
    <3>2. /\ Len(cur'.captures) = Len(cur.captures) - 1
          /\ \A i \in 1..(Len(cur.captures) - 1) : cur'.captures[i] = cur.captures[i]
          /\ Last(cur.captures) = cur.captures[Len(cur.captures)]
          /\ Len(cur.captures) \in Nat \ {0}
          /\ cur'.captures \in Seq(Participants)
      BY <3>1, FrontLast
    <3>3. /\ DOMAIN cur.captures = 1..Len(cur.captures)
          /\ DOMAIN cur'.captures = 1..(Len(cur.captures) - 1)
      BY <3>1, <3>2
    <3> DEFINE n == Len(cur.captures)
               Snap(i) == <<cur.captures[i], cur.context>>
    <3>4. SnapshotsOf(cur) = {Snap(i) : i \in 1..n}
      BY <3>3, Zenon DEF SnapshotsOf
    <3>5. SnapshotsOf(cur') = {Snap(i) : i \in 1..(n - 1)}
      <4>1. \A i \in 1..(n - 1) : <<cur'.captures[i], cur'.context>> = Snap(i)
        BY <3>1, <3>2
      <4>2. SnapshotsOf(cur') = {<<cur'.captures[i], cur'.context>> : i \in 1..(n - 1)}
        BY <3>3, Zenon DEF SnapshotsOf
      <4>. QED BY <4>1, <4>2, Zenon
    <3>6. 1..n = 1..(n - 1) \cup {n}
      BY <3>2
    <3>7. CurrentSnapshot = Snap(n)
      BY <3>2, Zenon DEF CurrentSnapshot
    <3> HIDE DEF n, Snap
    <3>. QED BY <3>4, <3>5, <3>6, <3>7, Zenon
  <2>2. CASE ReleaseCompletes
    <3>1. CurrentSnapshot[2] = cur'.context /\ cur'.context = cur.context
      BY <1>t, <2>2 DEF ReleaseCompletes, AfterRelease, CurrentSnapshot, TypeOK, Frames
    <3>. QED BY <2>1, <2>2, <3>1 DEF ReleaseCompletes, AfterRelease, Accounted, RestoredIsClean,
                      IdleHasNoErrors, InCall, Excused, Owned
  <2>3. CASE ReleaseFails
    <3>1. CurrentSnapshot[2] = cur'.context /\ cur'.context = cur.context
      BY <1>t, <2>3 DEF ReleaseFails, AfterRelease, CurrentSnapshot, TypeOK, Frames
    <3>. QED BY <2>1, <2>3, <3>1 DEF ReleaseFails, AfterRelease, Accounted,
                 RestoredIsClean, IdleHasNoErrors, InCall, Excused, Owned
  <2>. QED BY <1>10, <2>2, <2>3
<1>11. CASE AbandonUndo
  BY <1>11, SnapshotContext DEF AbandonUndo, Return, Accounted, RestoredIsClean,
                                IdleHasNoErrors, InCall, Excused, Owned
<1>12. CASE UndoReturns
  <2>1. SnapshotsOf(cur) = {}
    BY <1>12 DEF UndoReturns, SnapshotsOf
  <2>2. restorationFailures' = {} => restorationFailures = {} /\ errors = {}
    BY <1>12 DEF UndoReturns
  <2>3. pc = "undo" /\ UNCHANGED <<held, dirty, abandoned>>
    BY <1>12 DEF UndoReturns
  <2>4. CASE frames' = Front(frames) /\ frames # <<>> /\ cur' = Top /\ pc' = pc
    BY <2>1, <2>2, <2>3, <2>4, OwnedPop
       DEF Accounted, RestoredIsClean, IdleHasNoErrors, InCall, Excused
  <2>5. CASE frames' = frames /\ pc' = "idle" /\ errors' = {}
    BY <2>1, <2>2, <2>3, <2>5
       DEF Accounted, RestoredIsClean, IdleHasNoErrors, InCall, Excused, Owned
  <2>. QED BY <1>12, <2>4, <2>5 DEF UndoReturns, Return
<1>13. CASE UNCHANGED vars
  BY <1>1, <1>13 DEF vars, callVars
<1>14. CASE CaptureCall
  BY <1>1, <1>3, <1>14 DEF CaptureCall, RejectCapture
<1>15. CASE RestoreCall
  BY <1>1, <1>4, <1>15 DEF RestoreCall, RejectRestore, Restore, RestoreAll
<1>. QED
  BY <1>2, <1>5, <1>6, <1>7, <1>8, <1>9, <1>10, <1>11, <1>12, <1>13, <1>14, <1>15
     DEF Next, Step

\* Between calls, a healthy lifecycle accounts for every snapshot held and every
\* captured state changed: an active frame will restore it, or a cancellation cut
\* its undo short.
THEOREM SafeToReuseHolds == Spec => []SafeToReuse
<1>1. Init => ReuseInv
  <2>1. Init => TypeOK
    BY DEF Init, TypeOK, NoFrame
  <2>. QED BY <2>1 DEF Init, ReuseInv, Accounted, RestoredIsClean, IdleHasNoErrors
<1>2. ReuseInv => SafeToReuse
  BY DEF ReuseInv, Accounted, IdleHasNoErrors, InCall, Excused, SafeToReuse, isHealthy
<1>. QED BY <1>1, <1>2, ReuseStep, PTL DEF Spec
(***************************************************************************)
(* BaselineLifecycle implements BaselineContract                           *)
(***************************************************************************)

\* Why captures are being undone is set while they are, and only then.
ModeInv ==
    /\ pc \in {"idle", "capture"} => mode = "none"
    /\ pc \notin {"idle", "capture"} => mode # "none"

ContractInv == NestedInv /\ ModeInv

\* A sequence is the function of its elements.
LEMMA SeqIsFunction ==
    ASSUME NEW S, NEW s \in Seq(S)
    PROVE  s = [i \in 1..Len(s) |-> s[i]]
  OBVIOUS

\* The outline of the frames is a sequence of as many baselines.
LEMMA OutlineType ==
    ASSUME NEW fs \in Seq(Frames)
    PROVE  /\ Outline(fs) \in Seq([scope : Scopes, context : Contexts])
           /\ Len(Outline(fs)) = Len(fs)
<1>1. \A i \in 1..Len(fs) : fs[i] \in Frames
  OBVIOUS
<1>2. \A f \in Frames : Baseline(f) \in [scope : Scopes, context : Contexts]
  BY DEF Baseline, Frames
<1>3. Outline(fs) = [i \in 1..Len(fs) |-> Baseline(fs[i])]
  BY DEF Outline
<1>4. Outline(fs) \in [1..Len(fs) -> [scope : Scopes, context : Contexts]]
  BY <1>1, <1>2, <1>3
<1>5. Len(fs) \in Nat
  OBVIOUS
<1>6. \A T, g, n : n \in Nat /\ g \in [1..n -> T] => g \in Seq(T) /\ Len(g) = n
  OBVIOUS
<1>. QED BY <1>4, <1>5, <1>6, Zenon

\* The outline of the frames grows and shrinks with them.
LEMMA OutlineAppend ==
    ASSUME NEW fs \in Seq(Frames), NEW f \in Frames
    PROVE  Outline(Append(fs, f)) = Append(Outline(fs), Baseline(f))
<1> DEFINE B == [scope : Scopes, context : Contexts]
<1>1. Outline(fs) \in Seq(B) /\ Len(Outline(fs)) = Len(fs)
  BY OutlineType
<1>2. DOMAIN Outline(fs) = 1..Len(fs)
  BY DEF Outline
<1>3. DOMAIN Append(fs, f) = 1..(Len(fs) + 1)
  OBVIOUS
<1>4. DOMAIN Outline(Append(fs, f)) = 1..(Len(fs) + 1)
  BY <1>3 DEF Outline
<1>5. DOMAIN Append(Outline(fs), Baseline(f)) = 1..(Len(fs) + 1)
  BY <1>1
<1>6. ASSUME NEW i \in 1..(Len(fs) + 1)
      PROVE  Outline(Append(fs, f))[i] = Append(Outline(fs), Baseline(f))[i]
  <2>1. Outline(Append(fs, f))[i] = Baseline(Append(fs, f)[i])
    BY <1>3 DEF Outline
  <2>2. CASE i = Len(fs) + 1
    BY <1>1, <2>1, <2>2
  <2>3. CASE i # Len(fs) + 1
    <3>1. i \in 1..Len(fs)
      BY <2>3
    <3>2. Append(fs, f)[i] = fs[i] /\ Append(Outline(fs), Baseline(f))[i] = Outline(fs)[i]
      BY <1>1, <3>1
    <3>3. Outline(fs)[i] = Baseline(fs[i])
      BY <3>1 DEF Outline
    <3>. QED BY <2>1, <3>2, <3>3
  <2>. QED BY <2>2, <2>3
<1>7. Append(Outline(fs), Baseline(f)) = [i \in 1..(Len(fs) + 1) |-> Append(Outline(fs), Baseline(f))[i]]
  <2>1. Baseline(f) \in B
    BY DEF Baseline, Frames
  <2>2. Append(Outline(fs), Baseline(f)) \in Seq(B)
    BY <1>1, <2>1
  <2>3. Len(Append(Outline(fs), Baseline(f))) = Len(fs) + 1
    BY <1>1
  <2> HIDE DEF B
  <2>. QED BY <2>2, <2>3, SeqIsFunction
<1>8. Outline(Append(fs, f)) = [i \in 1..(Len(fs) + 1) |-> Outline(Append(fs, f))[i]]
  BY <1>4 DEF Outline
<1>. QED BY <1>6, <1>7, <1>8

\* What an outline is without its last frame.
LEMMA OutlineFront ==
    ASSUME NEW fs \in Seq(Frames), fs # <<>>
    PROVE  /\ Outline(fs) # <<>>
           /\ Outline(Front(fs)) = Front(Outline(fs))
           /\ Last(Outline(fs)) = Baseline(Last(fs))
<1> DEFINE B == [scope : Scopes, context : Contexts]
<1>1. Outline(fs) \in Seq(B) /\ Len(Outline(fs)) = Len(fs)
  BY OutlineType
<1>2. Len(fs) \in Nat \ {0}
  BY FrontLast
<1>3. Outline(fs) # <<>>
  BY <1>1, <1>2
<1>4. Front(fs) = [i \in 1..(Len(fs) - 1) |-> fs[i]]
  BY <1>2 DEF Front
<1>5. Front(Outline(fs)) = [i \in 1..(Len(fs) - 1) |-> Outline(fs)[i]]
  BY <1>1, <1>2 DEF Front
<1>6. \A i \in 1..Len(fs) : Outline(fs)[i] = Baseline(fs[i])
  BY DEF Outline
<1>7. Outline(Front(fs)) = [i \in 1..(Len(fs) - 1) |-> Baseline(fs[i])]
  BY <1>4 DEF Outline
<1>8. \A i \in 1..(Len(fs) - 1) : Outline(fs)[i] = Baseline(fs[i])
  BY <1>2, <1>6
<1>9. Last(Outline(fs)) = Baseline(Last(fs))
  BY <1>1, <1>2, <1>6 DEF Last
<1>. QED BY <1>3, <1>5, <1>7, <1>8, <1>9
\* Every step keeps ModeInv.
LEMMA ModeStep == ContractInv /\ [Next]_vars => ModeInv'
<1> SUFFICES ASSUME ContractInv, [Next]_vars PROVE ModeInv'
    OBVIOUS
<1> USE DEF ContractInv, ModeInv
<1>1. CASE UNCHANGED <<pc, mode>>
  BY <1>1
<1>2. ASSUME NEW how, Return(how) PROVE ModeInv'
  BY <1>2 DEF Return
<1>3. CASE UNCHANGED mode /\ pc \notin {"idle", "capture"} /\ pc' \notin {"idle", "capture"}
  BY <1>3
<1>4. CASE CaptureCompletes \/ UNCHANGED vars \/ \E p \in Participants : TestChanges(p)
  BY <1>1, <1>4 DEF CaptureCompletes, vars, callVars, TestChanges
<1>5. CASE PushFrame \/ AbandonUndo
  BY <1>2, <1>5 DEF PushFrame, AbandonUndo
<1>6. CASE CaptureBreaks("failed") \/ CaptureBreaks("cancelled")
  BY <1>6 DEF CaptureBreaks
<1>7. CASE UndoNext \/ RestoreCompletes \/ VerifyCompletes \/ UndoFails \/ UndoCancelled
  BY <1>3, <1>7 DEF UndoNext, RestoreCompletes, VerifyCompletes, UndoFails,
       UndoCancelled
<1>8. CASE ReleaseCompletes \/ ReleaseFails
  BY <1>3, <1>8 DEF ReleaseCompletes, ReleaseFails, AfterRelease
<1>9. CASE UndoReturns
  BY <1>1, <1>2, <1>9 DEF UndoReturns
<1>10. CASE CaptureCall
  BY <1>1, <1>10 DEF CaptureCall, Capture, RejectCapture
<1>11. CASE RestoreCall
  BY <1>1, <1>11 DEF RestoreCall, RejectRestore, Restore, RestoreAll, StartRestore
<1>. QED
  BY <1>4, <1>5, <1>6, <1>7, <1>8, <1>9, <1>10, <1>11 DEF Next, Step

\* Every step of the lifecycle is a step of its contract or changes nothing the
\* contract speaks of.
LEMMA ContractStep ==
    ASSUME ContractInv, [Next]_vars
    PROVE  [Contract!Next]_(Contract!vars)
<1> USE DEF ContractInv
<1>0. frames \in Seq(Frames)
  BY DEF NestedInv, TypeOK
<1>a. \A s : Contract!Front(s) = Front(s) /\ Contract!Last(s) = Last(s)
  BY DEF Contract!Front, Front, Contract!Last, Last
<1>1. ASSUME UNCHANGED <<frames, restorationFailures, mode, result>>,
             pc # "idle", pc' # "idle"
      PROVE  UNCHANGED Contract!vars
  BY <1>1 DEF Contract!vars, isHealthy
<1>2. CASE UNCHANGED vars \/ \E p \in Participants : TestChanges(p)
  <2>1. UNCHANGED <<frames, restorationFailures, pc, mode, result>>
    BY <1>2 DEF vars, callVars, TestChanges
  <2>. QED BY <2>1 DEF Contract!vars, isHealthy
<1>3. CASE CaptureCompletes
  BY <1>1, <1>3 DEF CaptureCompletes
<1>4. CASE UndoNext \/ RestoreCompletes \/ VerifyCompletes \/ UndoFails \/ UndoCancelled
  BY <1>1, <1>4 DEF UndoNext, RestoreCompletes, VerifyCompletes, UndoFails,
       UndoCancelled
<1>5. CASE ReleaseCompletes \/ ReleaseFails
  BY <1>1, <1>5 DEF ReleaseCompletes, ReleaseFails, AfterRelease
<1>6. CASE CaptureBreaks("failed") \/ CaptureBreaks("cancelled")
  BY <1>6 DEF CaptureBreaks, ModeInv, Contract!vars, isHealthy
<1>7. CASE PushFrame
  <2>1. /\ cur \in Frames
        /\ ValidCapture(cur.scope, cur.context)
        /\ mode = "none"
    BY <1>7 DEF PushFrame, NestedInv, TypeOK, CaptureStillValid, ModeInv
  <2>2. Outline(frames') = Append(Outline(frames), Baseline(cur))
    BY <1>0, <1>7, <2>1, OutlineAppend DEF PushFrame
  <2>3. Baseline(cur) \in Contract!Baselines
    BY <2>1 DEF Baseline, Contract!Baselines, Frames, Scopes
  <2>4. Contract!Fits(Baseline(cur))
    <3>1. CASE cur.scope = "topology"
      <4>1. Outline(frames) = <<>>
        BY <2>1, <3>1 DEF ValidCapture, Outline
      <4>. QED BY <2>1, <3>1, <4>1 DEF ValidCapture, Contract!Fits, Baseline
    <3>2. CASE cur.scope = "playbook"
      <4>1. frames # <<>> /\ Top.scope = "topology"
        BY <2>1, <3>2 DEF ValidCapture
      <4>2. Outline(frames) # <<>> /\ Last(Outline(frames)) = Baseline(Top)
        BY <1>0, <4>1, OutlineFront DEF Top
      <4>3. /\ Last(Outline(frames)).scope = "topology"
            /\ Last(Outline(frames)).context = Top.context
            /\ Baseline(cur).scope = "playbook"
            /\ Baseline(cur).context = cur.context
        BY <3>2, <4>1, <4>2 DEF Baseline
      <4>4. /\ cur.context.playbook_name # NoPlaybook
            /\ Top.context.test_config_name = cur.context.test_config_name
            /\ Top.context.invocation_id = cur.context.invocation_id
        BY <2>1, <3>2 DEF ValidCapture
      <4>. QED BY ONLY <1>a, <4>2, <4>3, <4>4 DEF Contract!Fits
    <3>. QED BY <2>1, <3>1, <3>2 DEF Frames, Scopes
  <2>5. Contract!CaptureSucceeds
    BY <1>7, <2>1, <2>2, <2>3, <2>4
       DEF Contract!CaptureSucceeds, PushFrame, Return, ValidCapture, isHealthy
  <2>. QED BY <2>5 DEF Contract!Next, Contract!CallEnds
<1>8. CASE AbandonUndo
  <2>1. mode \in {"failed", "cancelled", "restore", "restore_all"}
    BY <1>8 DEF AbandonUndo, ModeInv, NestedInv, TypeOK
  <2>2. Contract!CaptureFails \/ Contract!RestoreCancelled
    BY <1>8, <2>1 DEF AbandonUndo, Return, isHealthy, Contract!CaptureFails,
                      Contract!RestoreCancelled, Contract!MayPoison
  <2>. QED BY <2>2 DEF Contract!Next, Contract!CallEnds
<1>9. CASE UndoReturns
  <2>1. /\ mode \in {"failed", "cancelled", "restore", "restore_all"}
        /\ pc = "undo"
        /\ restorationFailures' = restorationFailures \cup errors
    BY <1>9 DEF UndoReturns, ModeInv, NestedInv, TypeOK
  <2>2. CASE mode = "restore_all" /\ frames # <<>>
    <3>1. /\ Outline(frames) # <<>>
          /\ Outline(frames') = Front(Outline(frames))
      BY <1>0, <1>9, <2>2, OutlineFront DEF UndoReturns
    <3>2. Contract!RestoreNext
      <4>1. pc' = "undo" /\ UNCHANGED <<pc, mode, result>>
        BY <1>9, <2>1, <2>2 DEF UndoReturns
      <4>2. restorationFailures' = {} => restorationFailures = {}
        BY <2>1
      <4>. QED BY <1>a, <2>1, <2>2, <3>1, <4>1, <4>2
                DEF isHealthy, Contract!RestoreNext, Contract!MayPoison
    <3>. QED BY <3>2 DEF Contract!Next
  <2>3. CASE ~(mode = "restore_all" /\ frames # <<>>)
    <3>1. /\ Return(IF mode \in {"failed", "cancelled"} THEN mode
                    ELSE IF errors = {} THEN "ok" ELSE "errors")
          /\ UNCHANGED frames
      BY <1>9, <2>3 DEF UndoReturns
    <3>2. CASE mode \in {"failed", "cancelled"}
      <4>1. Contract!CaptureFails
        BY <2>1, <3>1, <3>2
           DEF Return, isHealthy, Contract!CaptureFails, Contract!MayPoison
      <4>. QED BY <4>1 DEF Contract!Next, Contract!CallEnds
    <3>3. CASE mode \in {"restore", "restore_all"}
      <4>1. mode = "restore_all" => Outline(frames) = <<>>
        BY <2>3 DEF Outline
      <4>2. CASE errors = {}
        BY <2>1, <3>1, <3>3, <4>1, <4>2
           DEF Return, isHealthy, Contract!RestoreEnds, Contract!Next, Contract!CallEnds
      <4>3. CASE errors # {}
        <5>1. restorationFailures' # {}
          BY <2>1, <4>3
        <5>. QED
          BY <2>1, <3>1, <3>3, <4>1, <4>3, <5>1
             DEF Return, isHealthy, Contract!RestoreEnds, Contract!Next, Contract!CallEnds
      <4>. QED BY <4>2, <4>3
    <3>. QED BY <2>1, <3>2, <3>3
  <2>. QED BY <2>2, <2>3
<1>10. ASSUME NEW scope \in Scopes, NEW context \in Contexts, NEW ordered \in Requests,
              Capture(scope, context, ordered)
       PROVE  Contract!CallCapture
  BY <1>10 DEF Capture, ValidCapture, ModeInv, isHealthy, Contract!CallCapture
<1>11. ASSUME NEW caller \in {"restore", "restore_all"}, StartRestore(caller)
       PROVE  Contract!CallRestore
  <2>1. /\ Outline(frames) # <<>>
        /\ Outline(frames') = Front(Outline(frames))
    BY <1>0, <1>11, OutlineFront DEF StartRestore
  <2>2. /\ pc = "idle" /\ pc' = "undo" /\ mode' = caller
        /\ result' = "none" /\ UNCHANGED restorationFailures
    BY <1>11 DEF StartRestore
  <2>3. mode' \in {"restore", "restore_all"}
    BY <2>2
  <2>. QED BY <1>a, <2>1, <2>2, <2>3 DEF isHealthy, Contract!CallRestore
<1>12. ASSUME UNCHANGED <<frames, restorationFailures, pc, mode>>, pc = "idle",
              result' \in {"ok", "rejected"}
       PROVE  Contract!Refuse
  BY <1>12 DEF isHealthy, Contract!Refuse
<1>13. CASE CaptureCall
  BY <1>10, <1>12, <1>13 DEF CaptureCall, RejectCapture, Contract!Next
<1>14. CASE RestoreCall
  BY <1>11, <1>12, <1>14
     DEF RestoreCall, RejectRestore, Restore, RestoreAll, Contract!Next
<1>. QED
  BY <1>2, <1>3, <1>4, <1>5, <1>6, <1>7, <1>8, <1>9, <1>13, <1>14 DEF Next, Step

\* The lifecycle implements its contract, for any participants, contexts and
\* requests: whatever fails inside a call, its caller sees a capture add one
\* baseline or none, restorations take them off from the inside, and what was left
\* unrestored and not cancelled poison the lifecycle for good.
THEOREM ContractKept == Spec => Contract!Safety
<1>1. Init => ContractInv
  BY DEF Init, ContractInv, ModeInv, NestedInv, TypeOK, NoFrame, Nested,
       CaptureStillValid
<1>2. Init => Contract!Init
  BY DEF Init, Contract!Init, Outline, isHealthy
<1>3. ContractInv /\ [Next]_vars => ContractInv'
  BY NestedStep, ModeStep DEF ContractInv
<1>. QED BY <1>1, <1>2, <1>3, ContractStep, PTL DEF Spec, Contract!Safety
=============================================================================
