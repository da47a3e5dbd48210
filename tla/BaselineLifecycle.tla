------------------------- MODULE BaselineLifecycle -------------------------
(***************************************************************************)
(* The nested restoration boundaries of src/taac/libs/baseline_lifecycle.py *)
(*                                                                         *)
(* A BaselineLifecycle owns a stack of frames.  capture() asks every       *)
(* participant for a snapshot and pushes a frame; restore() pops the frame *)
(* and, in reverse order, restores, verifies and releases each snapshot;   *)
(* a capture that fails or is cancelled is rolled back the same way.       *)
(* restore_all() restores until no frame is left.                          *)
(*                                                                         *)
(* One coroutine at a time is inside the lifecycle.  Every await of a      *)
(* participant's method ends in one of three ways: it completes, it fails  *)
(* (an Exception, the deadline of _run included), or asyncio.CancelledError *)
(* is delivered at it.                                                     *)
(***************************************************************************)
EXTENDS Naturals, SequencesExt

CONSTANTS
    Participants,   \* the participants' names
    TestConfigs,    \* values of BaselineContext.test_config_name
    Invocations,    \* values of BaselineContext.invocation_id
    Playbooks,      \* values of BaselineContext.playbook_name
    NoPlaybook,     \* playbook_name is None
    Requests        \* the participant tuples callers pass to capture()

ASSUME RequestsAssumption == Requests \subseteq Seq(Participants)
ASSUME NoPlaybookAssumption == NoPlaybook \notin Playbooks

VARIABLES
    frames,               \* self._frames: the stack of active baselines
    restorationFailures,  \* self._restoration_failures: whose operation failed
    pc,                   \* the await the running coroutine is at
    mode,                 \* why captures are being undone
    cur,                  \* the frame being captured or undone
    todo,                 \* participants not yet captured
    errors,               \* errors of _restore_captures, restore and restore_all
    result,               \* how the last call ended
    held,                 \* external: snapshots participants still hold
    dirty,                \* external: snapshots whose state has since changed
    abandoned             \* history: contexts whose undo a CancelledError cut short

callVars == <<pc, mode, cur, todo, errors, result>>
vars == <<frames, restorationFailures, callVars, held, dirty, abandoned>>

Scopes == {"topology", "playbook"}

Contexts == [test_config_name : TestConfigs,
             invocation_id    : Invocations,
             playbook_name    : Playbooks \cup {NoPlaybook}]

Frames == [scope : Scopes, context : Contexts, captures : Seq(Participants)]

\* No call is running.
NoFrame == [captures |-> <<>>]

\* A snapshot is known by the participant that took it and the context it is for.
Snapshots == Participants \X Contexts

SnapshotsOf(f) == {<<f.captures[i], f.context>> : i \in DOMAIN f.captures}

Top == Last(frames)

\* The snapshot _restore_captures is working on: the last one left.
CurrentSnapshot == <<Last(cur.captures), cur.context>>

isHealthy == restorationFailures = {}

\* A call ends; the coroutine's locals are gone.
Return(how) ==
    /\ pc' = "idle"
    /\ mode' = "none"
    /\ cur' = NoFrame
    /\ todo' = <<>>
    /\ errors' = {}
    /\ result' = how

(***************************************************************************)
(* capture()                                                               *)
(***************************************************************************)

\* Mutant of ValidCapture: a topology baseline is taken over an active one.
MutantAnyRoot(scope, context) ==
    /\ isHealthy
    /\ scope = "topology" => context.playbook_name = NoPlaybook
    /\ scope = "playbook" =>
         /\ context.playbook_name # NoPlaybook
         /\ frames # <<>>
         /\ Top.scope = "topology"
         /\ context.test_config_name = Top.context.test_config_name
         /\ context.invocation_id = Top.context.invocation_id

\* Mutant of ValidCapture: the health of the lifecycle is not looked at.
MutantUnhealthyCapture(scope, context) ==
    /\ scope = "topology" => /\ frames = <<>>
                             /\ context.playbook_name = NoPlaybook
    /\ scope = "playbook" =>
         /\ context.playbook_name # NoPlaybook
         /\ frames # <<>>
         /\ Top.scope = "topology"
         /\ context.test_config_name = Top.context.test_config_name
         /\ context.invocation_id = Top.context.invocation_id

\* _validate_capture: what must hold for a capture to start.
ValidCapture(scope, context) ==
    /\ isHealthy
    /\ scope = "topology" => /\ frames = <<>>
                             /\ context.playbook_name = NoPlaybook
    /\ scope = "playbook" =>
         /\ context.playbook_name # NoPlaybook
         /\ frames # <<>>
         /\ Top.scope = "topology"
         /\ context.test_config_name = Top.context.test_config_name
         /\ context.invocation_id = Top.context.invocation_id

\* _validate_participants: no name twice.
ValidParticipants(ordered) ==
    \A i, j \in DOMAIN ordered : ordered[i] = ordered[j] => i = j

Capture(scope, context, ordered) ==
    /\ pc = "idle"
    /\ ValidCapture(scope, context)
    /\ ValidParticipants(ordered)
    /\ pc' = "capture"
    /\ cur' = [scope |-> scope, context |-> context, captures |-> <<>>]
    /\ todo' = ordered
    /\ result' = "none"
    /\ UNCHANGED <<frames, restorationFailures, mode, errors, held, dirty,
                   abandoned>>

RejectCapture(scope, context, ordered) ==
    /\ pc = "idle"
    /\ ~(ValidCapture(scope, context) /\ ValidParticipants(ordered))
    /\ result' = "rejected"
    /\ UNCHANGED <<frames, restorationFailures, pc, mode, cur, todo, errors,
                   held, dirty, abandoned>>

CaptureCompletes ==
    /\ pc = "capture"
    /\ todo # <<>>
    /\ cur' = [cur EXCEPT !.captures = Append(@, Head(todo))]
    /\ todo' = Tail(todo)
    /\ held' = held \cup {<<Head(todo), cur.context>>}
    /\ dirty' = dirty \ {<<Head(todo), cur.context>>}
    /\ UNCHANGED <<frames, restorationFailures, pc, mode, errors, result,
                   abandoned>>

\* All participants are captured: the frame is pushed.
PushFrame ==
    /\ pc = "capture"
    /\ todo = <<>>
    /\ frames' = Append(frames, cur)
    /\ Return("ok")
    /\ UNCHANGED <<restorationFailures, held, dirty, abandoned>>

\* A capture fails or is cancelled: what was captured is rolled back.
CaptureBreaks(why) ==
    /\ pc = "capture"
    /\ todo # <<>>
    /\ pc' = "undo"
    /\ mode' = why
    /\ todo' = <<>>
    /\ UNCHANGED <<frames, restorationFailures, cur, errors, result, held,
                   dirty, abandoned>>

(***************************************************************************)
(* restore() and restore_all()                                             *)
(***************************************************************************)

\* The frame is popped before anything in it is restored.
StartRestore(caller) ==
    /\ pc = "idle"
    /\ frames # <<>>
    /\ frames' = Front(frames)
    /\ cur' = Top
    /\ pc' = "undo"
    /\ mode' = caller
    /\ result' = "none"
    /\ UNCHANGED <<restorationFailures, todo, errors, held, dirty, abandoned>>

Restore(scope, context) ==
    /\ frames # <<>> /\ Top.scope = scope /\ Top.context = context
    /\ StartRestore("restore")

RestoreAll == StartRestore("restore_all")

\* Nothing to restore, or not the owner of the top frame: nothing changes.
RejectRestore(scope, context) ==
    /\ pc = "idle"
    /\ frames # <<>> => Top.scope # scope \/ Top.context # context
    /\ result' = IF frames = <<>> THEN "ok" ELSE "rejected"
    /\ UNCHANGED <<frames, restorationFailures, pc, mode, cur, todo, errors,
                   held, dirty, abandoned>>

(***************************************************************************)
(* _restore_captures                                                       *)
(***************************************************************************)

\* The loop takes the last capture left.
UndoNext ==
    /\ pc = "undo"
    /\ cur.captures # <<>>
    /\ pc' = "restore"
    /\ UNCHANGED <<frames, restorationFailures, mode, cur, todo, errors, result,
                   held, dirty, abandoned>>

RestoreCompletes ==
    /\ pc = "restore"
    /\ pc' = "verify"
    /\ dirty' = dirty \ {CurrentSnapshot}
    /\ UNCHANGED <<frames, restorationFailures, mode, cur, todo, errors, result,
                   held, abandoned>>

VerifyCompletes ==
    /\ pc = "verify"
    /\ pc' = "release"
    /\ UNCHANGED <<frames, restorationFailures, mode, cur, todo, errors, result,
                   held, dirty, abandoned>>

\* Mutant of UndoFails: the error is swallowed.
MutantSwallowUndoError ==
    /\ pc \in {"restore", "verify"}
    /\ pc' = "release"
    /\ UNCHANGED <<frames, restorationFailures, mode, cur, todo, errors, result,
                   held, dirty, abandoned>>

\* restore or verify fails: the error is kept and `finally` still releases.
UndoFails ==
    /\ pc \in {"restore", "verify"}
    /\ errors' = errors \cup {Last(cur.captures)}
    /\ pc' = "release"
    /\ UNCHANGED <<frames, restorationFailures, mode, cur, todo, result, held,
                   dirty, abandoned>>

\* restore or verify is cancelled: `finally` releases, then the error goes on.
UndoCancelled ==
    /\ pc \in {"restore", "verify"}
    /\ pc' = "release_cancelled"
    /\ UNCHANGED <<frames, restorationFailures, mode, cur, todo, errors, result,
                   held, dirty, abandoned>>

\* release has ended and the loop goes on; `errors` is then `errs`.
AfterRelease(errs) ==
    /\ pc = "release"
    /\ pc' = "undo"
    /\ cur' = [cur EXCEPT !.captures = Front(@)]
    /\ errors' = errs
    /\ UNCHANGED <<frames, restorationFailures, mode, todo, result, dirty,
                   abandoned>>

ReleaseCompletes ==
    /\ AfterRelease(errors)
    /\ held' = held \ {CurrentSnapshot}

ReleaseFails ==
    /\ AfterRelease(errors \cup {Last(cur.captures)})
    /\ UNCHANGED held

\* CancelledError leaves _restore_captures, from `finally` or after it: the
\* captures left and `errors` are dropped, and no caller adds them to
\* _restoration_failures. The release itself may or may not have taken effect.
AbandonUndo ==
    /\ pc \in {"release", "release_cancelled"}
    /\ Return("cancelled")
    /\ abandoned' = abandoned \cup {cur.context}
    /\ held' \in {held, held \ {CurrentSnapshot}}
    /\ UNCHANGED <<frames, restorationFailures, dirty>>

\* Mutant of UndoReturns: restore_all restores only the top frame.
MutantRestoreTopOnly ==
    /\ pc = "undo"
    /\ cur.captures = <<>>
    /\ restorationFailures' = restorationFailures \cup errors
    /\ Return(IF mode \in {"failed", "cancelled"} THEN mode
              ELSE IF errors = {} THEN "ok" ELSE "errors")
    /\ UNCHANGED <<frames, held, dirty, abandoned>>

\* _restore_captures returns and its caller records the errors: restore()
\* returns them, a rollback re-raises what broke the capture, and restore_all
\* goes on with the next frame.
UndoReturns ==
    /\ pc = "undo"
    /\ cur.captures = <<>>
    /\ restorationFailures' = restorationFailures \cup errors
    /\ \/ /\ mode = "restore_all" /\ frames # <<>>
          /\ cur' = Top
          /\ frames' = Front(frames)
          /\ UNCHANGED <<pc, mode, todo, errors, result>>
       \/ /\ ~(mode = "restore_all" /\ frames # <<>>)
          /\ Return(IF mode \in {"failed", "cancelled"} THEN mode
                    ELSE IF errors = {} THEN "ok" ELSE "errors")
          /\ UNCHANGED frames
    /\ UNCHANGED <<held, dirty, abandoned>>

(***************************************************************************)
(* The specification                                                       *)
(***************************************************************************)

\* External: a running test changes state that some snapshots were taken of.
\* The lifecycle's own task awaits no participant meanwhile.
TestChanges(p) ==
    /\ pc = "idle"
    /\ dirty' = dirty \cup {s \in held : s[1] = p}
    /\ UNCHANGED <<frames, restorationFailures, callVars, held, abandoned>>

Init ==
    /\ frames = <<>>
    /\ restorationFailures = {}
    /\ pc = "idle"
    /\ mode = "none"
    /\ cur = NoFrame
    /\ todo = <<>>
    /\ errors = {}
    /\ result = "none"
    /\ held = {}
    /\ dirty = {}
    /\ abandoned = {}

\* A step inside a call.
Step ==
    \/ CaptureCompletes
    \/ PushFrame
    \/ CaptureBreaks("failed")
    \/ CaptureBreaks("cancelled")
    \/ UndoNext
    \/ RestoreCompletes
    \/ VerifyCompletes
    \/ UndoFails
    \/ UndoCancelled
    \/ ReleaseCompletes
    \/ ReleaseFails
    \/ AbandonUndo
    \/ UndoReturns

CaptureCall ==
    \E scope \in Scopes, context \in Contexts, ordered \in Requests :
      Capture(scope, context, ordered) \/ RejectCapture(scope, context, ordered)

RestoreCall ==
    \/ RestoreAll
    \/ \E scope \in Scopes, context \in Contexts :
         Restore(scope, context) \/ RejectRestore(scope, context)

Next ==
    \/ Step
    \/ CaptureCall
    \/ RestoreCall
    \/ \E p \in Participants : TestChanges(p)

\* Every await ends: participants' calls run under asyncio.timeout.
Spec == Init /\ [][Next]_vars /\ WF_vars(Step)

(***************************************************************************)
(* Properties                                                              *)
(***************************************************************************)

\* The variables hold values of the shapes baseline_lifecycle.py gives them.
TypeOK ==
    /\ frames \in Seq(Frames)
    /\ restorationFailures \subseteq Participants
    /\ pc \in {"idle", "capture", "undo", "restore", "verify", "release",
              "release_cancelled"}
    /\ mode \in {"none", "failed", "cancelled", "restore", "restore_all"}
    /\ cur \in IF pc = "idle" THEN {NoFrame} ELSE Frames
    /\ pc \notin {"idle", "capture", "undo"} => cur.captures # <<>>
    /\ todo \in Seq(Participants)
    /\ errors \subseteq Participants
    /\ result \in {"none", "ok", "rejected", "failed", "cancelled", "errors"}
    /\ held \subseteq Snapshots
    /\ dirty \subseteq Snapshots
    /\ abandoned \subseteq Contexts

\* The frames nest as _validate_capture intends, whatever calls, failures and
\* cancellations came before: at most one topology baseline, at the root, and
\* above it at most one playbook baseline of the same test config and invocation.
Nested ==
    /\ Len(frames) <= 2
    /\ Len(frames) >= 1 => /\ frames[1].scope = "topology"
                           /\ frames[1].context.playbook_name = NoPlaybook
    /\ Len(frames) = 2 =>
         /\ frames[2].scope = "playbook"
         /\ frames[2].context.playbook_name # NoPlaybook
         /\ frames[2].context.test_config_name = frames[1].context.test_config_name
         /\ frames[2].context.invocation_id = frames[1].context.invocation_id

Owned == UNION {SnapshotsOf(frames[i]) : i \in DOMAIN frames}

\* What run_tests relies on when it checks is_healthy before the next playbook:
\* between calls, a healthy lifecycle accounts for everything. No participant
\* holds a snapshot, and no captured state stays changed, unless an active frame
\* will restore it or a cancellation cut short the undo of its context.
SafeToReuse ==
    pc = "idle" /\ isHealthy =>
      \A s \in held \cup dirty : s \in Owned \/ s[2] \in abandoned

\* A restoration failure is final: no step of any later call forgets one, and
\* no frame is pushed once one is recorded.
FailureIsFinal ==
    [][/\ restorationFailures \subseteq restorationFailures'
       /\ Len(frames') > Len(frames) => isHealthy]_vars

\* A frame without its captures.
Baseline(f) == [scope |-> f.scope, context |-> f.context]

Outline(fs) == [i \in DOMAIN fs |-> Baseline(fs[i])]

\* The lifecycle as its caller sees it.
Contract == INSTANCE BaselineContract WITH
    active <- Outline(frames),
    health <- IF isHealthy THEN "healthy" ELSE "poisoned",
    call <- IF pc = "idle" THEN "none"
            ELSE IF mode \in {"restore", "restore_all"} THEN mode ELSE "capture",
    outcome <- result

\* The lifecycle keeps its contract: a capture adds one baseline or none,
\* restore_all that is not cancelled leaves none and reports the errors of all
\* frames, what was left unrestored poisons the lifecycle for good, and every call
\* returns, whatever fails inside it.
ImplementsContract == Contract!Spec
=============================================================================
