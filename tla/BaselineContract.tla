-------------------------- MODULE BaselineContract --------------------------
(***************************************************************************)
(* What src/taac/libs/baseline_lifecycle.py promises its caller, without   *)
(* participants, snapshots or the awaits inside a call.                    *)
(*                                                                         *)
(* capture() adds one baseline or changes nothing; restore() takes the     *)
(* innermost baseline off; restore_all() takes all of them off unless it   *)
(* is cancelled.  A call that leaves something unrestored poisons the      *)
(* lifecycle for good and says so, unless it is cancelled; nothing is      *)
(* captured on a poisoned one.  Every call returns.                        *)
(***************************************************************************)
EXTENDS Naturals, SequencesExt

CONSTANTS
    Contexts,     \* the values of BaselineContext
    NoPlaybook    \* playbook_name is None

VARIABLES
    active,   \* the active baselines, innermost last
    health,   \* is_healthy: "healthy" or "poisoned"
    call,     \* the call being made: "none", "capture", "restore", "restore_all"
    outcome   \* how the last call ended

vars == <<active, health, call, outcome>>

Baselines == [scope : {"topology", "playbook"}, context : Contexts]

\* A topology baseline is the outermost; a playbook's is inside the one of its
\* test config and invocation.
Fits(b) ==
    \/ /\ b.scope = "topology"
       /\ active = <<>>
       /\ b.context.playbook_name = NoPlaybook
    \/ /\ b.scope = "playbook"
       /\ b.context.playbook_name # NoPlaybook
       /\ active # <<>>
       /\ Last(active).scope = "topology"
       /\ Last(active).context.test_config_name = b.context.test_config_name
       /\ Last(active).context.invocation_id = b.context.invocation_id

MayPoison == health' \in {health, "poisoned"}

CallCapture ==
    /\ call = "none"
    /\ health = "healthy"
    /\ call' = "capture"
    /\ outcome' = "none"
    /\ UNCHANGED <<active, health>>

\* The innermost baseline is gone as soon as its restoration begins.
CallRestore ==
    /\ call = "none"
    /\ active # <<>>
    /\ active' = Front(active)
    /\ call' \in {"restore", "restore_all"}
    /\ outcome' = "none"
    /\ UNCHANGED health

\* A call that is refused, or has nothing to restore.
Refuse ==
    /\ call = "none"
    /\ outcome' \in {"ok", "rejected"}
    /\ UNCHANGED <<active, health, call>>

RestoreNext ==
    /\ call = "restore_all"
    /\ active # <<>>
    /\ active' = Front(active)
    /\ MayPoison
    /\ UNCHANGED <<call, outcome>>

CaptureSucceeds ==
    /\ call = "capture"
    /\ health = "healthy"
    /\ \E b \in Baselines : Fits(b) /\ active' = Append(active, b)
    /\ call' = "none"
    /\ outcome' = "ok"
    /\ UNCHANGED health

CaptureFails ==
    /\ call = "capture"
    /\ call' = "none"
    /\ outcome' \in {"failed", "cancelled"}
    /\ MayPoison
    /\ UNCHANGED active

\* Without an error nothing is left unrestored; with one, the lifecycle is
\* poisoned.
RestoreEnds ==
    /\ call \in {"restore", "restore_all"}
    /\ call = "restore_all" => active = <<>>
    /\ call' = "none"
    /\ \/ outcome' = "ok" /\ UNCHANGED health
       \/ outcome' = "errors" /\ health' = "poisoned"
    /\ UNCHANGED active

RestoreCancelled ==
    /\ call \in {"restore", "restore_all"}
    /\ call' = "none"
    /\ outcome' = "cancelled"
    /\ UNCHANGED <<active, health>>

CallEnds == CaptureSucceeds \/ CaptureFails \/ RestoreEnds \/ RestoreCancelled

Init ==
    /\ active = <<>>
    /\ health = "healthy"
    /\ call = "none"
    /\ outcome = "none"

Next == CallCapture \/ CallRestore \/ Refuse \/ RestoreNext \/ CallEnds

Safety == Init /\ [][Next]_vars

Spec == Safety /\ WF_vars(CallEnds)
=============================================================================
