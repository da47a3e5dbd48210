--------------------------- MODULE MCTestTeardown ---------------------------
(***************************************************************************)
(* Two teardown tasks, so that one can succeed and the other be retried,   *)
(* with two cancellations; or two handlers and the triage with one.        *)
(***************************************************************************)
EXTENDS TestTeardown

MCPlans ==
    {[tasks |-> 2, handlers |-> 0, minions |-> {}, cancels |-> 2],
     [tasks |-> 0, handlers |-> 2, minions |-> {"triage"}, cancels |-> 1]}
=============================================================================
