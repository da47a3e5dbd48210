----------------------------- MODULE MCTestCase -----------------------------
(***************************************************************************)
(* A playbook with a topology baseline and periodic tasks, and one with    *)
(* neither.  tictaac_oss.py runs all of them in one run_tests call; the    *)
(* executor of oss_entry_point.py makes a call for each.  Here the first   *)
(* call has three and the second two.                                      *)
(***************************************************************************)
EXTENDS TestCase

Batch == <<<<"full", "plain", "full">>, <<"plain", "full">>>>
=============================================================================
