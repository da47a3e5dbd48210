------------------------ MODULE MCBaselineLifecycle ------------------------
(***************************************************************************)
(* Instances of BaselineLifecycle for TLC.  Requests cover the empty tuple, *)
(* one participant, two in either order, and a name given twice.           *)
(***************************************************************************)
EXTENDS BaselineLifecycle

CONSTANTS p1, p2

MCRequests == {<<>>, <<p1>>, <<p1, p2>>, <<p2, p1>>, <<p1, p1>>}
=============================================================================
