--------------------------- MODULE MCOSSEntryPoint ---------------------------
(***************************************************************************)
(* Two configs; the first has two cells.  In the shared variant the second *)
(* config has a playbook of the same name for the same DUT.                *)
(***************************************************************************)
EXTENDS OSSEntryPoint

DistinctCells == <<<<"x", "y">>, <<"z">>>>
SharedCells == <<<<"x">>, <<"x">>>>
=============================================================================
