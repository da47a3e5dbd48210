--------------------------- MODULE MCIxiaRecovery ---------------------------
(***************************************************************************)
(* Two test runs that share a chassis, on one host or on two; the wrapped  *)
(* calls of the first one nest.                                            *)
(***************************************************************************)
EXTENDS IxiaRecovery

OneHost == [r \in Runs |-> "h1"]
TwoHosts == [r \in Runs |-> IF r = "r1" THEN "h1" ELSE "h2"]
MCNesting == [r \in Runs |-> IF r = "r1" THEN 2 ELSE 1]
=============================================================================
