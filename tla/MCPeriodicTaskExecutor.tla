----------------------- MODULE MCPeriodicTaskExecutor -----------------------
(***************************************************************************)
(* Two IXIA threads and one process: one thread is retried, the process    *)
(* stops everybody when it fails.                                          *)
(***************************************************************************)
EXTENDS PeriodicTaskExecutor
=============================================================================
