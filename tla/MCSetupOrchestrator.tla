------------------------ MODULE MCSetupOrchestrator ------------------------
(* Instances of SetupOrchestrator.                                         *)
EXTENDS SetupOrchestrator

\* Every option, alone and where it meets another one.
MCOptions ==
    {{}, {"oss"}, {"skip_ixia_setup"}, {"keep_failed_setup"},
     {"skip_ixia_cleanup"}, {"oss", "cache", "setup_only"},
     {"cache", "keep_failed_setup"}, {"session_id", "cache", "setup_only"}}
============================================================================
