SPECIFICATION Spec
CONSTANTS
    Threads = {t1, t2}
    Processes = {q1}
    Retryable = {t1}
    TerminateOnError = {q1}
    MaxTeardowns = 2
INVARIANTS
    ManagerOutlivesWorkers
    FinalChecksAreStable
    ShutdownOnce
PROPERTIES
    ManagerReleased
    StopTerminates
    StopReachesAll
\* The executor is single-use: once torn down nothing is left to do.
CHECK_DEADLOCK FALSE
