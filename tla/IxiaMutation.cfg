SPECIFICATION Spec
CONSTANTS
    NoThread = "none"
    Threads = {"t1", "t2"}
    Connector = "t1"
    MaxAttempts = 2
    MaxSessions = 3
    MaxGenerations = 3
INVARIANT NoApplyToAmbiguous
INVARIANT NoApplyToUnrestored
PROPERTY TransactionIsolated
PROPERTY LockReleased
