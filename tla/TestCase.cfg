SPECIFICATION Spec
CONSTANTS
    Calls <- Batch
    WithBaseline = {"full"}
    WithPeriodic = {"full"}
    Handlers = 2
    Iterations = 2
    Syslog = {"rsyslog"}
    MaxCancels = 2
INVARIANTS
    CleanStart
    OwnedOnce
    StagesCovered
    VerdictKept
    TrafficEnded
PROPERTIES
    PoisonedStops
    RestoredLast
