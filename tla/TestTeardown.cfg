SPECIFICATION Spec
CONSTANT
    Plans <- MCPlans
INVARIANTS
    ReleaseAlwaysRuns
    NoneSkipped
    NothingLost
PROPERTIES
    RerunsOnlyFailed
    CancelledTeardownEnds
