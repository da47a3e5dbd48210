SPECIFICATION Spec
CONSTANTS
    NumCandidates = 2
    MaxTries = 3
    WithEndpoints = {1, 2}
    QueryResources = {"q1", "q2"}
    Options <- MCOptions
INVARIANT NothingForgotten
INVARIANT CleanFallback
INVARIANT ReleasedOrReported
INVARIANT ExistingSessionKept
