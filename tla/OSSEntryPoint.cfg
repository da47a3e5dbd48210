SPECIFICATION Spec
CONSTANTS
    Cells <- DistinctCells
    Retry = 1
    Kinds = {"TestCaseFailure", "OSSTransientError", "OSSTeardownError", "SkipTest"}
INVARIANTS
    SuccessIsEarned
    RemainingMarked
    SetUpTornDown
    CutOffIsSeen
