SPECIFICATION Spec
CONSTANTS
    Cells <- SharedCells
    Retry = 0
    Kinds = {"TestCaseFailure", "OSSTransientError", "OSSConnectionError"}
INVARIANT RemainingMarked
