SPECIFICATION Spec
CONSTANTS
    Networks = {"home", "lab"}
    Capacity = 2
    MaxFailures = 1
    StopWait = 1
INVARIANT LatestSelectionStarts
