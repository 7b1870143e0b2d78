CONSTANTS
    MaxStale = 5
    StartTimeout = 5
    Window = 4
    WindowPoll = 2
    ShortPoll = 1
    Late = 1
    MaxNow = 20
SPECIFICATION Spec
INVARIANT CompletePassAfterBoundary
