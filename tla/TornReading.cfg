SPECIFICATION Spec
CONSTANTS
    Keys = {k1}
    NoKey = none
    Bad = bad
    Burst = 2
    RetryWait = 1
    MaxRev = 1
    MaxLink = 2
    MaxQueue = 2
INVARIANT
    CommandAfterSuback
