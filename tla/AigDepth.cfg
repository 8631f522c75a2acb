\* The levels a command with -l keeps.
SPECIFICATION Spec
CONSTANTS
    NumPi = 3
    Netlists <- Deep
    Updating = {TRUE}
    Commands = 1
    MaxUpdates = 2
    MaxGraph = 1
    MaxObjs = 0
CHECK_DEADLOCK FALSE
INVARIANT DepthKept
