\* An output whose driver becomes the constant, with level updates.
SPECIFICATION Spec
CONSTANTS
    NumPi = 3
    Netlists <- Zero
    Updating = {TRUE}
    Commands = 1
    MaxUpdates = 2
    MaxGraph = 1
    MaxObjs = 0
CHECK_DEADLOCK FALSE
INVARIANT NoAbort
