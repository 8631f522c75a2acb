SPECIFICATION Spec
CONSTANTS
    MaxAnds = 2
    MaxIters = 2
    MaxNoImpr = 2
    IterMax = 5
    NULL = NULL
CHECK_DEADLOCK FALSE
INVARIANTS TypeOK ResultIsSmallest WalkBestBounded BatchModeRestored
PROPERTIES Terminates
