SPECIFICATION Spec
CONSTANTS
    N = 3
    Pool = {1, 2, 3, 4, 5, 6, 7, 8, 9, 10, 11, 12}
    ONE = ONE
    NULL = NULL
    Managers <- Managers3
    Passes = 2
    Moves = 2
CHECK_DEADLOCK FALSE
INVARIANTS TypeOK EdgesKept Canonical RefsExact CountsExact WindowShrinks InteractSound
