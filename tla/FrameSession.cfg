\* The flags change at any time.
SPECIFICATION Spec
CONSTANTS
    Addr = {a1, a2, a3, a4, a5}
    Net = {n1, n2}
    NULL = NULL
    UNSET = UNSET
    BackupValues = {"1", "0"}
    SaveSteps = {0, 2}
    MaxSteps = 5
SYMMETRY Symmetry
CHECK_DEADLOCK FALSE
INVARIANTS TypeOK StackLive AlwaysWellFormed
PROPERTIES GrowthBounded NothingLost ImplementsUndoHistory
