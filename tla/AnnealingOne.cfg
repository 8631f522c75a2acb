SPECIFICATION Spec
CONSTANTS
    Proc = {r1}
    Addr = {a1, a2, a3}
    NULL = NULL
    Net <- Sized
    Circuit = {c1, c2}
    MaxAnds = 1
    Coolings = 2
    Garbage = {0, 2}
    BackupFlag = {TRUE, FALSE}
INVARIANTS TypeOK PreservesOldAig KeepsAccepted MemoryBounded
PROPERTIES Advances
