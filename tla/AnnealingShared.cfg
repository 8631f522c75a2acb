\* final.cpp:70 "preserve old aig", two runs in one directory
SPECIFICATION Spec
CONSTANTS
    Proc = {r1, r2}
    Addr = {a1, a2, a3}
    NULL = NULL
    Net <- Sized
    Circuit = {c1, c2}
    MaxAnds = 1
    Coolings = 1
    Garbage = {0}
    BackupFlag = {FALSE}
CHECK_DEADLOCK FALSE
INVARIANTS PreservesOldAig
