\* rewrite, refactor or resub with and without level updates.
SPECIFICATION Spec
CONSTANTS
    NumPi = 3
    Netlists <- Networks
    Updating = {TRUE, FALSE}
    Commands = 1
    MaxUpdates = 2
    MaxGraph = 2
    MaxObjs = 10
CHECK_DEADLOCK FALSE
INVARIANTS TypeOK Acyclic OutputsKept EdgesAgree UniqueChildren ReplacementAlive
INVARIANTS LevelsExact ExorExact MarksSound TurnsBounded
