\* The commands of the &-space in any order.
SPECIFICATION Spec
CONSTANTS
    Designs <- AnotherDesign
    Sizes <- SomeSizes
    NULL = NULL
    Gias <- Addresses
    Vecs <- Addresses
    MaxSteps = 6
CHECK_DEADLOCK FALSE
INVARIANTS TypeOK SlotsOwned NamesOwned BestSmallest
PROPERTY ImplementsGiaStore
