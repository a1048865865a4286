SPECIFICATION Spec
CONSTANTS
    Order <- MCOrder
    Default <- MCDefault
    Least <- MCLeast
    Most <- MCMost
    Typed <- MCTyped
    Erased = 255
    MaxRows = 2
    MaxMouseStep = 4
    CutErased = FALSE
INVARIANTS
    TypeOK
    RowsInArray
    StepMovesMouse
PROPERTIES
    BootRestores
