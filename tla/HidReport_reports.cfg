SPECIFICATION Spec
CONSTANTS
    Keys <- MCKeys
    Moves <- MCMoves
    Capacity = 2
    Step = 2
    Control = "between"
INVARIANTS
    TypeOK
    PressesInOrder
PROPERTIES
    KeyReleased
    MouseArrives
