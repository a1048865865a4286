SPECIFICATION Spec
CONSTANTS
    MaxRows = 2
    MaxCols = 2
    KeyMap <- PadMap
    ActionOf <- MCActionOf
    HoldOf <- ZoomHold
    NoHold = NoHold
    KeyPress <- MCKeyPress
    NoKey = NoKey
    MaxMouseStep = 2
    MaxHeld = 5
    Presses <- TwoFingers
    ArrowsSet <- SerialArrows
    Sizes <- Smaller
    KeysUp = TRUE
    Steps <- OneStep
INVARIANTS
    TypeOK
    MouseFollowsKeys
PROPERTIES
    HoldActionInTime
    ScanFollowsHand
