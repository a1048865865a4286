SPECIFICATION NavSpec
CONSTANTS
    MaxRows = 1
    MaxCols = 2
    KeyMap <- PadMap
    ActionOf <- MCActionOf
    HoldOf <- MCHoldOf
    NoHold = NoHold
    NoKey <- MCNoKey
    KeyPress <- MCKeyPress
    MaxMouseStep = 4
    MaxHeld = 0
    Presses <- Hands
    ArrowsSet <- Modes
    KeysUp = TRUE
    Steps = {2}
    Sizes = {}
    MouseStep = 2
    Capacity = 1
    Control = "between"
INVARIANTS
    NoPhantomPress
PROPERTIES
    HostFollowsHand
