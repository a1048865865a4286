SPECIFICATION Spec
CONSTANTS
    Base = 2
    Mod = 8
    Places = {1, 2, 4, 8}
    Step = 1
    HoldOf <- MCHoldOf
    PerRound = 2
    MaxAge = 6
INVARIANTS
    TypeOK
    NeverBehind
PROPERTIES
    DeadlineKept
    HoldMeasured
    JobGoesOn
