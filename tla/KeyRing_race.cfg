SPECIFICATION Spec
CONSTANTS
    k1 = k1
    k2 = k2
    cfg1 = cfg1
    NoKey = NoKey
    Junk = Junk
    N = 3
    Keys <- MCKeys
    Configs <- MCConfigs
    IsrWindow <- Anywhere
    Clash = FALSE
INVARIANTS
    NoGhostKeys
