SPECIFICATION Spec
CONSTANTS
    Size = 4
    EpSize = 2
    CmdLen = 2
    ComputePolls = 2
    ReplyLen = 3
    ReportLen = 1
    Ahead = 2
    Latency = 1
    Timeout = 2
    Dog = 5
INVARIANTS
    TypeOK
    DogNeedsAbsentHost
PROPERTIES
    RingIsFifo
    CommandsWhole
    EveryCommandAnswered
