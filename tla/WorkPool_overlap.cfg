SPECIFICATION Spec
CONSTANTS
    pulse = pulse
    Null = Null
    Jobs <- MCJobs
    Hold1 = 2
    Hold2 = 3
    CycleSet <- MCCycles
    Infinite = 7
    CycleMod = 16
INVARIANTS
    ActiveJobsListed
