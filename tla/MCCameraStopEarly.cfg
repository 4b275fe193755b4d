CONSTANTS
    u1 = u1
    u2 = u2
    Users <- MCUsers
    RunThreads = {r1, r2}
    None = None
    Settings <- MCTwoOnly
    Recorded = {}
    Writers = {}
    MaxBuffers = 0
    MaxQueued = 0
    FileSize = 3
    BufferSize = 2
    Targets <- MCTargets
SPECIFICATION ReadSpec
INVARIANTS
    StoppedMeansOff
