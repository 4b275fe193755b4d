CONSTANTS
    u1 = u1
    u2 = u2
    Users <- MCUsers
    RunThreads = {r1, r2}
    None = None
    Settings <- MCSettings
    Recorded <- MCRecorded
    Writers = {w1, w2}
    MaxBuffers = 3
    MaxQueued = 1
    FileSize = 3
    BufferSize = 2
    Targets <- MCTargets
SPECIFICATION ReadSpec
INVARIANTS
    TypeOK
    StoppedMeansOffAlone
    RunningIsTold
    RecordingIsComplete
PROPERTIES
    StartReturns
    StopReturns
    RecordingsClose
    PlayerIsCursor
    SeekPasses
