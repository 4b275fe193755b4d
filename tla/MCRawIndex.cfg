CONSTANTS
    Times <- MCTimes
    Period = 2
    MaxEvents = 3
    Targets <- MCTargets
    CrashAnyTime = FALSE
SPECIFICATION Spec
INVARIANTS
    TypeOK
    IndexIsRight
    SeekLandsBefore
    RangeIsReachable
PROPERTIES
    IndexingEnds
