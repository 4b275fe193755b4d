CONSTANTS
    Settings <- MCSettings
    MaxSlaves = 2
    None = None
SPECIFICATION Spec
INVARIANTS
    TypeOK
    FlushAfterStop
PROPERTIES
    SlicesAreCut
    IterationEnds
    DestructorReturns
CHECK_DEADLOCK FALSE
