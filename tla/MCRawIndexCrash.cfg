CONSTANTS
    Times <- MCTimes
    Period = 2
    MaxEvents = 3
    Targets <- MCTargets
    CrashAnyTime = TRUE
SPECIFICATION Safety
INVARIANTS
    IndexIsRight
