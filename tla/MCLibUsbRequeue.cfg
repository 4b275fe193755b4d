CONSTANTS
    Threads = {t1}
    NoThread = NoThread
    Producers = {"device"}
    NTransfers = 2
    MaxData = 3
SPECIFICATION Safety
INVARIANTS
    StopLeavesNone
