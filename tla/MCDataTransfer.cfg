CONSTANTS
    Threads = {t1, t2}
    NoThread = NoThread
    Producers = {"recording", "device"}
SPECIFICATION DTSpec
INVARIANTS
    DTTypeOK
    OneTransferThread
    StoppedObserved
    SuspendKeepsOut
PROPERTIES
    StopReturns
