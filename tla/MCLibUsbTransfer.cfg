CONSTANTS
    Threads = {t1}
    NoThread = NoThread
    Producers = {"device"}
    NTransfers = 2
    MaxData = 3
SPECIFICATION Spec
INVARIANTS
    TypeOK
    ErrorLeavesNone
PROPERTIES
    DataContinuous
    StopReturnsUnlessOvertaken
