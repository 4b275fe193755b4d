CONSTANTS
    Threads = {t1}
    NoThread = NoThread
    Producers = {"recording", "device"}
    NChunks = 2
    Bookmarks <- MCBookmarks
    PoolSize = 3
    SeekAnyTime = FALSE
SPECIFICATION Spec
INVARIANTS
    TypeOK
    PoolConserved
    StopEndsData
PROPERTIES
    EndMeansEnd
    StreamIsCursor
    CallsReturn
    ConsumerWoken
    ReadsToTheEnd
