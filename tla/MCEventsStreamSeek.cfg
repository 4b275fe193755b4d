CONSTANTS
    Threads = {t1}
    NoThread = NoThread
    Producers = {"recording"}
    NChunks = 3
    Bookmarks <- MCFirst
    PoolSize = 4
    SeekAnyTime = TRUE
SPECIFICATION Safety
PROPERTIES
    SeekReachesBookmark
