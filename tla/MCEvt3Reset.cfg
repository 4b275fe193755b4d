SPECIFICATION Spec
CONSTANTS
    LowN = 2
    HighN = 4
    Epsilon = 1
    Height = 1
    Width = 6
    Blacklist <- MCBlacklist
    Starts <- MCStarts
    Jumps <- MCJumps
    Masters <- MCMasters
    SeekTimes <- MCAll
    Buffers <- MCBuffers
    MaxItems = 4
INVARIANT ResetReturnsTimestamp
CHECK_DEADLOCK FALSE
