SPECIFICATION Spec
CONSTANTS
    LowN = 2
    HighN = 4
    Epsilon = 1
    Height = 1
    Width = 6
    Blacklist <- MCBlacklist
    Starts <- MCStarts
    Jumps <- MCJumps
    Masters <- MCMasters
    SeekTimes <- MCExact
    Buffers <- MCBuffers
    MaxItems = 4
INVARIANTS TypeOK NeverAhead AlarmsAreGaps
PROPERTY DecodedAsSent
CHECK_DEADLOCK FALSE
