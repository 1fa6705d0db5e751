CONSTANTS
    SmallSize = 6
    MaxMatches = 1
    LongSize = 16
    BufSize = 4
    ChunkPayload = 3
    SpillHeader = 1
    EndMark = 1
    MaxOffset = 99
    StatValues = 4
    Inputs = "wraps"
    Byte <- MCByte
    Jobs <- MCJobs
SPECIFICATION FairSpec
INVARIANTS MarksDueInTime
