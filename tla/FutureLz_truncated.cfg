CONSTANTS
    SmallSize = 6
    MaxMatches = 1
    LongSize = 15
    BufSize = 2
    ChunkPayload = 2
    SpillHeader = 1
    EndMark = 1
    MaxOffset = 99
    StatValues = 4
    Inputs = "truncated"
    Byte <- MCByte
    Jobs <- MCJobs
SPECIFICATION FairSpec
INVARIANTS CleanFinish
