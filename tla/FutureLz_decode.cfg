CONSTANTS
    SmallSize = 7
    MaxMatches = 2
    LongSize = 15
    BufSize = 3
    ChunkPayload = 2
    SpillHeader = 1
    EndMark = 1
    MaxOffset = 99
    StatValues = 4
    Inputs = "all"
    Byte <- MCByte
    Jobs <- MCJobs
SPECIFICATION FairSpec
INVARIANTS TypeOK IntactArchiveDecodes MarksCoverDisk HandlesOwned ErasesOne CleanFinish NothingLost EstimateExact IndexInfoRight
PROPERTIES WritesTheOriginal MemoryWithinBudget Termination
