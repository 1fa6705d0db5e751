CONSTANTS
    OrigSize = 8
    BufSize = 3
    MaxMatches = 3
    MinLength = 1
    RecordBytes = 1
    MaximumSave = 3
    ChunkPayload = 2
    Decoded <- MCDecoded
SPECIFICATION FairSpec
INVARIANTS TypeOK EveryPartEncoded LiteralsLeadToSources ListsAsSpecified RamIsPeakOfPending
PROPERTIES EveryBlockEncoded
