CONSTANTS
    OrigSize = 24
    BufSize = 4
    MaxMatches = 0
    MinLength = 2
    RecordBytes = 1
    MaximumSave = 3
    ChunkPayload = 2
    Decoded <- MCCopies
SPECIFICATION Spec
INVARIANTS ListsFit
