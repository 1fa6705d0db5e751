CONSTANTS
    K = 2
    Payload = 2
    ChunkSize = 3
    Word = 1024
    MemLimits = {5, 13, 30}
    MaxChunks = 4
    Tags = {x, y}
    Lengths = {1, 3, 6}
    Strings <- MCStrings
SYMMETRY Symmetry
SPECIFICATION Spec
INVARIANTS TypeOK ChunksPartitioned WithinMemLimit
PROPERTIES KeepsBytes
