CONSTANTS
    NumThreads = 3
    MaxBlocks = 2
    MaxStripes = 5
    Files <- MCFiles
SPECIFICATION FairSpec
INVARIANTS TypeOK StorageExclusive JobsConserved
PROPERTIES UsesTheStripes Termination
