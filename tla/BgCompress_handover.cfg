CONSTANTS
    MaxSize = 5
    Modes = {"io", "index", "future"}
    Failures = {{}, {"write", "temp"}}
    Jobs <- MCJobs
SPECIFICATION FairSpec
INVARIANTS TypeOK SlotExclusive NoHandOverLost SavedInOrder MatchesKept
PROPERTIES SavesTheBlocks Termination
CHECK_DEADLOCK FALSE
