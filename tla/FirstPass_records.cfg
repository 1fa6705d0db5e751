CONSTANTS
    Jobs <- MCJobs
    Byte <- MCByte
    Hash <- MCHash
    Minimal = 2
    Lookahead = 2
    ReadSize = 2
    StatValues = 7
    Options = "lengths"
SPECIFICATION Spec
INVARIANTS RecordsReadBack
