CONSTANTS
    Jobs <- MCJobs
    Byte <- MCByte
    Hash <- MCHash
    Minimal = 1
    Lookahead = 2
    ReadSize = 2
    StatValues = 7
    Options = "even"
SPECIFICATION Spec
INVARIANTS TypeOK RecordsReadBack LiteralsCounted
PROPERTIES StatesTrueMatches
