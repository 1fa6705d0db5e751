CONSTANTS
    MaxSize = 3
    Modes = {"io", "index"}
    Failures = {{"write"}}
    Jobs <- MCJobs
SPECIFICATION FairSpec
PROPERTIES ErrorReported
CHECK_DEADLOCK FALSE
