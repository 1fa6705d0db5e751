CONSTANTS
    MaxSize = 3
    Modes = {"future"}
    Failures = {{}}
    Jobs <- MCJobs
SPECIFICATION Spec
INVARIANTS ChecksumKept
