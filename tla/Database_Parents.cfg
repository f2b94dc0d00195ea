SPECIFICATION Spec
CONSTANTS
    Jobs <- MCJobs
    Paths <- MCPaths
    BootTime = 10
    Rests = {0, 1}
    Faults = {}
INVARIANTS
    ParentsFollow
