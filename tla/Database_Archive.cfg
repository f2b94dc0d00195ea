SPECIFICATION Spec
CONSTANTS
    Jobs <- MCJobs
    Paths <- MCPaths
    BootTime = 10
    Rests = {0, 1}
    Faults = {"put", "open", "crash", "signal"}
INVARIANTS
    TypeOK
    NoOrphans
    AllStored
    RetrievalComplete
    CallerFirst
