SPECIFICATION Spec
CONSTANTS
    Failures = {"fork", "setup", "accept", "exec"}
    MaxDaemons = 2
    Pids = {1, 2, 3}
    Files = {f1, f2}
    NULL = NULL
    HeldMax = 2
    MaxEvents = 4
    MaxLost = 2
    Refusals = {"cd", "probe"}
    Starts = {"fresh", "tracing"}
INVARIANTS TypeOK WiredTogether LeavesNoTrace MistakesNeedLosses ExecsNeedReuse
PROPERTIES ChildNotStranded WrapperEnds ConnectedIsServed
CHECK_DEADLOCK FALSE
