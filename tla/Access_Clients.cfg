SPECIFICATION FairSpec
CONSTANTS
    Callers = {"a", "b"}
    Requests = {"shutdown", "restart", "long", "other"}
    Faults = {"ctrl"}
INVARIANTS TypeOK OnlyResetKills
PROPERTIES ClientsServed ConnectionsClosed PromiseKept
CHECK_DEADLOCK FALSE
