SPECIFICATION Spec
CONSTANTS
    Size = 2
    Modulus = 4
    MaxWrites = 6
    Elems = {a, b}
    NULL = NULL
    WriteOrders = {"slot_first", "counter_first"}
    ReadOrders = {"slot_first", "counter_first"}
    OneThread = TRUE
INVARIANTS TypeOK SizeIsExact
PROPERTIES QueueSpec
CHECK_DEADLOCK FALSE
