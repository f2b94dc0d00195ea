SPECIFICATION Spec
CONSTANTS
    Size = 2
    Modulus = 4
    MaxWrites = 6
    Elems = {a, b}
    NULL = NULL
    WriteOrders = {"counter_first"}
    ReadOrders = {"counter_first"}
    OneThread = FALSE
PROPERTIES QueueSpec
CHECK_DEADLOCK FALSE
