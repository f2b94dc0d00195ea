SPECIFICATION Spec
CONSTANTS
    NFields = 3
    ChunkSize = 2
    InitSize = 4
    Inputs <- AllInputs
    Plain <- Characters
    Tab = Tab
    NewLine = NewLine
    Nul = Nul
    Dot = Dot
    Garbage = {Nul, NewLine, Tab}
    Failing = TRUE
INVARIANTS TypeOK ScanInBounds StaleByteNeedsCause WildOnlyWhen
PROPERTIES ReadsLines
CHECK_DEADLOCK FALSE
