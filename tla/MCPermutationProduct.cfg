SPECIFICATION ProductSpec
CONSTANTS
    NumColumns = 3
    N = 3
    UsableRows = 2
    Calls <- MCCalls
    ChunkLen = 2
    Values <- MCValues
INVARIANTS ProductTypeOK AcceptsExactlyCopies CarryIsRunningProduct
CHECK_DEADLOCK FALSE
PROPERTIES ImplementsCopyClasses
