SPECIFICATION Spec
CONSTANTS
    NumColumns = 2
    N = 4
    UsableRows = 3
    Calls <- MCCalls
INVARIANTS TypeOK MappingIsPermutation NamesAreCycles SizesCountCycles BlindingRowsAreFree

CHECK_DEADLOCK FALSE
PROPERTIES RelabellingDoubles
