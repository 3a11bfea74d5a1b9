SPECIFICATION Spec
CONSTANTS
    N <- MCN
    BlindingFactors <- MCBlindingFactors
    Values <- MCValues
    Inputs <- MCInputs
    Tables <- MCTables
CHECK_DEADLOCK FALSE
INVARIANT ReturnsPermutations
