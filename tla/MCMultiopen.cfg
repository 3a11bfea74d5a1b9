SPECIFICATION Spec
CONSTANTS
    Field <- MCField
    Zero = 0
    One = 1
    Plus <- MCPlus
    Times <- MCTimes
    Negative <- MCNegative
    Invert <- MCInvert
    N = 4
    Omega = 5
    Secret = 7
    Coeffs <- MCCoeffs
    Statements <- MCStatements
    Ys = {3}
    Vs = {2}
    Us = {4, 9, 11}
    Rs = {5}
    MaxProofs = 2
CHECK_DEADLOCK FALSE
INVARIANTS
    TypeOK
    QuotientIsExact
    CheckIsErrors
