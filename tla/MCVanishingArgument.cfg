SPECIFICATION Spec
CONSTANTS
    Prime = 97
    K = 3
    ExtendedK = 5
    Omega = 50
    ExtendedOmega = 19
    Zeta = 35
    QuotientPolyDegree = 3
    DenseDegree = 2
    Columns <- MCColumns
    Gate <- MCGate
    GatePoly <- MCGatePoly
    Builds = {TRUE, FALSE}
    Points = {2, 40}
INVARIANTS
    FormsAgree
    AcceptsExactlyVanishing
CHECK_DEADLOCK FALSE
