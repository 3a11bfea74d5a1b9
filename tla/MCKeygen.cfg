CONSTANTS
    MaxDegreeCap = 5
    Prime = 7
    Threads = 3
    PerThread = 4
    N = 16
    Circuits <- MCCircuits
    Literals <- MCLiterals
    MaxWork = 3
SPECIFICATION Spec
INVARIANTS QueriesIndexed SelectorsKeepMeaning DegreeKept FixedAreEvaluated
\* Key generation ends.
CHECK_DEADLOCK FALSE
