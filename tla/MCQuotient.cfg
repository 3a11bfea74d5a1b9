SPECIFICATION Spec
CONSTANTS
    Prime = 97
    IdxBits = 5
    RotBits = 2
    N = 8
    Omega = 33
    NumParts = 2
    ExtendedOmega = 18
    Zeta = 35
    Delta = 5
    Blinding = 1
    ChunkLen = 2
    Circuits <- MCCircuits
    Scalars <- MCScalars
    Batches = {0, 2, 4, 8}
    Rooms = {0, 9}
INVARIANTS
    QuotientIsVerifierFold
    CompressedIsHostFold
    PoolWholeOrUnused
CHECK_DEADLOCK FALSE
