\* The getters' doc promises a host fallback for a mirror that is absent.
CONSTANTS
    NoBuf = NoBuf
    Cells <- MCCells
    SrsCells <- MCSrsCells
    Polys <- MCPolys
    WarmScript <- MCWarmScript
    MainScript <- MCMainScript
    JoinAt <- MCJoinAt
SPECIFICATION Spec
INVARIANT AbsenceIsNotFatal
