CONSTANTS
    NoBuf = NoBuf
    Cells <- MCCells
    SrsCells <- MCSrsCells
    Polys <- MCPolys
    WarmScript <- MCWarmScript
    MainScript <- MCMainScript
    JoinAt <- MCJoinAt
SPECIFICATION Spec
INVARIANTS TypeOK FencedReads WholeMirrors NoReadOfFreed NothingLeaked
PROPERTIES SetOnce ProofEnds ImplementsMirrorReads
