CONSTANT Shapes <- MCShapes
SPECIFICATION Spec
INVARIANTS TypeOK TranscriptsAgree OpeningsAgree ChallengesBind
PROPERTY ProofsAreAccepted
