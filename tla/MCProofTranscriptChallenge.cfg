CONSTANT Shapes <- MCChallengeShapes
SPECIFICATION Spec
INVARIANT ConvertSqueezesPhase0
