CONSTANTS
  p1 = p1
  p2 = p2
  Writer = Writer
  NoPort = NoPort
  Transfer <- MCTransfer2
  MaxOps = 2
  MaxQueue = 1
SPECIFICATION Spec
INVARIANTS
  TypeOK
  PromptIffAnswered
  CountCovers
PROPERTY ExitLeavesNothing
CONSTRAINT OneSpoiled
SYMMETRY MCSymmetry
CHECK_DEADLOCK FALSE
