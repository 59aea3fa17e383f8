CONSTANTS
  h1 = h1
  h2 = h2
  m1 = m1
  m2 = m2
  NoOne = NoOne
  Handler <- MCHandler
  Maker <- MCMaker
  Name = {user, tmp}
  Tmp = tmp
  MaxServer = 2
  MaxUsers = 2
SPECIFICATION Spec
INVARIANT HelperEnds
CONSTRAINT Few
SYMMETRY MCSymmetry
CHECK_DEADLOCK FALSE
