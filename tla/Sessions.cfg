CONSTANTS
  a = a
  b = b
  Home = Home
  NoOne = NoOne
  Dir <- MCDir
  Parent <- MCParent
  Session = {s1, s2}
  Worker = {1, 2}
SPECIFICATION Spec
INVARIANTS
  TypeOK
  EveryCommandAnswered
PROPERTY ImplementsService
CONSTRAINT OneOrphan
ACTION_CONSTRAINT FirstFree
SYMMETRY Sym
