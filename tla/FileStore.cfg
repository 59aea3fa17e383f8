CONSTANTS
  h1 = h1
  h2 = h2
  d1 = d1
  Proc = {p1, p2}
  File = {f1, f2}
  NoFile = NoFile
  Home <- MCHome
  Sub <- MCSub
  HomeOf <- MCHomeOf
  Base = {name}
  Datum <- MCDatum
  MaxSize = 2
SPECIFICATION Spec
INVARIANTS
  TypeOK
  AnnouncedIsThere
  CopyFaithful
PROPERTIES
  DataNeedsLock
  HolesOnlyFromCuts
SYMMETRY MCSymmetry
