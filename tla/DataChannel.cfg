CONSTANTS
  c1 = c1
  c2 = c2
  Handler = Handler
  NoOne = NoOne
  Hole = Hole
  Channel <- MCChannel
  MaxBlocks = 2
  MaxWire = 2
SPECIFICATION Spec
INVARIANTS
  TypeOK
  RequestsAreRequests
  NoStandstill
  ReadyMoves
  PortAnnounced
  ReaderInStep
PROPERTIES
  LocalFileWhole
  StoredWhole
  UploadVisible
CONSTRAINT OneAfterTorn
SYMMETRY MCSymmetry
CHECK_DEADLOCK FALSE
