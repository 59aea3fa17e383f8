CONSTANTS
  h1 = h1
  h2 = h2
  h3 = h3
  alice = alice
  bob = bob
  NoPid = NoPid
  NoUser = NoUser
  Handler <- MCHandler2
  User <- MCUser
  MaxUsers = 2
  MaxTransfers = 1
  MaxId = 1
SPECIFICATION Spec
SYMMETRY MCSymmetry2
INVARIANTS
  TypeOK
  NoLostMux
  MutualExclusion
  NoGhostOnline
