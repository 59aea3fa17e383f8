CONSTANTS
  h1 = h1
  h2 = h2
  h3 = h3
  alice = alice
  bob = bob
  NoPid = NoPid
  NoUser = NoUser
  Handler <- MCHandler2
  User <- MCOneUser
  MaxUsers = 1
  MaxTransfers = 1
  MaxId = 1
SPECIFICATION LiveSpec
PROPERTIES
  MuxReleased
  LeaveLeadsToExit
