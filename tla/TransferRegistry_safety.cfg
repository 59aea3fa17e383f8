CONSTANTS
  h1 = h1
  h2 = h2
  h3 = h3
  alice = alice
  bob = bob
  NoPid = NoPid
  NoUser = NoUser
  Handler <- MCHandler2
  User <- MCUser
  MaxUsers = 2
  MaxTransfers = 2
  MaxId = 2
SPECIFICATION Spec
SYMMETRY MCSymmetry2
INVARIANTS
  EveryRequestAccountedFor
  AcceptedOnce
PROPERTIES
  OnlyReceiverAnswers
  ImplementsLifecycle
CONSTRAINT Undisturbed
