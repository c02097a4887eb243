CONSTANTS
  alice = alice
  bob = bob
  w1 = w1
  w2 = w2
  Accounts = {alice, bob}
  Names = {1, 2}
  ValidNames = {2}
  Services = {7, 8}
  None = None
  Workers = {w1, w2}
  MaxSigned = 2
  MaxTick = 2
  MaxBatch = 2
SPECIFICATION RuntimeSpec
SYMMETRY Symmetry
CHECK_DEADLOCK FALSE
INVARIANTS CountsOnce AsksForMore
PROPERTIES ImplementsService
