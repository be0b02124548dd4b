CONSTANTS
  a = a
  b = b
  c1 = c1
  c2 = c2
  c3 = c3
  master = master
  Keys <- MCKeys
  Texts = {a, b}
  IntMin = 0
  IntMax = 2
  OverflowResult = 0
  IdMax = 2
  Clients = {c1, c2}
  ReplicationClient = master
  WallTimes = {1, 2}
  Scenarios <- PersistenceScenarios
SPECIFICATION Spec
INVARIANTS RecoversEntries
PROPERTIES AllOrNothing
