SPECIFICATION Spec
CONSTANTS
  c1 = c1
  c2 = c2
  r1 = r1
  Clients = {c1, c2}
  Replicas = {r1}
  Size <- MCSize
  Transactions = {2}
  Requests <- OneReplica
  MaxWrites = 3
  MaxWaits = 1
SYMMETRY ClientSymmetry
INVARIANTS TypeOK OffsetsAgree ExecutesPrefix AcknowledgesExecuted WaitCountsExecuted
CHECK_DEADLOCK FALSE
