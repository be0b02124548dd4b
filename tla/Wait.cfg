SPECIFICATION FairSpec
CONSTANTS
  c1 = c1
  c2 = c2
  r1 = r1
  Clients = {c1}
  Replicas = {r1}
  Size <- MCSize
  Transactions = {}
  Requests <- AnyRequest
  MaxWrites = 1
  MaxWaits = 2
PROPERTIES WaitAnswered
CHECK_DEADLOCK FALSE
