CONSTANTS
  a = a
  b = b
  c1 = c1
  c2 = c2
  c3 = c3
  master = master
  Keys <- MCKeys
  Texts = {a, b}
  IntMin = 0
  IntMax = 2
  OverflowResult = 0
  IdMax = 2
  Clients = {c1, c2, c3}
  ReplicationClient = master
  WallTimes = {0, 2}
  Scenarios <- MCScenarios
SPECIFICATION FairSpec
INVARIANTS TypeOK NoServableWaiter NoMissedRead WatchSound AnsweredOnce EntriesWellFormed
PROPERTIES ExecSeesWatchedState ServedInOrder GivesUpOnlyWhenEmpty ReplicaReadOnly TimeoutAnswered
