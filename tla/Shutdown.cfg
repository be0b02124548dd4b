SPECIFICATION FairSpec
CONSTANTS
  c1 = c1
  Connections = {c1}
  HasMaster = TRUE
CHECK_DEADLOCK FALSE
INVARIANTS ProcessorOutlivesThreads NothingRegistered
PROPERTIES StopReachesProcessor
