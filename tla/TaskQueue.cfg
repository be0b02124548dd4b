SPECIFICATION FairSpec
CONSTANTS
  connection = connection
  stopper = stopper
  Threads <- MCThreads
  Burst <- MCBurst
  MaxRounds = 2
INVARIANTS NoLostWakeup NothingLeftBehind OpenTasksKnown
PROPERTIES ExecutorSpec TimedAnswered
CHECK_DEADLOCK FALSE
