SPECIFICATION Spec
CONSTANTS
  Policies = {"always", "everysec", "no"}
  Parts = 2
  Second = 2
  DiskFails = TRUE
  MaxWrites = 3
  MaxTime = 3
  MaxCrashes = 2
CHECK_DEADLOCK FALSE
INVARIANTS AcknowledgedKept LossWindow
