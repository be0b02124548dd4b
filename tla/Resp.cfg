CONSTANTS
  Sessions <- MCSessions
  Responses <- MCResponses
  SizeMax = 255
SPECIFICATION Spec
INVARIANTS FramedExactly RepliesReadable
CHECK_DEADLOCK FALSE
