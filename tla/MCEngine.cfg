SPECIFICATION Spec
CONSTANTS
  None = None
  Text = Text
  IntMin <- LeastNumber
  IntMax = 2
  Second = 2
  TimeMax = 6
  Workloads <- Sound
CHECK_DEADLOCK FALSE
INVARIANTS
  RebuiltUnlessSpoiled
  IndexAnswersAsEngine
  FollowerConverges
  PathsAgree
PROPERTIES
  FailedBatchUndone
