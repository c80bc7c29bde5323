SPECIFICATION Spec
CONSTANTS
  a = a
  b = b
  c = c
  Client = {a, b, c}
  None = None
  Failed = Failed
  Scenes <- Sound
CHECK_DEADLOCK FALSE
INVARIANTS
  AckedKeptUnlessSpoiled
  AckedVisible
  IndexCommitted
PROPERTIES
  FailedNotRunLater
  EveryoneAnswered
