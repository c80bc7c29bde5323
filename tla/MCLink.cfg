CONSTANTS
  Base = 4
  NotUtf8 = 99
  MaxFrameLen = 60
  Queued <- queued
  Sample <- Contents
  Scenes <- AllScenes
  MaxConns = 8
  MaxWorkers = 4
SPECIFICATION Spec
CHECK_DEADLOCK FALSE
INVARIANTS
  FramesFit
  CommandsArrive
  OwnAnswer
PROPERTIES
  EveryCallReturns
