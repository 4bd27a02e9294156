SPECIFICATION FramesSpec
CONSTANTS
  Images = 2
  MaxFrames = 4
  Graphics = {g1, g2}
  Compute = {c1}
INVARIANTS
  RecordedIsIdle
  HistoryIsPreviousFrame
  HeldObjectsGo
  PipelinesFitThePass
PROPERTIES
  EveryWaitEnds
CHECK_DEADLOCK FALSE
