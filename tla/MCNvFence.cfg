SPECIFICATION NvGpuSpec
CONSTANTS
  MaxChannel = 1
  MaxFence = 4
  Commands <- MCCommands
  MaxWords = 3
  MaxLength = 2
  MaxId <- MCMaxId
INVARIANTS
  PendingIsTheRest
  EffectsAreThoseAskedFor
  WaitGoesByTriangles
PROPERTIES
  EveryFenceCompletes
