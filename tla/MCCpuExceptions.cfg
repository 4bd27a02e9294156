SPECIFICATION Spec
CONSTANTS
  Length = 2
  Compare <- MCCompare
  MaxTurns = 7
INVARIANTS
  InterruptsAreTransparent
PROPERTIES
  WayBackKept
CHECK_DEADLOCK FALSE
