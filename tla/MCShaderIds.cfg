SPECIFICATION Spec
CONSTANTS
  Reg = {1, 2, 61}
  Bytes <- MCBytes
  MaxInstructions = 2
INVARIANTS
  OneResultPerId
  RenamingFollowsValues
CHECK_DEADLOCK FALSE
