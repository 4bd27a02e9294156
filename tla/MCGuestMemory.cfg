SPECIFICATION MemorySpec
CONSTANTS
  Width = 6
  RamSize = 1
  HeapBase = 2
  Sizes = {0, 1, 2}
  Perms <- MCPerms
  MaxRequests = 4
INVARIANTS
  AliasesAgree
PROPERTIES
  OthersKeepTheirMeaning
CHECK_DEADLOCK FALSE
