SPECIFICATION Spec
CONSTANTS
  own = own
  Booted = {}
  GuestPorts <- MCGuestPorts
  MaxThread = 2
  MaxHandles = 2
  TagSize = 4
  Absent = Absent
  MaxSessions = 2
  MaxObject = 2
INVARIANTS
  ThreadIdsDistinct
  NoSharedMutex
PROPERTY
  NoSessionReplaced
