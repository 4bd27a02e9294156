SPECIFICATION Spec
CONSTANTS
  vi = vi
  own = own
  Name <- MCName
  Booted <- MCBooted
  GuestNames <- NoGuest
  MaxSessions = 2
  MaxQueue = 2
  Window = 2
  MaxSession = 2
  MaxReq = 5
INVARIANT
  NothingLost
PROPERTY
  EveryAnswerRead
CHECK_DEADLOCK FALSE
