SPECIFICATION Spec
CONSTANTS
  vi = vi
  own = own
  Name <- MCName
  Booted <- MCBooted
  GuestNames <- MCGuest
  MaxSessions = 1
  MaxQueue = 2
  Window = 9
  MaxSession = 2
  MaxReq = 3
INVARIANTS
  SessionsCounted
  AnswersInOrder
PROPERTIES
  AnsweredAtMostOnce
  EveryRequestServed
