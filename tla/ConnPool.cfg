\* Two requests for two connections (258 is 2 in a uint8_t), one of them deaf.
CONSTANTS
  r1 = r1
  r2 = r2
  NoClient = NoClient
  Request = {r1, r2}
  NumConnection = 258
  Polls = 2
  Deaf = {1}
SPECIFICATION FairSpec
INVARIANTS
  TypeOK
  OneUser
  NoneLost
PROPERTIES
  NoRevivalAfterStop
  RestForGood
  ImplementsLease
  EveryRequestReturns
  BrokenConnectionReturns
  StopReturns
  QuietAfterStop
