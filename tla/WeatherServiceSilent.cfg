\* One session.
CONSTANTS
  home = home
  road = road
  square = square
  null = null
  a1 = a1
  a2 = a2
  a3 = a3
  s1 = s1
  s2 = s2
  NoCoor = NoCoor
  NoAddress = NoAddress
  Session = {s1}
  Address = {a1}
  Coor = {home}
  ZeroCoor = {}
  Distance = 10
  Livetime = 1
  MaxTime = 0
  MaxEntries = 2
  Threads = 1
  GeoAnswers <- OneAddress
  Degrees <- DegreesOnGrid
  Metres <- MetresOnGrid
SPECIFICATION Spec
INVARIANT EverySessionReplies
