\* Two sessions on one thread, with fairness.  What is stored at 0 expires.
CONSTANTS
  home = home
  road = road
  square = square
  null = null
  a1 = a1
  a2 = a2
  a3 = a3
  s1 = s1
  s2 = s2
  NoCoor = NoCoor
  NoAddress = NoAddress
  Session = {s1, s2}
  Address = {a1, a2}
  Coor = {home, square}
  ZeroCoor = {}
  Distance = 8
  Livetime = 0
  MaxTime = 1
  MaxEntries = 2
  Threads = 1
  GeoAnswers <- HomeAndSquare
  Degrees <- DegreesOnGrid
  Metres <- MetresOnGrid
SPECIFICATION FairSpec
INVARIANT NoDataRace
PROPERTIES
  SessionEnds
