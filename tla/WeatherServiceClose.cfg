\* Three addresses, none of whose records ever becomes too old.
CONSTANTS
  home = home
  road = road
  square = square
  null = null
  a1 = a1
  a2 = a2
  a3 = a3
  s1 = s1
  s2 = s2
  NoCoor = NoCoor
  NoAddress = NoAddress
  Session = {s1}
  Address = {a1, a2, a3}
  Coor = {home, road, square}
  ZeroCoor = {}
  Distance = 10
  Livetime = 2
  MaxTime = 1
  MaxEntries = 2
  Threads = 1
  GeoAnswers <- ThreeAddresses
  Degrees <- DegreesOnGrid
  Metres <- MetresOnGrid
SPECIFICATION Spec
PROPERTY CloseWeatherComesFromDb
