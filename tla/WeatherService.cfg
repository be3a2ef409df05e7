\* Two sessions on two threads: database calls of different sessions interleave.
\* What is stored at 0 is exactly Livetime old at 1 and too old at 2; null stands
\* for a place on the equator.  A state in which the R-tree is raced over has no
\* successor.
CONSTANTS
  home = home
  road = road
  square = square
  null = null
  a1 = a1
  a2 = a2
  a3 = a3
  s1 = s1
  s2 = s2
  NoCoor = NoCoor
  NoAddress = NoAddress
  Session = {s1, s2}
  Address = {a1, a2}
  Coor = {home, road, square, null}
  ZeroCoor = {null}
  Distance = 10
  Livetime = 1
  MaxTime = 2
  MaxEntries = 2
  Threads = 2
  GeoAnswers <- TwoAddresses
  Degrees <- DegreesOnGrid
  Metres <- MetresOnGrid
SYMMETRY Symmetry
SPECIFICATION Spec
CHECK_DEADLOCK FALSE
INVARIANTS
  TypeOK
  WeatherIsForTheAddress
PROPERTIES
  ServesFreshWeather
  RepeatSkipsGeocoder
  FreshWeatherMissedOnlyIfHidden
  ImplementsCache
