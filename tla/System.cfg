\* One session after the other on two threads, one connection to each server.  A
\* listener whose cancel was missed may go on for ever, and the program may also
\* end, so there are states without a successor.
CONSTANTS
  s1 = s1
  s2 = s2
  Session = {s1}
  Threads = 2
  GeoConnection = 1
  WeatherConnection = 1
  NoClient = NoClient
  Polls = 1
SPECIFICATION FairSpec
CHECK_DEADLOCK FALSE
INVARIANTS
  TypeOK
  NothingLeftBehind
PROPERTIES
  ImplementsLifecycle
  SessionsEnd
  StopReturnsUnlessMissed
