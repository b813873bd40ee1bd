SPECIFICATION SessionSpec
CONSTANTS
  Urls = {u1, u2}
  Calls = {c1}
  Beat = beat
  Home = u1
  NoUrl = NoUrl
  Afters = {3, 6}
  MinBeat = 1
  MaxBeat = 2
  BeatsPerIdle = 3
  DrainTimeout = 1
  MaxServers = 2
  MaxFaults = 2
INVARIANTS AppliedOnce IdleOnTime
PROPERTIES QuietServerStops
CHECK_DEADLOCK FALSE
