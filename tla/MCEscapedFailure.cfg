CONSTANTS
  Convs = {c1}
  Channels = {home, t1}
  Intervals = {1}
  DefaultInterval = 1
  Sessions = {s1, s2}
  NULL = NULL
  Callers = {auto, u1}
  Scheduler = auto
  Home = home
  Stores = {live}
  LiveStore = live
  StoreFaults = {}
  PiFaults = {"broken"}
  HubFaults = {}
  ThreadFaults = {}
  MaxTime = 0
SPECIFICATION AdapterSpec
SYMMETRY Symmetry
PROPERTIES
  FailedStartDeletesItsThread
