CONSTANTS
  Convs = {c1, c2}
  Channels = {home, t1, t2}
  Intervals = {1}
  DefaultInterval = 1
  Sessions = {s1, s2}
  NULL = NULL
  Callers = {auto, u1, u2}
  Scheduler = auto
  Home = home
  Stores = {live, test}
  LiveStore = live
  StoreFaults = {}
  PiFaults = {}
  HubFaults = {}
  ThreadFaults = {}
  MaxTime = 0
SPECIFICATION AdapterSpec
ACTION_CONSTRAINT OnlyThreads
SYMMETRY Symmetry
INVARIANTS
  LiveConversationKeepsItsThread
PROPERTIES
  FailedStartDeletesItsThread
