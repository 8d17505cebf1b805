CONSTANTS
  Convs = {c1, c2}
  Channels = {home, t1, t2}
  Intervals = {1}
  DefaultInterval = 1
  Sessions = {s1, s2}
  NULL = NULL
  Callers = {auto, u1}
  Scheduler = auto
  Home = home
  Stores = {live}
  LiveStore = live
  StoreFaults = {"fail"}
  PiFaults = {"transient"}
  HubFaults = {"lost"}
  ThreadFaults = {"lost"}
  MaxTime = 1
SPECIFICATION AdapterSpec
SYMMETRY Symmetry
INVARIANTS
  AdapterTypeOK
  LiveConversationKeepsItsThread
  KickoffFindsNoConversation
PROPERTIES
  FailedStartLeavesNothing
