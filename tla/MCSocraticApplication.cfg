CONSTANTS
  Convs = {c1, c2}
  Channels = {ch1, ch2}
  Intervals = {1}
  DefaultInterval = 1
  Sessions = {s1, s2, s3, s4}
  NULL = NULL
  Callers = {p1, p2}
  Stores = {live}
  LiveStore = live
  StoreFaults = {"fail", "late"}
  PiFaults = {"transient", "fatal", "broken"}
  HubFaults = {"lost", "ambiguous", "garbled"}
  MaxTime = 1
SPECIFICATION Spec
SYMMETRY Symmetry
INVARIANTS
  TypeOK
  LeaseFollowsFlight
  StartNeverCollides
  FlightKeepsItsRow
  CompletedWasPosted
  ConversationKeepsItsSession
PROPERTIES
  FailedClosureReopens
  ImplementsLifecycle
