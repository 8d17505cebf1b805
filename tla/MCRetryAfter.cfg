CONSTANTS
  Convs = {c1}
  Channels = {ch1}
  Intervals = {2}
  DefaultInterval = 2
  Sessions = {s1}
  NULL = NULL
  BackoffCap = 2
  RetryAfters = {3}
  Horizon = 6
  MaxKickoff = 1
  MaxFailures = 2
  LongestWait = 2
SPECIFICATION Spec
PROPERTIES
  RetryAfterHonored
