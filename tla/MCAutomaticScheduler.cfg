CONSTANTS
  Convs = {c1}
  Channels = {ch1}
  Intervals = {1, 2}
  DefaultInterval = 2
  Sessions = {s1}
  NULL = NULL
  BackoffCap = 4
  RetryAfters = {1, 6}
  Horizon = 8
  MaxKickoff = 1
  MaxFailures = 4
  LongestWait = 2
SPECIFICATION FairSpec
INVARIANTS
  TypeOK
  KickoffRunsAlone
PROPERTIES
  AttemptWaitsForInterval
  RetriesBackOff
  OverdueIsAttempted
  RetryAfterNearlyHonored
