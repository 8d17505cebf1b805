CONSTANTS
  MaxProcs = 2
  MaxEvents = 1
  MaxAfter = 1
SPECIFICATION FairSpec
INVARIANTS
  PiTypeOK
  AnswerBelongsToRun
  FailuresPass
PROPERTIES
  ReaderFailureSurfaces
  CallsEnd
