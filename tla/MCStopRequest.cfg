SPECIFICATION FairSpec
PROPERTIES
  LoopWakesOnStop
