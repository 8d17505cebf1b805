CONSTANTS
  Convs = {c1, c2}
  Channels = {ch1, ch2}
  Intervals = {1, 2}
  DefaultInterval = 2
  Sessions = {s1}
  NULL = NULL
  MaxTime = 3
SPECIFICATION Spec
SYMMETRY Symmetry
INVARIANTS
  TypeOK
  OneActiveConversation
  CoherentPlan
PROPERTIES
  RowsMoveForward
  IntervalRestartsOnClosure
  ImplementsLifecycle
