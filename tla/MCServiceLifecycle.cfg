SPECIFICATION FairSpec
INVARIANTS
  ServesWhenReady
PROPERTIES
  UserDataSurvives
  ServiceComesUp
