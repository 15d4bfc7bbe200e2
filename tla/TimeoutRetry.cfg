SPECIFICATION FairSpec
CONSTANTS
  Workers = {w1, w2}
  Body = body
  Retries = 1
  HasTimeout = TRUE
INVARIANTS
  TypeOK
  EveryCommandIsTimed
PROPERTIES
  AbandonedTriesAreRefused
  CallEnds
  DeviceIsLeftAlone
CHECK_DEADLOCK FALSE
