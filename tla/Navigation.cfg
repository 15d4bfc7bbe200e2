SPECIFICATION NavFairSpec
CONSTANTS
  Pages = {p1, p2, p3, p4}
  MaxQueue = 2
  MaxLoads = 2
  MaxRecreate = 1
INVARIANTS
  NavTypeOK
  BarIsRight
PROPERTIES
  HistoryImplemented
  PageLoads
