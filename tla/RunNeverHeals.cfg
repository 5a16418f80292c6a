SPECIFICATION VisitedSpec
CONSTANTS
  a1 = a1
  r1 = r1
  r2 = r2
  NumEntities = 2
  ScreeningHits <- MCScreeningHits
  OfferedFinds <- MCOfferedFinds
  OfferedHits <- MCOfferedHits
  Authors <- MCAuthors
  Requests <- MCRequests
  MaxEnrichments = 0
  MaxCrashes = 1
PROPERTIES
  DemoRunHeals
CHECK_DEADLOCK FALSE
