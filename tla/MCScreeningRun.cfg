SPECIFICATION FairSpec
CONSTANTS
  a1 = a1
  r1 = r1
  r2 = r2
  NumEntities = 2
  ScreeningHits <- MCScreeningHits
  OfferedFinds <- MCOfferedFinds
  OfferedHits <- MCOfferedHits
  Authors <- MCAuthors
  Requests <- MCRequests
  MaxEnrichments = 2
  MaxCrashes = 1
INVARIANTS
  RunTypeOK
  ManifestMeansWhole
  GleifManifestIsTrue
  MatchedAuthorsHaveWorks
PROPERTIES
  RaceResolvesItself
CHECK_DEADLOCK FALSE
