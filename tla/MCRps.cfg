SPECIFICATION FairSpec
CONSTANTS
  p1 = p1
  p2 = p2
  e1 = e1
  r1 = r1
  r2 = r2
  Parties <- MCParties
  Entries <- MCEntries
  Requests <- MCRequests
  MaxScreenings = 3
  MaxDispositions = 2
  MaxCrashes = 1
INVARIANTS
  RpsTypeOK
  LatestHitsAreKept
  ManifestTellsTheMatches
PROPERTIES
  NoInheritedDisposition
  ScreeningIsReported
CHECK_DEADLOCK FALSE
