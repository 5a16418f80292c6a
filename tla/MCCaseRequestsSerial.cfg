SPECIFICATION SerialSpec
CONSTANTS
  f1 = f1
  f2 = f2
  t1 = t1
  t2 = t2
  r1 = r1
  FindingIds <- MCFindings
  TieIds <- MCTies
  OfferedActions = {"dismiss"}
  OfferedReasons = {"other"}
  OfferedOutcomes = {"cleared", "approved"}
  MaxActions = 2
  MaxSelection = 2
  MaxRecords = 2
  MaxClosures = 1
  Requests <- MCRequests
  MaxAppends = 1
  MaxCrashes = 0
SYMMETRY SymmetricIds
PROPERTY
  RequestsAreAtomic
CHECK_DEADLOCK FALSE
