SPECIFICATION RequestsSpec
CONSTANTS
  f1 = f1
  t1 = t1
  r1 = r1
  r2 = r2
  FindingIds <- MCFindings
  TieIds <- MCNoTies
  OfferedActions = {"dismiss"}
  OfferedReasons = {"other"}
  OfferedOutcomes = {"cleared", "approved"}
  MaxActions = 1
  MaxSelection = 1
  MaxRecords = 2
  MaxClosures = 1
  Requests <- MCRequests
  MaxAppends = 1
  MaxCrashes = 0
INVARIANT
  ClosureRuleAtRest
CHECK_DEADLOCK FALSE
