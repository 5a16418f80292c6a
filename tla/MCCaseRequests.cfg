SPECIFICATION RequestsSpec
CONSTANTS
  f1 = f1
  t1 = t1
  r1 = r1
  r2 = r2
  FindingIds <- MCFindings
  TieIds <- MCTies
  OfferedActions = {"dismiss"}
  OfferedReasons = {"other"}
  OfferedOutcomes = {"cleared", "approved"}
  MaxActions = 1
  MaxSelection = 2
  MaxRecords = 2
  MaxClosures = 1
  Requests <- MCRequests
  MaxAppends = 1
  MaxCrashes = 1
CONSTRAINT OneObservation
SYMMETRY SymmetricRequests
INVARIANTS
  RequestsTypeOK
  RowsSurvive
  DecisionsAreRecorded
  AcceptedAreNumbered
PROPERTIES
  HistoryOnlyGrows
CHECK_DEADLOCK FALSE
