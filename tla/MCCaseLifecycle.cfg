SPECIFICATION Spec
CONSTANTS
  f1 = f1
  f2 = f2
  t1 = t1
  FindingIds <- MCFindings
  TieIds <- MCTies
  OfferedActions = {"dismiss", "escalate"}
  OfferedReasons = {"outside_declaration_scope", "possible_nondisclosure_for_certification", "misidentified_entity"}
  OfferedOutcomes = {"cleared", "approved"}
  MaxActions = 3
  MaxSelection = 2
  MaxRecords = 2
  MaxClosures = 2
SYMMETRY SymmetricFindings
INVARIANTS
  TypeOK
  ClosureRule
PROPERTIES
  OrphansAreOfHalfDoneReconciliations
  KeepsThePromise
CHECK_DEADLOCK FALSE
