SPECIFICATION Spec
CONSTANTS
  c = c
  f = f
  t = t
  recited = recited
  tied = tied
  tied2 = tied2
  k1 = k1
  k2 = k2
  Cases <- MCCases
  DemoCases <- MCDemoCases
  FindingIds <- MCFindingIds
  TieIds <- MCTieIds
  CaseOf <- MCCaseOf
  Recitations <- MCRecitations
  Discoveries <- MCDiscoveries
  Responses <- MCResponses
  MAX_RETRIES = 1
  DemoLiveSynthesis = FALSE
  Asks <- MCAsks
  FirstStates <- MCFirstStates
  MaxVersion = 1
  Workers <- MCWorkers
  MaxOverlaps = 2
  MaxWrites = 1
  MaxCrashes = 1
SYMMETRY WorkerSymmetry
INVARIANTS
  ExplanationsTypeOK
  ServedForTheEvidence
  SentencesAreGrounded
PROPERTIES
  CachedCarriesForward
CHECK_DEADLOCK FALSE
