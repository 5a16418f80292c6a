SPECIFICATION VisitedSpec
CONSTANTS
  demo = demo
  coi = coi
  f = f
  t = t
  g = g
  recited = recited
  tied = tied
  tied2 = tied2
  k1 = k1
  k2 = k2
  Cases <- MCCases
  DemoCases <- MCDemoCases
  FindingIds <- MCFindingIds
  TieIds <- MCTieIds
  CaseOf <- MCCaseOf
  Recitations <- MCRecitations
  Discoveries <- MCDiscoveries
  Responses <- MCResponses
  MAX_RETRIES = 0
  DemoLiveSynthesis = FALSE
  Asks <- MCAsks
  FirstStates <- MCFirstStates
  MaxVersion = 2
  Workers <- MCWorkers
  MaxOverlaps = 1
  MaxWrites = 1
  MaxCrashes = 1
INVARIANTS
  MarkedDemoIsWhole
PROPERTIES
  DemoHeals
CHECK_DEADLOCK FALSE
