SPECIFICATION Spec
CONSTANTS
  s = s
  a = a
  b = b
  t = t
  aff1 = aff1
  aff2 = aff2
  aff3 = aff3
  aff4 = aff4
  id1 = id1
  id2 = id2
  unknown = unknown
  listed = listed
  near = near
  firm = firm
  holding = holding
  twin = twin
  lab = lab
  NoCase = NoCase
  NoLei = NoLei
  NoFile = NoFile
  Names <- MCNames
  Discoveries <- MCDiscoveries
  LastObserved <- MCLastObserved
  Affiliations <- MCAffiliations
  AffiliationId <- MCAffiliationId
  DeclaredName <- MCDeclaredName
  Employers <- MCEmployers
  Sources <- MCSources
  Confidence <- MCConfidence
  RECONCILIATION_THRESHOLD = 90
  PARTIAL_MATCH_FLOOR = 85
  ListedOn <- MCListedOn
  LEIs <- MCLEIs
  LeiOf <- MCLeiOf
  LegalName <- MCLegalName
  Jurisdiction <- MCJurisdiction
  Files <- MCFiles
  GraphsBefore <- MCGraphsBefore
  MaxDepth = 2
  MaxReconciliations = 2
  MaxOtherLoads = 1
  MaxCrashes = 1
INVARIANTS
  ReconciliationTypeOK
  ChainsAreMaximalPaths
  EndpointsAreConfirmed
  OneFlagPerParent
  WorksheetIsWhole
  NothingDiscoveredIsLost
  EmployerTiesAreBacked
  ClashesAreTwinsOrRepeatedIds
CHECK_DEADLOCK FALSE
