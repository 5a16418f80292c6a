SPECIFICATION FairSpec
CONSTANTS
  e1 = e1
  e2 = e2
  u = u
  p1 = p1
  a1 = a1
  a2 = a2
  w1 = w1
  w2 = w2
  w3 = w3
  dod = dod
  cet = cet
  k1 = k1
  k2 = k2
  NoInstitution = NoInstitution
  Entities <- MCEntities
  PIs <- MCPIs
  Authors <- MCAuthors
  Works <- MCWorks
  InstitutionOf <- MCInstitutionOf
  PIsOf <- MCPIsOf
  AuthorsOf <- MCAuthorsOf
  WorksOf <- MCWorksOf
  HasAbstract <- MCHasAbstract
  Corpora <- MCCorpora
  Lead <- MCLead
  Margin = 1
  PAGE_SIZE = 2
  MAX_RETRIES = 1
  Caps <- MCCaps
  Workers <- MCWorkers
  MaxStages = 3
  MaxCrashes = 1
INVARIANTS
  BibliometricsTypeOK
  WorksAreWhole
  ManifestTellsTheCoverage
  FlagsAreEarned
  FlagsFollowTheMargin
PROPERTIES
  StagesEnd
CHECK_DEADLOCK FALSE
