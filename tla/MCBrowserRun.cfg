SPECIFICATION Spec
CONSTANTS
  page = page
  frame = frame
  image = image
  beacon = beacon
  Routes <- MCRoutes
  KindOf <- MCKindOf
  MaxRoutes = 3
  MaxRequests = 3
  MaxBytes = 1
  MaxConcurrent = 1
  MaxFailures = 1
  Initial = Initial
INVARIANTS
  PermitsComeBack
  EntryAnsweredOnce
  NothingSurvivesTheRun
  EvidenceNamesTheFailures
  OutcomeIsHonest
PROPERTIES
  RunEnds
CHECK_DEADLOCK FALSE
