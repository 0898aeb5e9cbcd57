SPECIFICATION Spec
CONSTANTS
  Pages = 2
  Viewports <- MixedViewports
  HealthChecks <- MixedHealthChecks
  Crawled = {1, 2}
  IgnoresConsole = {2}
  Observations <- AllObservations
  HealthAnswers <- AllAnswers
  NoJob = NoJob
INVARIANTS
  WorstViewportWins
  TroubleIsAlerted
  FailingHealthChecksAreAlerted
  FullTriageHidesNothing
