SPECIFICATION FairSpec
CONSTANTS
  p1 = p1
  p2 = p2
  p3 = p3
  s1 = s1
  s2 = s2
  f1 = f1
  f2 = f2
  f3 = f3
  d1 = d1
  Pages = {p1, p3}
  Sites = {s1, s2}
  SiteOf <- MCSiteOf
  FastLoops = {f1, f3}
  DeepLoops = {d1}
  Webhooks = {w1}
  ManualChecks = {c1}
  LoopPage <- MCLoopPage
  GlobalConcurrency = 3
  SiteConcurrency = 2
  ManualSlots = 1
  Nobody = Nobody
PROPERTIES
  ImmediateDeepCheckRuns
  EventsAreHandled
  LoopsKeepChecking
INVARIANTS
  BudgetsHold
