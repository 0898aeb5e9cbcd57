SPECIFICATION FairSpec
CONSTANTS
  p1 = p1
  p2 = p2
  p3 = p3
  s1 = s1
  s2 = s2
  f1 = f1
  f2 = f2
  f3 = f3
  d1 = d1
  Pages = {p1}
  Sites = {s1, s2}
  SiteOf <- MCSiteOf
  FastLoops = {f1}
  DeepLoops = {d1}
  Webhooks = {w1}
  ManualChecks = {}
  LoopPage <- MCLoopPage
  GlobalConcurrency = 2
  SiteConcurrency = 1
  ManualSlots = 1
  Nobody = Nobody
PROPERTIES
  ImmediateDeepCheckRuns
CHECK_DEADLOCK FALSE
