SPECIFICATION Spec
CONSTANTS
  none = none
  one = one
  two = two
  l1 = l1
  l2 = l2
  g1 = g1
  g2 = g2
  g3 = g3
  Savers = {s1, s2}
  Manifests <- MCManifests
  LoopsOf <- MCLoopsOf
  ColdSettings = {c1}
  Generations <- MCGenerations
INVARIANTS
  OneSchedulerRuns
