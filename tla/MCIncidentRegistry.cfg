SPECIFICATION Spec
CONSTANTS
  t1 = t1
  t2 = t2
  t3 = t3
  Monitors = {m1}
  Kinds = {outage, blocked, recovered}
  Recovered = recovered
  Times <- MCTimes
  Tokens <- MCTokens
  LeaseTicks = 1
  RetentionTicks = 1
  MaxClock = 3
  NoState = NoState
  NoRow = NoRow
  NoOutage = NoOutage
  Unissued = Unissued
  Finished = Finished
SYMMETRY TokenSymmetry
INVARIANTS
  OneLivePublisher
  HolderKeepsRowWithinLease
  DeliveredIsReflected
  OutageStartTracksState
PROPERTIES
  OutageStartSticky
  RepeatOnlyAcrossTie
  ImplementsLeases
