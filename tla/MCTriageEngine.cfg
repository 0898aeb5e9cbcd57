SPECIFICATION FairEngineSpec
CONSTANTS
  t1 = t1
  t2 = t2
  t3 = t3
  h1 = h1
  h2 = h2
  Monitors = {m1}
  ConfirmedOutage = ConfirmedOutage
  MonitorBlocked = MonitorBlocked
  TransientFailure = TransientFailure
  Recovered = Recovered
  Kinds = {ConfirmedOutage, MonitorBlocked, TransientFailure, Recovered}
  Times <- MCTimes
  Tokens <- MCTwoTokens
  Tasks <- MCTasks
  LeaseTicks = 1
  RetentionTicks = 1
  MaxClock = 2
  MaxAttempts = 1
  NoState = NoState
  NoRow = NoRow
  NoOutage = NoOutage
  Unissued = Unissued
  Finished = Finished
  Outcomes = {"ok", "http_error"}
  Errors403 = {FALSE}
INVARIANTS
  PublisherFindsItsRow
  HookSeesItsTransition
  RepeatsAreExcused
  NoLossWithoutFailure
PROPERTIES
  RegistrySpec
  EveryEventHandled
