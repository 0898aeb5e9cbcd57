SPECIFICATION EngineSpec
CONSTANTS
  t1 = t1
  t2 = t2
  t3 = t3
  h1 = h1
  h2 = h2
  Monitors = {m1}
  ConfirmedOutage = ConfirmedOutage
  MonitorBlocked = MonitorBlocked
  TransientFailure = TransientFailure
  Recovered = Recovered
  Kinds = {ConfirmedOutage, MonitorBlocked, TransientFailure, Recovered}
  Times <- MCTimes
  Tokens <- MCTokens
  Tasks <- MCTasks
  LeaseTicks = 1
  RetentionTicks = 1
  MaxClock = 1
  MaxAttempts = 1
  NoState = NoState
  NoRow = NoRow
  NoOutage = NoOutage
  Unissued = Unissued
  Finished = Finished
  Outcomes = {"ok", "http_error"}
  Errors403 = {FALSE}
SYMMETRY MCSymmetry
INVARIANTS
  AcceptedEventsAreReported
