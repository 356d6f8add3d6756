\* Four calls, two slots, one call per model, up to two pauses.
SPECIFICATION FairSpec
CONSTANTS
  c1 = c1  c2 = c2  c3 = c3  judge = judge
  m1 = m1  m2 = m2  run1 = run1  run2 = run2
  Jobs <- MCJobs
  Models <- MCModels
  Signals <- MCSignals
  ModelOf <- MCModelOf
  Priority <- MCPriority
  SignalOf <- MCSignalOf
  GlobalLimit = 2
  PerModelLimit = 1
  Cooldowns = {0, 1, 2}
  MaxTime = 3
  MaxPauses = 2
INVARIANTS NoLostWakeup
PROPERTIES NoOvertaking ImplementsAdmission EveryJobLeavesQueue
CHECK_DEADLOCK FALSE
