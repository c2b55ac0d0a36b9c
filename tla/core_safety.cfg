SPECIFICATION Spec
CONSTANTS
  Txns = {t1}
  Hooks = {h1, h2}
  Recons = {r1, r2}
  Rates = {rateA, rateB}
  LockedRate = rateA
  NoRate = NoRate
  Dust = {}
  Copies = {c1}
  Concurrency = 2
  MaxRetries = 1
  FaultLimit <- NoLoss
SYMMETRY Symmetry
INVARIANTS
  NotStranded
  LockHonoured
  DirectFlowPaysOnce
  LogBacked
  RateWasPaid
  OnePendingPerRun
  FewerStrayEntriesThanSlots
PROPERTIES
  TerminalStable
  LifecycleSpec
