SPECIFICATION Spec
CONSTANTS
  Txns = {t1}
  Hooks = {h1}
  Recons = {r1}
  Rates = {rateA}
  LockedRate = rateA
  NoRate = NoRate
  Dust = {}
  Copies = {c1}
  Concurrency = 2
  MaxRetries = 1
  FaultLimit <- NoFault
PROPERTY SettlesOnlyCollected
