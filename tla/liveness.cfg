SPECIFICATION FairSpec
CONSTANTS
  Txns = {t1}
  Hooks = {h1, h2}
  Recons = {}
  Rates = {rateA}
  LockedRate = rateA
  NoRate = NoRate
  Dust = {}
  Copies = {c1}
  Concurrency = 1
  MaxRetries = 1
  FaultLimit <- OneEach
PROPERTY EventuallyClosed
CHECK_DEADLOCK FALSE
