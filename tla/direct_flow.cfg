SPECIFICATION FairSpec
CONSTANTS
  Txns = {t1, t2}
  Hooks = {}
  Recons = {r1}
  Rates = {rateA}
  LockedRate = rateA
  NoRate = NoRate
  Dust = {t2}
  Copies = {c1}
  Concurrency = 2
  MaxRetries = 1
  FaultLimit <- NoLoss
INVARIANT TypeOK
PROPERTIES
  EverySettledLogged
  RunEndsExplained
