SPECIFICATION Spec
CONSTANTS
  Txns = {t1, t2}
  Hooks = {}
  Recons = {r1}
  Rates = {rateA}
  LockedRate = rateA
  NoRate = NoRate
  Dust = {}
  Copies = {c1}
  Concurrency = 2
  MaxRetries = 1
  FaultLimit <- NoFault
PROPERTY RunLogsAll
