SPECIFICATION PaySpec
CONSTANTS
  usd = usd
  sgd = sgd
  p1 = p1
  USD = usd
  Currencies = {usd, sgd}
  SETTLEMENT_CURRENCIES <- Other
  SettlesIn <- InOther
  WithinCap = {live}
  Callers = {p1}
  Runs = {r1}
  LiveRates = {live}
  MockRate = mock
  TTL = 1
  RunLimit = 1
  LockTTL = 1
  OutageLimit = 1
  Horizon = 3
  None = None
INVARIANTS
  MockExplained
  PayTypeOK
  SettledRateAge
  RatesOnRecord
CHECK_DEADLOCK FALSE
PROPERTY QuotesSpec
