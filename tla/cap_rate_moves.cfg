SPECIFICATION PaySpec
CONSTANTS
  usd = usd
  sgd = sgd
  p1 = p1
  USD = usd
  Currencies = {usd, sgd}
  SETTLEMENT_CURRENCIES <- Both
  SettlesIn <- InDollars
  WithinCap = {high}
  Callers = {p1}
  Runs = {r1}
  LiveRates = {low, high}
  MockRate = mock
  TTL = 1
  RunLimit = 1
  LockTTL = 2
  OutageLimit = 0
  Horizon = 4
  None = None
INVARIANT CapAtLockedRate
CHECK_DEADLOCK FALSE
