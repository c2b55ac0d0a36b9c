SPECIFICATION FairSpec
CONSTANTS
  Merchants = {m1, m2}
  Payments = {p1, p2}
  FaultLimit <- TwoCrashes
INVARIANTS
  TypeOK
  PayeeApproved
  ReviewOwned
PROPERTY ReviewEnds
CHECK_DEADLOCK FALSE
