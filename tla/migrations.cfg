SPECIFICATION Spec
CONSTANTS
  m1 = m1
  m2 = m2
  m3 = m3
  Merchants = {m1, m2, m3}
INVARIANTS
  TypeOK
  HeadComplete
  NeverStuck
PROPERTY
  UpgradesKeepApprovals
