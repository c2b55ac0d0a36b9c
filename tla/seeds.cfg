SPECIFICATION Spec
CONSTANTS
  s1 = s1
  s2 = s2
  c1 = c1
  c2 = c2
  s3 = s3
  Runs = {s1, s2, s3}
  Calls = {c1, c2}
CHECK_DEADLOCK FALSE
INVARIANTS
  TypeOK
  AccountsFound
  SamplesWhole
  NoneWaitsForEver
PROPERTY
  SeedsSkipExisting
