SPECIFICATION Spec
CONSTANTS
  RateScale = 4
  PaiseUnit = 2
  FeeNum = 3
  FeeDen = 32
  Cap = 24
  VarScale = 20
  TolDen = 10
  MaxAmount = 74
  MaxVariance = 3
  Amounts <- TwoAmounts
  Rates = {3, 5, 7, 8, 12}
  Variances <- SmallVariances
  None = None
INVARIANT PaysWhatWasCollected
CHECK_DEADLOCK FALSE
