---------------------------- MODULE SettlementMath ----------------------------
(***************************************************************************)
(* The Decimal arithmetic of a payment.  Amounts, of rupees and of the     *)
(* settlement currency, are integers in units of 0.0001, rates in units of *)
(* 1 / RateScale; a paisa is PaiseUnit units.  A quotient is computed to   *)
(* 28 digits before it is quantised, so quantising is taken as exact.      *)
(***************************************************************************)
EXTENDS Integers

CONSTANTS
  RateScale,       \* 1000000
  PaiseUnit,       \* 100
  FeeNum, FeeDen,  \* PLATFORM_FEE_RATE, 15 and 1000
  Cap,             \* OPGSP_CAP_USD, 100000000
  VarScale,        \* the precision of the simulated variance
  TolDen           \* 2000: an entry matches within 0.0005

ASSUME ScaleAssumption ==
  /\ RateScale \in Nat \ {0} /\ PaiseUnit \in Nat \ {0}
  /\ VarScale \in Nat \ {0} /\ TolDen \in Nat \ {0}
ASSUME FeeAssumption == FeeNum \in Nat /\ FeeDen \in Nat \ {0} /\ 2 * FeeNum <= FeeDen
(* The cap is so round that with any rate it is a whole number of paise.    *)
ASSUME CapAssumption == Cap \in Nat /\ Cap % (RateScale * PaiseUnit) = 0

(* Decimal.quantize: n / d to the nearest integer, a tie to the even one.   *)
HalfEven(n, d) ==
  LET q == n \div d
      r == n % d
  IN  IF 2 * r < d \/ (2 * r = d /\ q % 2 = 0) THEN q ELSE q + 1

(* Rupees a at r rupees for one unit of the other currency.                 *)
Convert(a, r) == HalfEven(a * RateScale, r)

OverCap_OffByOne(a, r) == Convert(a, r) > Cap + 1
OverCap(a, r) == Convert(a, r) > Cap

MaxInr_RoundedUp(r) == PaiseUnit * (HalfEven(Cap * r, RateScale * PaiseUnit) + 1)
MaxInr(r) == PaiseUnit * HalfEven(Cap * r, RateScale * PaiseUnit)

Fee_AtLeastAPaisa(a) ==
  LET f == HalfEven(a * FeeNum, FeeDen * PaiseUnit)
  IN  PaiseUnit * (IF f > 0 THEN f ELSE 1)
Fee(a) == PaiseUnit * HalfEven(a * FeeNum, FeeDen * PaiseUnit)

Net(a, fee, r) == Convert(a, r) - Convert(fee, r)

Magnitude(x) == IF x < 0 THEN -x ELSE x

Actual(net, v) == HalfEven(net * (VarScale + v), VarScale)

(* |actual - net| / net < 0.0005, where net may be negative.                *)
Matches_HalfAsClose(actual, net) == 2 * TolDen * Magnitude(actual - net) < net
Matches(actual, net) ==
  IF net > 0 THEN TolDen * Magnitude(actual - net) < net
             ELSE net < TolDen * Magnitude(actual - net)
===============================================================================
