----------------------- MODULE SettlementAmountsProofs -----------------------
(***************************************************************************)
(* Proofs about SettlementAmounts, at every scale.  Quantising enters only *)
(* through three facts: the result is nearest, exact where it can be, and  *)
(* monotone.  The rest is what happens to errors of half a unit.           *)
(***************************************************************************)
EXTENDS SettlementAmounts, TLAPS

Positive == Nat \ {0}

LEMMA Cancel ==
  ASSUME NEW d \in Positive, NEW x \in Int, NEW y \in Int
  PROVE  d * x <= d * y <=> x <= y
BY DEF Positive

LEMMA CancelLess ==
  ASSUME NEW d \in Positive, NEW x \in Int, NEW y \in Int
  PROVE  d * x < d * y <=> x < y
BY DEF Positive

LEMMA DivMod ==
  ASSUME NEW n \in Int, NEW d \in Positive
  PROVE  /\ n \div d \in Int /\ n % d \in 0..(d - 1)
         /\ n = d * (n \div d) + (n % d)
BY DEF Positive

LEMMA Nearest ==
  ASSUME NEW n \in Int, NEW d \in Positive
  PROVE  /\ HalfEven(n, d) \in Int
         /\ 2 * (d * HalfEven(n, d)) - 2 * n <= d
         /\ 2 * n - 2 * (d * HalfEven(n, d)) <= d
<1> DEFINE q == n \div d
           r == n % d
<1>1. q \in Int /\ r \in 0..(d - 1) /\ n = d * q + r
  BY DivMod
<1>2. \/ HalfEven(n, d) = q /\ 2 * r <= d
      \/ HalfEven(n, d) = q + 1 /\ 2 * r >= d
  BY <1>1 DEF HalfEven, Positive
<1> HIDE DEF q, r
<1>3. d * (q + 1) = d * q + d
  BY <1>1 DEF Positive
<1> QED
  BY <1>1, <1>2, <1>3 DEF Positive

LEMMA Exact ==
  ASSUME NEW x \in Int, NEW d \in Positive
  PROVE  HalfEven(d * x, d) = x
<1> DEFINE h == HalfEven(d * x, d)
<1>1. h \in Int /\ 2 * (d * h) - 2 * (d * x) <= d /\ 2 * (d * x) - 2 * (d * h) <= d
  BY Nearest DEF Positive
<1> HIDE DEF h
<1>2. d * (2 * h) < d * (2 * x + 2) /\ d * (2 * x) < d * (2 * h + 2)
  BY <1>1 DEF Positive
<1>3. 2 * h < 2 * x + 2 /\ 2 * x < 2 * h + 2
  BY <1>1, <1>2, CancelLess
<1> QED
  BY <1>1, <1>3 DEF h

LEMMA Monotone ==
  ASSUME NEW n \in Int, NEW m \in Int, NEW d \in Positive, n <= m
  PROVE  HalfEven(n, d) <= HalfEven(m, d)
<1> DEFINE h == HalfEven(n, d)
           k == HalfEven(m, d)
<1>1. /\ h \in Int /\ 2 * (d * h) - 2 * n <= d
      /\ k \in Int /\ 2 * m - 2 * (d * k) <= d
  BY Nearest
<1>2. CASE n = m
  BY <1>1, <1>2
<1>3. CASE n < m
  <2> HIDE DEF h, k
  <2>1. d * h < d * (k + 1)
    BY <1>1, <1>3 DEF Positive
  <2>2. h < k + 1
    BY <1>1, <2>1, CancelLess
  <2> QED
    BY <1>1, <2>2 DEF h, k
<1> QED
  BY <1>2, <1>3

LEMMA Scales ==
  /\ RateScale \in Positive /\ PaiseUnit \in Positive /\ VarScale \in Positive
  /\ TolDen \in Positive /\ FeeDen \in Positive /\ FeeNum \in Nat /\ Cap \in Nat
  /\ RateScale * PaiseUnit \in Positive /\ FeeDen * PaiseUnit \in Positive
  /\ Rates \subseteq Positive
BY ScaleAssumption, FeeAssumption, CapAssumption, RatesAssumption DEF Positive

-----------------------------------------------------------------------------
(* What is computed, at any rate.                                           *)

LEMMA ConvertType ==
  ASSUME NEW a \in Int, NEW r \in Positive
  PROVE  Convert(a, r) \in Int
BY Nearest, Scales DEF Convert, Positive

LEMMA FeeType == ASSUME NEW a \in Int PROVE Fee(a) \in Int
<1>1. a * FeeNum \in Int
  BY Scales
<1>2. HalfEven(a * FeeNum, FeeDen * PaiseUnit) \in Int
  BY <1>1, Nearest, Scales
<1> QED
  BY <1>2, Scales DEF Fee, Positive

(* Three roundings by half a unit each.                                     *)
LEMMA TwoRoundings ==
  ASSUME NEW a \in Int, NEW f \in Int, NEW r \in Positive
  PROVE  Magnitude(Net(a, f, r) - Convert(a - f, r)) <= 1
<1> DEFINE A == a * RateScale
           F == f * RateScale
           g == HalfEven(A, r)
           h == HalfEven(F, r)
           m == HalfEven(A - F, r)
<1>1. A \in Int /\ F \in Int /\ (a - f) * RateScale = A - F
  BY Scales DEF Positive
<1>2. Net(a, f, r) = g - h /\ Convert(a - f, r) = m
  BY <1>1 DEF Net, Convert
<1> HIDE DEF A, F
<1>3. /\ g \in Int /\ h \in Int /\ m \in Int
      /\ 2 * (r * g) - 2 * A <= r /\ 2 * A - 2 * (r * g) <= r
      /\ 2 * (r * h) - 2 * F <= r /\ 2 * F - 2 * (r * h) <= r
      /\ 2 * (r * m) - 2 * (A - F) <= r /\ 2 * (A - F) - 2 * (r * m) <= r
  BY <1>1, Nearest
<1> HIDE DEF g, h, m
<1> DEFINE x == g - h - m
<1>4. r * x = r * g - r * h - r * m
  BY <1>3 DEF Positive
<1>5. 2 * (r * x) <= 3 * r /\ 2 * (r * x) >= -(3 * r)
  BY <1>1, <1>3, <1>4 DEF Positive
<1>6. r * x < r * 2 /\ r * (-2) < r * x
  BY <1>3, <1>5 DEF Positive
<1>7. x < 2 /\ -2 < x
  BY <1>3, <1>6, CancelLess
<1> QED
  BY <1>2, <1>3, <1>7 DEF Magnitude

(* A fee of at most half never rounds past its amount.                      *)
LEMMA FeeWithin ==
  ASSUME NEW a \in Nat
  PROVE  0 <= Fee(a) /\ Fee(a) <= a
<1> DEFINE D == FeeDen * PaiseUnit
           h == HalfEven(a * FeeNum, D)
<1>1. D \in Positive /\ a * FeeNum \in Nat
  BY Scales
<1>2. h \in Int /\ 2 * (D * h) - 2 * (a * FeeNum) <= D
  BY <1>1, Nearest
<1>3. 0 <= h
  <2>1. HalfEven(D * 0, D) = 0
    BY <1>1, Exact
  <2>2. D * 0 = 0
    BY <1>1 DEF Positive
  <2> QED
    BY <1>1, <2>1, <2>2, Monotone
<1>4. Fee(a) = PaiseUnit * h
  BY DEF Fee
<1> HIDE DEF h
<1>5. 0 <= Fee(a)
  BY <1>2, <1>3, <1>4, Scales DEF Positive
<1>6. CASE h = 0
  BY <1>4, <1>5, <1>6, Scales DEF Positive
<1>7. CASE h >= 1
  <2> DEFINE f == PaiseUnit * h
  <2>1. f \in Int /\ PaiseUnit <= f
    BY <1>2, <1>7, Scales DEF Positive
  <2>2. D * h = FeeDen * f
    BY <1>2, Scales DEF Positive
  <2>3. 2 * (a * FeeNum) <= FeeDen * a
    BY FeeAssumption
  <2> HIDE DEF f
  <2>4. FeeDen * (2 * f) <= FeeDen * (a + PaiseUnit)
    BY <1>2, <2>1, <2>2, <2>3, Scales DEF Positive
  <2>5. 2 * f <= a + PaiseUnit
    BY <2>1, <2>4, Cancel, Scales DEF Positive
  <2> QED
    BY <1>4, <2>1, <2>5, Scales DEF f, Positive
<1> QED
  BY <1>2, <1>3, <1>6, <1>7

LEMMA ConvertMonotone ==
  ASSUME NEW a \in Int, NEW b \in Int, NEW r \in Positive, a <= b
  PROVE  Convert(a, r) <= Convert(b, r)
<1>1. a * RateScale \in Int /\ b * RateScale \in Int /\ a * RateScale <= b * RateScale
  BY Scales DEF Positive
<1> QED
  BY <1>1, Monotone DEF Convert

LEMMA Overshoot ==
  ASSUME NEW a \in Int, NEW u \in Positive, ~ OverCap(a, u)
  PROVE  2 * (a * RateScale) <= (2 * Cap + 1) * u
<1> DEFINE A == a * RateScale
           h == HalfEven(A, u)
<1>1. A \in Int
  BY Scales DEF Positive
<1>2. h \in Int /\ 2 * A - 2 * (u * h) <= u
  BY <1>1, Nearest
<1>3. h <= Cap
  BY <1>2, Scales DEF OverCap, Convert
<1> HIDE DEF A, h
<1>4. u * h <= u * Cap
  BY <1>2, <1>3, Cancel, Scales
<1>5. (2 * Cap + 1) * u = 2 * (u * Cap) + u
  BY Scales DEF Positive
<1> QED
  BY <1>1, <1>2, <1>4, <1>5, Scales DEF A, Positive

(* The cap in rupees is exact.                                              *)
LEMMA CapInRupees ==
  ASSUME NEW u \in Positive
  PROVE  MaxInr(u) \in Int /\ Convert(MaxInr(u), u) = Cap
<1> DEFINE D == RateScale * PaiseUnit
           k == Cap \div D
<1>1. D \in Positive /\ k \in Int /\ Cap = D * k
  <2>1. D \in Positive /\ Cap \in Int /\ Cap % D = 0
    BY CapAssumption, Scales
  <2> HIDE DEF D
  <2>2. k \in Int /\ Cap = D * k + (Cap % D)
    BY <2>1, DivMod
  <2> QED
    BY <2>1, <2>2 DEF Positive
<1> HIDE DEF k
<1>2. Cap * u = D * (k * u) /\ k * u \in Int
  BY <1>1 DEF Positive
<1>3. HalfEven(Cap * u, D) = k * u
  BY <1>1, <1>2, Exact
<1>4. MaxInr(u) = PaiseUnit * (k * u)
  BY <1>3 DEF MaxInr
<1>5. MaxInr(u) \in Int /\ MaxInr(u) * RateScale = u * Cap
  <2>1. (PaiseUnit * (k * u)) * RateScale = u * ((RateScale * PaiseUnit) * k)
    BY <1>1, Scales DEF Positive
  <2> QED
    BY <1>1, <1>2, <1>4, <2>1, Scales DEF Positive
<1> QED
  BY <1>5, Exact, Scales DEF Convert

LEMMA ActualNear ==
  ASSUME NEW n \in Nat, NEW v \in Int
  PROVE  /\ Actual(n, v) \in Int
         /\ VarScale * (2 * Magnitude(Actual(n, v) - n)) <= 2 * (n * Magnitude(v)) + VarScale
         /\ VarScale * (2 * Magnitude(Actual(n, v) - n)) >= 2 * (n * Magnitude(v)) - VarScale
<1> DEFINE h == Actual(n, v)
           x == h - n
           w == n * v
<1>1. n * (VarScale + v) = VarScale * n + w /\ w \in Int
  BY Scales DEF Positive
<1>2. /\ h \in Int
      /\ 2 * (VarScale * h) - 2 * (VarScale * n + w) <= VarScale
      /\ 2 * (VarScale * n + w) - 2 * (VarScale * h) <= VarScale
  <2>1. VarScale * n + w \in Int
    BY <1>1, Scales DEF Positive
  <2> HIDE DEF w
  <2> QED
    BY <1>1, <2>1, Nearest, Scales DEF Actual
<1>3. n * Magnitude(v) = Magnitude(w) /\ n * Magnitude(v) \in Int
  <2>1. CASE v >= 0
    BY <2>1 DEF Magnitude
  <2>2. CASE v < 0
    BY <2>2 DEF Magnitude
  <2> QED
    BY <2>1, <2>2
<1> HIDE DEF h, w
<1>4. VarScale * x = VarScale * h - VarScale * n
  BY <1>2, Scales DEF Positive
<1>5. 2 * (VarScale * x) - 2 * w <= VarScale /\ 2 * w - 2 * (VarScale * x) <= VarScale
  BY <1>1, <1>2, <1>4, Scales DEF Positive
<1>6. Magnitude(VarScale * x) = VarScale * Magnitude(x) /\ Magnitude(x) \in Nat
  <2>1. CASE x >= 0
    BY <1>2, <2>1, Scales DEF Magnitude, Positive
  <2>2. CASE x < 0
    BY <1>2, <2>2, Scales DEF Magnitude, Positive
  <2> QED
    BY <1>2, <2>1, <2>2
<1>7. VarScale * x \in Int
  BY <1>2, Scales DEF Positive
<1> DEFINE y == VarScale * x
<1> HIDE DEF y
<1>8. /\ 2 * Magnitude(y) <= 2 * Magnitude(w) + VarScale
      /\ 2 * Magnitude(y) >= 2 * Magnitude(w) - VarScale
  BY <1>1, <1>5, <1>7, Scales DEF Magnitude, Positive, y
<1>9. VarScale * (2 * Magnitude(x)) = 2 * Magnitude(y)
  BY <1>6, Scales DEF y, Positive
<1> QED
  BY <1>2, <1>3, <1>8, <1>9 DEF h

(* The tolerance, with both sides in the same unit.                         *)
LEMMA VerdictNear ==
  ASSUME NEW n \in Positive, NEW v \in Int
  PROVE  LET shift == 2 * (n * Magnitude(v))
         IN  /\ TolDen * (shift + VarScale) < 2 * (n * VarScale) => Matches(Actual(n, v), n)
             /\ TolDen * (shift - VarScale) >= 2 * (n * VarScale) => ~ Matches(Actual(n, v), n)
<1> DEFINE s == 2 * (n * Magnitude(v))
           x == Magnitude(Actual(n, v) - n)
<1>1. s \in Int /\ x \in Nat /\ n \in Nat
  <2>1. n \in Nat /\ Actual(n, v) \in Int
    BY ActualNear DEF Positive
  <2> QED
    BY <2>1 DEF Magnitude
<1>2. VarScale * (2 * x) <= s + VarScale /\ VarScale * (2 * x) >= s - VarScale
  BY ActualNear, <1>1
<1>3. Matches(Actual(n, v), n) <=> TolDen * x < n
  BY DEF Matches, Positive
<1> HIDE DEF s, x
<1> DEFINE t == TolDen * x
<1>4. t \in Int /\ TolDen * (VarScale * (2 * x)) = VarScale * (2 * t)
  BY <1>1, Scales DEF Positive
<1>5. 2 * (n * VarScale) = VarScale * (2 * n)
  BY <1>1, Scales DEF Positive
<1>a. VarScale * (2 * x) \in Int /\ s + VarScale \in Int /\ s - VarScale \in Int
  BY <1>1, Scales DEF Positive
<1>6. /\ TolDen * (VarScale * (2 * x)) <= TolDen * (s + VarScale)
      /\ TolDen * (s - VarScale) <= TolDen * (VarScale * (2 * x))
  BY <1>2, <1>a, Cancel, Scales
<1>b. /\ TolDen * (s + VarScale) \in Int /\ TolDen * (s - VarScale) \in Int
      /\ VarScale * (2 * t) \in Int /\ VarScale * (2 * n) \in Int
      /\ 2 * t \in Int /\ 2 * n \in Int
  BY <1>1, <1>4, <1>a, Scales DEF Positive
<1> HIDE DEF t
<1>7. ASSUME TolDen * (s + VarScale) < 2 * (n * VarScale) PROVE TolDen * x < n
  <2>1. VarScale * (2 * t) < VarScale * (2 * n)
    BY <1>4, <1>5, <1>6, <1>7, <1>b
  <2>2. 2 * t < 2 * n
    BY <2>1, <1>b, CancelLess, Scales
  <2> QED
    BY <1>1, <1>4, <2>2 DEF t
<1>8. ASSUME TolDen * (s - VarScale) >= 2 * (n * VarScale) PROVE ~ (TolDen * x < n)
  <2>1. VarScale * (2 * n) <= VarScale * (2 * t)
    BY <1>4, <1>5, <1>6, <1>8, <1>b
  <2>2. 2 * n <= 2 * t
    BY <2>1, <1>b, Cancel, Scales
  <2> QED
    BY <1>1, <1>4, <2>2 DEF t
<1> QED
  BY <1>3, <1>7, <1>8 DEF s, x

-----------------------------------------------------------------------------
(* What each stage has computed.                                            *)
Computed ==
  /\ stage = "refused" => OverCap(inr, usdRate)
  /\ stage \in {"initiated"} \cup Settled => fee = Fee(inr) /\ ~ OverCap(inr, usdRate)
  /\ stage \in Settled => net = Net(inr, fee, rate)
  /\ stage = "logged" =>
       entry.status = IF Matches(Actual(net, variance), net) THEN "matched" ELSE "mismatch"

AmountInv == TypeOK /\ Computed

LEMMA AmountInit == Init => AmountInv
BY DEF Init, AmountInv, TypeOK, Computed, Settled

LEMMA AmountStep == AmountInv /\ [Next]_vars => AmountInv'
<1> SUFFICES ASSUME AmountInv, [Next]_vars PROVE AmountInv'
  OBVIOUS
<1> USE DEF AmountInv, Settled
<1>1. ASSUME NEW a \in Amounts, NEW u \in Rates, Refuse(a, u) PROVE AmountInv'
  <2>1. TypeOK'
    BY <1>1, AmountAssumption DEF TypeOK, Refuse, Request
  <2>2. Computed'
    BY <1>1 DEF Computed, Refuse, Request
  <2> QED
    BY <2>1, <2>2
<1>2. ASSUME NEW a \in Amounts, NEW u \in Rates, Initiate(a, u)
      PROVE AmountInv'
  <2>1. TypeOK'
    BY <1>2, AmountAssumption, FeeType DEF TypeOK, Initiate, Request
  <2>2. Computed'
    BY <1>2 DEF Computed, Initiate, Request
  <2> QED
    BY <2>1, <2>2
<1>3. ASSUME NEW a \in Amounts, Webhook(a) PROVE AmountInv'
  BY <1>3, AmountAssumption DEF TypeOK, Computed, Webhook
<1>4. ASSUME NEW r \in Rates, Settle(r) PROVE AmountInv'
  <2>1. Net(inr, fee, r) \in Int
    BY ConvertType, Scales DEF Net, TypeOK
  <2>2. TypeOK'
    BY <1>4, <2>1 DEF TypeOK, Settle
  <2>3. Computed'
    BY <1>4 DEF Computed, Settle
  <2> QED
    BY <2>2, <2>3
<1>5. ASSUME NEW v \in Variances, LogEntry(v) PROVE AmountInv'
  <2>1. Actual(net, v) \in Int
    <3>1. net * (VarScale + v) \in Int
      BY VarianceAssumption, Scales DEF TypeOK, Positive
    <3> QED
      BY <3>1, Nearest, Scales DEF Actual
  <2>2. entry' \in Entry
    BY <1>5, <2>1 DEF LogEntry, Entry
  <2>3. TypeOK'
    BY <1>5, <2>2 DEF TypeOK, LogEntry
  <2>4. Computed'
    BY <1>5 DEF Computed, LogEntry
  <2> QED
    BY <2>3, <2>4
<1>6. CASE UNCHANGED vars
  BY <1>6 DEF vars, TypeOK, Computed
<1> QED
  BY <1>1, <1>2, <1>3, <1>4, <1>5, <1>6 DEF Next

LEMMA Invariant == Spec => []AmountInv
BY AmountInit, AmountStep, PTL DEF Spec

-----------------------------------------------------------------------------
(* Every amount that is stored is a number, and a settled payment has a     *)
(* rate.                                                                    *)
THEOREM TypeCorrect == Spec => []TypeOK
<1>1. AmountInv => TypeOK
  BY DEF AmountInv
<1> QED
  BY <1>1, Invariant, PTL

(* The settlement is within one unit of what the amount of the request is   *)
(* worth after the fee, at any scale, rate and fee.                         *)
THEOREM NetIsNear == Spec => []NetWithinUnit
<1>1. ASSUME AmountInv PROVE NetWithinUnit
  BY <1>1, TwoRoundings, Scales DEF AmountInv, TypeOK, Computed, NetWithinUnit
<1> QED
  BY <1>1, Invariant, PTL

(* No payment of an amount that is not negative settles for a negative one. *)
THEOREM NetStaysNonNegative == Spec => []NetNonNegative
<1>1. ASSUME AmountInv PROVE NetNonNegative
  <2> SUFFICES ASSUME stage \in Settled, inr >= 0 PROVE net >= 0
    BY DEF NetNonNegative
  <2>1. inr \in Nat /\ rate \in Positive /\ fee = Fee(inr) /\ net = Net(inr, fee, rate)
    BY <1>1, Scales DEF AmountInv, TypeOK, Computed
  <2>2. fee \in Int /\ fee <= inr
    BY <2>1, FeeWithin, FeeType
  <2>3. Convert(fee, rate) <= Convert(inr, rate)
    BY <2>1, <2>2, ConvertMonotone
  <2> QED
    BY <2>1, <2>2, <2>3, ConvertType DEF Net
<1> QED
  BY <1>1, Invariant, PTL

(* Accepted payments are within half a unit of the cap.                     *)
THEOREM CapIsHeld == Spec => []CapHeld
<1>1. ASSUME AmountInv PROVE CapHeld
  BY <1>1, Overshoot, Scales DEF AmountInv, TypeOK, Computed, CapHeld, Settled
<1> QED
  BY <1>1, Invariant, PTL

(* Refusals name the amount from which on payments are refused.             *)
THEOREM LimitIsNamed == Spec => []AdvertisedMax
<1>1. ASSUME AmountInv PROVE AdvertisedMax
  <2> SUFFICES ASSUME stage = "refused"
               PROVE  /\ MaxInr(usdRate) <= inr
                      /\ \A a \in Amounts : a < MaxInr(usdRate) => ~ OverCap(a, usdRate)
    BY DEF AdvertisedMax
  <2>1. inr \in Int /\ usdRate \in Positive /\ Convert(inr, usdRate) > Cap
    BY <1>1, Scales DEF AmountInv, TypeOK, Computed, OverCap
  <2>2. MaxInr(usdRate) \in Int /\ Convert(MaxInr(usdRate), usdRate) = Cap
    BY <2>1, CapInRupees
  <2>3. ASSUME NEW a \in Int, a <= MaxInr(usdRate)
        PROVE  ~ OverCap(a, usdRate)
    <3>1. Convert(a, usdRate) <= Convert(MaxInr(usdRate), usdRate)
      BY <2>1, <2>2, <2>3, ConvertMonotone
    <3> QED
      BY <2>1, <2>2, <3>1, ConvertType, Scales DEF OverCap
  <2>4. MaxInr(usdRate) <= inr
    BY <2>1, <2>2, <2>3, Scales DEF OverCap
  <2> QED
    BY <2>2, <2>3, <2>4, AmountAssumption
<1> QED
  BY <1>1, Invariant, PTL

(* The status of an entry is that of its variance, but for rounding.        *)
THEOREM StatusIsOfVariance == Spec => []StatusFollowsVariance
<1>1. ASSUME AmountInv PROVE StatusFollowsVariance
  <2> SUFFICES ASSUME stage = "logged", net > 0
               PROVE  StatusFollowsVariance
    BY DEF StatusFollowsVariance
  <2>1. net \in Positive /\ variance \in Int
    BY <1>1, VarianceAssumption, Scales DEF AmountInv, TypeOK, Positive
  <2>2. entry.status = IF Matches(Actual(net, variance), net) THEN "matched" ELSE "mismatch"
    BY <1>1 DEF AmountInv, Computed
  <2> QED
    BY <2>1, <2>2, VerdictNear DEF StatusFollowsVariance
<1> QED
  BY <1>1, Invariant, PTL
===============================================================================
