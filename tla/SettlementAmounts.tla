-------------------------- MODULE SettlementAmounts --------------------------
(***************************************************************************)
(* The amounts of one payment, from the request to its reconciliation      *)
(* entry.  Which tasks write them, and how often, is in PaymentPipeline;   *)
(* where the rates come from is in PaymentRates.                           *)
(***************************************************************************)
EXTENDS SettlementMath

CONSTANTS
  Amounts,    \* what clients ask for and what webhooks report
  Rates,      \* what get_rate returns
  Variances,  \* what random.uniform returns
  None

ASSUME AmountAssumption == Amounts \subseteq Int
ASSUME RatesAssumption == Rates \subseteq Nat \ {0}
ASSUME VarianceAssumption == Variances \subseteq -VarScale..VarScale

VARIABLES
  stage,
  inr,        \* inr_amount
  usdRate,    \* the rate of the cap check
  fee,        \* fee_inr
  collected,  \* amount_inr_collected
  rate,       \* fx_rate
  net,        \* settlement_amount, and the expected amount of the entry
  variance,   \* history: of the entry
  entry       \* its actual amount and status

vars == <<stage, inr, usdRate, fee, collected, rate, net, variance, entry>>

Init ==
  /\ stage = "new"
  /\ inr = 0
  /\ usdRate = None
  /\ fee = 0
  /\ collected = None
  /\ rate = None
  /\ net = 0
  /\ variance = 0
  /\ entry = None

-----------------------------------------------------------------------------
(* initiate_payment: neither the route nor the service looks at the sign of *)
(* the amount.                                                              *)
Request(a, u) ==
  /\ stage = "new"
  /\ inr' = a
  /\ usdRate' = u

(* OGPSPLimitExceededError, which names MaxInr.                             *)
Refuse(a, u) ==
  /\ Request(a, u)
  /\ OverCap(a, u)
  /\ stage' = "refused"
  /\ UNCHANGED <<fee, collected, rate, net, variance, entry>>

Initiate(a, u) ==
  /\ Request(a, u)
  /\ ~ OverCap(a, u)
  /\ stage' = "initiated"
  /\ fee' = Fee(a)
  /\ UNCHANGED <<collected, rate, net, variance, entry>>

(* process_upi_webhook stores the amount it is told.                        *)
Webhook(a) ==
  /\ stage = "initiated"
  /\ collected = None
  /\ collected' = a
  /\ UNCHANGED <<stage, inr, usdRate, fee, rate, net, variance, entry>>

Settle_RateNotStored(r) ==
  /\ stage = "initiated"
  /\ stage' = "settled"
  /\ net' = Net(inr, fee, r)
  /\ UNCHANGED <<inr, usdRate, fee, collected, rate, variance, entry>>

(* process_settlement: at the locked rate, or at any once that has expired. *)
Settle(r) ==
  /\ stage = "initiated"
  /\ stage' = "settled"
  /\ rate' = r
  /\ net' = Net(inr, fee, r)
  /\ UNCHANGED <<inr, usdRate, fee, collected, variance, entry>>

(* Its entry; a net amount of zero is a division by zero.                   *)
LogEntry(v) ==
  /\ stage = "settled"
  /\ net # 0
  /\ stage' = "logged"
  /\ variance' = v
  /\ entry' = [actual |-> Actual(net, v),
                status |-> IF Matches(Actual(net, v), net) THEN "matched" ELSE "mismatch"]
  /\ UNCHANGED <<inr, usdRate, fee, collected, rate, net>>

Next ==
  \/ \E a \in Amounts, u \in Rates : Refuse(a, u) \/ Initiate(a, u)
  \/ \E a \in Amounts : Webhook(a)
  \/ \E r \in Rates : Settle(r)
  \/ \E v \in Variances : LogEntry(v)

Spec == Init /\ [][Next]_vars

-----------------------------------------------------------------------------
(* Properties.                                                              *)

Settled == {"settled", "logged"}
Entry == [actual : Int, status : {"matched", "mismatch"}]

TypeOK ==
  /\ stage \in {"new", "refused", "initiated", "settled", "logged"}
  /\ inr \in Int /\ fee \in Int /\ net \in Int /\ variance \in Variances \cup {0}
  /\ usdRate \in Rates \cup {None}
  /\ rate \in Rates \cup {None} /\ collected \in Int \cup {None}
  /\ stage # "new" => usdRate \in Rates
  /\ stage \in Settled => rate \in Rates
  /\ entry \in Entry \cup {None}
  /\ stage = "logged" => entry \in Entry

(* Gross amount and fee are rounded separately, and their difference is     *)
(* still within one unit of what the amount of the request, less its fee,   *)
(* is worth.                                                                *)
NetWithinUnit ==
  stage \in Settled => Magnitude(net - Convert(inr - fee, rate)) <= 1

(* "Settlement computed: INR collected / locked FX rate - 1.5% fee"         *)
(* (README.md): where a webhook has said what was collected, that is what   *)
(* the merchant is paid.  Violated: the amount of the request is.           *)
PaysWhatWasCollected ==
  stage \in Settled /\ collected # None =>
    Magnitude(net - Convert(collected - Fee(collected), rate)) <= 1

(* A payment of a positive amount settles for no less than nothing, however *)
(* small it is: the fee never rounds past the amount.                       *)
NetNonNegative == stage \in Settled /\ inr >= 0 => net >= 0

(* Rounding lets a payment exceed the cap by half a unit of 0.0001 USD at   *)
(* the rate it was checked with, and by no more.                            *)
CapHeld ==
  stage \in {"initiated"} \cup Settled =>
    2 * (inr * RateScale) <= (2 * Cap + 1) * usdRate

(* The amount a refusal names is the limit: what was refused is no less,    *)
(* and everything below it is accepted at the same rate.  Whether the limit *)
(* itself is accepted, on which code and tests differ, is left open.        *)
AdvertisedMax ==
  stage = "refused" =>
    /\ MaxInr(usdRate) <= inr
    /\ \A a \in Amounts : a < MaxInr(usdRate) => ~ OverCap(a, usdRate)

(* Of a payment of a positive net amount, the status of the entry tells a   *)
(* variance below the tolerance from one above it, but for the half unit    *)
(* by which the actual amount is rounded.                                   *)
StatusFollowsVariance ==
  stage = "logged" /\ net > 0 =>
    LET shift == 2 * (net * Magnitude(variance))
    IN  /\ TolDen * (shift + VarScale) < 2 * (net * VarScale) => entry.status = "matched"
        /\ TolDen * (shift - VarScale) >= 2 * (net * VarScale) => entry.status = "mismatch"
===============================================================================
