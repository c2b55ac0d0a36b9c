----------------------- MODULE MerchantOnboardingProofs -----------------------
(***************************************************************************)
(* Theorems about MerchantOnboarding, for every number of merchants,       *)
(* payments and faults.                                                    *)
(***************************************************************************)
EXTENDS MerchantOnboarding, TLAPS

(* Counting a fault keeps the counters numbers.                             *)
LEMMA FaultType ==
  ASSUME TypeOK, NEW f \in Faults, Fault(f)
  PROVE  faults' \in [Faults -> Nat]
<1>1. faults \in [Faults -> Nat] /\ FaultLimit \in [Faults -> Nat]
  BY FaultAssumption DEF TypeOK
<1> QED
  BY <1>1 DEF Fault

(* The initial state has the types.                                         *)
LEMMA TypeInit == Init => TypeOK
  BY DEF Init, TypeOK, KYBStatus, Reviewing

(* Every step keeps the types, and the columns of a row together.           *)
LEMMA TypeStep == TypeOK /\ [Next]_vars => TypeOK'
<1> SUFFICES ASSUME TypeOK, [Next]_vars PROVE TypeOK'
  OBVIOUS
<1> USE DEF TypeOK, KYBStatus, Reviewing, vars, merchantVars, paymentVars,
        ReviewStep
<1>1. ASSUME NEW m \in Merchants, CreateMerchant(m) PROVE TypeOK'
  BY <1>1 DEF CreateMerchant
<1>2. ASSUME NEW m \in Merchants, OnboardMerchant(m) PROVE TypeOK'
  BY <1>2 DEF OnboardMerchant
<1>3. ASSUME NEW m \in Merchants, EnqueueReview(m) PROVE TypeOK'
  BY <1>3 DEF EnqueueReview
<1>4. ASSUME NEW m \in Merchants, LoseReview(m) PROVE TypeOK'
  BY <1>4, FaultType DEF LoseReview, Faults
<1>5. ASSUME NEW m \in Merchants, ReviewWork(m) PROVE TypeOK'
  BY <1>5 DEF ReviewWork, ReviewDeliver, ReviewRead, ReviewOpen, ReviewApprove,
              ReviewAck
<1>6. ASSUME NEW m \in Merchants, ReviewError(m) PROVE TypeOK'
  BY <1>6, FaultType DEF ReviewError, Faults
<1>7. ASSUME NEW m \in Merchants, ReviewCrash(m) PROVE TypeOK'
  BY <1>7, FaultType DEF ReviewCrash, Faults
<1>8. ASSUME NEW p \in Payments, PaymentGate(p) PROVE TypeOK'
  BY <1>8 DEF PaymentGate
<1>9. ASSUME NEW p \in Payments, PaymentCommit(p) \/ PaymentOverCap(p)
      PROVE TypeOK'
  BY <1>9 DEF PaymentCommit, PaymentOverCap
<1>10. CASE UNCHANGED vars
  BY <1>10
<1> QED
  BY <1>1, <1>2, <1>3, <1>4, <1>5, <1>6, <1>7, <1>8, <1>9, <1>10 DEF Next

(* Every variable keeps its type, and the columns of a row appear together. *)
THEOREM TypeCorrect == Spec => []TypeOK
  BY TypeInit, TypeStep, PTL DEF Spec

-----------------------------------------------------------------------------
(* The blind writes of a review meet the status its session has read, and a *)
(* payment past the gate has an approved payee.                             *)
ReviewInStep ==
  \A m \in Merchants : /\ review[m] = "open" => kyb[m] = "PENDING"
                       /\ review[m] = "decide" => kyb[m] = "UNDER_REVIEW"

PassedApproved ==
  \A p \in Payments :
    payment[p] \in {"passed", "committed"} => kyb[payee[p]] = "APPROVED"

KybInv == ReviewInStep /\ PassedApproved /\ ReviewOwned

(* Before the first merchant there is nothing to show.                      *)
LEMMA KybInit == Init => KybInv
  BY DEF Init, KybInv, ReviewInStep, PassedApproved, ReviewOwned

(* No step takes an approval back or leaves a review without a task.        *)
LEMMA KybStep == TypeOK /\ KybInv /\ [Next]_vars => KybInv'
<1> SUFFICES ASSUME TypeOK, KybInv, [Next]_vars PROVE KybInv'
  OBVIOUS
<1> USE DEF TypeOK, KybInv, ReviewInStep, PassedApproved, ReviewOwned, vars,
        merchantVars, paymentVars, ReviewStep
<1>1. ASSUME NEW m \in Merchants, CreateMerchant(m) PROVE KybInv'
  BY <1>1 DEF CreateMerchant
<1>2. ASSUME NEW m \in Merchants, OnboardMerchant(m) PROVE KybInv'
  BY <1>2 DEF OnboardMerchant
<1>3. ASSUME NEW m \in Merchants, EnqueueReview(m) PROVE KybInv'
  BY <1>3 DEF EnqueueReview
<1>4. ASSUME NEW m \in Merchants, LoseReview(m) PROVE KybInv'
  BY <1>4 DEF LoseReview
<1>5. ASSUME NEW m \in Merchants, ReviewDeliver(m) PROVE KybInv'
  BY <1>5 DEF ReviewDeliver
<1>6. ASSUME NEW m \in Merchants, ReviewRead(m) PROVE KybInv'
  BY <1>6 DEF ReviewRead, Reviewable
<1>7. ASSUME NEW m \in Merchants, ReviewOpen(m) PROVE KybInv'
  BY <1>7 DEF ReviewOpen
<1>8. ASSUME NEW m \in Merchants, ReviewApprove(m) PROVE KybInv'
  BY <1>8 DEF ReviewApprove
<1>9. ASSUME NEW m \in Merchants, ReviewAck(m) PROVE KybInv'
  BY <1>9 DEF ReviewAck
<1>10. ASSUME NEW m \in Merchants, ReviewError(m) PROVE KybInv'
  BY <1>10 DEF ReviewError
<1>11. ASSUME NEW m \in Merchants, ReviewCrash(m) PROVE KybInv'
  BY <1>11 DEF ReviewCrash, Reviewing
<1>12. ASSUME NEW p \in Payments, PaymentGate(p) PROVE KybInv'
  BY <1>12 DEF PaymentGate, MayPay
<1>13. ASSUME NEW p \in Payments, PaymentCommit(p) PROVE KybInv'
  BY <1>13 DEF PaymentCommit
<1>14. ASSUME NEW p \in Payments, PaymentOverCap(p) PROVE KybInv'
  BY <1>14 DEF PaymentOverCap
<1>15. CASE UNCHANGED vars
  BY <1>15
<1> QED
  BY <1>1, <1>2, <1>3, <1>4, <1>5, <1>6, <1>7, <1>8, <1>9, <1>10, <1>11,
     <1>12, <1>13, <1>14, <1>15 DEF Next, ReviewWork

(* Checking the merchant long before the payment is committed is sound: the *)
(* payee of every committed payment is approved, then and later.            *)
THEOREM PayeeStaysApproved == Spec => []PayeeApproved
<1>1. KybInv => PayeeApproved
  BY DEF KybInv, PassedApproved, PayeeApproved
<1> QED
  BY KybInit, KybStep, TypeCorrect, <1>1, PTL DEF Spec

(* Only a lost enqueue, a failed task or a crash between the two commits    *)
(* leaves a merchant under review without a task that will approve it.      *)
THEOREM ReviewsAreOwned == Spec => []ReviewOwned
<1>1. KybInv => ReviewOwned
  BY DEF KybInv
<1> QED
  BY KybInit, KybStep, TypeCorrect, <1>1, PTL DEF Spec
===============================================================================
