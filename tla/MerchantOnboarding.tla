-------------------------- MODULE MerchantOnboarding --------------------------
(***************************************************************************)
(* The KYB status of merchants: the two endpoints that create one, the     *)
(* Celery task auto_approve_kyb, and the check that initiate_payment makes *)
(* long before it commits the payment.  A merchant is named by its e-mail, *)
(* which is unique in the table: a second creation fails and is rolled     *)
(* back, and so changes nothing.                                           *)
(***************************************************************************)
EXTENDS Naturals

CONSTANTS
  Merchants,
  Payments,      \* calls of POST /payments
  FaultLimit     \* how many faults of each kind a behaviour contains

Faults == {"crash", "error", "lost"}

ASSUME FaultAssumption == FaultLimit \in [Faults -> Nat]

VARIABLES
  kyb,           \* merchants.kyb_status, "absent" before the row exists
  account,       \* merchants.status
  review,        \* where each merchant's auto_approve_kyb is
  payee,         \* the merchant each POST /payments names
  payment,       \* where each POST /payments is
  faults,        \* history: faults so far, by kind
  abandoned      \* history: merchants whose review a fault cut short

merchantVars == <<kyb, account>>
paymentVars == <<payee, payment>>
vars == <<merchantVars, review, paymentVars, faults, abandoned>>

KYBStatus == {"PENDING", "UNDER_REVIEW", "APPROVED"}
Reviewing == {"wait", "open", "decide", "ack"}

Init ==
  /\ kyb = [m \in Merchants |-> "absent"]
  /\ account = [m \in Merchants |-> "absent"]
  /\ review = [m \in Merchants |-> "none"]
  /\ payee \in [Payments -> Merchants]
  /\ payment = [p \in Payments |-> "idle"]
  /\ faults = [f \in Faults |-> 0]
  /\ abandoned = {}

Fault(f) ==
  /\ faults[f] < FaultLimit[f]
  /\ faults' = [faults EXCEPT ![f] = @ + 1]

-----------------------------------------------------------------------------
(* The API process.                                                         *)

(* POST /merchants: approved and active at once.                            *)
CreateMerchant(m) ==
  /\ kyb[m] = "absent"
  /\ kyb' = [kyb EXCEPT ![m] = "APPROVED"]
  /\ account' = [account EXCEPT ![m] = "active"]
  /\ UNCHANGED <<review, paymentVars, faults, abandoned>>

(* POST /merchants/onboard, up to its commit.  A merchant in India is       *)
(* refused before anything is written.                                      *)
OnboardMerchant_DelayFirst(m) ==
  /\ kyb[m] = "absent" /\ review[m] = "none"
  /\ review' = [review EXCEPT ![m] = "deferred"]
  /\ UNCHANGED <<merchantVars, paymentVars, faults, abandoned>>

OnboardMerchant(m) ==
  /\ kyb[m] = "absent"
  /\ kyb' = [kyb EXCEPT ![m] = "PENDING"]
  /\ account' = [account EXCEPT ![m] = "pending_kyc"]
  /\ review' = [review EXCEPT ![m] = "deferred"]
  /\ UNCHANGED <<paymentVars, faults, abandoned>>

ReviewStep(m, from, to) ==
  /\ review[m] = from
  /\ review' = [review EXCEPT ![m] = to]

(* auto_approve_kyb.delay, whose failure onboard_merchant swallows.         *)
EnqueueReview(m) ==
  /\ ReviewStep(m, "deferred", "queued")
  /\ UNCHANGED <<merchantVars, paymentVars, faults, abandoned>>

LoseReview(m) ==
  /\ ReviewStep(m, "deferred", "done")
  /\ Fault("lost")
  /\ abandoned' = abandoned \cup {m}
  /\ UNCHANGED <<merchantVars, paymentVars>>

(* check_merchant_approved looks at kyb_status, not at status; a refusal is *)
(* a 403.                                                                   *)
MayPay_NotPending == KYBStatus \ {"PENDING"}
MayPay == {"APPROVED"}

PaymentGate(p) ==
  /\ payment[p] = "idle" /\ kyb[payee[p]] # "absent"
  /\ payment' = [payment EXCEPT ![p] =
                   IF kyb[payee[p]] \in MayPay THEN "passed" ELSE "refused"]
  /\ UNCHANGED <<merchantVars, review, payee, faults, abandoned>>

(* The rest of initiate_payment, two FX look-ups later, commits the row ... *)
PaymentCommit(p) ==
  /\ payment[p] = "passed"
  /\ payment' = [payment EXCEPT ![p] = "committed"]
  /\ UNCHANGED <<merchantVars, review, payee, faults, abandoned>>

(* ... or refuses the amount: it is over the OPGSP cap.                     *)
PaymentOverCap(p) ==
  /\ payment[p] = "passed"
  /\ payment' = [payment EXCEPT ![p] = "refused"]
  /\ UNCHANGED <<merchantVars, review, payee, faults, abandoned>>

-----------------------------------------------------------------------------
(* The Celery worker running auto_approve_kyb.                              *)

(* A worker takes the message; the task sleeps before it opens a session.   *)
ReviewDeliver(m) ==
  /\ ReviewStep(m, "queued", "wait")
  /\ UNCHANGED <<merchantVars, paymentVars, faults, abandoned>>

(* The SELECT; a merchant that is not PENDING is left alone.                *)
Reviewable == {"PENDING"}

ReviewRead(m) ==
  /\ ReviewStep(m, "wait", IF kyb[m] \in Reviewable THEN "open" ELSE "ack")
  /\ UNCHANGED <<merchantVars, paymentVars, faults, abandoned>>

ReviewOpen(m) ==
  /\ ReviewStep(m, "open", "decide")
  /\ kyb' = [kyb EXCEPT ![m] = "UNDER_REVIEW"]
  /\ UNCHANGED <<account, paymentVars, faults, abandoned>>

(* After another sleep of two seconds.                                      *)
ReviewApprove(m) ==
  /\ ReviewStep(m, "decide", "ack")
  /\ kyb' = [kyb EXCEPT ![m] = "APPROVED"]
  /\ UNCHANGED <<account, paymentVars, faults, abandoned>>

ReviewAck(m) ==
  /\ ReviewStep(m, "ack", "done")
  /\ UNCHANGED <<merchantVars, paymentVars, faults, abandoned>>

(* An exception ends the task: it has no retry, and a failed task is        *)
(* acknowledged like any other.                                             *)
ReviewError(m) ==
  /\ review[m] \in {"wait", "open", "decide"}
  /\ Fault("error")
  /\ review' = [review EXCEPT ![m] = "done"]
  /\ abandoned' = abandoned \cup {m}
  /\ UNCHANGED <<merchantVars, paymentVars>>

(* The worker process is lost and the broker gets the message back.  When   *)
(* UNDER_REVIEW has been committed the second delivery will leave the       *)
(* merchant alone.                                                          *)
ReviewCrash_AcksEarly(m) ==
  /\ review[m] \in Reviewing
  /\ Fault("crash")
  /\ review' = [review EXCEPT ![m] = "done"]
  /\ abandoned' = abandoned \cup IF review[m] = "decide" THEN {m} ELSE {}
  /\ UNCHANGED <<merchantVars, paymentVars>>

ReviewCrash(m) ==
  /\ review[m] \in Reviewing
  /\ Fault("crash")
  /\ review' = [review EXCEPT ![m] = "queued"]
  /\ abandoned' = abandoned \cup IF review[m] = "decide" THEN {m} ELSE {}
  /\ UNCHANGED <<merchantVars, paymentVars>>

-----------------------------------------------------------------------------
ReviewWork(m) ==
  \/ ReviewDeliver(m) \/ ReviewRead(m) \/ ReviewOpen(m) \/ ReviewApprove(m)
  \/ ReviewAck(m)

Next ==
  \/ \E m \in Merchants : \/ CreateMerchant(m) \/ OnboardMerchant(m)
                          \/ EnqueueReview(m) \/ LoseReview(m) \/ ReviewWork(m)
                          \/ ReviewError(m) \/ ReviewCrash(m)
  \/ \E p \in Payments :
       PaymentGate(p) \/ PaymentCommit(p) \/ PaymentOverCap(p)

Spec == Init /\ [][Next]_vars

(* An onboarding that has committed goes on to .delay, and the workers      *)
(* serve the broker; no request and no fault has to come.                   *)
FairSpec ==
  /\ Spec
  /\ \A m \in Merchants : WF_vars(EnqueueReview(m)) /\ WF_vars(ReviewWork(m))

-----------------------------------------------------------------------------
(* Properties.                                                              *)

(* Every variable has its type, the columns of a row appear together, and   *)
(* no review is asked for before the row it is to find has been committed.  *)
TypeOK ==
  /\ kyb \in [Merchants -> {"absent"} \cup KYBStatus]
  /\ account \in [Merchants -> {"absent", "pending_kyc", "active"}]
  /\ review \in [Merchants ->
                   {"none", "deferred", "queued", "done"} \cup Reviewing]
  /\ payee \in [Payments -> Merchants]
  /\ payment \in [Payments -> {"idle", "passed", "refused", "committed"}]
  /\ faults \in [Faults -> Nat]
  /\ abandoned \subseteq Merchants
  /\ \A m \in Merchants : kyb[m] = "absent" =>
       account[m] = "absent" /\ review[m] = "none"

(* The payee of every committed payment is approved now, although           *)
(* initiate_payment checked it before two FX look-ups and other commits:    *)
(* no review, redelivered or late, ever takes an approval back.             *)
PayeeApproved ==
  \A p \in Payments : payment[p] = "committed" => kyb[payee[p]] = "APPROVED"

(* A merchant under way to approval has a review task that will bring it    *)
(* there, unless a fault cut its review short: the enqueue was lost, the    *)
(* task failed, or a worker died between the two commits.                   *)
ReviewOwned ==
  \A m \in Merchants \ abandoned :
    /\ kyb[m] = "PENDING" =>
         review[m] \in {"deferred", "queued", "wait", "open"}
    /\ kyb[m] = "UNDER_REVIEW" => review[m] = "decide"

(* So reviews that no fault cuts short end in approval.                     *)
ReviewEnds ==
  \A m \in Merchants :
    kyb[m] = "PENDING" ~> (kyb[m] = "APPROVED" \/ m \in abandoned)
===============================================================================
