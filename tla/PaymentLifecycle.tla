--------------------------- MODULE PaymentLifecycle ---------------------------
(***************************************************************************)
(* What README.md and requirement.md promise of a payment: it goes         *)
(* initiated, inr_collected or upi_confirmed, settled; or it fails; and    *)
(* the merchant is paid once, when it is settled.  fx_converted is a state *)
(* inside the settlement's transaction.  Nothing is promised of a payment  *)
(* from when it is contested.                                              *)
(***************************************************************************)
EXTENDS Naturals

CONSTANT Txns

VARIABLES stage, payouts, contested

vars == <<stage, payouts, contested>>

Init ==
  /\ stage = [t \in Txns |-> "absent"]
  /\ payouts = [t \in Txns |-> 0]
  /\ contested = {}

Move(t, from, to) ==
  /\ stage[t] \in from
  /\ stage' = [stage EXCEPT ![t] = to]
  /\ UNCHANGED contested

Initiate(t) == Move(t, {"absent"}, "initiated") /\ UNCHANGED payouts

Collect(t) == Move(t, {"initiated"}, "inr_collected") /\ UNCHANGED payouts

Confirm(t) ==
  Move(t, {"initiated", "inr_collected"}, "upi_confirmed") /\ UNCHANGED payouts

Fail(t) ==
  Move(t, {"initiated", "inr_collected"}, "failed") /\ UNCHANGED payouts

Settle(t) ==
  /\ Move(t, {"inr_collected", "upi_confirmed"}, "settled")
  /\ payouts[t] = 0
  /\ payouts' = [payouts EXCEPT ![t] = 1]

(* Two handlers of the payment come to work from the same status ...        *)
Contest(t) ==
  /\ contested' = contested \cup {t}
  /\ UNCHANGED <<stage, payouts>>

(* ... after which it may go anywhere, but takes no other payment along.    *)
Stray(t) ==
  /\ t \in contested
  /\ \A u \in Txns \ {t} : stage'[u] = stage[u] /\ payouts'[u] = payouts[u]
  /\ UNCHANGED contested

Next ==
  \E t \in Txns :
    \/ Initiate(t) \/ Collect(t) \/ Confirm(t) \/ Fail(t) \/ Settle(t)
    \/ Contest(t) \/ Stray(t)

Spec == Init /\ [][Next]_vars
===============================================================================
