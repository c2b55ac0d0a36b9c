-------------------------- MODULE MCPaymentPipeline --------------------------
(* Values of the constants of PaymentPipeline for TLC: how many faults of    *)
(* each kind a behaviour contains, and which parts are interchangeable.      *)
EXTENDS PaymentPipeline, TLC

Limit(crashes, errors, losses) ==
  ("crash" :> crashes) @@ ("error" :> errors) @@ ("lost" :> losses)

NoFault == Limit(0, 0, 0)
OneEach == Limit(1, 1, 1)
NoLoss == Limit(1, 1, 0)

Symmetry ==
  Permutations(Hooks) \cup Permutations(Recons) \cup Permutations(Copies)
==============================================================================
