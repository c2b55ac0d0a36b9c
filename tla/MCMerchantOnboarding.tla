------------------------- MODULE MCMerchantOnboarding -------------------------
(* Values of the constants of MerchantOnboarding for TLC.                     *)
EXTENDS MerchantOnboarding, TLC

Limit(crashes, errors, losses) ==
  ("crash" :> crashes) @@ ("error" :> errors) @@ ("lost" :> losses)

TwoCrashes == Limit(2, 1, 1)
===============================================================================
