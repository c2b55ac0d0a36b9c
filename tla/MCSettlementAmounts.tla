------------------------- MODULE MCSettlementAmounts -------------------------
(* Values of the constants of SettlementAmounts for TLC.                      *)
EXTENDS SettlementAmounts

CONSTANT MaxAmount, MaxVariance

(* Negative amounts and zero, a few small ones, and those about the cap.      *)
SmallAmounts == -2..18 \cup 36..44 \cup 70..MaxAmount
(* Sums of which one is asked for and another collected.                     *)
TwoAmounts == {40, 60}
SmallVariances == -MaxVariance..MaxVariance
===============================================================================
