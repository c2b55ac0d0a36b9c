--------------------------- MODULE MCPaymentRates ----------------------------
(* Values of the constants of PaymentRates for TLC.                           *)
EXTENDS PaymentRates

CONSTANTS usd, sgd, p1

Both == <<usd, sgd>>
Other == <<sgd>>
InDollars == [p \in Callers |-> usd]
InOther == [p \in Callers |-> sgd]
===============================================================================
