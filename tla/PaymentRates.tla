----------------------------- MODULE PaymentRates -----------------------------
(***************************************************************************)
(* The exchange rates of a payment: the two look-ups of initiate_payment,  *)
(* for the OPGSP cap and for the rate lock, and the one of its settlement, *)
(* over the cache of FxRates.  A caller of FxRates is a payment: first the *)
(* session of its request, later that of its pipeline task.                *)
(***************************************************************************)
EXTENDS FxRates

CONSTANTS
  USD,
  SettlesIn,   \* the settlement currency of each payment's merchant
  WithinCap,   \* the USD rates at which the amount is within OPGSP_CAP_USD
  LockTTL      \* FX_RATE_LOCK_TTL_SECONDS

ASSUME CurrencyAssumption == USD \in Currencies /\ SettlesIn \in [Callers -> Currencies]
ASSUME LockAssumption == LockTTL \in Nat \ {0}

VARIABLES
  stage,     \* where each payment is
  now,       \* fx_rate_locked_at
  locked,    \* fx_rate_locked
  settled    \* fx_rate, and when the settlement chose it

payVars == <<stage, now, locked, settled>>
vars == <<fxVars, payVars>>

Stages == {"new", "cap", "lock", "insert", "initiated", "price", "write",
           "settled", "refused"}
Committed == {"initiated", "price", "write", "settled"}

PayInit ==
  /\ Init
  /\ stage = [p \in Callers |-> "new"]
  /\ now = [p \in Callers |-> 0]
  /\ locked = [p \in Callers |-> None]
  /\ settled = [p \in Callers |-> None]

Go(p, from, to) ==
  /\ stage[p] = from
  /\ stage' = [stage EXCEPT ![p] = to]

-----------------------------------------------------------------------------
(* What a payment does while get_rate runs on its behalf: any statement     *)
(* opens the session, a miss fetches.                                       *)
Asks(p, cur) ==
  \/ stage[p] = "cap" /\ cur = USD
  \/ stage[p] \in {"lock", "price"} /\ cur = SettlesIn[p]

LookUp(p) ==
  /\ \E cur \in Currencies : Asks(p, cur) /\ (OpenSession(p) \/ Miss(p, cur) \/ Fetch(p))
  /\ UNCHANGED payVars

(* get_rate returns: a hit, or the commit of what was fetched.              *)
Returns(p) ==
  \/ \E cur \in Currencies : Asks(p, cur) /\ Hit(p, cur)
  \/ Store(p)

-----------------------------------------------------------------------------
(* initiate_payment.                                                        *)

(* The merchant and its virtual account are selected first.                 *)
PayBegin(p) ==
  /\ Go(p, "new", "cap")
  /\ OpenSession(p)
  /\ UNCHANGED <<now, locked, settled>>

(* The cap check, and the time from which the lock counts.                  *)
CapCheck(p) ==
  /\ stage[p] = "cap" /\ Returns(p)
  /\ IF quote'[p].value \in WithinCap
     THEN /\ Go(p, "cap", "lock")
          /\ now' = [now EXCEPT ![p] = clock]
     ELSE /\ Go(p, "cap", "refused")
          /\ UNCHANGED now
  /\ UNCHANGED <<locked, settled>>

Lock_Previous(p) ==
  /\ Go(p, "lock", "insert") /\ Returns(p)
  /\ locked' = [locked EXCEPT ![p] = quote[p]]
  /\ UNCHANGED <<now, settled>>

Lock(p) ==
  /\ Go(p, "lock", "insert") /\ Returns(p)
  /\ locked' = [locked EXCEPT ![p] = quote'[p]]
  /\ UNCHANGED <<now, settled>>

PayCommit(p) ==
  /\ Go(p, "insert", "initiated")
  /\ Leave(p)
  /\ UNCHANGED <<now, locked, settled>>

(* get_db rolls back: nothing of the payment is left.                       *)
PayFail(p) ==
  /\ stage[p] \in {"cap", "lock", "insert"}
  /\ Leave(p)
  /\ stage' = [stage EXCEPT ![p] = "refused"]
  /\ UNCHANGED <<now, locked, settled>>

-----------------------------------------------------------------------------
(* process_settlement.                                                      *)

LockLive_Always(p) == locked[p] # None
LockLive(p) == clock < now[p] + LockTTL

SettleLocked(p) ==
  /\ LockLive(p)
  /\ Go(p, "initiated", "settled")
  /\ settled' = [settled EXCEPT ![p] = [locked[p] EXCEPT !.at = clock]]
  /\ UNCHANGED <<fxVars, now, locked>>

SettleExpired(p) ==
  /\ ~LockLive(p)
  /\ Go(p, "initiated", "price")
  /\ OpenSession(p)
  /\ UNCHANGED <<now, locked, settled>>

SettlePrice(p) ==
  /\ Go(p, "price", "write") /\ Returns(p)
  /\ settled' = [settled EXCEPT ![p] = quote'[p]]
  /\ UNCHANGED <<now, locked>>

SettleCommit(p) ==
  /\ Go(p, "write", "settled")
  /\ Leave(p)
  /\ UNCHANGED <<now, locked, settled>>

(* The task fails and is tried again.                                       *)
SettleFail(p) ==
  /\ stage[p] \in {"price", "write"}
  /\ Leave(p)
  /\ stage' = [stage EXCEPT ![p] = "initiated"]
  /\ settled' = [settled EXCEPT ![p] = None]
  /\ UNCHANGED <<now, locked>>

-----------------------------------------------------------------------------
Payment(p) ==
  \/ PayBegin(p) \/ LookUp(p) \/ CapCheck(p) \/ Lock(p) \/ PayCommit(p) \/ PayFail(p)
  \/ SettleLocked(p) \/ SettleExpired(p) \/ SettlePrice(p) \/ SettleCommit(p)
  \/ SettleFail(p)

Environment ==
  /\ Tick \/ SourceFails \/ SourceRecovers \/ \E r \in Runs : Refresh(r)
  /\ UNCHANGED payVars

PayNext == Environment \/ \E p \in Callers : Payment(p)

PaySpec == PayInit /\ [][PayNext]_vars

-----------------------------------------------------------------------------
(* Properties.                                                              *)

PayTypeOK ==
  /\ TypeOK
  /\ stage \in [Callers -> Stages]
  /\ now \in [Callers -> Nat]
  /\ locked \in [Callers -> Stamped \cup {None}]
  /\ settled \in [Callers -> Stamped \cup {None}]
  /\ \A p \in Callers :
       /\ stage[p] \in Committed \cup {"insert"} => locked[p] \in Stamped
       /\ stage[p] \in {"write", "settled"} => settled[p] \in Stamped

(* A settlement pays at a rate of the payment's own currency, obtained at   *)
(* most the cache's TTL, a refresh and the lock before it: neither a long   *)
(* look-up, a retry nor an expiry in between leads to an older one.         *)
SettledRateAge ==
  \A p \in Callers : settled[p] # None =>
    /\ settled[p].cur = SettlesIn[p]
    /\ settled[p].at < settled[p].got + TTL + RunLimit + LockTTL

(* The rate of every committed payment, locked or settled, is a row of      *)
(* fx_rates: get_rate commits what it fetched before its caller does.       *)
RatesOnRecord ==
  \A p \in Callers :
    /\ stage[p] \in Committed =>
         \E r \in rows : Unstamp(r) = Unstamp(locked[p])
    /\ stage[p] = "settled" => \E r \in rows : Unstamp(r) = Unstamp(settled[p])

(* "Each payment is capped at USD 10,000 equivalent" (README.md): the rate  *)
(* locked for a merchant who settles in USD keeps it so.  Violated.         *)
CapAtLockedRate ==
  \A p \in Callers : stage[p] = "initiated" /\ SettlesIn[p] = USD =>
    locked[p].value \in WithinCap
===============================================================================
