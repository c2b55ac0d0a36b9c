-------------------------- MODULE PaymentRatesProofs --------------------------
(***************************************************************************)
(* Proofs about PaymentRates: a payment uses the cache of FxRates only in  *)
(* the ways FxRates allows, so its invariant carries over; on top of it,   *)
(* where the rates of a payment come from and how old they are.            *)
(***************************************************************************)
EXTENDS PaymentRates, FxRatesProofs

Recorded(q) == \E r \in rows : Unstamp(r) = Unstamp(q)

(* What get_rate returned is a row.                                         *)
QuotesRecorded == \A c \in Callers : quote[c] # None => Recorded(quote[c])

(* A look-up for the lock or the settlement is for the payment's currency,  *)
Asking(p) ==
  stage[p] \in {"lock", "price"} =>
    /\ session[p] = "fetch" => held[p] = SettlesIn[p]
    /\ session[p] = "store" => held[p].cur = SettlesIn[p]

(* the lock counts from a time before the rate was looked up,               *)
LockSound(p) ==
  /\ stage[p] = "lock" => now[p] <= clock
  /\ stage[p] \in Committed \cup {"insert"} =>
       /\ locked[p].cur = SettlesIn[p]
       /\ now[p] <= locked[p].at
       /\ locked[p].at <= locked[p].got + MaxAge
       /\ Recorded(locked[p])

(* and the settlement's rate is the locked one or one looked up anew.       *)
PriceSound(p) ==
  stage[p] \in {"write", "settled"} \/ settled[p] # None =>
    /\ settled[p].cur = SettlesIn[p]
    /\ settled[p].at < settled[p].got + MaxAge + LockTTL
    /\ Recorded(settled[p])

Sound(p) == Asking(p) /\ LockSound(p) /\ PriceSound(p)

PayInv == FxInv /\ PayTypeOK /\ QuotesRecorded /\ \A p \in Callers : Sound(p)

-----------------------------------------------------------------------------
LEMMA PayInitial == PayInit => PayInv
<1> SUFFICES ASSUME PayInit PROVE PayInv
  OBVIOUS
<1>1. FxInv
  BY FxInit DEF PayInit
<1>2. PayTypeOK
  BY <1>1 DEF PayInit, PayTypeOK, FxInv, Stages, Committed
<1>3. QuotesRecorded
  BY DEF PayInit, Init, QuotesRecorded
<1>4. \A p \in Callers : Sound(p)
  BY DEF PayInit, Sound, Asking, LockSound, PriceSound, Committed
<1> QED
  BY <1>1, <1>2, <1>3, <1>4 DEF PayInv

(* A payment steps as a caller of FxRates, or leaves the cache alone.       *)
LEMMA PayStepsFx == [PayNext]_vars => [Next]_fxVars
<1> SUFFICES ASSUME [PayNext]_vars PROVE Next \/ UNCHANGED fxVars
  OBVIOUS
<1>1. CASE UNCHANGED vars
  BY <1>1 DEF vars
<1>2. CASE Environment
  BY <1>2 DEF Environment, Next
<1>3. ASSUME NEW p \in Callers, Payment(p) PROVE Next \/ UNCHANGED fxVars
  <2>1. Call(p) \/ UNCHANGED fxVars
    BY <1>3 DEF Payment, PayBegin, LookUp, CapCheck, Lock, PayCommit, PayFail,
       SettleLocked, SettleExpired, SettlePrice, SettleCommit, SettleFail, Returns, Call
  <2> QED
    BY <2>1 DEF Next
<1> QED
  BY <1>1, <1>2, <1>3 DEF PayNext

(* Time and the table only grow.                                            *)
LEMMA Grows ==
  ASSUME TypeOK, [Next]_fxVars
  PROVE  rows \subseteq rows' /\ clock <= clock'
BY DEF TypeOK, Next, Call, Refresh, fxVars, sourceVars, callVars, runVars, Tick,
   SourceFails, SourceRecovers, OpenSession, Hit, Miss, Fetch, Store, Leave,
   RunStart, RunFetch, RunCommit, RunFail

(* What get_rate returns to a payment.                                      *)
LEMMA Returned ==
  ASSUME FxInv, NEW p \in Callers, Returns(p)
  PROVE  /\ quote'[p] \in Stamped /\ quote'[p].at = clock
         /\ clock <= quote'[p].got + MaxAge
         /\ \E r \in rows' : Unstamp(r) = Unstamp(quote'[p])
         /\ \A c \in Callers \ {p} : quote'[c] = quote[c]
         /\ session'[p] \in {"open", "closed"}
         /\ UNCHANGED clock
<1>0. TypeOK /\ clock \in Nat
  BY DEF FxInv, TypeOK
<1>1. ASSUME NEW cur \in Currencies, Hit(p, cur)
      PROVE  /\ quote'[p] \in Stamped /\ quote'[p].at = clock
             /\ clock <= quote'[p].got + MaxAge
             /\ \E r \in rows' : Unstamp(r) = Unstamp(quote'[p])
  <2>1. PICK x \in rows : /\ x \in Stamped /\ x.cur = cur
                          /\ clock <= x.got + MaxAge
                          /\ Return(p, cur, x)
    BY <1>1, HitQuoted
  <2>2. quote'[p] = [cur |-> cur, value |-> x.value, got |-> x.got, at |-> clock]
    BY <2>1, <1>0 DEF TypeOK, Return
  <2>3. x \in rows'
    BY <1>1 DEF Hit
  <2> QED
    BY <2>1, <2>2, <2>3, <1>0 DEF Stamped, Unstamp
<1>2. ASSUME Store(p)
      PROVE  /\ quote'[p] \in Stamped /\ quote'[p].at = clock
             /\ clock <= quote'[p].got + MaxAge
             /\ \E r \in rows' : Unstamp(r) = Unstamp(quote'[p])
  <2>1. held[p] \in Rate /\ held[p].got = clock
    BY <1>2, <1>0 DEF Store, TypeOK, FxInv, Ages
  <2>2. quote'[p] = [cur |-> held[p].cur, value |-> held[p].value,
                     got |-> held[p].got, at |-> clock]
    BY <1>2, <1>0 DEF Store, Return, TypeOK
  <2>3. Stamp(held[p], began[p]) \in rows'
    BY <1>2 DEF Store
  <2>4. Unstamp(Stamp(held[p], began[p])) = Unstamp(quote'[p])
    BY <2>2 DEF Stamp, Unstamp
  <2>5. MaxAge \in Nat
    BY TimesAssumption DEF MaxAge
  <2> QED
    BY <2>1, <2>2, <2>3, <2>4, <2>5, <1>0 DEF Rate, Stamped
<1>3. /\ \A c \in Callers \ {p} : quote'[c] = quote[c]
      /\ session'[p] \in {"open", "closed"}
      /\ UNCHANGED clock
  BY <1>0 DEF Returns, Hit, Store, Return, CallStep, EndSession, TypeOK
<1> QED
  BY <1>1, <1>2, <1>3 DEF Returns

(* A rate that get_rate returns while the payment asks for its own currency *)
(* is one of it.                                                            *)
LEMMA ReturnedCurrency ==
  ASSUME FxInv, NEW p \in Callers, Asking(p), Returns(p), stage[p] \in {"lock", "price"}
  PROVE  quote'[p].cur = SettlesIn[p]
<1>0. TypeOK
  BY DEF FxInv
<1>1. ASSUME Hit(p, SettlesIn[p]) PROVE quote'[p].cur = SettlesIn[p]
  BY <1>1, <1>0 DEF Hit, Return, TypeOK
<1>2. ASSUME Store(p) PROVE quote'[p].cur = SettlesIn[p]
  BY <1>2, <1>0 DEF Store, Return, TypeOK, Asking
<1> QED
  BY <1>1, <1>2 DEF Returns, Asks

-----------------------------------------------------------------------------
(* Every step.                                                              *)

LEMMA PayTypeStep == PayInv /\ [PayNext]_vars => PayTypeOK'
<1> SUFFICES ASSUME PayInv, [PayNext]_vars PROVE PayTypeOK'
  OBVIOUS
<1>1. TypeOK'
  BY PayStepsFx, FxTypeStep DEF PayInv, FxInv
<1>2. PayTypeOK /\ clock \in Nat
  BY DEF PayInv, PayTypeOK, TypeOK
<1>3. FxInv
  BY DEF PayInv
<1> USE <1>1, <1>2 DEF Stages, Committed
<1>4. CASE Environment \/ UNCHANGED vars
  BY <1>4 DEF PayTypeOK, Environment, payVars, vars
<1>5. ASSUME NEW p \in Callers, PayBegin(p) \/ LookUp(p) PROVE PayTypeOK'
  BY <1>5 DEF PayTypeOK, PayBegin, LookUp, Go, payVars
<1>6. ASSUME NEW p \in Callers, CapCheck(p) PROVE PayTypeOK'
  BY <1>6 DEF PayTypeOK, CapCheck, Go
<1>7. ASSUME NEW p \in Callers, Lock(p) PROVE PayTypeOK'
  <2>1. quote'[p] \in Stamped
    BY <1>7, <1>3, Returned DEF Lock
  <2> QED
    BY <1>7, <2>1 DEF PayTypeOK, Lock, Go
<1>8. ASSUME NEW p \in Callers, PayCommit(p) \/ PayFail(p) PROVE PayTypeOK'
  BY <1>8 DEF PayTypeOK, PayCommit, PayFail, Go
<1>9. ASSUME NEW p \in Callers, SettleLocked(p) PROVE PayTypeOK'
  <2>1. [locked[p] EXCEPT !.at = clock] \in Stamped
    BY <1>9 DEF SettleLocked, Go, PayTypeOK, Stamped
  <2> QED
    BY <1>9, <2>1 DEF PayTypeOK, SettleLocked, Go
<1>10. ASSUME NEW p \in Callers, SettlePrice(p) PROVE PayTypeOK'
  <2>1. quote'[p] \in Stamped
    BY <1>10, <1>3, Returned DEF SettlePrice
  <2> QED
    BY <1>10, <2>1 DEF PayTypeOK, SettlePrice, Go
<1>11. ASSUME NEW p \in Callers, SettleExpired(p) \/ SettleCommit(p) \/ SettleFail(p)
       PROVE PayTypeOK'
  BY <1>11 DEF PayTypeOK, SettleExpired, SettleCommit, SettleFail, Go
<1> QED
  BY <1>4, <1>5, <1>6, <1>7, <1>8, <1>9, <1>10, <1>11 DEF PayNext, Payment

LEMMA RecordedStays ==
  ASSUME TypeOK, [Next]_fxVars, NEW q, Recorded(q)
  PROVE  \E r \in rows' : Unstamp(r) = Unstamp(q)
BY Grows DEF Recorded

LEMMA QuotesStep == PayInv /\ [PayNext]_vars => QuotesRecorded'
<1> SUFFICES ASSUME PayInv, [PayNext]_vars, NEW c \in Callers, quote'[c] # None
             PROVE  \E r \in rows' : Unstamp(r) = Unstamp(quote'[c])
  BY DEF QuotesRecorded, Recorded
<1>1. FxInv /\ TypeOK /\ [Next]_fxVars
  BY PayStepsFx DEF PayInv, FxInv
<1>2. CASE quote'[c] = quote[c]
  BY <1>1, <1>2, RecordedStays DEF PayInv, QuotesRecorded
<1>3. ASSUME NEW p \in Callers, Returns(p)
      PROVE  \E r \in rows' : Unstamp(r) = Unstamp(quote'[c])
  BY <1>1, <1>2, <1>3, Returned
<1>4. ASSUME NEW p \in Callers, ~ Returns(p), Payment(p) PROVE quote'[c] = quote[c]
  BY <1>1, <1>4 DEF TypeOK, Payment, PayBegin, LookUp, CapCheck, Lock, PayCommit, PayFail,
     SettleLocked, SettleExpired, SettlePrice, SettleCommit, SettleFail, OpenSession,
     Miss, Fetch, Leave, fxVars, callVars
<1>5. CASE Environment \/ UNCHANGED vars
  BY <1>2, <1>5 DEF Environment, vars, fxVars, callVars, Tick, SourceFails, SourceRecovers,
     Refresh, RunStart, RunFetch, RunCommit, RunFail
<1> QED
  BY <1>2, <1>3, <1>4, <1>5 DEF PayNext

(* A payment that does not move stays sound while others and time do.       *)
LEMMA Frame ==
  ASSUME PayInv, [Next]_fxVars, PayTypeOK', NEW q \in Callers,
         stage'[q] = stage[q], now'[q] = now[q], locked'[q] = locked[q],
         settled'[q] = settled[q], session'[q] = session[q], held'[q] = held[q]
  PROVE  Sound(q)'
<1>1. TypeOK /\ PayTypeOK /\ Sound(q)
  BY DEF PayInv, FxInv
<1>2. clock <= clock' /\ clock \in Nat /\ clock' \in Nat /\ now[q] \in Nat
  BY <1>1, Grows DEF TypeOK, PayTypeOK
<1>3. Asking(q)'
  BY <1>1 DEF Sound, Asking
<1>4. LockSound(q)'
  BY <1>1, <1>2, RecordedStays DEF Sound, LockSound, Recorded
<1>5. PriceSound(q)'
  BY <1>1, RecordedStays DEF Sound, PriceSound, Recorded
<1> QED
  BY <1>3, <1>4, <1>5 DEF Sound

LEMMA SoundStep ==
  ASSUME PayInv, [PayNext]_vars, PayTypeOK'
  PROVE  \A q \in Callers : Sound(q)'
<1> SUFFICES ASSUME NEW q \in Callers PROVE Sound(q)'
  OBVIOUS
<1>1. FxInv /\ TypeOK /\ PayTypeOK /\ [Next]_fxVars
  BY PayStepsFx DEF PayInv, FxInv
<1>2. Sound(q)
  BY DEF PayInv
<1>3. clock \in Nat /\ MaxAge \in Nat /\ LockTTL \in Nat \ {0}
  BY <1>1, TimesAssumption, LockAssumption DEF TypeOK, MaxAge
<1>4. CASE Environment \/ UNCHANGED vars
  <2>1. UNCHANGED <<payVars, session, held>>
    BY <1>4 DEF Environment, vars, fxVars, callVars, runVars, sourceVars, Tick, SourceFails,
       SourceRecovers, Refresh, RunStart, RunFetch, RunCommit, RunFail
  <2> QED
    BY <1>1, <2>1, Frame DEF payVars
<1>5. ASSUME NEW p \in Callers, Payment(p), p # q PROVE Sound(q)'
  <2>1. /\ stage'[q] = stage[q] /\ now'[q] = now[q] /\ locked'[q] = locked[q]
        /\ settled'[q] = settled[q]
    BY <1>1, <1>5 DEF PayTypeOK, Payment, PayBegin, LookUp, CapCheck, Lock, PayCommit,
       PayFail, SettleLocked, SettleExpired, SettlePrice, SettleCommit, SettleFail,
       Go, payVars
  <2>2. session'[q] = session[q] /\ held'[q] = held[q]
    BY <1>1, <1>5 DEF TypeOK, Payment, PayBegin, LookUp, CapCheck, Lock, PayCommit,
       PayFail, SettleLocked, SettleExpired, SettlePrice, SettleCommit, SettleFail,
       Returns, OpenSession, Hit, Miss, Fetch, Store, Leave, CallStep, EndSession,
       fxVars, callVars
  <2> QED
    BY <1>1, <2>1, <2>2, Frame
<1>6. CASE PayBegin(q) \/ PayCommit(q) \/ PayFail(q) \/ SettleCommit(q) \/ SettleFail(q)
  <2>1. stage'[q] \in Stages \ {"lock", "price"} /\ UNCHANGED clock
    BY <1>1, <1>6 DEF PayTypeOK, Stages, PayBegin, PayCommit, PayFail, SettleCommit,
       SettleFail, Go, OpenSession, Leave
  <2>2. Asking(q)'
    BY <2>1 DEF Asking
  <2>3. LockSound(q)'
    <3>1. locked'[q] = locked[q] /\ now'[q] = now[q]
      BY <1>6 DEF PayBegin, PayCommit, PayFail, SettleCommit, SettleFail
    <3>2. stage'[q] \in Committed \cup {"insert"} => stage[q] \in Committed \cup {"insert"}
      BY <1>1, <1>6 DEF PayTypeOK, Stages, Committed, PayBegin, PayCommit, PayFail,
         SettleCommit, SettleFail, Go
    <3> QED
      BY <1>1, <1>2, <2>1, <3>1, <3>2, RecordedStays DEF Sound, LockSound, Recorded
  <2>4. PriceSound(q)'
    <3>1. settled'[q] \in {settled[q], None}
      BY <1>1, <1>6 DEF PayTypeOK, PayBegin, PayCommit, PayFail, SettleCommit, SettleFail
    <3>2. stage'[q] \in {"write", "settled"} => settled'[q] = settled[q] /\ stage[q] = "write"
      BY <1>1, <1>6 DEF PayTypeOK, PayBegin, PayCommit, PayFail, SettleCommit,
         SettleFail, Go
    <3> QED
      BY <1>1, <1>2, <3>1, <3>2, RecordedStays DEF Sound, PriceSound, Recorded
  <2> QED
    BY <2>2, <2>3, <2>4 DEF Sound
<1>7. CASE LookUp(q)
  <2>1. UNCHANGED payVars /\ UNCHANGED clock
    BY <1>7 DEF LookUp, OpenSession, Miss, Fetch
  <2>2. Asking(q)'
    <3> SUFFICES ASSUME stage[q] \in {"lock", "price"}
                 PROVE  /\ session'[q] = "fetch" => held'[q] = SettlesIn[q]
                        /\ session'[q] = "store" => held'[q].cur = SettlesIn[q]
      BY <2>1 DEF Asking, payVars
    <3>1. CASE OpenSession(q)
      BY <1>1, <3>1 DEF OpenSession, CallStep, TypeOK
    <3>2. CASE Miss(q, SettlesIn[q])
      BY <1>1, <3>2 DEF Miss, CallStep, TypeOK
    <3>3. CASE Fetch(q)
      BY <1>1, <1>2, <3>3 DEF Fetch, CallStep, TypeOK, Sound, Asking
    <3> QED
      BY <1>7, <3>1, <3>2, <3>3 DEF LookUp, Asks
  <2>3. LockSound(q)' /\ PriceSound(q)'
    BY <1>1, <1>2, <2>1, RecordedStays DEF payVars, Sound, LockSound, PriceSound, Recorded
  <2> QED
    BY <2>2, <2>3 DEF Sound
<1>8. CASE CapCheck(q)
  <2>1. session'[q] \in {"open", "closed"} /\ UNCHANGED clock
    BY <1>1, <1>8, Returned DEF CapCheck
  <2>2. /\ stage'[q] \in {"lock", "refused"}
        /\ stage'[q] = "lock" => now'[q] = clock
        /\ UNCHANGED settled
    BY <1>1, <1>8 DEF CapCheck, Go, PayTypeOK
  <2>3. Asking(q)' /\ LockSound(q)'
    BY <1>3, <2>1, <2>2 DEF Asking, LockSound, Committed
  <2>4. PriceSound(q)'
    BY <1>1, <1>2, <2>2, RecordedStays DEF Sound, PriceSound, Recorded
  <2> QED
    BY <2>3, <2>4 DEF Sound
<1>9. CASE Lock(q)
  <2>1. /\ quote'[q] \in Stamped /\ quote'[q].at = clock
        /\ clock <= quote'[q].got + MaxAge
        /\ \E r \in rows' : Unstamp(r) = Unstamp(quote'[q])
        /\ UNCHANGED clock
    BY <1>1, <1>9, Returned DEF Lock
  <2>2. quote'[q].cur = SettlesIn[q]
    BY <1>1, <1>2, <1>9, ReturnedCurrency DEF Lock, Go, Sound
  <2>3. /\ stage[q] = "lock" /\ stage'[q] = "insert" /\ locked'[q] = quote'[q]
        /\ UNCHANGED <<now, settled>>
    BY <1>1, <1>9 DEF Lock, Go, PayTypeOK
  <2>4. Asking(q)' /\ LockSound(q)'
    BY <1>2, <2>1, <2>2, <2>3 DEF Sound, Asking, LockSound, Recorded
  <2>5. PriceSound(q)'
    BY <1>1, <1>2, <2>3, RecordedStays DEF Sound, PriceSound, Recorded
  <2> QED
    BY <2>4, <2>5 DEF Sound
<1>10. CASE SettleLocked(q)
  <2>1. /\ stage[q] = "initiated" /\ stage'[q] = "settled" /\ clock < now[q] + LockTTL
        /\ settled'[q] = [locked[q] EXCEPT !.at = clock]
        /\ UNCHANGED <<fxVars, now, locked>>
    BY <1>1, <1>10 DEF SettleLocked, LockLive, Go, PayTypeOK
  <2>2. locked[q] \in Stamped /\ now[q] \in Nat
    BY <1>1, <2>1 DEF PayTypeOK, Committed
  <2>3. /\ settled'[q].cur = locked[q].cur /\ settled'[q].got = locked[q].got
        /\ settled'[q].value = locked[q].value /\ settled'[q].at = clock
    BY <2>1, <2>2 DEF Stamped
  <2>4. LockSound(q) /\ now[q] <= locked[q].at /\ locked[q].at <= locked[q].got + MaxAge
    BY <1>2, <2>1 DEF Sound, LockSound, Committed
  <2>5. clock < locked[q].got + MaxAge + LockTTL
    BY <1>3, <2>1, <2>2, <2>4 DEF Stamped
  <2>6. Unstamp(settled'[q]) = Unstamp(locked[q])
    BY <2>3 DEF Unstamp
  <2>7. Asking(q)' /\ LockSound(q)'
    BY <2>1, <2>4 DEF Asking, LockSound, Committed, Recorded, fxVars
  <2>8. PriceSound(q)'
    BY <2>1, <2>3, <2>4, <2>5, <2>6 DEF PriceSound, LockSound, Committed, Recorded, fxVars
  <2> QED
    BY <2>7, <2>8 DEF Sound
<1>11. CASE SettleExpired(q)
  <2>1. /\ stage[q] = "initiated" /\ stage'[q] = "price"
        /\ session'[q] = "open" /\ UNCHANGED <<now, locked, settled, rows, clock>>
    BY <1>1, <1>11 DEF SettleExpired, OpenSession, CallStep, Go, PayTypeOK, TypeOK
  <2> QED
    BY <1>2, <2>1 DEF Sound, Asking, LockSound, PriceSound, Committed, Recorded
<1>12. CASE SettlePrice(q)
  <2>1. /\ quote'[q] \in Stamped /\ quote'[q].at = clock
        /\ clock <= quote'[q].got + MaxAge
        /\ \E r \in rows' : Unstamp(r) = Unstamp(quote'[q])
        /\ UNCHANGED clock
    BY <1>1, <1>12, Returned DEF SettlePrice
  <2>2. quote'[q].cur = SettlesIn[q]
    BY <1>1, <1>2, <1>12, ReturnedCurrency DEF SettlePrice, Go, Sound
  <2>3. /\ stage[q] = "price" /\ stage'[q] = "write" /\ settled'[q] = quote'[q]
        /\ UNCHANGED <<now, locked>>
    BY <1>1, <1>12 DEF SettlePrice, Go, PayTypeOK
  <2>4. clock < quote'[q].got + MaxAge + LockTTL
    BY <1>3, <2>1 DEF Stamped
  <2>5. Asking(q)' /\ PriceSound(q)'
    BY <2>1, <2>2, <2>3, <2>4 DEF Asking, PriceSound, Recorded
  <2>6. LockSound(q)'
    BY <1>1, <1>2, <2>3, RecordedStays DEF Sound, LockSound, Committed, Recorded
  <2> QED
    BY <2>5, <2>6 DEF Sound
<1> QED
  BY <1>4, <1>5, <1>6, <1>7, <1>8, <1>9, <1>10, <1>11, <1>12 DEF PayNext, Payment

LEMMA PayStep == PayInv /\ [PayNext]_vars => PayInv'
<1> SUFFICES ASSUME PayInv, [PayNext]_vars PROVE PayInv'
  OBVIOUS
<1>1. PayTypeOK' /\ QuotesRecorded'
  BY PayTypeStep, QuotesStep
<1>2. \A q \in Callers : Sound(q)'
  BY <1>1, SoundStep
<1>3. FxInv'
  BY PayStepsFx, FxStep DEF PayInv
<1> QED
  BY <1>1, <1>2, <1>3 DEF PayInv

-----------------------------------------------------------------------------
(* Payments use the rate cache as FxRates says: what is proved of FxRates   *)
(* holds of it under payments and settlements.                              *)
THEOREM PaymentsCallGetRate == PaySpec => Spec
<1>1. PayInit => Init
  BY DEF PayInit
<1> QED
  BY <1>1, PayStepsFx, PTL DEF PaySpec, Spec

(* The types of payments: one that is committed has a rate locked, one that *)
(* is settled has a rate.                                                   *)
THEOREM PayTypeCorrect == PaySpec => []PayTypeOK
<1>1. PayInv => PayTypeOK
  BY DEF PayInv
<1> QED
  BY <1>1, PayInitial, PayStep, PTL DEF PaySpec

(* No settlement pays at a rate of another currency, or at one older than   *)
(* the cache, a refresh and the lock together allow.                        *)
THEOREM SettledAtBoundedAge == PaySpec => []SettledRateAge
<1>1. ASSUME PayInv PROVE SettledRateAge
  <2> SUFFICES ASSUME NEW p \in Callers, settled[p] # None
               PROVE  /\ settled[p].cur = SettlesIn[p]
                      /\ settled[p].at < settled[p].got + TTL + RunLimit + LockTTL
    BY DEF SettledRateAge
  <2>1. PriceSound(p) /\ settled[p].got \in Nat
    BY <1>1 DEF PayInv, Sound, PayTypeOK, Stamped
  <2> QED
    BY <2>1, TimesAssumption, LockAssumption DEF PriceSound, MaxAge
<1> QED
  BY <1>1, PayInitial, PayStep, PTL DEF PaySpec

(* The rates of committed payments can be found in fx_rates.                *)
THEOREM RatesFound == PaySpec => []RatesOnRecord
<1>1. ASSUME PayInv PROVE RatesOnRecord
  <2> SUFFICES ASSUME NEW p \in Callers
               PROVE  /\ stage[p] \in Committed => Recorded(locked[p])
                      /\ stage[p] = "settled" => Recorded(settled[p])
    BY DEF RatesOnRecord, Recorded
  <2>1. LockSound(p) /\ PriceSound(p)
    BY <1>1 DEF PayInv, Sound
  <2> QED
    BY <2>1 DEF LockSound, PriceSound
<1> QED
  BY <1>1, PayInitial, PayStep, PTL DEF PaySpec
===============================================================================
