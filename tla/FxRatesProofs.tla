---------------------------- MODULE FxRatesProofs ----------------------------
(***************************************************************************)
(* Theorems about FxRates, for any number of callers, runs, currencies,    *)
(* rates and outages, and any length of the TTL and of a refresh.          *)
(***************************************************************************)
EXTENDS FxRates, TLAPS

(* How old things are.  A row was obtained at most RunLimit before the time *)
(* it shows; what is about to be stored by a caller was obtained this very  *)
(* unit of time; what a run carries was obtained since its start, which is  *)
(* at most RunLimit ago; and a run that rests carries nothing.              *)
Ages ==
  /\ \A x \in rows : x.got <= clock /\ x.at <= clock /\ x.at <= x.got + RunLimit
  /\ \A c \in Callers : began[c] <= clock
  /\ \A c \in Callers : session[c] = "store" => held[c].got = clock
  /\ \A r \in Runs : next[r] # 0 =>
       since[r] <= clock /\ clock <= since[r] + RunLimit
  /\ \A r \in Runs : \A x \in batch[r] : since[r] <= x.got /\ x.got <= clock
  /\ \A r \in Runs : next[r] = 0 => batch[r] = {}

(* x, if it is a mock, was obtained no later than d, the last time the      *)
(* provider was down.                                                       *)
Explained(x, d) == x.value = MockRate => d \in Nat /\ x.got <= d

(* All mocks are explained, and while the provider is down it is now.       *)
Mocks ==
  /\ lastDown \in Nat => lastDown <= clock
  /\ ~up => lastDown = clock
  /\ \A x \in rows : Explained(x, lastDown)
  /\ \A c \in Callers : session[c] = "store" => Explained(held[c], lastDown)
  /\ \A r \in Runs : \A x \in batch[r] : Explained(x, lastDown)

(* What get_rate returned was young enough, and is explained.               *)
Quoted(q, d) == q.at <= q.got + MaxAge /\ Explained(q, d)
Answers == \A c \in Callers : quote[c] # None => Quoted(quote[c], lastDown)

FxInv == TypeOK /\ Ages /\ Mocks /\ Answers

(* A stamped rate is a row, and taking the stamp away gives the rate back.  *)
LEMMA StampType ==
  ASSUME NEW x \in Rate, NEW t \in Nat
  PROVE  Stamp(x, t) \in Stamped /\ Unstamp(Stamp(x, t)) = x
BY DEF Rate, Stamp, Stamped, Unstamp

-----------------------------------------------------------------------------
LEMMA FxInit == Init => FxInv
<1> SUFFICES ASSUME Init PROVE FxInv
  OBVIOUS
<1> USE TimesAssumption, OutageAssumption, ListAssumption, NoneAssumption DEF Init
<1>1. TypeOK
  BY DEF TypeOK, Fetched
<1>2. Ages
  BY DEF Ages
<1>3. Mocks
  BY DEF Mocks
<1>4. Answers
  BY DEF Answers
<1> QED
  BY <1>1, <1>2, <1>3, <1>4 DEF FxInv

(* What get_rate is told by the provider.                                   *)
LEMMA FetchType ==
  ASSUME TypeOK, NEW cur \in Currencies, NEW v,
         FetchFromFrankfurter(cur, [cur |-> cur, value |-> v, got |-> clock])
  PROVE  [cur |-> cur, value |-> v, got |-> clock] \in Rate
BY DEF TypeOK, FetchFromFrankfurter, Rate, Values

LEMMA FxTypeStep == TypeOK /\ [Next]_fxVars => TypeOK'
<1> SUFFICES ASSUME TypeOK, [Next]_fxVars PROVE TypeOK'
  OBVIOUS
<1> USE TimesAssumption, OutageAssumption, ListAssumption, NoneAssumption
    DEF sourceVars, callVars, runVars
<1>1. CASE Tick
  BY <1>1 DEF Tick, TypeOK
<1>2. CASE SourceFails
  <2>1. up' \in BOOLEAN
    BY <1>2 DEF SourceFails
  <2>2. outages' \in 0..OutageLimit /\ lastDown' \in Nat \cup {None}
    BY <1>2 DEF SourceFails, TypeOK
  <2> QED
    BY <1>2, <2>1, <2>2 DEF SourceFails, TypeOK
<1>3. CASE SourceRecovers
  BY <1>3 DEF SourceRecovers, TypeOK
<1>4. ASSUME NEW c \in Callers, OpenSession(c) PROVE TypeOK'
  BY <1>4 DEF OpenSession, CallStep, TypeOK
<1>5. ASSUME NEW c \in Callers, NEW cur \in Currencies, Hit(c, cur) PROVE TypeOK'
  <2>1. PICK x \in Newest(Fresh(cur)) : Return(c, cur, x)
    BY <1>5 DEF Hit
  <2>2. x \in Stamped
    BY <2>1 DEF TypeOK, Newest, Fresh, Cached
  <2>3. quote' \in [Callers -> Stamped \cup {None}]
    BY <2>1, <2>2 DEF Return, Stamped, TypeOK
  <2> QED
    BY <1>5, <2>3 DEF Hit, CallStep, TypeOK
<1>6. ASSUME NEW c \in Callers, NEW cur \in Currencies, Miss(c, cur) PROVE TypeOK'
  BY <1>6 DEF Miss, CallStep, TypeOK
<1>7. ASSUME NEW c \in Callers, Fetch(c) PROVE TypeOK'
  <2>1. held[c] \in Currencies
    BY <1>7 DEF Fetch, CallStep, TypeOK
  <2>2. PICK v \in Values :
          LET x == [cur |-> held[c], value |-> v, got |-> clock]
          IN  FetchFromFrankfurter(held[c], x) /\ held' = [held EXCEPT ![c] = x]
    BY <1>7 DEF Fetch
  <2>3. [cur |-> held[c], value |-> v, got |-> clock] \in Rate
    BY <2>1, <2>2, FetchType
  <2> QED
    BY <1>7, <2>2, <2>3 DEF Fetch, CallStep, TypeOK
<1>8. ASSUME NEW c \in Callers, Store(c) PROVE TypeOK'
  <2>1. held[c] \in Rate
    BY <1>8 DEF Store, TypeOK
  <2>2. Stamp(held[c], began[c]) \in Stamped
    BY <2>1, StampType DEF TypeOK
  <2>3. quote' \in [Callers -> Stamped \cup {None}]
    BY <1>8, <2>1 DEF Store, Return, Rate, Stamped, TypeOK
  <2> QED
    BY <1>8, <2>2, <2>3 DEF Store, EndSession, TypeOK
<1>9. ASSUME NEW c \in Callers, Leave(c) PROVE TypeOK'
  BY <1>9 DEF Leave, EndSession, TypeOK
<1>10. ASSUME NEW r \in Runs, RunStart(r) PROVE TypeOK'
  BY <1>10 DEF RunStart, Fetched, TypeOK
<1>11. ASSUME NEW r \in Runs, RunFetch(r) PROVE TypeOK'
  <2> DEFINE cur == SETTLEMENT_CURRENCIES[next[r]]
  <2>1. cur \in Currencies
    BY <1>11 DEF RunFetch
  <2>2. PICK v \in Values :
          LET x == [cur |-> cur, value |-> v, got |-> clock]
          IN  FetchFromFrankfurter(cur, x) /\ batch' = [batch EXCEPT ![r] = @ \cup {x}]
    BY <1>11 DEF RunFetch
  <2>3. [cur |-> cur, value |-> v, got |-> clock] \in Rate
    BY <2>1, <2>2, FetchType
  <2>4. batch' \in [Runs -> SUBSET Rate]
    BY <2>2, <2>3 DEF TypeOK
  <2>5. next' \in [Runs -> 0..Fetched]
    BY <1>11 DEF RunFetch, Fetched, TypeOK
  <2> QED
    BY <1>11, <2>4, <2>5 DEF RunFetch, TypeOK
<1>12. ASSUME NEW r \in Runs, RunCommit(r) PROVE TypeOK'
  <2>1. rows' \subseteq Stamped
    BY <1>12, StampType DEF RunCommit, TypeOK
  <2> QED
    BY <1>12, <2>1 DEF RunCommit, EndRun, Fetched, TypeOK
<1>13. ASSUME NEW r \in Runs, RunFail(r) PROVE TypeOK'
  BY <1>13 DEF RunFail, EndRun, Fetched, TypeOK
<1>14. CASE UNCHANGED fxVars
  BY <1>14 DEF fxVars, TypeOK
<1> QED
  BY <1>1, <1>2, <1>3, <1>4, <1>5, <1>6, <1>7, <1>8, <1>9, <1>10, <1>11, <1>12,
     <1>13, <1>14 DEF Next, Call, Refresh

-----------------------------------------------------------------------------
(* A fetch is of this unit of time, and explains its mock: the provider is  *)
(* down.                                                                    *)
LEMMA FetchAge ==
  ASSUME TypeOK, Mocks, NEW cur \in Currencies, NEW v,
         FetchFromFrankfurter(cur, [cur |-> cur, value |-> v, got |-> clock])
  PROVE  Explained([cur |-> cur, value |-> v, got |-> clock], lastDown)
<1> DEFINE x == [cur |-> cur, value |-> v, got |-> clock]
<1>1. CASE up
  BY <1>1, MockAssumption DEF FetchFromFrankfurter, Explained
<1>2. CASE ~up
  <2>1. lastDown = clock /\ clock \in Nat
    BY <1>2 DEF Mocks, TypeOK
  <2> QED
    BY <2>1 DEF Explained
<1> QED
  BY <1>1, <1>2

LEMMA FxAgeStep == FxInv /\ [Next]_fxVars => Ages'
<1> SUFFICES ASSUME FxInv, [Next]_fxVars PROVE Ages'
  OBVIOUS
<1>0. TypeOK'
  BY FxTypeStep DEF FxInv
<1> USE TimesAssumption, <1>0 DEF FxInv, sourceVars, callVars, runVars
<1>1. CASE Tick
  BY <1>1 DEF Tick, TypeOK, Ages, Stamped, Rate
<1>2. CASE SourceFails \/ SourceRecovers
  BY <1>2 DEF SourceFails, SourceRecovers, Ages
<1>3. ASSUME NEW c \in Callers, OpenSession(c) PROVE Ages'
  BY <1>3 DEF OpenSession, CallStep, TypeOK, Ages
<1>4. ASSUME NEW c \in Callers, NEW cur \in Currencies, Hit(c, cur) \/ Miss(c, cur)
      PROVE  Ages'
  BY <1>4 DEF Hit, Miss, CallStep, TypeOK, Ages
<1>5. ASSUME NEW c \in Callers, Fetch(c) PROVE Ages'
  <2>1. PICK v \in Values :
          held' = [held EXCEPT ![c] = [cur |-> held[c], value |-> v, got |-> clock]]
    BY <1>5 DEF Fetch
  <2>2. \A d \in Callers : session'[d] = "store" => held'[d].got = clock
    BY <1>5, <2>1 DEF Fetch, CallStep, TypeOK, Ages
  <2> QED
    BY <1>5, <2>2 DEF Fetch, Ages
<1>6. ASSUME NEW c \in Callers, Store(c) PROVE Ages'
  <2>1. held[c] \in Rate /\ held[c].got = clock /\ began[c] <= clock
    BY <1>6 DEF Store, TypeOK, Ages
  <2>2. \A x \in rows' : x.got <= clock /\ x.at <= clock /\ x.at <= x.got + RunLimit
    BY <1>6, <2>1 DEF Store, Stamp, TypeOK, Ages
  <2> QED
    BY <1>6, <2>2 DEF Store, EndSession, TypeOK, Ages
<1>7. ASSUME NEW c \in Callers, Leave(c) PROVE Ages'
  BY <1>7 DEF Leave, EndSession, TypeOK, Ages
<1>8. ASSUME NEW r \in Runs, RunStart(r) PROVE Ages'
  BY <1>8 DEF RunStart, TypeOK, Ages
<1>9. ASSUME NEW r \in Runs, RunFetch(r) PROVE Ages'
  <2>1. PICK x : x.got = clock /\ batch' = [batch EXCEPT ![r] = @ \cup {x}]
    BY <1>9 DEF RunFetch
  <2>2. next[r] # 0 /\ since[r] <= clock
    BY <1>9 DEF RunFetch, TypeOK, Ages
  <2>3. \A q \in Runs : \A y \in batch'[q] : since[q] <= y.got /\ y.got <= clock
    BY <2>1, <2>2 DEF TypeOK, Ages
  <2>4. \A q \in Runs : next'[q] # 0 => since[q] <= clock /\ clock <= since[q] + RunLimit
    BY <1>9, <2>2 DEF RunFetch, TypeOK, Ages
  <2>5. \A q \in Runs : next'[q] = 0 => batch'[q] = {}
    BY <1>9, <2>1 DEF RunFetch, TypeOK, Ages
  <2> QED
    BY <1>9, <2>3, <2>4, <2>5 DEF RunFetch, Ages
<1>10. ASSUME NEW r \in Runs, RunCommit(r) PROVE Ages'
  <2>a. next[r] # 0
    BY <1>10, ListAssumption DEF RunCommit, Fetched
  <2>1. \A x \in batch[r] : x \in Rate /\ x.got <= clock /\ clock <= x.got + RunLimit
    BY <2>a DEF Rate, TypeOK, Ages
  <2>2. \A x \in rows' : x.got <= clock /\ x.at <= clock /\ x.at <= x.got + RunLimit
    BY <1>10, <2>1 DEF RunCommit, Stamp, Rate, TypeOK, Ages
  <2> QED
    BY <1>10, <2>2 DEF RunCommit, EndRun, TypeOK, Ages
<1>11. ASSUME NEW r \in Runs, RunFail(r) PROVE Ages'
  BY <1>11 DEF RunFail, EndRun, TypeOK, Ages
<1>12. CASE UNCHANGED fxVars
  BY <1>12 DEF fxVars, Ages
<1> QED
  BY <1>1, <1>2, <1>3, <1>4, <1>5, <1>6, <1>7, <1>8, <1>9, <1>10, <1>11, <1>12
  DEF Next, Call, Refresh

(* What was explained stays so: the time of the last outage only grows.     *)
LEMMA StaysExplained ==
  ASSUME FxInv, [Next]_fxVars, NEW x, x.got \in Nat, Explained(x, lastDown)
  PROVE  Explained(x, lastDown')
<1>1. lastDown' = lastDown \/ (lastDown' \in Nat /\ clock <= lastDown')
  <2>1. CASE Tick
    BY <2>1 DEF Tick, FxInv, TypeOK
  <2>2. CASE SourceFails
    BY <2>2 DEF SourceFails, FxInv, TypeOK
  <2> QED
    BY <2>1, <2>2 DEF Next, fxVars, Call, Refresh, sourceVars, SourceRecovers,
       OpenSession, Hit, Miss, Fetch, Store, Leave, RunStart, RunFetch, RunCommit,
       RunFail
<1>2. lastDown \in Nat => lastDown <= clock
  BY DEF FxInv, Mocks
<1> QED
  BY <1>1, <1>2 DEF Explained, FxInv, TypeOK

LEMMA FxMockStep == FxInv /\ [Next]_fxVars => Mocks'
<1> SUFFICES ASSUME FxInv, [Next]_fxVars PROVE Mocks'
  OBVIOUS
<1>a. /\ \A x \in rows : Explained(x, lastDown')
      /\ \A c \in Callers : session[c] = "store" => Explained(held[c], lastDown')
      /\ \A r \in Runs : \A x \in batch[r] : Explained(x, lastDown')
  BY StaysExplained DEF FxInv, Mocks, TypeOK, Stamped, Rate
<1>b. TypeOK /\ Mocks
  BY DEF FxInv
<1> USE <1>a, <1>b DEF sourceVars, callVars, runVars
<1>1. CASE Tick
  <2>1. (lastDown' \in Nat => lastDown' <= clock') /\ (~up' => lastDown' = clock')
    BY <1>1 DEF Tick, TypeOK, Mocks
  <2> QED
    BY <1>1, <2>1 DEF Tick, Mocks
<1>2. CASE SourceFails \/ SourceRecovers
  BY <1>2 DEF SourceFails, SourceRecovers, TypeOK, Mocks
<1>3. ASSUME NEW c \in Callers, OpenSession(c) PROVE Mocks'
  BY <1>3 DEF OpenSession, CallStep, TypeOK, Mocks
<1>4. ASSUME NEW c \in Callers, NEW cur \in Currencies, Hit(c, cur) \/ Miss(c, cur)
      PROVE  Mocks'
  BY <1>4 DEF Hit, Miss, CallStep, TypeOK, Mocks
<1>5. ASSUME NEW c \in Callers, Fetch(c) PROVE Mocks'
  <2>1. held[c] \in Currencies
    BY <1>5 DEF Fetch, CallStep, TypeOK
  <2>2. PICK v \in Values :
          LET x == [cur |-> held[c], value |-> v, got |-> clock]
          IN  FetchFromFrankfurter(held[c], x) /\ held' = [held EXCEPT ![c] = x]
    BY <1>5 DEF Fetch
  <2>3. Explained([cur |-> held[c], value |-> v, got |-> clock], lastDown)
    BY <2>1, <2>2, FetchAge
  <2>4. \A d \in Callers : session'[d] = "store" => Explained(held'[d], lastDown)
    BY <1>5, <2>2, <2>3 DEF Fetch, CallStep, TypeOK, Mocks
  <2> QED
    BY <1>5, <2>4 DEF Fetch, Mocks
<1>6. ASSUME NEW c \in Callers, Store(c) PROVE Mocks'
  <2>1. \A x \in rows' : Explained(x, lastDown)
    BY <1>6 DEF Store, Stamp, Explained, Mocks
  <2> QED
    BY <1>6, <2>1 DEF Store, EndSession, TypeOK, Mocks
<1>7. ASSUME NEW c \in Callers, Leave(c) PROVE Mocks'
  BY <1>7 DEF Leave, EndSession, TypeOK, Mocks
<1>8. ASSUME NEW r \in Runs, RunStart(r) PROVE Mocks'
  BY <1>8 DEF RunStart, TypeOK, Mocks
<1>9. ASSUME NEW r \in Runs, RunFetch(r) PROVE Mocks'
  <2> DEFINE cur == SETTLEMENT_CURRENCIES[next[r]]
  <2>1. cur \in Currencies
    BY <1>9, ListAssumption DEF RunFetch
  <2>2. PICK v \in Values :
          LET x == [cur |-> cur, value |-> v, got |-> clock]
          IN  FetchFromFrankfurter(cur, x) /\ batch' = [batch EXCEPT ![r] = @ \cup {x}]
    BY <1>9 DEF RunFetch
  <2>3. Explained([cur |-> cur, value |-> v, got |-> clock], lastDown)
    BY <2>1, <2>2, FetchAge
  <2>4. \A q \in Runs : \A x \in batch'[q] : Explained(x, lastDown)
    BY <2>2, <2>3 DEF TypeOK, Mocks
  <2> QED
    BY <1>9, <2>4 DEF RunFetch, Mocks
<1>10. ASSUME NEW r \in Runs, RunCommit(r) PROVE Mocks'
  <2>1. \A x \in rows' : Explained(x, lastDown)
    BY <1>10 DEF RunCommit, Stamp, Explained, Mocks
  <2> QED
    BY <1>10, <2>1 DEF RunCommit, EndRun, TypeOK, Mocks
<1>11. ASSUME NEW r \in Runs, RunFail(r) PROVE Mocks'
  BY <1>11 DEF RunFail, EndRun, TypeOK, Mocks
<1>12. CASE UNCHANGED fxVars
  BY <1>12 DEF fxVars, Mocks
<1> QED
  BY <1>1, <1>2, <1>3, <1>4, <1>5, <1>6, <1>7, <1>8, <1>9, <1>10, <1>11, <1>12
  DEF Next, Call, Refresh

(* A hit returns a row that is within the TTL.                              *)
LEMMA HitQuoted ==
  ASSUME FxInv, NEW c \in Callers, NEW cur \in Currencies, Hit(c, cur)
  PROVE  \E x \in rows : /\ x \in Stamped /\ x.cur = cur
                         /\ clock <= x.got + MaxAge
                         /\ Return(c, cur, x)
<1>1. PICK x \in Newest(Fresh(cur)) : Return(c, cur, x)
  BY DEF Hit
<1>2. x \in rows /\ x.cur = cur /\ clock <= x.at + TTL
  BY <1>1 DEF Newest, Fresh, Cached
<1>3. x \in Stamped /\ x.at <= x.got + RunLimit /\ clock \in Nat
  BY <1>2 DEF FxInv, TypeOK, Ages
<1>4. clock <= x.got + MaxAge
  BY <1>2, <1>3, TimesAssumption DEF Stamped, MaxAge
<1> QED
  BY <1>1, <1>2, <1>3, <1>4

LEMMA FxAnswerStep == FxInv /\ [Next]_fxVars => Answers'
<1> SUFFICES ASSUME FxInv, [Next]_fxVars PROVE Answers'
  OBVIOUS
<1>a. \A c \in Callers : quote[c] # None => Quoted(quote[c], lastDown')
  BY StaysExplained DEF FxInv, Answers, Quoted, TypeOK, Stamped
<1>b. TypeOK
  BY DEF FxInv
<1>1. ASSUME UNCHANGED quote PROVE Answers'
  BY <1>1, <1>a DEF Answers
<1>2. ASSUME NEW c \in Callers, quote' = [quote EXCEPT ![c] = None] PROVE Answers'
  BY <1>2, <1>a, <1>b DEF Answers, TypeOK
<1>3. ASSUME NEW c \in Callers, NEW cur, NEW x, Return(c, cur, x), x.got \in Nat,
             clock <= x.got + MaxAge, Explained(x, lastDown), UNCHANGED lastDown
      PROVE  Answers'
  <2>1. Quoted([cur |-> cur, value |-> x.value, got |-> x.got, at |-> clock], lastDown)
    BY <1>3 DEF Quoted, Explained
  <2> QED
    BY <1>3, <2>1, <1>a, <1>b DEF Return, Answers, TypeOK
<1>4. ASSUME NEW c \in Callers, NEW cur \in Currencies, Hit(c, cur) PROVE Answers'
  <2>1. PICK x \in rows : x \in Stamped /\ clock <= x.got + MaxAge /\ Return(c, cur, x)
    BY <1>4, HitQuoted
  <2>2. Explained(x, lastDown) /\ x.got \in Nat
    BY <2>1 DEF FxInv, Mocks, Stamped
  <2> QED
    BY <1>3, <1>4, <2>1, <2>2 DEF Hit, sourceVars
<1>5. ASSUME NEW c \in Callers, Store(c) PROVE Answers'
  <2>1. held[c] \in Rate /\ held[c].got = clock /\ Explained(held[c], lastDown)
    BY <1>5 DEF Store, FxInv, TypeOK, Ages, Mocks
  <2>2. held[c].got \in Nat /\ clock <= held[c].got + MaxAge
    BY <2>1, TimesAssumption DEF Rate, MaxAge
  <2> QED
    BY <1>3, <1>5, <2>1, <2>2 DEF Store, sourceVars
<1> QED
  BY <1>1, <1>2, <1>4, <1>5 DEF Next, fxVars, callVars, sourceVars, Call, Refresh, Tick,
     SourceFails, SourceRecovers, OpenSession, Miss, Fetch, Leave, RunStart, RunFetch,
     RunCommit, RunFail

LEMMA FxStep == FxInv /\ [Next]_fxVars => FxInv'
BY FxTypeStep, FxAgeStep, FxMockStep, FxAnswerStep DEF FxInv

(* The types of the rate cache: in particular, get_rate never returns       *)
(* anything but a rate, also when the provider fails.                       *)
THEOREM TypeCorrect == Spec => []TypeOK
<1>1. FxInv => TypeOK
  BY DEF FxInv
<1> QED
  BY <1>1, FxInit, FxStep, PTL DEF Spec

(* A mock rate reaches callers only within MaxAge of an outage, however     *)
(* the runs and callers that stored it interleave.                          *)
THEOREM MocksExplained == Spec => []MockExplained
<1>1. ASSUME FxInv PROVE MockExplained
  <2> SUFFICES ASSUME NEW c \in Callers, quote[c] # None, quote[c].value = MockRate
               PROVE  lastDown # None /\ quote[c].at <= lastDown + MaxAge
    BY DEF MockExplained
  <2>1. lastDown \in Nat /\ quote[c].got <= lastDown /\ quote[c].at <= quote[c].got + MaxAge
    BY <1>1 DEF FxInv, Answers, Quoted, Explained
  <2>2. quote[c].got \in Nat /\ quote[c].at \in Nat /\ MaxAge \in Nat
    BY <1>1, TimesAssumption DEF FxInv, TypeOK, Stamped, MaxAge
  <2> QED
    BY <2>1, <2>2, NoneAssumption
<1> QED
  BY <1>1, FxInit, FxStep, PTL DEF Spec

-----------------------------------------------------------------------------
(* The refinement.                                                          *)

(* What is known, element by element, in a state and in the next.           *)
LEMMA InKnown ==
  /\ \A x : x \in Known <=>
       \/ \E y \in rows : x = Unstamp(y)
       \/ \E r \in Runs : x \in batch[r]
       \/ \E c \in Storing : x = held[c]
  /\ \A x : x \in Known' <=>
       \/ \E y \in rows' : x = Unstamp(y)
       \/ \E r \in Runs : x \in batch'[r]
       \/ \E c \in Storing' : x = held'[c]
<1>1. \A x : x \in Known <=>
        \/ x \in {Unstamp(y) : y \in rows}
        \/ x \in UNION {batch[r] : r \in Runs}
        \/ x \in {held[c] : c \in Storing}
  BY Zenon DEF Known
<1>2. \A x : x \in UNION {batch[r] : r \in Runs} <=> \E r \in Runs : x \in batch[r]
  BY Zenon
<1>3. \A x : x \in Known' <=>
        \/ x \in {Unstamp(y) : y \in rows'}
        \/ x \in UNION {batch'[r] : r \in Runs}
        \/ x \in {held'[c] : c \in Storing'}
  BY Zenon DEF Known
<1>4. \A x : x \in UNION {batch'[r] : r \in Runs} <=> \E r \in Runs : x \in batch'[r]
  BY Zenon
<1> QED
  BY <1>1, <1>2, <1>3, <1>4, Zenon

(* What nobody touches, the abstract provider's memory keeps.               *)
LEMMA KnownSame ==
  ASSUME UNCHANGED <<rows, held, batch>>, 
         \A c \in Callers : session'[c] = "store" <=> session[c] = "store"
  PROVE  Known' = Known
BY DEF Known, Storing

LEMMA FxRefines == FxInv /\ [Next]_fxVars => [Quotes!Next]_(Quotes!vars)
<1> SUFFICES ASSUME FxInv, [Next]_fxVars
             PROVE  Quotes!Next \/ UNCHANGED Quotes!vars
  OBVIOUS
<1> USE DEF sourceVars, callVars, runVars
<1>0. TypeOK
  BY DEF FxInv
<1>1. CASE Tick
  <2>1. Known' = Known
    BY <1>1, KnownSame DEF Tick
  <2> QED
    BY <1>1, <2>1 DEF Tick, Quotes!Next, Quotes!Tick
<1>2. CASE SourceFails \/ SourceRecovers \/ UNCHANGED fxVars
  <2>1. Known' = Known
    BY <1>2, KnownSame DEF SourceFails, SourceRecovers, fxVars
  <2> QED
    BY <1>2, <2>1 DEF SourceFails, SourceRecovers, fxVars, Quotes!vars
<1>3. ASSUME NEW c \in Callers, OpenSession(c) PROVE Quotes!Next
  <2>1. Known' = Known
    BY <1>3, <1>0, KnownSame DEF OpenSession, CallStep, TypeOK
  <2> QED
    BY <1>3, <2>1 DEF OpenSession, Quotes!Next, Quotes!Forget
<1>4. ASSUME NEW c \in Callers, NEW cur \in Currencies, Hit(c, cur) PROVE Quotes!Next
  <2>1. PICK x \in rows : x \in Stamped /\ x.cur = cur /\ clock <= x.got + MaxAge
                         /\ Return(c, cur, x)
    BY <1>4, HitQuoted
  <2>2. Unstamp(x) \in Known
    BY <2>1 DEF Known
  <2>3. Known' = Known
    BY <1>4, <1>0, KnownSame DEF Hit, CallStep, TypeOK
  <2>4. Quotes!Answer(c, Unstamp(x))
    BY <1>4, <2>1, <2>2, <2>3 DEF Hit, Return, Unstamp, Quotes!Answer, Quotes!Stamp
  <2> QED
    BY <2>2, <2>4 DEF Quotes!Next
<1>5. ASSUME NEW c \in Callers, NEW cur \in Currencies, Miss(c, cur)
      PROVE  UNCHANGED Quotes!vars
  <2>1. Known' = Known
    <3>1. Storing' = Storing /\ \A d \in Storing : held'[d] = held[d]
      BY <1>5, <1>0 DEF Miss, CallStep, TypeOK, Storing
    <3> QED
      BY <1>5, <3>1 DEF Miss, Known
  <2> QED
    BY <1>5, <2>1 DEF Miss, Quotes!vars
<1>6. ASSUME NEW c \in Callers, Fetch(c) PROVE Quotes!Next
  <2>1. held[c] \in Currencies
    BY <1>6, <1>0 DEF Fetch, CallStep, TypeOK
  <2>2. PICK v \in Values :
          held' = [held EXCEPT ![c] = [cur |-> held[c], value |-> v, got |-> clock]]
    BY <1>6 DEF Fetch
  <2>3. Known' = Known \cup {[cur |-> held[c], value |-> v, got |-> clock]}
    <3> DEFINE x == [cur |-> held[c], value |-> v, got |-> clock]
    <3>1. Storing' = Storing \cup {c} /\ c \notin Storing
      BY <1>6, <1>0 DEF Fetch, CallStep, TypeOK, Storing
    <3>2. held'[c] = x /\ \A d \in Storing : held'[d] = held[d]
      BY <2>2, <3>1, <1>0 DEF TypeOK, Storing
    <3>3. \A y : y \in Known' <=> y \in Known \/ y = x
      <4> HIDE DEF x
      <4> QED
        BY <1>6, <3>1, <3>2, InKnown DEF Fetch, runVars
    <3> QED
      BY <3>3
  <2> QED
    BY <1>6, <2>1, <2>2, <2>3 DEF Fetch, Quotes!Next, Quotes!Obtain
<1>7. ASSUME NEW c \in Callers, Store(c) PROVE Quotes!Next
  <2>1. held[c] \in Rate /\ held[c].got = clock /\ began[c] \in Nat
    BY <1>7 DEF Store, FxInv, TypeOK, Ages
  <2>2. held[c] \in Known
    BY <1>7, InKnown DEF Store, Storing
  <2>3. Unstamp(Stamp(held[c], began[c])) = held[c]
    BY <2>1, StampType
  <2>4. Known' = Known
    <3>1. Storing' = Storing \ {c} /\ c \in Storing
      BY <1>7, <1>0 DEF Store, EndSession, TypeOK, Storing
    <3>2. \A d \in Storing' : held'[d] = held[d]
      BY <1>7, <3>1, <1>0 DEF Store, EndSession, TypeOK, Storing
    <3>3. \A x : (\E y \in rows' : x = Unstamp(y))
                  <=> (\E y \in rows : x = Unstamp(y)) \/ x = held[c]
      BY <1>7, <2>3 DEF Store
    <3>4. \A x : x \in Known' <=> x \in Known
      BY <1>7, <3>1, <3>2, <3>3, InKnown DEF Store
    <3> QED
      BY <3>4
  <2>5. clock <= held[c].got + MaxAge
    BY <2>1, TimesAssumption DEF Rate, MaxAge
  <2>6. Quotes!Answer(c, held[c])
    BY <1>7, <2>2, <2>4, <2>5 DEF Store, Return, Quotes!Answer, Quotes!Stamp
  <2> QED
    BY <2>2, <2>6 DEF Quotes!Next
<1>8. ASSUME NEW c \in Callers, Leave(c) PROVE Quotes!Next
  <2>1. Known' \subseteq Known
    BY <1>8, <1>0 DEF Leave, EndSession, TypeOK, Known, Storing
  <2> QED
    BY <1>8, <2>1 DEF Leave, Quotes!Next, Quotes!Forget
<1>9. ASSUME NEW r \in Runs, RunStart(r) PROVE UNCHANGED Quotes!vars
  <2>1. Known' = Known
    BY <1>9, KnownSame DEF RunStart
  <2> QED
    BY <1>9, <2>1 DEF RunStart, Quotes!vars
<1>10. ASSUME NEW r \in Runs, RunFetch(r) PROVE Quotes!Next
  <2> DEFINE cur == SETTLEMENT_CURRENCIES[next[r]]
  <2>1. cur \in Currencies
    BY <1>10, ListAssumption DEF RunFetch
  <2>2. PICK v \in Values :
          batch' = [batch EXCEPT ![r] = @ \cup {[cur |-> cur, value |-> v, got |-> clock]}]
    BY <1>10 DEF RunFetch
  <2>3. Known' = Known \cup {[cur |-> cur, value |-> v, got |-> clock]}
    <3> DEFINE x == [cur |-> cur, value |-> v, got |-> clock]
    <3>1. \A q \in Runs : batch'[q] = IF q = r THEN batch[r] \cup {x} ELSE batch[q]
      BY <2>2, <1>0 DEF TypeOK
    <3>2. Storing' = Storing
      BY <1>10 DEF RunFetch, Storing
    <3>3. \A y : y \in Known' <=> y \in Known \/ y = x
      <4> HIDE DEF x
      <4> QED
        BY <1>10, <3>1, <3>2, InKnown DEF RunFetch
    <3> QED
      BY <3>3
  <2> QED
    BY <1>10, <2>1, <2>2, <2>3 DEF RunFetch, Quotes!Next, Quotes!Obtain
<1>11. ASSUME NEW r \in Runs, RunCommit(r) PROVE UNCHANGED Quotes!vars
  <2>1. \A x \in batch[r] : Unstamp(Stamp(x, clock)) = x
    BY <1>0, StampType DEF TypeOK
  <2>2. Known' = Known
    <3>1. \A q \in Runs : batch'[q] = IF q = r THEN {} ELSE batch[q]
      BY <1>11, <1>0 DEF RunCommit, EndRun, TypeOK
    <3>2. \A x : (\E y \in rows' : x = Unstamp(y))
                  <=> (\E y \in rows : x = Unstamp(y)) \/ x \in batch[r]
      BY <1>11, <2>1 DEF RunCommit
    <3>3. Storing' = Storing
      BY <1>11 DEF RunCommit, Storing
    <3>4. \A x : x \in Known' <=> x \in Known
      BY <1>11, <3>1, <3>2, <3>3, InKnown DEF RunCommit
    <3> QED
      BY <3>4
  <2> QED
    BY <1>11, <2>2 DEF RunCommit, Quotes!vars
<1>12. ASSUME NEW r \in Runs, RunFail(r) PROVE Quotes!Next
  <2>1. Known' \subseteq Known
    <3>1. \A q \in Runs : batch'[q] \subseteq batch[q]
      BY <1>12, <1>0 DEF RunFail, EndRun, TypeOK
    <3>2. Storing' = Storing
      BY <1>12 DEF RunFail, Storing
    <3> QED
      BY <1>12, <3>1, <3>2, InKnown DEF RunFail
  <2> QED
    BY <1>12, <2>1 DEF RunFail, Quotes!Next, Quotes!Lose
<1> QED
  BY <1>1, <1>2, <1>3, <1>4, <1>5, <1>6, <1>7, <1>8, <1>9, <1>10, <1>11, <1>12
  DEF Next, Call, Refresh

(* get_rate, the refresh and the table together are the abstract service:   *)
(* every rate returned was obtained for its currency within MaxAge.         *)
THEOREM QuotesImplemented == Spec => QuotesSpec
<1>1. Init => Quotes!Init
  <2> SUFFICES ASSUME Init PROVE Known = {}
    BY DEF Init, Quotes!Init
  <2>1. \A x : x \notin Known
    BY InKnown DEF Init, Storing
  <2> QED
    BY <2>1
<1>2. FxInv /\ [Next]_fxVars => [Quotes!Next]_(Quotes!vars)
  BY FxRefines
<1>3. Spec => []FxInv
  BY FxInit, FxStep, PTL DEF Spec
<1> QED
  BY <1>1, <1>2, <1>3, PTL DEF Spec, QuotesSpec, Quotes!Spec
===============================================================================
