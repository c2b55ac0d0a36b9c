------------------------------- MODULE FxRates -------------------------------
(***************************************************************************)
(* The table fx_rates: get_rate, which the sessions of payments and        *)
(* settlements call, and the runs of refresh_all_rates.                    *)
(*                                                                         *)
(* fetched_at is PostgreSQL's now(), the time the transaction began: in    *)
(* get_rate the transaction of the caller, which is older than the fetch,  *)
(* in a refresh the one that the commit after the last fetch opens.  An    *)
(* exchange rate therefore carries the time it was obtained (got) beside   *)
(* the time the table shows (at).  The clocks of PostgreSQL and of the     *)
(* Python processes agree, and a commit takes less than one unit of them.  *)
(***************************************************************************)
EXTENDS Naturals, Sequences

CONSTANTS
  Currencies,              \* SettlementCurrency
  SETTLEMENT_CURRENCIES,   \* the list that is refreshed and shown
  Callers,                 \* sessions that call get_rate
  Runs,                    \* concurrent runs of refresh_fx_rates
  LiveRates,               \* what frankfurter.app may answer
  MockRate,                \* the entry of MOCK_RATES
  TTL,                     \* FX_CACHE_TTL_SECONDS
  RunLimit,                \* how long the fetches of one refresh may take
  OutageLimit,             \* how often frankfurter.app may fail
  Horizon,                 \* where a behaviour ends
  None

Values == LiveRates \cup {MockRate}

ASSUME ListAssumption == SETTLEMENT_CURRENCIES \in Seq(Currencies)
ASSUME TimesAssumption == TTL \in Nat /\ RunLimit \in Nat /\ Horizon \in Nat
ASSUME OutageAssumption == OutageLimit \in Nat
ASSUME MockAssumption == MockRate \notin LiveRates
ASSUME NoneAssumption == None \notin Nat

VARIABLES
  clock,
  up,        \* does frankfurter.app answer
  outages,   \* how often it has stopped to
  lastDown,  \* history: when it last did not
  rows,      \* fx_rates
  session,   \* where each caller is
  began,     \* when the transaction of its session began
  held,      \* the currency a caller is fetching, then the rate fetched
  quote,     \* what get_rate last returned to it, and when
  next,      \* the currency a run fetches next, 0 when it is not running
  since,     \* when a run began
  batch      \* what a run has added to its session

callVars == <<session, began, held, quote>>
runVars == <<next, since, batch>>
sourceVars == <<up, outages, lastDown>>
fxVars == <<clock, sourceVars, rows, callVars, runVars>>

Rate == [cur : Currencies, value : Values, got : Nat]
Stamp(r, t) == [cur |-> r.cur, value |-> r.value, got |-> r.got, at |-> t]
Stamped == [cur : Currencies, value : Values, got : Nat, at : Nat]

(* The index of a run that has fetched everything.                          *)
Fetched == Len(SETTLEMENT_CURRENCIES) + 1

Init ==
  /\ clock = 0
  /\ up = TRUE
  /\ outages = 0
  /\ lastDown = None
  /\ rows = {}
  /\ session = [c \in Callers |-> "closed"]
  /\ began = [c \in Callers |-> 0]
  /\ held = [c \in Callers |-> None]
  /\ quote = [c \in Callers |-> None]
  /\ next = [r \in Runs |-> 0]
  /\ since = [r \in Runs |-> 0]
  /\ batch = [r \in Runs |-> {}]

-----------------------------------------------------------------------------
(* Time and the provider.                                                   *)

(* What is about to commit does so first; a run ends within its limit.      *)
Tick ==
  /\ clock < Horizon
  /\ \A c \in Callers : session[c] # "store"
  /\ \A r \in Runs : next[r] # 0 => next[r] # Fetched /\ clock < since[r] + RunLimit
  /\ clock' = clock + 1
  /\ lastDown' = IF up THEN lastDown ELSE clock'
  /\ UNCHANGED <<up, outages, rows, callVars, runVars>>

(* The provider stops answering, for a while or for one request (a 404, a   *)
(* currency missing from the answer) only.                                  *)
SourceFails ==
  /\ up /\ up' = FALSE
  /\ outages < OutageLimit
  /\ outages' = outages + 1
  /\ lastDown' = clock
  /\ UNCHANGED <<clock, rows, callVars, runVars>>

SourceRecovers ==
  /\ ~up /\ up' = TRUE
  /\ UNCHANGED <<clock, outages, lastDown, rows, callVars, runVars>>

(* A live answer, or the mock rate of the pair after any exception.  There  *)
(* is one for every currency, so FXRateUnavailableError is never raised.    *)
FetchFromFrankfurter(cur, r) ==
  /\ r.cur = cur
  /\ r.got = clock
  /\ r.value \in IF up THEN LiveRates ELSE {MockRate}

-----------------------------------------------------------------------------
(* get_rate.                                                                *)

CallStep(c, from, to) ==
  /\ session[c] = from
  /\ session' = [session EXCEPT ![c] = to]

(* The caller's first statement begins the transaction, ...                 *)
OpenSession(c) ==
  /\ CallStep(c, "closed", "open")
  /\ began' = [began EXCEPT ![c] = clock]
  /\ quote' = [quote EXCEPT ![c] = None]
  /\ UNCHANGED <<clock, sourceVars, rows, held, runVars>>

Newest(S) == {r \in S : \A s \in S : s.at <= r.at}

Cached(cur) == {r \in rows : r.cur = cur}
Fresh_NoTTL(cur) == Cached(cur)
Fresh(cur) == {r \in Cached(cur) : clock <= r.at + TTL}

Return(c, cur, r) ==
  quote' = [quote EXCEPT ![c] =
              [cur |-> cur, value |-> r.value, got |-> r.got, at |-> clock]]

(* ... which stays open after a hit, ...                                    *)
Hit(c, cur) ==
  /\ CallStep(c, "open", "open")
  /\ \E r \in Newest(Fresh(cur)) : Return(c, cur, r)
  /\ UNCHANGED <<clock, sourceVars, rows, began, held, runVars>>

Miss(c, cur) ==
  /\ CallStep(c, "open", "fetch")
  /\ Fresh(cur) = {}
  /\ held' = [held EXCEPT ![c] = cur]
  /\ UNCHANGED <<clock, sourceVars, rows, began, quote, runVars>>

Fetch(c) ==
  /\ CallStep(c, "fetch", "store")
  /\ \E v \in Values :
       LET x == [cur |-> held[c], value |-> v, got |-> clock]
       IN  /\ FetchFromFrankfurter(held[c], x)
           /\ held' = [held EXCEPT ![c] = x]
  /\ UNCHANGED <<clock, sourceVars, rows, began, quote, runVars>>

EndSession(c) ==
  /\ session' = [session EXCEPT ![c] = "closed"]
  /\ began' = [began EXCEPT ![c] = 0]
  /\ held' = [held EXCEPT ![c] = None]

Store_NoCommit(c) ==
  /\ session[c] = "store"
  /\ Return(c, held[c].cur, held[c])
  /\ EndSession(c)
  /\ UNCHANGED <<clock, sourceVars, rows, runVars>>

(* ... and ends with the commit of the fetched rate, which is returned.     *)
Store(c) ==
  /\ session[c] = "store"
  /\ rows' = rows \cup {Stamp(held[c], began[c])}
  /\ Return(c, held[c].cur, held[c])
  /\ EndSession(c)
  /\ UNCHANGED <<clock, sourceVars, runVars>>

(* The caller commits, or any failure rolls its session back.               *)
Leave(c) ==
  /\ EndSession(c)
  /\ quote' = [quote EXCEPT ![c] = None]
  /\ UNCHANGED <<clock, sourceVars, rows, runVars>>

-----------------------------------------------------------------------------
(* refresh_fx_rates, which beat sends every minute.                         *)

RunStart(r) ==
  /\ next[r] = 0
  /\ next' = [next EXCEPT ![r] = 1]
  /\ since' = [since EXCEPT ![r] = clock]
  /\ UNCHANGED <<clock, sourceVars, rows, callVars, batch>>

RunFetch(r) ==
  /\ next[r] \in 1..Len(SETTLEMENT_CURRENCIES)
  /\ \E v \in Values :
       LET cur == SETTLEMENT_CURRENCIES[next[r]]
           x == [cur |-> cur, value |-> v, got |-> clock]
       IN  /\ FetchFromFrankfurter(cur, x)
           /\ batch' = [batch EXCEPT ![r] = @ \cup {x}]
  /\ next' = [next EXCEPT ![r] = @ + 1]
  /\ UNCHANGED <<clock, sourceVars, rows, callVars, since>>

EndRun_KeepBatch(r) ==
  /\ next' = [next EXCEPT ![r] = 0]
  /\ since' = [since EXCEPT ![r] = 0]
  /\ UNCHANGED batch

EndRun(r) ==
  /\ next' = [next EXCEPT ![r] = 0]
  /\ since' = [since EXCEPT ![r] = 0]
  /\ batch' = [batch EXCEPT ![r] = {}]

(* The one commit, whose transaction begins after the last fetch.           *)
RunCommit(r) ==
  /\ next[r] = Fetched
  /\ rows' = rows \cup {Stamp(x, clock) : x \in batch[r]}
  /\ EndRun(r)
  /\ UNCHANGED <<clock, sourceVars, callVars>>

(* A worker lost in mid run, whose message starts a run again, or an error  *)
(* of the database: nothing was committed.                                  *)
RunFail(r) ==
  /\ next[r] # 0
  /\ EndRun(r)
  /\ UNCHANGED <<clock, sourceVars, rows, callVars>>

-----------------------------------------------------------------------------
Call(c) ==
  \/ OpenSession(c) \/ Fetch(c) \/ Store(c) \/ Leave(c)
  \/ \E cur \in Currencies : Hit(c, cur) \/ Miss(c, cur)

Refresh(r) == RunStart(r) \/ RunFetch(r) \/ RunCommit(r) \/ RunFail(r)

Next ==
  \/ Tick \/ SourceFails \/ SourceRecovers
  \/ \E c \in Callers : Call(c)
  \/ \E r \in Runs : Refresh(r)

Spec == Init /\ [][Next]_fxVars

-----------------------------------------------------------------------------
(* Properties.                                                              *)

TypeOK ==
  /\ clock \in Nat /\ up \in BOOLEAN
  /\ outages \in 0..OutageLimit /\ lastDown \in Nat \cup {None}
  /\ rows \subseteq Stamped
  /\ session \in [Callers -> {"closed", "open", "fetch", "store"}]
  /\ began \in [Callers -> Nat]
  /\ held \in [Callers -> Currencies \cup Rate \cup {None}]
  /\ \A c \in Callers : session[c] = "fetch" => held[c] \in Currencies
  /\ \A c \in Callers : session[c] = "store" => held[c] \in Rate
  /\ quote \in [Callers -> Stamped \cup {None}]
  /\ next \in [Runs -> 0..Fetched]
  /\ since \in [Runs -> Nat]
  /\ batch \in [Runs -> SUBSET Rate]

(* Whatever the interleaving of callers, refresh runs and outages, a rate   *)
(* that get_rate returns was obtained for that currency and is at most TTL  *)
(* plus the length of a refresh old: the fetched_at of a refreshed row      *)
(* hides the time its fetches took.                                         *)
MaxAge == TTL + RunLimit
Unstamp(x) == [cur |-> x.cur, value |-> x.value, got |-> x.got]
Storing == {c \in Callers : session[c] = "store"}
Known ==
  {Unstamp(x) : x \in rows} \cup (UNION {batch[r] : r \in Runs})
    \cup {held[c] : c \in Storing}
Quotes == INSTANCE RateQuotes WITH known <- Known
QuotesSpec == Quotes!Spec

(* A mock rate stored in an outage is not told from a live one, but what it *)
(* reaches is limited: get_rate returns one only within MaxAge of a time at *)
(* which the provider was down.                                             *)
MockExplained ==
  \A c \in Callers :
    quote[c] # None /\ quote[c].value = MockRate =>
      lastDown # None /\ quote[c].at <= lastDown + MaxAge
===============================================================================
