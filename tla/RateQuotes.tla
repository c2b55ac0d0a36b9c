------------------------------ MODULE RateQuotes ------------------------------
(***************************************************************************)
(* What the rest of the service may rely on when it asks for an exchange   *)
(* rate: every rate it is quoted was obtained for that currency, by a live *)
(* answer or by the fallback, and not longer ago than MaxAge.              *)
(***************************************************************************)
EXTENDS Naturals

CONSTANTS Currencies, Values, Callers, MaxAge, None

VARIABLES
  clock,   \* in units of which a commit takes less than one
  known,   \* rates obtained, as long as anything keeps them
  quote    \* the rate each caller was quoted last, and when

vars == <<clock, known, quote>>

Stamp(r, t) == [cur |-> r.cur, value |-> r.value, got |-> r.got, at |-> t]

Init ==
  /\ clock = 0
  /\ known = {}
  /\ quote = [c \in Callers |-> None]

Tick ==
  /\ clock' = clock + 1
  /\ UNCHANGED <<known, quote>>

Obtain(cur, v) ==
  /\ known' = known \cup {[cur |-> cur, value |-> v, got |-> clock]}
  /\ UNCHANGED <<clock, quote>>

Lose ==
  /\ known' \in SUBSET known
  /\ UNCHANGED <<clock, quote>>

(* A caller begins anew, or leaves with what it held.                       *)
Forget(c) ==
  /\ quote' = [quote EXCEPT ![c] = None]
  /\ known' \in SUBSET known
  /\ UNCHANGED clock

Answer(c, r) ==
  /\ r \in known
  /\ clock <= r.got + MaxAge
  /\ quote' = [quote EXCEPT ![c] = Stamp(r, clock)]
  /\ UNCHANGED <<clock, known>>

Next ==
  \/ Tick
  \/ \E cur \in Currencies, v \in Values : Obtain(cur, v)
  \/ Lose
  \/ \E c \in Callers : Forget(c)
  \/ \E c \in Callers, r \in known : Answer(c, r)

Spec == Init /\ [][Next]_vars
===============================================================================
