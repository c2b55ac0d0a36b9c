-------------------------- MODULE ReconciliationProofs --------------------------
(***************************************************************************)
(* Theorems about the reconciliation log of PaymentPipeline, for every     *)
(* number of payments, notifications, workers, reconciliation runs,        *)
(* retries and faults.                                                     *)
(***************************************************************************)
EXTENDS PaymentPipelineProofs, FiniteSetTheorems

(* The rates a payment was settled at, the tasks that have settled it and   *)
(* not logged it yet, and the runs that will commit an entry for it.        *)
PaidAt(t) == {paid[t][j] : j \in DOMAIN paid[t]}
Loggers(t) == {k \in Tasks : TxOf(k) = t /\ pc[k] = "log"}
Adders(t) == {r \in Recons : t \in adds[r]}

(* Every rate on its way into the log is one the payment was settled at.    *)
AmountsPaid ==
  /\ \A t \in Txns : rate[t] \in Rates => rate[t] \in PaidAt(t)
  /\ \A k \in Tasks : pc[k] = "log" => quoted[k] \in PaidAt(TxOf(k))
  /\ \A r \in Recons : \A t \in todo[r] \cup adds[r] : snap[r][t] \in PaidAt(t)
  /\ \A t \in Txns : \A i \in DOMAIN logs[t] : logs[t][i].amount \in PaidAt(t)

(* A settlement is owed one checked entry ...                               *)
CheckedOwed ==
  \A t \in Txns :
    Cardinality(Entries(t, "checked")) + Cardinality(Loggers(t)) <= Len(paid[t])

(* ... and a run that will add a pending entry has added none before.       *)
PendingOwed ==
  \A t \in Txns :
    Cardinality(Entries(t, "pending")) + Cardinality(Adders(t)) <= Cardinality(Recons)

(* All that is logged or will be, entries that nothing owes included, stays *)
(* below what was settled and the slots together: who adds an entry, and    *)
(* who has one to add, takes a slot.                                        *)
StrayOwed ==
  \A t \in Txns :
    Len(logs[t]) + Cardinality(Adders(t)) + Cardinality(Loggers(t))
      < Len(paid[t]) + Concurrency

LogInv == AmountsPaid /\ CheckedOwed /\ PendingOwed /\ StrayOwed

(* The slots are never overbooked.                                          *)
Busy == {k \in Tasks : pc[k] \in Running}

SlotInv == Cardinality(Busy) + Cardinality(scanning) <= Concurrency

-----------------------------------------------------------------------------
(* There are finitely many tasks, and slots.                                *)
LEMMA TasksFinite == IsFiniteSet(Tasks) /\ Concurrency \in Nat /\ Concurrency >= 1
<1>1. IsFiniteSet(Txns \X Copies)
  BY FiniteAssumption, FS_Product
<1>2. IsFiniteSet(Txns \cup Hooks)
  BY FiniteAssumption, FS_Union
<1>3. IsFiniteSet((Txns \cup Hooks) \cup (Txns \X Copies))
  BY <1>1, <1>2, FS_Union
<1> QED
  BY <1>3, ConcurrencyAssumption DEF Tasks, Resends

(* What is counted is finite.                                               *)
LEMMA LogFinite ==
  ASSUME TypeOK, NEW t \in Txns
  PROVE  /\ \A s : IsFiniteSet(Entries(t, s)) /\ Cardinality(Entries(t, s)) \in Nat
         /\ IsFiniteSet(Loggers(t)) /\ Cardinality(Loggers(t)) \in Nat
         /\ IsFiniteSet(Adders(t)) /\ Cardinality(Adders(t)) \in Nat
         /\ Cardinality(Adders(t)) <= Cardinality(Recons)
         /\ Cardinality(Recons) \in Nat /\ Len(paid[t]) \in Nat
         /\ Len(logs[t]) \in Nat
<1>1. ASSUME NEW s
      PROVE  IsFiniteSet(Entries(t, s)) /\ Cardinality(Entries(t, s)) \in Nat
  <2>1. Len(logs[t]) \in Nat /\ DOMAIN logs[t] = 1..Len(logs[t])
    BY DEF TypeOK
  <2>2. IsFiniteSet(1..Len(logs[t]))
    BY <2>1, FS_Interval
  <2>3. Entries(t, s) \in SUBSET (1..Len(logs[t]))
    BY <2>1 DEF Entries
  <2>4. IsFiniteSet(Entries(t, s))
    BY <2>2, <2>3, FS_Subset
  <2> QED
    BY <2>4, FS_CardinalityType
<1>2. IsFiniteSet(Tasks)
  BY TasksFinite
<1>3. Loggers(t) \in SUBSET Tasks /\ Adders(t) \in SUBSET Recons
  BY DEF Loggers, Adders
<1>4. IsFiniteSet(Loggers(t))
  BY <1>2, <1>3, FS_Subset
<1>5. IsFiniteSet(Adders(t)) /\ Cardinality(Adders(t)) <= Cardinality(Recons)
  BY <1>3, FiniteAssumption, FS_Subset
<1>6. /\ Cardinality(Loggers(t)) \in Nat /\ Cardinality(Adders(t)) \in Nat
      /\ Cardinality(Recons) \in Nat
  BY <1>4, <1>5, FiniteAssumption, FS_CardinalityType
<1>7. Len(paid[t]) \in Nat /\ Len(logs[t]) \in Nat
  BY DEF TypeOK
<1> QED
  BY <1>1, <1>4, <1>5, <1>6, <1>7

(* Fewer loggers and adders owe no more.                                    *)
LEMMA FewerOwe ==
  ASSUME TypeOK, NEW t \in Txns, NEW U, NEW V
  PROVE  /\ U \subseteq Loggers(t) => Cardinality(U) \in Nat /\ Cardinality(U) <= Cardinality(Loggers(t))
         /\ V \subseteq Adders(t) => Cardinality(V) \in Nat /\ Cardinality(V) <= Cardinality(Adders(t))
  BY LogFinite, FS_Subset, FS_CardinalityType

(* Nothing is logged, added or owed at first.                               *)
LEMMA LogInit == Init => LogInv
<1> SUFFICES ASSUME Init PROVE LogInv
  OBVIOUS
<1> TypeOK
  BY TypeInit DEF TypeInv
<1>1. AmountsPaid
  BY RatesAssumption DEF Init, AmountsPaid
<1>2. ASSUME NEW t \in Txns
      PROVE  Entries(t, "checked") = {} /\ Entries(t, "pending") = {}
             /\ Loggers(t) = {} /\ Adders(t) = {} /\ Len(paid[t]) = 0
             /\ Len(logs[t]) = 0
  BY DEF Init, Entries, Loggers, Adders
<1>3. CheckedOwed
  <2> SUFFICES ASSUME NEW t \in Txns
               PROVE  Cardinality(Entries(t, "checked")) + Cardinality(Loggers(t))
                        <= Len(paid[t])
    BY DEF CheckedOwed
  <2>1. Cardinality(Entries(t, "checked")) = 0 /\ Cardinality(Loggers(t)) = 0
    BY <1>2, FS_EmptySet
  <2> QED
    BY <1>2, <2>1
<1>4. PendingOwed
  BY <1>2, FS_EmptySet, LogFinite DEF PendingOwed
<1>5. StrayOwed
  <2> SUFFICES ASSUME NEW t \in Txns
               PROVE  Len(logs[t]) + Cardinality(Adders(t)) + Cardinality(Loggers(t))
                        < Len(paid[t]) + Concurrency
    BY DEF StrayOwed
  <2>1. Cardinality(Adders(t)) = 0 /\ Cardinality(Loggers(t)) = 0
    BY <1>2, FS_EmptySet
  <2> QED
    BY <1>2, <2>1, TasksFinite
<1> QED
  BY <1>1, <1>3, <1>4, <1>5 DEF LogInv

-----------------------------------------------------------------------------
(* The steps of API and tasks that neither settle nor log.                  *)
QuietTask ==
  /\ UNCHANGED <<rate, logs, paid, note, todo, adds, snap, scanning>>
  /\ \A h \in Hooks : hook'[h] = "idle" => hook[h] = "idle"
  /\ \A k \in Tasks : pc'[k] = "log" => pc[k] = "log" /\ quoted'[k] = quoted[k]

(* Tasks only settle and log visibly.                                       *)
LEMMA TaskIsQuiet ==
  ASSUME TypeInv, NEW k \in Tasks,
         \/ Enqueue(k) \/ LoseEnqueue(k) \/ TaskDeliver(k) \/ TaskFetch(k)
         \/ TaskCollect(k) \/ TaskRefresh(k) \/ TaskPrice(k) \/ TaskDustLog(k)
         \/ TaskAck(k) \/ TaskError(k) \/ TaskCrash(k) \/ TaskRetryLost(k)
         \/ TaskGiveUp(k) \/ \E m \in Txns \cup Resends : TaskRetry(k, m)
  PROVE  QuietTask
<1> TypeOK
  BY DEF TypeInv
<1> USE DEF QuietTask, rowVars, hookVars, sessionVars, reconVars, TypeOK
<1>1. CASE Enqueue(k)
  BY <1>1 DEF Enqueue
<1>2. CASE LoseEnqueue(k)
  BY <1>2 DEF LoseEnqueue
<1>3. CASE TaskDeliver(k)
  BY <1>3 DEF TaskDeliver, TaskStep
<1>4. CASE TaskFetch(k)
  BY <1>4 DEF TaskFetch, TaskStep, AfterLoad
<1>5. CASE TaskCollect(k)
  BY <1>5 DEF TaskCollect, TaskStep
<1>6. CASE TaskRefresh(k)
  BY <1>6 DEF TaskRefresh, TaskStep
<1>7. CASE TaskPrice(k)
  BY <1>7 DEF TaskPrice, TaskStep
<1>8. CASE TaskDustLog(k)
  BY <1>8 DEF TaskDustLog, TaskStep, CloseSession
<1>9. CASE TaskAck(k)
  BY <1>9 DEF TaskAck, CloseSession
<1>10. CASE TaskError(k)
  BY <1>10 DEF TaskError, CloseSession
<1>11. CASE TaskCrash(k)
  BY <1>11 DEF TaskCrash, CloseSession
<1>12. CASE TaskRetryLost(k)
  BY <1>12 DEF TaskRetryLost, TaskStep
<1>13. CASE TaskGiveUp(k)
  BY <1>13 DEF TaskGiveUp, TaskStep
<1>14. ASSUME NEW m \in Txns \cup Resends, TaskRetry(k, m) PROVE QuietTask
  BY <1>14, TaskNames DEF TaskRetry
<1> QED
  BY <1>1, <1>2, <1>3, <1>4, <1>5, <1>6, <1>7, <1>8, <1>9, <1>10, <1>11,
     <1>12, <1>13, <1>14

(* What the API does is quiet.                                              *)
LEMMA ApiIsQuiet ==
  ASSUME TypeInv,
         \/ \E t \in Txns : Initiate(t) \/ ExpireLock(t)
         \/ \E h \in Hooks : HookRead(h) \/ HookCommit(h) \/ HookRollback(h)
         \/ UNCHANGED vars
  PROVE  QuietTask
<1> TypeOK
  BY DEF TypeInv
<1> USE DEF QuietTask, vars, taskVars, rowVars, hookVars, sessionVars, reconVars, TypeOK
<1>1. ASSUME NEW t \in Txns, Initiate(t) PROVE QuietTask
  BY <1>1 DEF Initiate
<1>2. ASSUME NEW t \in Txns, ExpireLock(t) PROVE QuietTask
  BY <1>2 DEF ExpireLock
<1>3. ASSUME NEW h \in Hooks, HookRead(h) PROVE QuietTask
  BY <1>3 DEF HookRead
<1>4. ASSUME NEW h \in Hooks, HookCommit(h) PROVE QuietTask
  BY <1>4 DEF HookCommit, HookConfirm, HookFail, HookPending
<1>5. ASSUME NEW h \in Hooks, HookRollback(h) PROVE QuietTask
  BY <1>5 DEF HookRollback
<1>6. CASE UNCHANGED vars
  BY <1>6
<1> QED
  BY <1>1, <1>2, <1>3, <1>4, <1>5, <1>6

(* The steps of a reconciliation run but its commit: a payment it looks at  *)
(* is settled, and one it will add an entry for has none.                   *)
QuietRecon ==
  /\ UNCHANGED <<rate, logs, paid, note, hook, pc, quoted>>
  /\ \A r \in Recons : \A t \in todo'[r] \cup adds'[r] :
       \/ t \in todo[r] \cup adds[r] /\ snap'[r][t] = snap[r][t]
       \/ status[t] = "settled" /\ snap'[r][t] = rate[t]
  /\ \A r \in Recons : \A t \in adds'[r] \ adds[r] : logs[t] = <<>>

(* Runs only commit visibly.                                                *)
LEMMA ReconIsQuiet ==
  ASSUME TypeInv, NEW r \in Recons,
         \/ ReconSelect(r) \/ ReconCrash(r)
         \/ \E t \in Txns : ReconCheck(r, t) \/ ReconAbort(r, t)
  PROVE  QuietRecon
<1> TypeOK /\ RatesKnown
  BY DEF TypeInv
<1> USE DEF QuietRecon, taskVars, rowVars, hookVars, sessionVars, TypeOK
<1>1. CASE ReconSelect(r)
  BY <1>1 DEF ReconSelect, Selected, RatesKnown
<1>2. CASE ReconCrash(r)
  BY <1>2 DEF ReconCrash, ReconRest
<1>3. ASSUME NEW t \in Txns, ReconCheck(r, t) PROVE QuietRecon
  BY <1>3 DEF ReconCheck
<1>4. ASSUME NEW t \in Txns, ReconAbort(r, t) PROVE QuietRecon
  BY <1>4 DEF ReconAbort, ReconRest
<1> QED
  BY <1>1, <1>2, <1>3, <1>4

(* Such steps keep the invariant.                                           *)
LEMMA QuietTaskKeeps ==
  ASSUME TypeOK, LogInv, QuietTask PROVE LogInv'
<1> USE DEF QuietTask
<1>1. /\ \A t \in Txns : PaidAt(t)' = PaidAt(t) /\ Adders(t)' = Adders(t)
      /\ \A k \in Tasks : TxOf(k)' = TxOf(k)
  BY DEF PaidAt, Adders, TxOf
<1>2. \A t \in Txns : Loggers(t)' \subseteq Loggers(t)
  BY <1>1 DEF Loggers
<1>3. \A t \in Txns, s \in {"checked", "pending"} : Entries(t, s)' = Entries(t, s)
  BY DEF Entries
<1>4. AmountsPaid'
  BY DEF LogInv, AmountsPaid, PaidAt, TxOf
<1>5. CheckedOwed'
  <2> SUFFICES ASSUME NEW t \in Txns
               PROVE  Cardinality(Entries(t, "checked")') + Cardinality(Loggers(t)')
                        <= Len(paid'[t])
    BY DEF CheckedOwed
  <2>1. /\ Cardinality(Loggers(t)') \in Nat
        /\ Cardinality(Loggers(t)') <= Cardinality(Loggers(t))
    BY <1>2, FewerOwe
  <2>2. Cardinality(Entries(t, "checked")) + Cardinality(Loggers(t)) <= Len(paid[t])
    BY DEF LogInv, CheckedOwed
  <2> QED
    BY <1>3, <2>1, <2>2, LogFinite
<1>6. PendingOwed'
  BY <1>1, <1>3 DEF LogInv, PendingOwed
<1>7. StrayOwed'
  <2> SUFFICES ASSUME NEW t \in Txns
               PROVE  Len(logs[t]) + Cardinality(Adders(t)) + Cardinality(Loggers(t)')
                        < Len(paid[t]) + Concurrency
    BY <1>1 DEF StrayOwed
  <2>1. /\ Cardinality(Loggers(t)') \in Nat
        /\ Cardinality(Loggers(t)') <= Cardinality(Loggers(t))
    BY <1>2, FewerOwe
  <2>2. Len(logs[t]) + Cardinality(Adders(t)) + Cardinality(Loggers(t))
          < Len(paid[t]) + Concurrency
    BY DEF LogInv, StrayOwed
  <2> QED
    BY <2>1, <2>2, LogFinite, TasksFinite
<1> QED
  BY <1>4, <1>5, <1>6, <1>7 DEF LogInv

(* So do the quiet steps of a run.                                          *)
LEMMA QuietReconKeeps ==
  ASSUME TypeInv, LogInv, QuietRecon, TypeInv', SlotInv' PROVE LogInv'
<1> TypeOK /\ TypeOK' /\ RatesKnown /\ RatesKnown'
  BY DEF TypeInv
<1> USE DEF QuietRecon
<1>1. /\ \A t \in Txns : PaidAt(t)' = PaidAt(t) /\ Loggers(t)' = Loggers(t)
      /\ \A k \in Tasks : TxOf(k)' = TxOf(k)
  BY DEF PaidAt, Loggers, TxOf
<1>2. \A t \in Txns, s \in {"checked", "pending"} : Entries(t, s)' = Entries(t, s)
  BY DEF Entries
<1>3. AmountsPaid'
  <2>1. \A t \in Txns : status[t] = "settled" => rate[t] \in PaidAt(t)
    BY DEF RatesKnown, LogInv, AmountsPaid
  <2>2. ASSUME NEW r \in Recons, NEW t \in todo'[r] \cup adds'[r]
        PROVE  snap'[r][t] \in PaidAt(t)'
    <3>1. t \in Txns
      BY DEF TypeOK
    <3> QED
      BY <1>1, <2>1, <2>2, <3>1 DEF LogInv, AmountsPaid
  <2> QED
    BY <2>2 DEF LogInv, AmountsPaid, PaidAt, TxOf
<1>4. CheckedOwed'
  BY <1>1, <1>2 DEF LogInv, CheckedOwed
<1>5. PendingOwed'
  <2> SUFFICES ASSUME NEW t \in Txns
               PROVE  Cardinality(Entries(t, "pending")') + Cardinality(Adders(t)')
                        <= Cardinality(Recons)
    BY DEF PendingOwed
  <2>1. CASE logs[t] = <<>>
    <3>1. Entries(t, "pending")' = {}
      BY <2>1 DEF Entries
    <3>2. Cardinality(Entries(t, "pending")') = 0
      BY <3>1, FS_EmptySet
    <3>3. Adders(t)' \in SUBSET Recons
      BY DEF Adders
    <3>4. Cardinality(Adders(t)') \in Nat /\ Cardinality(Adders(t)') <= Cardinality(Recons)
      BY <3>3, FiniteAssumption, FS_Subset, FS_CardinalityType
    <3> QED
      BY <3>2, <3>4
  <2>2. CASE logs[t] # <<>>
    <3>1. Adders(t)' \subseteq Adders(t)
      BY <2>2 DEF Adders
    <3>2. /\ Cardinality(Adders(t)') \in Nat
          /\ Cardinality(Adders(t)') <= Cardinality(Adders(t))
      BY <3>1, FewerOwe
    <3>3. Cardinality(Entries(t, "pending")) + Cardinality(Adders(t)) <= Cardinality(Recons)
      BY DEF LogInv, PendingOwed
    <3> QED
      BY <1>2, <3>2, <3>3, LogFinite
  <2> QED
    BY <2>1, <2>2
<1>6. StrayOwed'
  <2> SUFFICES ASSUME NEW t \in Txns
               PROVE  Len(logs[t]) + Cardinality(Adders(t)') + Cardinality(Loggers(t))
                        < Len(paid[t]) + Concurrency
    BY <1>1 DEF StrayOwed
  <2>1. CASE Adders(t)' \subseteq Adders(t)
    <3>1. /\ Cardinality(Adders(t)') \in Nat
          /\ Cardinality(Adders(t)') <= Cardinality(Adders(t))
      BY <2>1, FewerOwe
    <3>2. Len(logs[t]) + Cardinality(Adders(t)) + Cardinality(Loggers(t))
            < Len(paid[t]) + Concurrency
      BY DEF LogInv, StrayOwed
    <3> QED
      BY <3>1, <3>2, LogFinite, TasksFinite
  <2>2. CASE ~ (Adders(t)' \subseteq Adders(t))
    <3>1. PICK r \in Recons : t \in adds'[r] \ adds[r]
      BY <2>2 DEF Adders
    <3>2. Len(logs[t]) = 0
      BY <3>1
    <3>3. Len(paid[t]) >= 1
      <4>1. snap'[r][t] \in PaidAt(t)
        BY <1>1, <1>3, <3>1 DEF AmountsPaid
      <4>2. paid[t] \in Seq(Rates) /\ DOMAIN paid[t] # {}
        BY <4>1 DEF PaidAt, TypeOK
      <4> QED
        BY <4>2
    <3>4. /\ Cardinality(Adders(t)') \in Nat
          /\ Cardinality(Adders(t)') <= Cardinality(scanning')
          /\ Cardinality(scanning') \in Nat
      <4>1. Adders(t)' \in SUBSET scanning' /\ scanning' \in SUBSET Recons
        BY DEF Adders, RatesKnown, TypeOK
      <4> QED
        BY <4>1, FiniteAssumption, FS_Subset, FS_CardinalityType
    <3>5. /\ Cardinality(Loggers(t)) <= Cardinality(Busy')
          /\ Cardinality(Busy') \in Nat
      <4>1. Loggers(t) \in SUBSET Busy' /\ Busy' \in SUBSET Tasks
        BY DEF Loggers, Busy, Running
      <4>2. IsFiniteSet(Busy')
        BY <4>1, TasksFinite, FS_Subset
      <4> QED
        BY <4>1, <4>2, FS_Subset, FS_CardinalityType
    <3> QED
      BY <3>2, <3>3, <3>4, <3>5, LogFinite, TasksFinite DEF SlotInv
  <2> QED
    BY <2>1, <2>2
<1> QED
  BY <1>3, <1>4, <1>5, <1>6 DEF LogInv

-----------------------------------------------------------------------------
(* A settlement owes an entry more, at the rate it was paid at.             *)
LEMMA SettleKeeps ==
  ASSUME TypeInv, LogInv, NEW k \in Tasks, TaskSettle(k) PROVE LogInv'
<1> TypeOK /\ RatesKnown /\ TxOf(k) \in Txns
  BY TxOfType DEF TypeInv
<1> PICK t0 \in Txns : t0 = TxOf(k)
  OBVIOUS
<1> USE DEF TaskSettle, TaskStep, hookVars, sessionVars, reconVars
<1>1. /\ paid' = [paid EXCEPT ![t0] = Append(@, quoted[k])]
      /\ paid[t0] \in Seq(Rates) /\ quoted[k] \in Rates
      /\ \A t \in Txns : paid[t] \in Seq(Rates)
  BY DEF TypeOK, RatesKnown
<1>2. \A t \in Txns : PaidAt(t) \subseteq PaidAt(t)'
  <2> SUFFICES ASSUME NEW t \in Txns, NEW j \in DOMAIN paid[t]
               PROVE  j \in DOMAIN paid'[t] /\ paid'[t][j] = paid[t][j]
    BY DEF PaidAt
  <2>1. CASE t = t0
    <3>1. paid'[t] = Append(paid[t], quoted[k])
      BY <1>1, <2>1 DEF TypeOK
    <3> QED
      BY <1>1, <3>1
  <2>2. CASE t # t0
    BY <1>1, <2>2 DEF TypeOK
  <2> QED
    BY <2>1, <2>2
<1>3. quoted[k] \in PaidAt(t0)'
  <2>1. /\ paid'[t0] = Append(paid[t0], quoted[k])
        /\ Len(paid[t0]) + 1 \in DOMAIN paid'[t0]
        /\ paid'[t0][Len(paid[t0]) + 1] = quoted[k]
    BY <1>1 DEF TypeOK
  <2> QED
    BY <2>1 DEF PaidAt
<1>4. AmountsPaid'
  <2>1. ASSUME NEW t \in Txns, rate'[t] \in Rates PROVE rate'[t] \in PaidAt(t)'
    <3>1. CASE rate'[t] = rate[t]
      BY <1>2, <2>1, <3>1 DEF LogInv, AmountsPaid
    <3>2. CASE rate'[t] # rate[t]
      <4>1. t = t0 /\ rate'[t] = quoted[k]
        BY <3>2 DEF TypeOK
      <4> QED
        BY <1>3, <4>1
    <3> QED
      BY <3>1, <3>2
  <2>2. ASSUME NEW j \in Tasks, pc'[j] = "log" PROVE quoted'[j] \in PaidAt(TxOf(j))'
    <3>1. CASE j = k
      <4>1. TxOf(j)' = t0 /\ quoted'[j] = quoted[k]
        BY <3>1 DEF TxOf
      <4> QED
        BY <1>3, <4>1 DEF PaidAt
    <3>2. CASE j # k
      <4>1. pc[j] = "log" /\ quoted'[j] = quoted[j]
        BY <2>2, <3>2 DEF TypeOK
      <4>2. TxOf(j) \in Txns /\ TxOf(j)' = TxOf(j)
        BY TxOfType DEF TxOf
      <4> PICK t \in Txns : t = TxOf(j) /\ t = TxOf(j)'
        BY <4>2
      <4>3. quoted[j] \in PaidAt(t)
        BY <4>1 DEF LogInv, AmountsPaid
      <4>4. quoted'[j] \in PaidAt(t)'
        BY <1>2, <4>1, <4>3
      <4> HIDE DEF TaskSettle, TaskStep
      <4> QED
        BY <4>4 DEF PaidAt
    <3> QED
      BY <3>1, <3>2
  <2>3. ASSUME NEW r \in Recons, NEW t \in todo'[r] \cup adds'[r]
        PROVE  snap'[r][t] \in PaidAt(t)'
    <3>1. t \in Txns /\ t \in todo[r] \cup adds[r] /\ snap'[r][t] = snap[r][t]
      BY <2>3 DEF TypeOK
    <3> QED
      BY <1>2, <3>1 DEF LogInv, AmountsPaid
  <2>4. ASSUME NEW t \in Txns, NEW i \in DOMAIN logs'[t]
        PROVE  logs'[t][i].amount \in PaidAt(t)'
    BY <1>2, <2>4 DEF LogInv, AmountsPaid
  <2> QED
    BY <2>1, <2>2, <2>3, <2>4 DEF AmountsPaid
<1>5. CheckedOwed'
  <2> SUFFICES ASSUME NEW t \in Txns
               PROVE  Cardinality(Entries(t, "checked")') + Cardinality(Loggers(t)')
                        <= Len(paid'[t])
    BY DEF CheckedOwed
  <2>1. Entries(t, "checked")' = Entries(t, "checked")
    BY DEF Entries
  <2>2. Cardinality(Entries(t, "checked")) + Cardinality(Loggers(t)) <= Len(paid[t])
    BY DEF LogInv, CheckedOwed
  <2>3. CASE t = t0
    <3>1. Loggers(t)' = Loggers(t) \cup {k} /\ k \notin Loggers(t)
      BY <2>3 DEF Loggers, TxOf, TypeOK
    <3>2. Cardinality(Loggers(t)') = Cardinality(Loggers(t)) + 1
      BY <3>1, LogFinite, FS_AddElement
    <3>3. Len(paid'[t]) = Len(paid[t]) + 1
      BY <1>1, <2>3 DEF TypeOK
    <3> QED
      BY <2>1, <2>2, <3>2, <3>3, LogFinite
  <2>4. CASE t # t0
    <3>1. Loggers(t)' = Loggers(t) /\ paid'[t] = paid[t]
      BY <1>1, <2>4 DEF Loggers, TxOf, TypeOK
    <3> QED
      BY <2>1, <2>2, <3>1
  <2> QED
    BY <2>3, <2>4
<1>6. PendingOwed'
  <2>1. \A t \in Txns : Entries(t, "pending")' = Entries(t, "pending")
                        /\ Adders(t)' = Adders(t)
    BY DEF Entries, Adders
  <2> QED
    BY <2>1 DEF LogInv, PendingOwed
<1>7. StrayOwed'
  <2> SUFFICES ASSUME NEW t \in Txns
               PROVE  Len(logs'[t]) + Cardinality(Adders(t)') + Cardinality(Loggers(t)')
                        < Len(paid'[t]) + Concurrency
    BY DEF StrayOwed
  <2>1. logs'[t] = logs[t] /\ Adders(t)' = Adders(t)
    BY DEF Adders
  <2>2. Len(logs[t]) + Cardinality(Adders(t)) + Cardinality(Loggers(t))
          < Len(paid[t]) + Concurrency
    BY DEF LogInv, StrayOwed
  <2>3. CASE t = t0
    <3>1. Loggers(t)' = Loggers(t) \cup {k} /\ k \notin Loggers(t)
      BY <2>3 DEF Loggers, TxOf, TypeOK
    <3>2. Cardinality(Loggers(t)') = Cardinality(Loggers(t)) + 1
      BY <3>1, LogFinite, FS_AddElement
    <3>3. Len(paid'[t]) = Len(paid[t]) + 1
      BY <1>1, <2>3 DEF TypeOK
    <3> QED
      BY <2>1, <2>2, <3>2, <3>3, LogFinite, TasksFinite
  <2>4. CASE t # t0
    <3>1. Loggers(t)' = Loggers(t) /\ paid'[t] = paid[t]
      BY <1>1, <2>4 DEF Loggers, TxOf, TypeOK
    <3> QED
      BY <2>1, <2>2, <3>1
  <2> QED
    BY <2>3, <2>4
<1> QED
  BY <1>4, <1>5, <1>6, <1>7 DEF LogInv

(* The entry of a settlement pays what it owes.                             *)
LEMMA LogKeeps ==
  ASSUME TypeInv, LogInv, NEW k \in Tasks, TaskLog(k) PROVE LogInv'
<1> TypeOK /\ RatesKnown /\ TxOf(k) \in Txns
  BY TxOfType DEF TypeInv
<1> PICK t0 \in Txns : t0 = TxOf(k)
  OBVIOUS
<1> DEFINE e == [amount |-> quoted[k], status |-> "checked"]
<1> USE DEF TaskLog, TaskStep, rowVars, hookVars, sessionVars, reconVars
<1>1. /\ logs' = [logs EXCEPT ![t0] = Append(@, e)]
      /\ \A t \in Txns : logs[t] \in Seq(Log)
      /\ e \in Log
  BY DEF TypeOK, RatesKnown, Log
<1>2. /\ logs'[t0] = Append(logs[t0], e)
      /\ DOMAIN logs[t0] = 1..Len(logs[t0]) /\ Len(logs[t0]) \in Nat
      /\ DOMAIN logs'[t0] = (1..Len(logs[t0])) \cup {Len(logs[t0]) + 1}
      /\ \A i \in 1..Len(logs[t0]) : logs'[t0][i] = logs[t0][i]
      /\ logs'[t0][Len(logs[t0]) + 1] = e
  BY <1>1 DEF TypeOK
<1>3. \A t \in Txns : t # t0 => logs'[t] = logs[t]
  BY <1>1 DEF TypeOK
<1>4. \A t \in Txns : PaidAt(t)' = PaidAt(t)
  BY DEF PaidAt
<1>5. e.amount \in PaidAt(t0)
  BY DEF LogInv, AmountsPaid
<1>6. AmountsPaid'
  <2>1. ASSUME NEW t \in Txns, NEW i \in DOMAIN logs'[t]
        PROVE  logs'[t][i].amount \in PaidAt(t)'
    <3>1. CASE t = t0
      BY <1>2, <1>4, <1>5, <2>1, <3>1 DEF LogInv, AmountsPaid
    <3>2. CASE t # t0
      BY <1>3, <1>4, <2>1, <3>2 DEF LogInv, AmountsPaid
    <3> QED
      BY <3>1, <3>2
  <2>2. ASSUME NEW j \in Tasks, pc'[j] = "log"
        PROVE  quoted'[j] \in PaidAt(TxOf(j))'
    <3>1. pc[j] = "log" /\ quoted'[j] = quoted[j] /\ paid' = paid /\ note' = note
      BY <2>2 DEF TypeOK
    <3> QED
      BY <3>1 DEF LogInv, AmountsPaid, PaidAt, TxOf
  <2>3. ASSUME NEW r \in Recons, NEW t \in todo'[r] \cup adds'[r]
        PROVE  snap'[r][t] \in PaidAt(t)'
    BY <1>4, <2>3 DEF LogInv, AmountsPaid, TypeOK
  <2>4. ASSUME NEW t \in Txns, rate'[t] \in Rates PROVE rate'[t] \in PaidAt(t)'
    BY <1>4, <2>4 DEF LogInv, AmountsPaid
  <2> QED
    BY <2>1, <2>2, <2>3, <2>4 DEF AmountsPaid
<1>7. CheckedOwed'
  <2> SUFFICES ASSUME NEW t \in Txns
               PROVE  Cardinality(Entries(t, "checked")') + Cardinality(Loggers(t)')
                        <= Len(paid'[t])
    BY DEF CheckedOwed
  <2>1. Cardinality(Entries(t, "checked")) + Cardinality(Loggers(t)) <= Len(paid[t])
    BY DEF LogInv, CheckedOwed
  <2>2. CASE t = t0
    <3>1. Entries(t, "checked")' = Entries(t, "checked") \cup {Len(logs[t0]) + 1}
      BY <1>2, <2>2 DEF Entries
    <3>2. Len(logs[t0]) + 1 \notin Entries(t, "checked")
      BY <1>2, <2>2 DEF Entries
    <3>3. Cardinality(Entries(t, "checked")') = Cardinality(Entries(t, "checked")) + 1
      BY <3>1, <3>2, LogFinite, FS_AddElement
    <3>4. Loggers(t)' = Loggers(t) \ {k} /\ k \in Loggers(t)
      BY <2>2 DEF Loggers, TxOf, TypeOK
    <3>5. Cardinality(Loggers(t)') = Cardinality(Loggers(t)) - 1
      BY <3>4, LogFinite, FS_RemoveElement
    <3> QED
      BY <2>1, <3>3, <3>5, LogFinite
  <2>3. CASE t # t0
    <3>1. Entries(t, "checked")' = Entries(t, "checked")
      BY <1>3, <2>3 DEF Entries
    <3>2. Loggers(t)' = Loggers(t)
      BY <2>3 DEF Loggers, TxOf, TypeOK
    <3> QED
      BY <2>1, <3>1, <3>2
  <2> QED
    BY <2>2, <2>3
<1>8. PendingOwed'
  <2> SUFFICES ASSUME NEW t \in Txns
               PROVE  Entries(t, "pending")' = Entries(t, "pending") /\ Adders(t)' = Adders(t)
    BY DEF LogInv, PendingOwed
  <2>1. CASE t = t0
    BY <1>2, <2>1 DEF Entries, Adders
  <2>2. CASE t # t0
    BY <1>3, <2>2 DEF Entries, Adders
  <2> QED
    BY <2>1, <2>2
<1>9. StrayOwed'
  <2> SUFFICES ASSUME NEW t \in Txns
               PROVE  Len(logs'[t]) + Cardinality(Adders(t)') + Cardinality(Loggers(t)')
                        < Len(paid'[t]) + Concurrency
    BY DEF StrayOwed
  <2>1. paid'[t] = paid[t] /\ Adders(t)' = Adders(t)
    BY DEF Adders
  <2>2. Len(logs[t]) + Cardinality(Adders(t)) + Cardinality(Loggers(t))
          < Len(paid[t]) + Concurrency
    BY DEF LogInv, StrayOwed
  <2>3. CASE t = t0
    <3>1. Len(logs'[t]) = Len(logs[t]) + 1
      BY <1>1, <2>3 DEF TypeOK
    <3>2. Loggers(t)' = Loggers(t) \ {k} /\ k \in Loggers(t)
      BY <2>3 DEF Loggers, TxOf, TypeOK
    <3>3. Cardinality(Loggers(t)') = Cardinality(Loggers(t)) - 1
      BY <3>2, LogFinite, FS_RemoveElement
    <3> QED
      BY <2>1, <2>2, <3>1, <3>3, LogFinite, TasksFinite
  <2>4. CASE t # t0
    <3>1. Loggers(t)' = Loggers(t) /\ logs'[t] = logs[t]
      BY <1>3, <2>4 DEF Loggers, TxOf, TypeOK
    <3> QED
      BY <2>1, <2>2, <3>1
  <2> QED
    BY <2>3, <2>4
<1> QED
  BY <1>6, <1>7, <1>8, <1>9 DEF LogInv

(* The commit of a run turns what it will add into pending entries.         *)
LEMMA CommitKeeps ==
  ASSUME TypeInv, LogInv, NEW r \in Recons, ReconCommit(r) PROVE LogInv'
<1> TypeOK /\ RatesKnown
  BY DEF TypeInv
<1> DEFINE e(t) == [amount |-> snap[r][t], status |-> "pending"]
<1> USE DEF ReconCommit, ReconRest, rowVars, hookVars, taskVars, sessionVars
<1>1. ASSUME NEW t \in Txns, t \in adds[r]
      PROVE  /\ logs'[t] = Append(logs[t], e(t))
             /\ DOMAIN logs[t] = 1..Len(logs[t]) /\ Len(logs[t]) \in Nat
             /\ DOMAIN logs'[t] = (1..Len(logs[t])) \cup {Len(logs[t]) + 1}
             /\ \A i \in 1..Len(logs[t]) : logs'[t][i] = logs[t][i]
             /\ logs'[t][Len(logs[t]) + 1] = e(t)
  <2>1. logs[t] \in Seq(Log) /\ e(t) \in Log
    BY <1>1 DEF TypeOK, RatesKnown, Log
  <2>2. logs'[t] = Append(logs[t], e(t))
    BY <1>1
  <2> QED
    BY <2>1, <2>2
<1>2. \A t \in Txns : t \notin adds[r] => logs'[t] = logs[t]
  OBVIOUS
<1>3. \A t \in Txns : PaidAt(t)' = PaidAt(t) /\ Loggers(t)' = Loggers(t)
  BY DEF PaidAt, Loggers, TxOf
<1>4. \A q \in Recons : q # r => todo'[q] = todo[q] /\ adds'[q] = adds[q] /\ snap'[q] = snap[q]
  BY DEF TypeOK
<1>5. todo'[r] = {} /\ adds'[r] = {}
  BY DEF TypeOK
<1>6. AmountsPaid'
  <2>1. ASSUME NEW t \in Txns, NEW i \in DOMAIN logs'[t]
        PROVE  logs'[t][i].amount \in PaidAt(t)'
    <3>1. CASE t \in adds[r]
      <4>1. e(t).amount \in PaidAt(t)
        BY <3>1 DEF LogInv, AmountsPaid
      <4> HIDE DEF e
      <4> QED
        BY <1>1, <1>3, <2>1, <3>1, <4>1 DEF LogInv, AmountsPaid
    <3>2. CASE t \notin adds[r]
      BY <1>2, <1>3, <2>1, <3>2 DEF LogInv, AmountsPaid
    <3> QED
      BY <3>1, <3>2
  <2>2. ASSUME NEW q \in Recons, NEW t \in todo'[q] \cup adds'[q]
        PROVE  snap'[q][t] \in PaidAt(t)'
    <3>1. q # r /\ t \in todo[q] \cup adds[q] /\ t \in Txns /\ snap'[q][t] = snap[q][t]
      BY <1>4, <1>5, <2>2 DEF TypeOK
    <3> QED
      BY <1>3, <3>1 DEF LogInv, AmountsPaid
  <2>3. \A j \in Tasks : pc'[j] = "log" => quoted'[j] \in PaidAt(TxOf(j))'
    BY DEF LogInv, AmountsPaid, PaidAt, TxOf
  <2>4. \A t \in Txns : rate'[t] \in Rates => rate'[t] \in PaidAt(t)'
    BY <1>3 DEF LogInv, AmountsPaid
  <2> QED
    BY <2>1, <2>2, <2>3, <2>4 DEF AmountsPaid
<1>7. CheckedOwed'
  <2> SUFFICES ASSUME NEW t \in Txns
               PROVE  Entries(t, "checked")' = Entries(t, "checked")
    BY <1>3 DEF LogInv, CheckedOwed
  <2>1. CASE t \in adds[r]
    <3>1. /\ DOMAIN logs'[t] = DOMAIN logs[t] \cup {Len(logs[t]) + 1}
          /\ \A i \in DOMAIN logs[t] : logs'[t][i].status = logs[t][i].status
          /\ logs'[t][Len(logs[t]) + 1].status = "pending"
      BY <1>1, <2>1
    <3> QED
      BY ONLY <3>1 DEF Entries
  <2>2. CASE t \notin adds[r]
    BY <1>2, <2>2 DEF Entries
  <2> QED
    BY <2>1, <2>2
<1>8. PendingOwed'
  <2> SUFFICES ASSUME NEW t \in Txns
               PROVE  Cardinality(Entries(t, "pending")') + Cardinality(Adders(t)')
                        <= Cardinality(Recons)
    BY DEF PendingOwed
  <2>1. Cardinality(Entries(t, "pending")) + Cardinality(Adders(t)) <= Cardinality(Recons)
    BY DEF LogInv, PendingOwed
  <2>2. Adders(t)' = Adders(t) \ {r}
    BY <1>4, <1>5 DEF Adders
  <2>3. CASE t \in adds[r]
    <3>1. /\ DOMAIN logs'[t] = DOMAIN logs[t] \cup {Len(logs[t]) + 1}
          /\ Len(logs[t]) + 1 \notin DOMAIN logs[t]
          /\ \A i \in DOMAIN logs[t] : logs'[t][i].status = logs[t][i].status
          /\ logs'[t][Len(logs[t]) + 1].status = "pending"
      BY <1>1, <2>3
    <3>2. /\ Entries(t, "pending")' = Entries(t, "pending") \cup {Len(logs[t]) + 1}
          /\ Len(logs[t]) + 1 \notin Entries(t, "pending")
      BY ONLY <3>1 DEF Entries
    <3>3. Cardinality(Entries(t, "pending")') = Cardinality(Entries(t, "pending")) + 1
      BY <3>2, LogFinite, FS_AddElement
    <3>4. r \in Adders(t)
      BY <2>3 DEF Adders
    <3>5. Cardinality(Adders(t)') = Cardinality(Adders(t)) - 1
      BY <2>2, <3>4, LogFinite, FS_RemoveElement
    <3> QED
      BY <2>1, <3>3, <3>5, LogFinite
  <2>4. CASE t \notin adds[r]
    <3>1. Entries(t, "pending")' = Entries(t, "pending") /\ Adders(t)' = Adders(t)
      BY <1>2, <2>2, <2>4 DEF Entries, Adders
    <3> QED
      BY <2>1, <3>1
  <2> QED
    BY <2>3, <2>4
<1>9. StrayOwed'
  <2> SUFFICES ASSUME NEW t \in Txns
               PROVE  Len(logs'[t]) + Cardinality(Adders(t)') + Cardinality(Loggers(t)')
                        < Len(paid'[t]) + Concurrency
    BY DEF StrayOwed
  <2>1. paid'[t] = paid[t] /\ Loggers(t)' = Loggers(t)
    BY <1>3
  <2>2. Len(logs[t]) + Cardinality(Adders(t)) + Cardinality(Loggers(t))
          < Len(paid[t]) + Concurrency
    BY DEF LogInv, StrayOwed
  <2>3. Adders(t)' = Adders(t) \ {r}
    BY <1>4, <1>5 DEF Adders
  <2>4. CASE t \in adds[r]
    <3>1. Len(logs'[t]) = Len(logs[t]) + 1
      <4>1. logs[t] \in Seq(Log) /\ e(t) \in Log
        BY <2>4 DEF TypeOK, RatesKnown, Log
      <4> HIDE DEF e
      <4> QED
        BY <1>1, <2>4, <4>1
    <3>2. r \in Adders(t)
      BY <2>4 DEF Adders
    <3>3. Cardinality(Adders(t)') = Cardinality(Adders(t)) - 1
      BY <2>3, <3>2, LogFinite, FS_RemoveElement
    <3> QED
      BY <2>1, <2>2, <3>1, <3>3, LogFinite, TasksFinite
  <2>5. CASE t \notin adds[r]
    <3>1. logs'[t] = logs[t] /\ Adders(t)' = Adders(t)
      BY <1>2, <2>3, <2>5 DEF Adders
    <3> QED
      BY <2>1, <2>2, <3>1
  <2> QED
    BY <2>4, <2>5
<1> QED
  BY <1>6, <1>7, <1>8, <1>9 DEF LogInv

-----------------------------------------------------------------------------
(* Every step is quiet or one of the three that are not.                    *)
LEMMA StepKinds ==
  ASSUME TypeInv, [Next]_vars
  PROVE  \/ QuietTask \/ QuietRecon
         \/ \E k \in Tasks : TaskSettle(k) \/ TaskLog(k)
         \/ \E r \in Recons : ReconCommit(r)
<1>1. CASE \/ \E t \in Txns : Initiate(t) \/ ExpireLock(t)
           \/ \E h \in Hooks : HookRead(h) \/ HookCommit(h) \/ HookRollback(h)
           \/ UNCHANGED vars
  BY <1>1, ApiIsQuiet
<1>2. ASSUME NEW k \in Tasks,
             \/ Enqueue(k) \/ LoseEnqueue(k) \/ TaskDeliver(k)
             \/ TaskWork(k) \/ TaskError(k) \/ TaskCrash(k) \/ TaskRetryLost(k)
      PROVE  QuietTask \/ TaskSettle(k) \/ TaskLog(k)
  BY <1>2, TaskIsQuiet DEF TaskWork
<1>3. ASSUME NEW r \in Recons, ReconSelect(r) \/ ReconWork(r) \/ ReconCrash(r)
      PROVE  QuietRecon \/ ReconCommit(r)
  BY <1>3, ReconIsQuiet DEF ReconWork
<1> QED
  BY <1>1, <1>2, <1>3 DEF Next

(* What runs when a step has taken no slot ran before.                      *)
NoneStarts ==
  /\ \A k \in Tasks : pc'[k] \in Running => pc[k] \in Running
  /\ scanning' \subseteq scanning

(* Slots are only taken by a delivery and the start of a run.               *)
LEMMA StartKinds ==
  ASSUME TypeOK, [Next]_vars
  PROVE  \/ NoneStarts
         \/ \E k \in Tasks : TaskDeliver(k)
         \/ \E r \in Recons : ReconSelect(r)
<1> USE TaskNames
    DEF NoneStarts, TypeOK, Running, taskVars, sessionVars, reconVars, TaskStep
<1>1. ASSUME NEW t \in Txns, Initiate(t) \/ ExpireLock(t) PROVE NoneStarts
  BY <1>1 DEF Initiate, ExpireLock
<1>2. ASSUME NEW h \in Hooks, HookRead(h) \/ HookCommit(h) \/ HookRollback(h)
      PROVE  NoneStarts
  BY <1>2 DEF HookRead, HookCommit, HookConfirm, HookFail, HookPending, HookRollback
<1>3. ASSUME NEW k \in Tasks, Enqueue(k) \/ LoseEnqueue(k) PROVE NoneStarts
  BY <1>3 DEF Enqueue, LoseEnqueue
<1>4. ASSUME NEW k \in Tasks, TaskFetch(k) \/ TaskCollect(k) \/ TaskRefresh(k) \/ TaskPrice(k)
      PROVE  NoneStarts
  BY <1>4 DEF TaskFetch, AfterLoad, TaskCollect, TaskRefresh, TaskPrice
<1>5. ASSUME NEW k \in Tasks, TaskSettle(k) \/ TaskLog(k) \/ TaskAck(k) PROVE NoneStarts
  BY <1>5 DEF TaskSettle, TaskLog, TaskAck
<1>6. ASSUME NEW k \in Tasks, TaskDustLog(k) \/ TaskError(k) PROVE NoneStarts
  BY <1>6 DEF TaskDustLog, TaskError
<1>7. ASSUME NEW k \in Tasks, TaskCrash(k) \/ TaskRetryLost(k) \/ TaskGiveUp(k)
      PROVE  NoneStarts
  BY <1>7 DEF TaskCrash, TaskRetryLost, TaskGiveUp
<1>8. ASSUME NEW k \in Tasks, NEW m \in Txns \cup Resends, TaskRetry(k, m)
      PROVE  NoneStarts
  BY <1>8 DEF TaskRetry
<1>9. ASSUME NEW r \in Recons, ReconWork(r) \/ ReconCrash(r) PROVE NoneStarts
  BY <1>9 DEF ReconWork, ReconCommit, ReconCheck, ReconAbort, ReconCrash, ReconRest
<1>10. CASE UNCHANGED vars
  BY <1>10 DEF vars
<1> QED
  BY <1>1, <1>2, <1>3, <1>4, <1>5, <1>6, <1>7, <1>8, <1>9, <1>10 DEF Next, TaskWork

(* What runs is finite.                                                     *)
LEMMA BusyFinite ==
  ASSUME TypeOK
  PROVE  /\ IsFiniteSet(Busy) /\ Cardinality(Busy) \in Nat
         /\ IsFiniteSet(scanning) /\ Cardinality(scanning) \in Nat
<1>1. Busy \in SUBSET Tasks /\ scanning \in SUBSET Recons
  BY DEF Busy, TypeOK
<1> QED
  BY <1>1, TasksFinite, FiniteAssumption, FS_Subset, FS_CardinalityType

(* A slot is taken only when one is free.                                   *)
LEMMA SlotStep == ASSUME TypeOK, SlotInv, [Next]_vars PROVE SlotInv'
<1>1. CASE NoneStarts
  <2>1. Busy' \in SUBSET Busy /\ scanning' \in SUBSET scanning
    BY <1>1 DEF NoneStarts, Busy
  <2>2. /\ Cardinality(Busy') \in Nat /\ Cardinality(Busy') <= Cardinality(Busy)
        /\ Cardinality(scanning') \in Nat
        /\ Cardinality(scanning') <= Cardinality(scanning)
    BY <2>1, BusyFinite, FS_Subset, FS_CardinalityType
  <2> QED
    BY <2>2, BusyFinite, TasksFinite DEF SlotInv
<1>2. ASSUME NEW k \in Tasks, TaskDeliver(k) PROVE SlotInv'
  <2>1. Busy' = Busy \cup {k} /\ k \notin Busy /\ scanning' = scanning
    BY <1>2 DEF TaskDeliver, TaskStep, Busy, Running, reconVars, TypeOK
  <2>2. Cardinality(Busy') = Cardinality(Busy) + 1
    BY <2>1, BusyFinite, FS_AddElement
  <2>3. Cardinality(Busy) + Cardinality(scanning) < Concurrency
    BY <1>2 DEF TaskDeliver, SlotFree, Busy
  <2> QED
    BY <2>1, <2>2, <2>3, BusyFinite, TasksFinite DEF SlotInv
<1>3. ASSUME NEW r \in Recons, ReconSelect(r) PROVE SlotInv'
  <2>1. scanning' = scanning \cup {r} /\ r \notin scanning /\ Busy' = Busy
    BY <1>3 DEF ReconSelect, Busy, taskVars
  <2>2. Cardinality(scanning') = Cardinality(scanning) + 1
    BY <2>1, BusyFinite, FS_AddElement
  <2>3. Cardinality(Busy) + Cardinality(scanning) < Concurrency
    BY <1>3 DEF ReconSelect, SlotFree, Busy
  <2> QED
    BY <2>1, <2>2, <2>3, BusyFinite, TasksFinite DEF SlotInv
<1> QED
  BY <1>1, <1>2, <1>3, StartKinds

(* Tasks and runs together never exceed the concurrency of the worker.      *)
LEMMA SlotInvariant == Spec => []SlotInv
<1>1. Init => SlotInv
  <2> SUFFICES ASSUME Init PROVE SlotInv
    OBVIOUS
  <2>1. Busy = {} /\ scanning = {}
    BY DEF Init, Busy, Running
  <2> QED
    BY <2>1, FS_EmptySet, TasksFinite DEF SlotInv
<1>2. TypeInv /\ SlotInv /\ [Next]_vars => SlotInv'
  BY SlotStep DEF TypeInv
<1> QED
  BY <1>1, <1>2, TypeInvariant, PTL DEF Spec

(* Every step keeps the invariant.                                          *)
LEMMA LogStep ==
  TypeInv /\ TypeInv' /\ SlotInv' /\ LogInv /\ [Next]_vars => LogInv'
<1> SUFFICES ASSUME TypeInv, TypeInv', SlotInv', LogInv, [Next]_vars PROVE LogInv'
  OBVIOUS
<1> TypeOK
  BY DEF TypeInv
<1>1. CASE QuietTask
  BY <1>1, QuietTaskKeeps
<1>2. CASE QuietRecon
  BY <1>2, QuietReconKeeps
<1>3. ASSUME NEW k \in Tasks, TaskSettle(k) PROVE LogInv'
  BY <1>3, SettleKeeps
<1>4. ASSUME NEW k \in Tasks, TaskLog(k) PROVE LogInv'
  BY <1>4, LogKeeps
<1>5. ASSUME NEW r \in Recons, ReconCommit(r) PROVE LogInv'
  BY <1>5, CommitKeeps
<1> QED
  BY <1>1, <1>2, <1>3, <1>4, <1>5, StepKinds

(* LogInv is an invariant of the specification.                             *)
LEMMA LogInvariant == Spec => []LogInv
  BY LogInit, LogStep, TypeInvariant, SlotInvariant, PTL DEF Spec

(* The log invents nothing: there are no more checked entries than          *)
(* settlements, and every amount was settled, for any number of tasks,      *)
(* reconciliation runs and faults.                                          *)
THEOREM LogIsBacked == Spec => []LogBacked
<1>1. TypeInv /\ LogInv => LogBacked
  <2> SUFFICES ASSUME TypeInv, LogInv, NEW t \in Txns
               PROVE  /\ Cardinality(Entries(t, "checked")) <= Len(paid[t])
                      /\ \A i \in DOMAIN logs[t] :
                           \E j \in DOMAIN paid[t] : paid[t][j] = logs[t][i].amount
    BY DEF LogBacked
  <2>1. Cardinality(Entries(t, "checked")) + Cardinality(Loggers(t)) <= Len(paid[t])
    BY DEF LogInv, CheckedOwed
  <2>2. Cardinality(Entries(t, "checked")) <= Len(paid[t])
    BY <2>1, LogFinite DEF TypeInv
  <2>3. ASSUME NEW i \in DOMAIN logs[t]
        PROVE  \E j \in DOMAIN paid[t] : paid[t][j] = logs[t][i].amount
    BY <2>3 DEF LogInv, AmountsPaid, PaidAt
  <2> QED
    BY <2>2, <2>3
<1> QED
  BY <1>1, TypeInvariant, LogInvariant, PTL

(* The rate a row shows was paid, in whatever order its settlements commit. *)
THEOREM RateIsPaid == Spec => []RateWasPaid
<1>1. TypeInv /\ LogInv => RateWasPaid
  <2> SUFFICES ASSUME TypeInv, LogInv, NEW t \in Txns, rate[t] # NoRate
               PROVE  \E j \in DOMAIN paid[t] : paid[t][j] = rate[t]
    BY DEF RateWasPaid
  <2>1. rate[t] \in PaidAt(t)
    BY DEF TypeInv, TypeOK, LogInv, AmountsPaid
  <2> QED
    BY <2>1 DEF PaidAt
<1> QED
  BY <1>1, TypeInvariant, LogInvariant, PTL

(* However often beat starts it, each of the overlapping runs of the        *)
(* reconciliation task adds at most one entry for a payment.                *)
THEOREM OnePendingEach == Spec => []OnePendingPerRun
<1>1. TypeInv /\ LogInv => OnePendingPerRun
  <2> SUFFICES ASSUME TypeInv, LogInv, NEW t \in Txns
               PROVE  Cardinality(Entries(t, "pending")) <= Cardinality(Recons)
    BY DEF OnePendingPerRun
  <2>1. Cardinality(Entries(t, "pending")) + Cardinality(Adders(t)) <= Cardinality(Recons)
    BY DEF LogInv, PendingOwed
  <2> QED
    BY <2>1, LogFinite DEF TypeInv
<1> QED
  BY <1>1, TypeInvariant, LogInvariant, PTL

(* The entries that no settlement brought are fewer than the slots of the   *)
(* worker: none with one slot, and at most one with the two of the compose  *)
(* file, through webhooks, crashes, retries and overlapping runs.           *)
THEOREM StrayEntriesBounded == Spec => []FewerStrayEntriesThanSlots
<1>1. TypeInv /\ LogInv => FewerStrayEntriesThanSlots
  <2> SUFFICES ASSUME TypeInv, LogInv, NEW t \in Txns
               PROVE  Len(logs[t]) < Len(paid[t]) + Concurrency
    BY DEF FewerStrayEntriesThanSlots
  <2>1. Len(logs[t]) + Cardinality(Adders(t)) + Cardinality(Loggers(t))
          < Len(paid[t]) + Concurrency
    BY DEF LogInv, StrayOwed
  <2> QED
    BY <2>1, LogFinite, TasksFinite DEF TypeInv
<1> QED
  BY <1>1, TypeInvariant, LogInvariant, PTL

-----------------------------------------------------------------------------
(* How runs end.  A payment that a run has loaded is yet to be looked at,   *)
(* will get an entry, or has one.                                           *)
Scanned ==
  \A r \in scanning : \A t \in Txns :
    snap[r][t] # NoRate => t \in todo[r] \cup adds[r] \/ logs[t] # <<>>

(* A run's commit leaves what it adds, and what had one, with an entry.     *)
LEMMA CommitLogs ==
  ASSUME TypeInv, NEW r \in Recons, ReconCommit(r), NEW t \in Txns,
         t \in adds[r] \/ logs[t] # <<>>
  PROVE  logs'[t] # <<>>
<1> TypeOK /\ RatesKnown
  BY DEF TypeInv
<1> DEFINE e == [amount |-> snap[r][t], status |-> "pending"]
<1>1. CASE t \in adds[r]
  <2>1. logs[t] \in Seq(Log) /\ e \in Log /\ logs'[t] = Append(logs[t], e)
    BY <1>1 DEF ReconCommit, TypeOK, RatesKnown, Log
  <2> HIDE DEF e
  <2>2. Len(logs'[t]) = Len(logs[t]) + 1 /\ Len(logs[t]) \in Nat
    BY <2>1
  <2>3. Len(<<>>) = 0
    OBVIOUS
  <2> QED
    BY <2>2, <2>3
<1>2. CASE t \notin adds[r]
  BY <1>2 DEF ReconCommit
<1> QED
  BY <1>1, <1>2

(* A run looks at all it has selected before it commits.                    *)
LEMMA ScannedStep ==
  ASSUME TypeInv, Scanned, [Next]_vars PROVE Scanned'
<1> TypeOK
  BY DEF TypeInv
<1>1. ASSUME UNCHANGED <<scanning, todo, adds, snap>>,
             \A t \in Txns : logs'[t] = <<>> => logs[t] = <<>>
      PROVE  Scanned'
  BY <1>1 DEF Scanned
<1>2. CASE QuietTask
  BY <1>1, <1>2 DEF QuietTask
<1>3. ASSUME NEW k \in Tasks, TaskSettle(k) \/ TaskLog(k) PROVE Scanned'
  <2>1. UNCHANGED <<scanning, todo, adds, snap>>
    BY <1>3 DEF TaskSettle, TaskLog, reconVars
  <2>2. \A t \in Txns : logs'[t] = <<>> => logs[t] = <<>>
    BY <1>3 DEF TaskSettle, TaskLog, TypeOK
  <2> QED
    BY <1>1, <2>1, <2>2
<1>4. ASSUME NEW r \in Recons,
             ReconSelect(r) \/ ReconCrash(r) \/ ReconCommit(r)
               \/ \E t \in Txns : ReconCheck(r, t) \/ ReconAbort(r, t)
      PROVE  Scanned'
  <2>1. CASE ReconSelect(r)
    BY <2>1 DEF ReconSelect, Selected, Scanned, TypeOK
  <2>2. CASE ReconCrash(r)
    BY <2>2 DEF ReconCrash, ReconRest, Scanned, TypeOK
  <2>3. CASE ReconCommit(r)
    <3>1. \A t \in Txns : logs'[t] = <<>> => logs[t] = <<>>
      BY <2>3, CommitLogs
    <3> QED
      BY <2>3, <3>1 DEF ReconCommit, ReconRest, Scanned, TypeOK
  <2>4. ASSUME NEW t \in Txns, ReconCheck(r, t) PROVE Scanned'
    BY <2>4 DEF ReconCheck, Scanned, TypeOK
  <2>5. ASSUME NEW t \in Txns, ReconAbort(r, t) PROVE Scanned'
    BY <2>5 DEF ReconAbort, ReconRest, Scanned, TypeOK
  <2> QED
    BY <1>4, <2>1, <2>2, <2>3, <2>4, <2>5
<1>5. ASSUME NEW k \in Tasks,
             \/ Enqueue(k) \/ LoseEnqueue(k) \/ TaskDeliver(k)
             \/ TaskWork(k) \/ TaskError(k) \/ TaskCrash(k) \/ TaskRetryLost(k)
      PROVE  Scanned'
  BY <1>2, <1>3, <1>5, TaskIsQuiet DEF TaskWork
<1>6. CASE \/ \E t \in Txns : Initiate(t) \/ ExpireLock(t)
           \/ \E h \in Hooks : HookRead(h) \/ HookCommit(h) \/ HookRollback(h)
           \/ UNCHANGED vars
  BY <1>2, <1>6, ApiIsQuiet
<1> QED
  BY <1>4, <1>5, <1>6 DEF Next, ReconWork

(* Only its commit, or the exception, ends a run that does not crash.       *)
LEMMA EndKinds ==
  ASSUME TypeInv, [Next]_vars, NEW r \in scanning \ scanning', faults' = faults
  PROVE  ReconCommit(r) \/ \E t \in Txns : ReconAbort(r, t)
<1> TypeOK
  BY DEF TypeInv
<1>1. ~ (scanning \subseteq scanning')
  OBVIOUS
<1>2. ~ QuietTask
  BY <1>1 DEF QuietTask
<1>3. ASSUME NEW k \in Tasks,
             \/ Enqueue(k) \/ LoseEnqueue(k) \/ TaskDeliver(k)
             \/ TaskWork(k) \/ TaskError(k) \/ TaskCrash(k) \/ TaskRetryLost(k)
      PROVE  FALSE
  <2>1. ~ TaskSettle(k) /\ ~ TaskLog(k)
    BY <1>1 DEF TaskSettle, TaskLog, reconVars
  <2> QED
    BY <1>2, <1>3, <2>1, TaskIsQuiet DEF TaskWork
<1>4. ~ \/ \E u \in Txns : Initiate(u) \/ ExpireLock(u)
        \/ \E h \in Hooks : HookRead(h) \/ HookCommit(h) \/ HookRollback(h)
        \/ UNCHANGED vars
  BY <1>2, ApiIsQuiet
<1>5. ASSUME NEW q \in Recons, ReconSelect(q) PROVE FALSE
  BY <1>1, <1>5 DEF ReconSelect
<1>6. PICK q \in Recons : ReconWork(q) \/ ReconCrash(q)
  BY <1>3, <1>4, <1>5 DEF Next
<1>7. ~ ReconCrash(q)
  BY DEF ReconCrash, Fault, Faults, TypeOK
<1>8. ASSUME NEW u \in Txns PROVE ~ ReconCheck(q, u)
  BY <1>1 DEF ReconCheck
<1>9. ASSUME ReconCommit(q) PROVE q = r
  BY <1>9 DEF ReconCommit, ReconRest
<1>10. ASSUME NEW u \in Txns, ReconAbort(q, u) PROVE q = r
  BY <1>10 DEF ReconAbort, ReconRest
<1> QED
  BY <1>6, <1>7, <1>8, <1>9, <1>10 DEF ReconWork

(* A reconciliation run that no crash cuts short leaves each payment it     *)
(* selected with an entry, unless one of these has two: at any concurrency, *)
(* whatever webhooks, tasks and other runs commit in the meantime.          *)
THEOREM RunEndsAreExplained == Spec => RunEndsExplained
<1> DEFINE Explained ==
      \A r \in scanning \ scanning' : faults' = faults =>
        \/ \A t \in Txns : snap[r][t] # NoRate => logs'[t] # <<>>
        \/ \E t \in Txns : snap[r][t] # NoRate /\ Len(logs[t]) > 1
<1>1. Init => Scanned
  BY DEF Init, Scanned
<1>2. TypeInv /\ Scanned /\ [Next]_vars => Scanned'
  BY ScannedStep
<1>3. TypeInv /\ Scanned /\ [Next]_vars => Explained
  <2> SUFFICES ASSUME TypeInv, Scanned, [Next]_vars,
                      NEW r \in scanning \ scanning', faults' = faults
               PROVE  \/ \A t \in Txns : snap[r][t] # NoRate => logs'[t] # <<>>
                      \/ \E t \in Txns : snap[r][t] # NoRate /\ Len(logs[t]) > 1
    OBVIOUS
  <2> r \in Recons
    BY DEF TypeInv, TypeOK
  <2>1. CASE ReconCommit(r)
    <3>1. ASSUME NEW t \in Txns, snap[r][t] # NoRate PROVE logs'[t] # <<>>
      <4>1. t \in adds[r] \/ logs[t] # <<>>
        BY <2>1, <3>1 DEF Scanned, ReconCommit
      <4> QED
        BY <2>1, <4>1, CommitLogs
    <3> QED
      BY <3>1
  <2>2. ASSUME NEW t \in Txns, ReconAbort(r, t)
        PROVE  snap[r][t] # NoRate /\ Len(logs[t]) > 1
    BY <2>2, RatesAssumption DEF ReconAbort, TypeInv, RatesKnown
  <2> QED
    BY <2>1, <2>2, EndKinds
<1>4. Spec => []Scanned
  BY <1>1, <1>2, TypeInvariant, PTL DEF Spec
<1> HIDE DEF Explained
<1>5. Spec => [][Explained]_vars
  BY <1>3, <1>4, TypeInvariant, PTL DEF Spec
<1> QED
  BY <1>5, PTL DEF RunEndsExplained, Explained
=============================================================================
