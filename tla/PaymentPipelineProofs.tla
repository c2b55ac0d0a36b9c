------------------------- MODULE PaymentPipelineProofs -------------------------
(***************************************************************************)
(* Theorems about PaymentPipeline, for every number of payments,           *)
(* notifications, workers, reconciliation runs, retries and faults.        *)
(***************************************************************************)
EXTENDS PaymentPipeline, TLAPS

(* A rate that has been written is never unwritten, whoever will write one  *)
(* has one, and a run that rests holds nothing: what TypeOK needs to be     *)
(* inductive.                                                               *)
RatesKnown ==
  /\ \A t \in Txns : status[t] = "settled" => rate[t] \in Rates
  /\ \A k \in Tasks : pc[k] \in {"settle", "log"} => quoted[k] \in Rates
  /\ \A k \in Tasks : loaded[k] \in Rates => rate[TxOf(k)] \in Rates
  /\ \A r \in Recons : \A t \in todo[r] \cup adds[r] : snap[r][t] \in Rates
  /\ \A r \in Recons \ scanning : todo[r] = {} /\ adds[r] = {}

TypeInv == TypeOK /\ RatesKnown

(* A task names one of the payments.                                        *)
LEMMA TxOfType ==
  ASSUME TypeOK, NEW k \in Tasks PROVE TxOf(k) \in Txns
BY DEF TypeOK, Tasks, Resends, TxOf, Notification

(* Which tasks there are, and whose they are.                               *)
LEMMA TaskNames ==
  /\ Txns \subseteq Tasks /\ Hooks \subseteq Tasks /\ Resends \subseteq Tasks
  /\ \A t \in Txns : TxOf(t) = t
  /\ \A h \in Hooks : TxOf(h) = note[h].tx
BY IdsAssumption DEF Tasks, Resends, TxOf

(* A notification never changes, so a task stays a payment's.               *)
LEMMA SameTx ==
  ASSUME [Next]_vars PROVE note' = note /\ \A k \in Tasks : TxOf(k)' = TxOf(k)
<1>1. note' = note
  <2> USE DEF vars, hookVars
  <2>1. ASSUME NEW t \in Txns, Initiate(t) \/ ExpireLock(t) PROVE note' = note
    BY <2>1 DEF Initiate, ExpireLock
  <2>2. ASSUME NEW h \in Hooks, HookRead(h) \/ HookCommit(h) \/ HookRollback(h)
        PROVE  note' = note
    BY <2>2 DEF HookRead, HookCommit, HookConfirm, HookFail, HookPending, HookRollback
  <2>3. ASSUME NEW k \in Tasks,
               \/ Enqueue(k) \/ LoseEnqueue(k) \/ TaskDeliver(k) \/ TaskWork(k)
               \/ TaskError(k) \/ TaskCrash(k) \/ TaskRetryLost(k)
        PROVE  note' = note
    BY <2>3 DEF Enqueue, LoseEnqueue, TaskDeliver, TaskWork, TaskError, TaskCrash,
       TaskRetryLost, TaskFetch, TaskCollect, TaskRefresh, TaskPrice, TaskSettle,
       TaskLog, TaskDustLog, TaskAck, TaskGiveUp, TaskRetry
  <2>4. ASSUME NEW r \in Recons, ReconSelect(r) \/ ReconWork(r) \/ ReconCrash(r)
        PROVE  note' = note
    BY <2>4 DEF ReconSelect, ReconWork, ReconCommit, ReconCheck, ReconAbort, ReconCrash
  <2> QED
    BY <2>1, <2>2, <2>3, <2>4 DEF Next
<1> QED
  BY <1>1 DEF TxOf

(* The initial state has the types and no rate.                             *)
LEMMA TypeInit == Init => TypeInv
<1> SUFFICES ASSUME Init PROVE TypeInv
  OBVIOUS
<1> USE RatesAssumption, RetriesAssumption DEF Init
<1>1. TypeOK
  BY DEF TypeOK, Statuses, PCs, Running, Faults
<1>2. RatesKnown
  BY DEF RatesKnown
<1> QED
  BY <1>1, <1>2 DEF TypeInv

(* Counting a fault keeps the counters numbers.                             *)
LEMMA FaultType ==
  ASSUME TypeOK, NEW f \in Faults, Fault(f)
  PROVE  faults' \in [Faults -> Nat]
<1>1. faults \in [Faults -> Nat] /\ FaultLimit \in [Faults -> Nat]
  BY FaultAssumption DEF TypeOK
<1> QED
  BY <1>1 DEF Fault

(* Every step keeps the types and the rates.                                *)
LEMMA TypeStep == TypeInv /\ [Next]_vars => TypeInv'
<1> SUFFICES ASSUME TypeInv, [Next]_vars PROVE TypeInv'
  OBVIOUS
<1> TypeOK /\ RatesKnown
  BY DEF TypeInv
<1> \A k \in Tasks : TxOf(k) \in Txns /\ TxOf(k)' = TxOf(k)
  BY TxOfType, SameTx
<1> USE TaskNames
<1> USE RatesAssumption, RetriesAssumption
    DEF TypeOK, Statuses, PCs, Running, vars, rowVars, hookVars,
        taskVars, sessionVars, reconVars, history
<1>1. ASSUME NEW t \in Txns, Initiate(t) PROVE TypeInv'
  <2>1. TypeOK'
    BY <1>1 DEF Initiate
  <2>2. RatesKnown'
    BY <1>1 DEF Initiate, RatesKnown
  <2> QED
    BY <2>1, <2>2 DEF TypeInv
<1>2. ASSUME NEW t \in Txns, ExpireLock(t) PROVE TypeInv'
  <2>1. TypeOK'
    BY <1>2 DEF ExpireLock
  <2>2. RatesKnown'
    BY <1>2 DEF ExpireLock, RatesKnown
  <2> QED
    BY <2>1, <2>2 DEF TypeInv
<1>3. ASSUME NEW h \in Hooks, HookRead(h) PROVE TypeInv'
  <2>1. TypeOK'
    BY <1>3 DEF HookRead, View
  <2>2. RatesKnown'
    BY <1>3 DEF HookRead, RatesKnown
  <2> QED
    BY <2>1, <2>2 DEF TypeInv
<1>4. ASSUME NEW h \in Hooks, HookConfirm(h) PROVE TypeInv'
  <2>1. TypeOK'
    BY <1>4 DEF HookConfirm
  <2>2. RatesKnown'
    BY <1>4 DEF HookConfirm, RatesKnown
  <2> QED
    BY <2>1, <2>2 DEF TypeInv
<1>5. ASSUME NEW h \in Hooks, HookFail(h) PROVE TypeInv'
  <2>1. TypeOK'
    BY <1>5 DEF HookFail
  <2>2. RatesKnown'
    BY <1>5 DEF HookFail, RatesKnown
  <2> QED
    BY <2>1, <2>2 DEF TypeInv
<1>6. ASSUME NEW h \in Hooks, HookPending(h) PROVE TypeInv'
  <2>1. TypeOK'
    BY <1>6 DEF HookPending
  <2>2. RatesKnown'
    BY <1>6 DEF HookPending, RatesKnown
  <2> QED
    BY <2>1, <2>2 DEF TypeInv
<1>7. ASSUME NEW h \in Hooks, HookRollback(h) PROVE TypeInv'
  <2>1. TypeOK'
    BY <1>7, FaultType DEF HookRollback, Faults
  <2>2. RatesKnown'
    BY <1>7 DEF HookRollback, Fault, Faults, RatesKnown
  <2> QED
    BY <2>1, <2>2 DEF TypeInv
<1>8. ASSUME NEW k \in Tasks, Enqueue(k) PROVE TypeInv'
  <2>1. TypeOK'
    BY <1>8 DEF Enqueue
  <2>2. RatesKnown'
    BY <1>8 DEF Enqueue, RatesKnown
  <2> QED
    BY <2>1, <2>2 DEF TypeInv
<1>9. ASSUME NEW k \in Tasks, LoseEnqueue(k) PROVE TypeInv'
  <2>1. TypeOK'
    BY <1>9, FaultType DEF LoseEnqueue, GiveUp, Faults
  <2>2. RatesKnown'
    BY <1>9 DEF LoseEnqueue, RatesKnown
  <2> QED
    BY <2>1, <2>2 DEF TypeInv
<1>10. ASSUME NEW k \in Tasks, TaskDeliver(k) PROVE TypeInv'
  <2>1. TypeOK'
    BY <1>10 DEF TaskDeliver, TaskStep
  <2>2. RatesKnown'
    BY <1>10 DEF TaskDeliver, TaskStep, RatesKnown
  <2> QED
    BY <2>1, <2>2 DEF TypeInv
<1>11. ASSUME NEW k \in Tasks, TaskFetch(k) PROVE TypeInv'
  <2>1. TypeOK'
    BY <1>11 DEF TaskFetch, TaskStep, AfterLoad, View
  <2>2. RatesKnown'
    BY <1>11 DEF TaskFetch, TaskStep, AfterLoad, RatesKnown
  <2> QED
    BY <2>1, <2>2 DEF TypeInv
<1>12. ASSUME NEW k \in Tasks, TaskCollect(k) PROVE TypeInv'
  <2>1. TypeOK'
    BY <1>12 DEF TaskCollect, TaskStep
  <2>2. RatesKnown'
    BY <1>12 DEF TaskCollect, TaskStep, RatesKnown
  <2> QED
    BY <2>1, <2>2 DEF TypeInv
<1>13. ASSUME NEW k \in Tasks, TaskRefresh(k) PROVE TypeInv'
  <2>1. TypeOK'
    BY <1>13 DEF TaskRefresh, TaskStep, View
  <2>2. RatesKnown'
    BY <1>13 DEF TaskRefresh, TaskStep, RatesKnown
  <2> QED
    BY <2>1, <2>2 DEF TypeInv
<1>14. ASSUME NEW k \in Tasks, TaskPrice(k) PROVE TypeInv'
  <2>1. TypeOK'
    <3>1. PICK q \in Quotes(TxOf(k)) : quoted' = [quoted EXCEPT ![k] = q]
      BY <1>14 DEF TaskPrice
    <3>2. q \in Rates
      BY DEF Quotes
    <3> QED
      BY <1>14, <3>1, <3>2 DEF TaskPrice, TaskStep
  <2>2. RatesKnown'
    <3>1. PICK q \in Quotes(TxOf(k)) : quoted' = [quoted EXCEPT ![k] = q]
      BY <1>14 DEF TaskPrice
    <3>2. q \in Rates
      BY DEF Quotes
    <3> QED
      BY <1>14, <3>1, <3>2 DEF TaskPrice, TaskStep, RatesKnown
  <2> QED
    BY <2>1, <2>2 DEF TypeInv
<1>15. ASSUME NEW k \in Tasks, TaskSettle(k) PROVE TypeInv'
  <2>1. TypeOK'
    <3>1. quoted[k] \in Rates
      BY <1>15 DEF TaskSettle, TaskStep, RatesKnown
    <3>2. paid' \in [Txns -> Seq(Rates)]
      BY <1>15, <3>1 DEF TaskSettle
    <3> QED
      BY <1>15, <3>1, <3>2 DEF TaskSettle, TaskStep
  <2>2. RatesKnown'
    BY <1>15 DEF TaskSettle, TaskStep, RatesKnown
  <2> QED
    BY <2>1, <2>2 DEF TypeInv
<1>16. ASSUME NEW k \in Tasks, TaskLog(k) PROVE TypeInv'
  <2>1. TypeOK'
    <3>1. quoted[k] \in Rates
      BY <1>16 DEF TaskLog, TaskStep, RatesKnown
    <3>2. [amount |-> quoted[k], status |-> "checked"] \in Log
      BY <3>1 DEF Log
    <3>3. logs' \in [Txns -> Seq(Log)]
      BY <1>16, <3>2 DEF TaskLog
    <3> QED
      BY <1>16, <3>3 DEF TaskLog, TaskStep
  <2>2. RatesKnown'
    BY <1>16 DEF TaskLog, TaskStep, RatesKnown
  <2> QED
    BY <2>1, <2>2 DEF TypeInv
<1>17. ASSUME NEW k \in Tasks, TaskDustLog(k) PROVE TypeInv'
  <2>1. TypeOK'
    BY <1>17 DEF TaskDustLog, TaskStep, CloseSession
  <2>2. RatesKnown'
    BY <1>17 DEF TaskDustLog, TaskStep, CloseSession, RatesKnown
  <2> QED
    BY <2>1, <2>2 DEF TypeInv
<1>18. ASSUME NEW k \in Tasks, TaskAck(k) PROVE TypeInv'
  <2>1. TypeOK'
    BY <1>18 DEF TaskAck, CloseSession
  <2>2. RatesKnown'
    BY <1>18 DEF TaskAck, CloseSession, RatesKnown
  <2> QED
    BY <2>1, <2>2 DEF TypeInv
<1>19. ASSUME NEW k \in Tasks, TaskError(k) PROVE TypeInv'
  <2>1. TypeOK'
    BY <1>19, FaultType DEF TaskError, CloseSession, Faults
  <2>2. RatesKnown'
    BY <1>19 DEF TaskError, CloseSession, RatesKnown
  <2> QED
    BY <2>1, <2>2 DEF TypeInv
<1>20. ASSUME NEW k \in Tasks, TaskCrash(k) PROVE TypeInv'
  <2>1. TypeOK'
    BY <1>20, FaultType DEF TaskCrash, CloseSession, Faults
  <2>2. RatesKnown'
    BY <1>20 DEF TaskCrash, CloseSession, RatesKnown
  <2> QED
    BY <2>1, <2>2 DEF TypeInv
<1>21. ASSUME NEW r \in Recons, ReconSelect(r) PROVE TypeInv'
  <2>1. TypeOK'
    BY <1>21 DEF ReconSelect, Selected
  <2>2. RatesKnown'
    BY <1>21 DEF ReconSelect, Selected, RatesKnown
  <2> QED
    BY <2>1, <2>2 DEF TypeInv
<1>22. ASSUME NEW r \in Recons, NEW t \in Txns, ReconCheck(r, t) PROVE TypeInv'
  <2>1. TypeOK'
    BY <1>22 DEF ReconCheck
  <2>2. RatesKnown'
    BY <1>22 DEF ReconCheck, RatesKnown
  <2> QED
    BY <2>1, <2>2 DEF TypeInv
<1>23. ASSUME NEW r \in Recons, NEW t \in Txns, ReconAbort(r, t) PROVE TypeInv'
  <2>1. TypeOK'
    BY <1>23 DEF ReconAbort, ReconRest
  <2>2. RatesKnown'
    BY <1>23 DEF ReconAbort, ReconRest, RatesKnown
  <2> QED
    BY <2>1, <2>2 DEF TypeInv
<1>24. ASSUME NEW r \in Recons, ReconCommit(r) PROVE TypeInv'
  <2>1. TypeOK'
    <3>1. \A t \in adds[r] : snap[r][t] \in Rates
      BY DEF RatesKnown
    <3>2. \A t \in adds[r] :
            [amount |-> snap[r][t], status |-> "pending"] \in Log
      BY <3>1 DEF Log
    <3>3. logs' \in [Txns -> Seq(Log)]
      BY <1>24, <3>2 DEF ReconCommit
    <3> QED
      BY <1>24, <3>3 DEF ReconCommit, ReconRest
  <2>2. RatesKnown'
    BY <1>24 DEF ReconCommit, ReconRest, RatesKnown
  <2> QED
    BY <2>1, <2>2 DEF TypeInv
<1>25. ASSUME NEW r \in Recons, ReconCrash(r) PROVE TypeInv'
  <2>1. TypeOK'
    BY <1>25, FaultType DEF ReconCrash, ReconRest, Faults
  <2>2. RatesKnown'
    BY <1>25 DEF ReconCrash, ReconRest, RatesKnown
  <2> QED
    BY <2>1, <2>2 DEF TypeInv
<1>26. ASSUME NEW k \in Tasks, NEW m \in Txns \cup Resends, TaskRetry(k, m)
       PROVE  TypeInv'
  <2>1. TypeOK'
    <3>1. retries[k] + 1 \in 0 .. MaxRetries
      BY <1>26 DEF TaskRetry
    <3>2. /\ pc' = [pc EXCEPT ![k] = "retried", ![m] = "queued"]
          /\ retries' = [retries EXCEPT ![m] = retries[k] + 1]
      BY <1>26 DEF TaskRetry
    <3>3. pc' \in [Tasks -> PCs] /\ retries' \in [Tasks -> 0 .. MaxRetries]
      BY <3>1, <3>2
    <3> QED
      BY <1>26, <3>3 DEF TaskRetry
  <2>2. RatesKnown'
    BY <1>26 DEF TaskRetry, RatesKnown
  <2> QED
    BY <2>1, <2>2 DEF TypeInv
<1>27. ASSUME NEW k \in Tasks, TaskRetryLost(k) PROVE TypeInv'
  <2>1. TypeOK'
    BY <1>27, FaultType DEF TaskRetryLost, TaskStep, GiveUp, Faults
  <2>2. RatesKnown'
    BY <1>27 DEF TaskRetryLost, TaskStep, RatesKnown
  <2> QED
    BY <2>1, <2>2 DEF TypeInv
<1>28. ASSUME NEW k \in Tasks, TaskGiveUp(k) PROVE TypeInv'
  <2>1. TypeOK'
    BY <1>28 DEF TaskGiveUp, TaskStep, GiveUp
  <2>2. RatesKnown'
    BY <1>28 DEF TaskGiveUp, TaskStep, RatesKnown
  <2> QED
    BY <2>1, <2>2 DEF TypeInv
<1>29. CASE UNCHANGED vars
  BY <1>29 DEF TypeInv, RatesKnown
<1> QED
  BY <1>1, <1>2, <1>3, <1>4, <1>5, <1>6, <1>7, <1>8, <1>9, <1>10, <1>11,
     <1>12, <1>13, <1>14, <1>15, <1>16, <1>17, <1>18, <1>19, <1>20, <1>21,
     <1>22, <1>23, <1>24, <1>25, <1>26, <1>27, <1>28, <1>29 DEF Next, TaskWork, ReconWork,
     HookCommit

(* Every variable has its type, in every behaviour.                         *)
THEOREM TypeCorrect == Spec => []TypeOK
<1>1. TypeInv => TypeOK
  BY DEF TypeInv
<1> QED
  BY TypeInit, TypeStep, <1>1, PTL DEF Spec

(* With the types go the facts about rates that later proofs cite.          *)
THEOREM TypeInvariant == Spec => []TypeInv
  BY TypeInit, TypeStep, PTL DEF Spec

-----------------------------------------------------------------------------
(* NotStranded.  When a task refreshes, its payment has left initiated, so  *)
(* the refresh gives an open payment up to nobody.                          *)
RefreshSeen ==
  \A k \in Tasks :
    pc[k] = "refresh" => status[TxOf(k)] \notin {"absent", "initiated"}

StrandInv == NotStranded /\ RefreshSeen

(* At first no payment exists.                                              *)
LEMMA StrandInit == Init => StrandInv
  BY DEF Init, StrandInv, NotStranded, RefreshSeen, Open

(* Whoever opens a payment, or ends a task's work, is accounted for.        *)
LEMMA StrandStep == TypeInv /\ StrandInv /\ [Next]_vars => StrandInv'
<1> SUFFICES ASSUME TypeInv, StrandInv, [Next]_vars PROVE StrandInv'
  OBVIOUS
<1> TypeOK
  BY DEF TypeInv
<1> \A k \in Tasks : TxOf(k) \in Txns /\ TxOf(k)' = TxOf(k)
  BY TxOfType, SameTx
<1> USE TaskNames
    DEF TypeOK, StrandInv, NotStranded, RefreshSeen, Open, WillSettle,
        Settleable, vars, rowVars, hookVars, taskVars, history
<1>1. ASSUME NEW t \in Txns, Initiate(t) PROVE StrandInv'
  BY <1>1 DEF Initiate
<1>2. ASSUME NEW t \in Txns, ExpireLock(t) PROVE StrandInv'
  BY <1>2 DEF ExpireLock
<1>3. ASSUME NEW h \in Hooks, HookRead(h) PROVE StrandInv'
  BY <1>3 DEF HookRead, View
<1>4. ASSUME NEW h \in Hooks, HookConfirm(h) PROVE StrandInv'
  BY <1>4 DEF HookConfirm
<1>5. ASSUME NEW h \in Hooks, HookFail(h) PROVE StrandInv'
  BY <1>5 DEF HookFail
<1>6. ASSUME NEW h \in Hooks, HookPending(h) PROVE StrandInv'
  BY <1>6 DEF HookPending
<1>7. ASSUME NEW h \in Hooks, HookRollback(h) PROVE StrandInv'
  BY <1>7 DEF HookRollback
<1>8. ASSUME NEW k \in Tasks, Enqueue(k) PROVE StrandInv'
  BY <1>8 DEF Enqueue
<1>9. ASSUME NEW k \in Tasks, LoseEnqueue(k) PROVE StrandInv'
  BY <1>9 DEF LoseEnqueue, GiveUp
<1>10. ASSUME NEW k \in Tasks, TaskDeliver(k) PROVE StrandInv'
  BY <1>10 DEF TaskDeliver, TaskStep
<1>11. ASSUME NEW k \in Tasks, TaskFetch(k) PROVE StrandInv'
  BY <1>11 DEF TaskFetch, TaskStep, AfterLoad, View
<1>12. ASSUME NEW k \in Tasks, TaskCollect(k) PROVE StrandInv'
  BY <1>12 DEF TaskCollect, TaskStep
<1>13. ASSUME NEW k \in Tasks, TaskRefresh(k) PROVE StrandInv'
  BY <1>13 DEF TaskRefresh, TaskStep, View
<1>14. ASSUME NEW k \in Tasks, TaskPrice(k) PROVE StrandInv'
  BY <1>14 DEF TaskPrice, TaskStep, Quotes
<1>15. ASSUME NEW k \in Tasks, TaskSettle(k) PROVE StrandInv'
  BY <1>15 DEF TaskSettle, TaskStep
<1>16. ASSUME NEW k \in Tasks, TaskLog(k) PROVE StrandInv'
  <2>1. NotStranded'
    <3>1. /\ UNCHANGED <<status, note, dropped>>
          /\ pc[k] = "log" /\ pc' = [pc EXCEPT ![k] = "ack"]
      BY <1>16 DEF TaskLog, TaskStep
    <3> QED
      BY <3>1
  <2>2. RefreshSeen'
    BY <1>16 DEF TaskLog, TaskStep
  <2> QED
    BY <2>1, <2>2
<1>17. ASSUME NEW k \in Tasks, TaskDustLog(k) PROVE StrandInv'
  BY <1>17 DEF TaskDustLog, TaskStep
<1>18. ASSUME NEW k \in Tasks, TaskAck(k) PROVE StrandInv'
  BY <1>18 DEF TaskAck
<1>19. ASSUME NEW k \in Tasks, TaskError(k) PROVE StrandInv'
  BY <1>19 DEF TaskError
<1>20. ASSUME NEW k \in Tasks, TaskCrash(k) PROVE StrandInv'
  BY <1>20 DEF TaskCrash
<1>21. ASSUME NEW r \in Recons, ReconSelect(r) PROVE StrandInv'
  BY <1>21 DEF ReconSelect, Selected
<1>22. ASSUME NEW r \in Recons, NEW t \in Txns, ReconCheck(r, t)
       PROVE  StrandInv'
  BY <1>22 DEF ReconCheck
<1>23. ASSUME NEW r \in Recons, NEW t \in Txns, ReconAbort(r, t)
       PROVE  StrandInv'
  BY <1>23 DEF ReconAbort, ReconRest
<1>24. ASSUME NEW r \in Recons, ReconCommit(r) PROVE StrandInv'
  BY <1>24 DEF ReconCommit, ReconRest
<1>25. ASSUME NEW r \in Recons, ReconCrash(r) PROVE StrandInv'
  BY <1>25 DEF ReconCrash, ReconRest
<1>26. ASSUME NEW k \in Tasks, NEW m \in Txns \cup Resends, TaskRetry(k, m)
       PROVE  StrandInv'
  <2>1. /\ m \in Tasks /\ TxOf(m) = TxOf(k) /\ UNCHANGED <<status, dropped>>
        /\ pc' = [pc EXCEPT ![k] = "retried", ![m] = "queued"]
    BY <1>26 DEF TaskRetry
  <2>2. pc'[m] = "queued" /\ \A j \in Tasks \ {k, m} : pc'[j] = pc[j]
    BY <1>26, <2>1 DEF TaskRetry
  <2>3. NotStranded'
    <3> SUFFICES ASSUME NEW t \in Txns, status'[t] \in Open, t \notin dropped'
                 PROVE  \E j \in Tasks : TxOf(j)' = t /\ pc'[j] \in WillSettle
      OBVIOUS
    <3>1. PICK j \in Tasks : TxOf(j) = t /\ pc[j] \in WillSettle
      BY <2>1
    <3>2. CASE j \in {k, m}
      <4>1. TxOf(m) = t
        BY <2>1, <3>1, <3>2
      <4> QED
        BY <2>1, <2>2, <4>1
    <3>3. CASE j \notin {k, m}
      BY <2>2, <3>1, <3>3
    <3> QED
      BY <3>2, <3>3
  <2>4. RefreshSeen'
    BY <2>1
  <2> QED
    BY <2>3, <2>4
<1>27. ASSUME NEW k \in Tasks, TaskRetryLost(k) PROVE StrandInv'
  BY <1>27 DEF TaskRetryLost, TaskStep, GiveUp
<1>28. ASSUME NEW k \in Tasks, TaskGiveUp(k) PROVE StrandInv'
  BY <1>28 DEF TaskGiveUp, TaskStep, GiveUp
<1>29. CASE UNCHANGED vars
  BY <1>29
<1> QED
  BY <1>1, <1>2, <1>3, <1>4, <1>5, <1>6, <1>7, <1>8, <1>9, <1>10, <1>11,
     <1>12, <1>13, <1>14, <1>15, <1>16, <1>17, <1>18, <1>19, <1>20, <1>21,
     <1>22, <1>23, <1>24, <1>25, <1>26, <1>27, <1>28, <1>29 DEF Next, TaskWork, ReconWork,
     HookCommit

(* A payment that is neither settled nor failed keeps a pipeline task, or   *)
(* its enqueue was lost or its retries ran out: no interleaving of webhook  *)
(* handlers, workers and crashes strands it otherwise.                      *)
THEOREM NeverStranded == Spec => []NotStranded
<1>1. StrandInv => NotStranded
  BY DEF StrandInv
<1> QED
  BY StrandInit, StrandStep, TypeInvariant, <1>1, PTL DEF Spec

-----------------------------------------------------------------------------
(* TerminalStable needs no more than the types.                             *)
Stable(t) ==
  status[t] \in Terminal /\ Quiet(t) =>
    status'[t] = status[t] /\ rate'[t] = rate[t] /\ Quiet(t)'

(* Whatever could move a closed payment needs somebody not Quiet.           *)
LEMMA StableStep ==
  TypeInv /\ [Next]_vars => \A t \in Txns : Stable(t)
<1> SUFFICES ASSUME TypeInv, [Next]_vars, NEW u \in Txns PROVE Stable(u)
  OBVIOUS
<1> TypeOK
  BY DEF TypeInv
<1> \A k \in Tasks : TxOf(k) \in Txns /\ TxOf(k)' = TxOf(k)
  BY TxOfType, SameTx
<1> USE TaskNames
    DEF TypeOK, Stable, Terminal, Quiet, Settleable, HookAllowed, Notification,
        vars, rowVars, hookVars, taskVars
<1>1. ASSUME NEW t \in Txns, Initiate(t) PROVE Stable(u)
  BY <1>1 DEF Initiate
<1>2. ASSUME NEW t \in Txns, ExpireLock(t) PROVE Stable(u)
  BY <1>2 DEF ExpireLock
<1>3. ASSUME NEW h \in Hooks, HookRead(h) PROVE Stable(u)
  BY <1>3 DEF HookRead
<1>4. ASSUME NEW h \in Hooks, HookConfirm(h) PROVE Stable(u)
  BY <1>4 DEF HookConfirm
<1>5. ASSUME NEW h \in Hooks, HookFail(h) PROVE Stable(u)
  BY <1>5 DEF HookFail
<1>6. ASSUME NEW h \in Hooks, HookPending(h) PROVE Stable(u)
  BY <1>6 DEF HookPending
<1>7. ASSUME NEW h \in Hooks, HookRollback(h) PROVE Stable(u)
  BY <1>7 DEF HookRollback
<1>8. ASSUME NEW k \in Tasks, Enqueue(k) PROVE Stable(u)
  BY <1>8 DEF Enqueue
<1>9. ASSUME NEW k \in Tasks, LoseEnqueue(k) PROVE Stable(u)
  BY <1>9 DEF LoseEnqueue
<1>10. ASSUME NEW k \in Tasks, TaskDeliver(k) PROVE Stable(u)
  BY <1>10 DEF TaskDeliver, TaskStep
<1>11. ASSUME NEW k \in Tasks, TaskFetch(k) PROVE Stable(u)
  BY <1>11 DEF TaskFetch, TaskStep, AfterLoad
<1>12. ASSUME NEW k \in Tasks, TaskCollect(k) PROVE Stable(u)
  BY <1>12 DEF TaskCollect, TaskStep
<1>13. ASSUME NEW k \in Tasks, TaskRefresh(k) PROVE Stable(u)
  BY <1>13 DEF TaskRefresh, TaskStep
<1>14. ASSUME NEW k \in Tasks, TaskPrice(k) PROVE Stable(u)
  BY <1>14 DEF TaskPrice, TaskStep, Quotes
<1>15. ASSUME NEW k \in Tasks, TaskSettle(k) PROVE Stable(u)
  BY <1>15 DEF TaskSettle, TaskStep
<1>16. ASSUME NEW k \in Tasks, TaskLog(k) PROVE Stable(u)
  BY <1>16 DEF TaskLog, TaskStep
<1>17. ASSUME NEW k \in Tasks, TaskDustLog(k) PROVE Stable(u)
  BY <1>17 DEF TaskDustLog, TaskStep
<1>18. ASSUME NEW k \in Tasks, TaskAck(k) PROVE Stable(u)
  BY <1>18 DEF TaskAck
<1>19. ASSUME NEW k \in Tasks, TaskError(k) PROVE Stable(u)
  BY <1>19 DEF TaskError
<1>20. ASSUME NEW k \in Tasks, TaskCrash(k) PROVE Stable(u)
  BY <1>20 DEF TaskCrash
<1>21. ASSUME NEW r \in Recons, ReconSelect(r) PROVE Stable(u)
  BY <1>21 DEF ReconSelect, Selected
<1>22. ASSUME NEW r \in Recons, NEW t \in Txns, ReconCheck(r, t)
       PROVE  Stable(u)
  BY <1>22 DEF ReconCheck
<1>23. ASSUME NEW r \in Recons, NEW t \in Txns, ReconAbort(r, t)
       PROVE  Stable(u)
  BY <1>23 DEF ReconAbort, ReconRest
<1>24. ASSUME NEW r \in Recons, ReconCommit(r) PROVE Stable(u)
  BY <1>24 DEF ReconCommit, ReconRest
<1>25. ASSUME NEW r \in Recons, ReconCrash(r) PROVE Stable(u)
  BY <1>25 DEF ReconCrash, ReconRest
<1>26. ASSUME NEW k \in Tasks, NEW m \in Txns \cup Resends, TaskRetry(k, m)
       PROVE  Stable(u)
  BY <1>26 DEF TaskRetry
<1>27. ASSUME NEW k \in Tasks, TaskRetryLost(k) PROVE Stable(u)
  BY <1>27 DEF TaskRetryLost, TaskStep
<1>28. ASSUME NEW k \in Tasks, TaskGiveUp(k) PROVE Stable(u)
  BY <1>28 DEF TaskGiveUp, TaskStep
<1>29. CASE UNCHANGED vars
  BY <1>29
<1> QED
  BY <1>1, <1>2, <1>3, <1>4, <1>5, <1>6, <1>7, <1>8, <1>9, <1>10, <1>11,
     <1>12, <1>13, <1>14, <1>15, <1>16, <1>17, <1>18, <1>19, <1>20, <1>21,
     <1>22, <1>23, <1>24, <1>25, <1>26, <1>27, <1>28, <1>29
  DEF Next, TaskWork, ReconWork, HookCommit

(* A settled or failed payment nobody in flight has an older view of keeps  *)
(* its status and rate for ever, however many webhooks and tasks follow.    *)
THEOREM TerminalStays == Spec => TerminalStable
<1>1. TypeInv /\ [Next]_vars => [\A t \in Txns : Stable(t)]_vars
  BY StableStep
<1>2. [\A t \in Txns : Stable(t)]_vars
        => [\A t \in Txns :
              status[t] \in Terminal /\ Quiet(t) =>
                status'[t] = status[t] /\ rate'[t] = rate[t] /\ Quiet(t)']_vars
  BY DEF Stable
<1> QED
  BY <1>1, <1>2, TypeInvariant, PTL DEF Spec, TerminalStable

-----------------------------------------------------------------------------
(* LockHonoured.  While the lock of a payment is live, the rates in flight  *)
(* for it, in settlements and in reconciliation runs, are the locked one.   *)
LockInFlight ==
  \A t \in Txns \ expired :
    /\ \A k \in Tasks : TxOf(k) = t => quoted[k] \in {NoRate, LockedRate}
    /\ \A r \in Recons : snap[r][t] \in {NoRate, LockedRate}

LockInv == LockHonoured /\ LockInFlight

(* At first no rate is recorded or in flight.                               *)
LEMMA LockInit == Init => LockInv
  BY DEF Init, LockInv, LockHonoured, LockInFlight

(* Rates move only from the quotes to the row, the payouts and the log.     *)
LEMMA LockStep == TypeInv /\ LockInv /\ [Next]_vars => LockInv'
<1> SUFFICES ASSUME TypeInv, LockInv, [Next]_vars PROVE LockInv'
  OBVIOUS
<1> TypeOK
  BY DEF TypeInv
<1> \A k \in Tasks : TxOf(k) \in Txns /\ TxOf(k)' = TxOf(k)
  BY TxOfType, SameTx
<1> USE DEF TypeOK, LockInv, LockHonoured, LockInFlight,
        vars, rowVars, hookVars, taskVars, sessionVars, reconVars
<1>1. ASSUME NEW t \in Txns, Initiate(t) PROVE LockInv'
  BY <1>1 DEF Initiate
<1>2. ASSUME NEW t \in Txns, ExpireLock(t) PROVE LockInv'
  BY <1>2 DEF ExpireLock
<1>3. ASSUME NEW h \in Hooks, HookRead(h) PROVE LockInv'
  BY <1>3 DEF HookRead
<1>4. ASSUME NEW h \in Hooks, HookConfirm(h) PROVE LockInv'
  BY <1>4 DEF HookConfirm
<1>5. ASSUME NEW h \in Hooks, HookFail(h) PROVE LockInv'
  BY <1>5 DEF HookFail
<1>6. ASSUME NEW h \in Hooks, HookPending(h) PROVE LockInv'
  BY <1>6 DEF HookPending
<1>7. ASSUME NEW h \in Hooks, HookRollback(h) PROVE LockInv'
  BY <1>7 DEF HookRollback
<1>8. ASSUME NEW k \in Tasks, Enqueue(k) PROVE LockInv'
  BY <1>8 DEF Enqueue
<1>9. ASSUME NEW k \in Tasks, LoseEnqueue(k) PROVE LockInv'
  BY <1>9 DEF LoseEnqueue
<1>10. ASSUME NEW k \in Tasks, TaskDeliver(k) PROVE LockInv'
  BY <1>10 DEF TaskDeliver, TaskStep
<1>11. ASSUME NEW k \in Tasks, TaskFetch(k) PROVE LockInv'
  BY <1>11 DEF TaskFetch, TaskStep, AfterLoad
<1>12. ASSUME NEW k \in Tasks, TaskCollect(k) PROVE LockInv'
  BY <1>12 DEF TaskCollect, TaskStep
<1>13. ASSUME NEW k \in Tasks, TaskRefresh(k) PROVE LockInv'
  BY <1>13 DEF TaskRefresh, TaskStep
<1>14. ASSUME NEW k \in Tasks, TaskPrice(k) PROVE LockInv'
  BY <1>14 DEF TaskPrice, TaskStep, Quotes
<1>15. ASSUME NEW k \in Tasks, TaskSettle(k) PROVE LockInv'
  <2>1. quoted[k] \in Rates
    BY <1>15 DEF TaskSettle, TaskStep, TypeInv, RatesKnown
  <2>2. ASSUME NEW t \in Txns \ expired, t = TxOf(k)
        PROVE  /\ rate'[t] \in {NoRate, LockedRate}
               /\ \A i \in DOMAIN paid'[t] : paid'[t][i] = LockedRate
    <3>1. quoted[k] = LockedRate
      BY <2>1, <2>2, RatesAssumption
    <3>2. rate'[t] \in {NoRate, LockedRate}
      BY <1>15, <2>2, <3>1 DEF TaskSettle
    <3>3. paid'[t] = Append(paid[t], LockedRate) /\ paid[t] \in Seq(Rates)
      BY <1>15, <2>2, <3>1 DEF TaskSettle
    <3>4. \A i \in DOMAIN paid'[t] : paid'[t][i] = LockedRate
      BY <2>2, <3>3, RatesAssumption
    <3> QED
      BY <3>2, <3>4
  <2>3. \A t \in Txns : t # TxOf(k) => rate'[t] = rate[t] /\ paid'[t] = paid[t]
    BY <1>15 DEF TaskSettle
  <2>4. UNCHANGED <<expired, logs, note, quoted, snap>>
    BY <1>15 DEF TaskSettle
  <2>5. LockInFlight'
    BY <2>4
  <2>6. LockHonoured'
    <3> HIDE DEF TypeOK, LockInFlight
    <3> QED
      BY <2>2, <2>3, <2>4
  <2> QED
    BY <2>5, <2>6
<1>16. ASSUME NEW k \in Tasks, TaskLog(k) PROVE LockInv'
  <2>1. quoted[k] \in Rates
    BY <1>16 DEF TaskLog, TaskStep, TypeInv, RatesKnown
  <2>2. ASSUME NEW t \in Txns \ expired, t = TxOf(k)
        PROVE  \A i \in DOMAIN logs'[t] : logs'[t][i].amount = LockedRate
    <3> DEFINE entry == [amount |-> LockedRate, status |-> "checked"]
    <3>1. quoted[k] = LockedRate
      BY <2>1, <2>2, RatesAssumption
    <3>2. logs'[t] = Append(logs[t], entry) /\ logs[t] \in Seq(Log)
      BY <1>16, <2>2, <3>1 DEF TaskLog
    <3>3. entry \in Log /\ entry.amount = LockedRate
      BY RatesAssumption DEF Log
    <3> HIDE DEF entry
    <3> QED
      BY <2>2, <3>2, <3>3
  <2>3. \A t \in Txns : t # TxOf(k) => logs'[t] = logs[t]
    BY <1>16 DEF TaskLog
  <2>4. UNCHANGED <<rate, paid, expired, note, quoted, snap>>
    BY <1>16 DEF TaskLog
  <2>5. LockInFlight'
    BY <2>4
  <2>6. LockHonoured'
    <3> HIDE DEF TypeOK, LockInFlight
    <3> QED
      BY <2>2, <2>3, <2>4
  <2> QED
    BY <2>5, <2>6
<1>17. ASSUME NEW k \in Tasks, TaskDustLog(k) PROVE LockInv'
  <2>1. quoted' = [quoted EXCEPT ![k] = NoRate]
    BY <1>17 DEF TaskDustLog, CloseSession
  <2>2. UNCHANGED <<rate, paid, logs, expired, note, snap>>
    BY <1>17 DEF TaskDustLog
  <2> QED
    BY <2>1, <2>2
<1>18. ASSUME NEW k \in Tasks, TaskAck(k) PROVE LockInv'
  BY <1>18 DEF TaskAck, CloseSession
<1>19. ASSUME NEW k \in Tasks, TaskError(k) PROVE LockInv'
  <2>1. quoted' = [quoted EXCEPT ![k] = NoRate]
    BY <1>19 DEF TaskError, CloseSession
  <2>2. UNCHANGED <<rate, paid, logs, expired, note, snap>>
    BY <1>19 DEF TaskError
  <2> QED
    BY <2>1, <2>2
<1>20. ASSUME NEW k \in Tasks, TaskCrash(k) PROVE LockInv'
  BY <1>20 DEF TaskCrash, CloseSession
<1>21. ASSUME NEW r \in Recons, ReconSelect(r) PROVE LockInv'
  BY <1>21 DEF ReconSelect, Selected
<1>22. ASSUME NEW r \in Recons, NEW t \in Txns, ReconCheck(r, t) PROVE LockInv'
  BY <1>22 DEF ReconCheck
<1>23. ASSUME NEW r \in Recons, NEW t \in Txns, ReconAbort(r, t) PROVE LockInv'
  BY <1>23 DEF ReconAbort, ReconRest
<1>24. ASSUME NEW r \in Recons, ReconCommit(r) PROVE LockInv'
  <2>1. LockHonoured'
    <3> SUFFICES ASSUME NEW t \in Txns \ expired
                 PROVE  \A i \in DOMAIN logs'[t] :
                          logs'[t][i].amount = LockedRate
      BY <1>24 DEF ReconCommit
    <3>1. CASE t \in adds[r]
      <4> DEFINE entry == [amount |-> LockedRate, status |-> "pending"]
      <4>1. snap[r][t] = LockedRate
        BY <3>1, RatesAssumption DEF TypeInv, RatesKnown
      <4>2. logs'[t] = Append(logs[t], entry) /\ logs[t] \in Seq(Log)
        BY <1>24, <3>1, <4>1 DEF ReconCommit
      <4>3. entry \in Log /\ entry.amount = LockedRate
        BY RatesAssumption DEF Log
      <4> HIDE DEF entry
      <4> QED
        BY <4>2, <4>3
    <3>2. CASE t \notin adds[r]
      BY <1>24, <3>2 DEF ReconCommit
    <3> QED
      BY <3>1, <3>2
  <2>2. LockInFlight'
    BY <1>24 DEF ReconCommit, ReconRest
  <2> QED
    BY <2>1, <2>2
<1>25. ASSUME NEW r \in Recons, ReconCrash(r) PROVE LockInv'
  BY <1>25 DEF ReconCrash, ReconRest
<1>26. ASSUME NEW k \in Tasks, NEW m \in Txns \cup Resends, TaskRetry(k, m)
       PROVE  LockInv'
  BY <1>26 DEF TaskRetry
<1>27. ASSUME NEW k \in Tasks, TaskRetryLost(k) PROVE LockInv'
  BY <1>27 DEF TaskRetryLost, TaskStep
<1>28. ASSUME NEW k \in Tasks, TaskGiveUp(k) PROVE LockInv'
  BY <1>28 DEF TaskGiveUp, TaskStep
<1>29. CASE UNCHANGED vars
  BY <1>29
<1> QED
  BY <1>1, <1>2, <1>3, <1>4, <1>5, <1>6, <1>7, <1>8, <1>9, <1>10, <1>11,
     <1>12, <1>13, <1>14, <1>15, <1>16, <1>17, <1>18, <1>19, <1>20, <1>21,
     <1>22, <1>23, <1>24, <1>25, <1>26, <1>27, <1>28, <1>29
  DEF Next, TaskWork, ReconWork, HookCommit

(* Until the lock of a payment expires, the row, every settlement and every *)
(* reconciliation entry of it carry the locked rate.                        *)
THEOREM LockIsHonoured == Spec => []LockHonoured
<1>1. LockInv => LockHonoured
  BY DEF LockInv
<1> QED
  BY LockInit, LockStep, TypeInvariant, <1>1, PTL DEF Spec

-----------------------------------------------------------------------------
(* LifecycleSpec.  Until a payment is contested, one handler at most holds  *)
(* a view of it, and what that handler has seen is what the row still says. *)
HookViews(h, t) == note[h].tx = t /\ hook[h] = "read"
TaskViews(k, t) == TxOf(k) = t /\ pc[k] \in {"collect", "price", "settle"}

OneView(t) ==
  /\ \A h, g \in Hooks : HookViews(h, t) /\ HookViews(g, t) => h = g
  /\ \A j, k \in Tasks : TaskViews(j, t) /\ TaskViews(k, t) => j = k
  /\ \A h \in Hooks, k \in Tasks : ~ (HookViews(h, t) /\ TaskViews(k, t))

ViewHolds(t) ==
  /\ \A h \in Hooks : HookViews(h, t) => status[t] \in HookAllowed
  /\ \A k \in Tasks : TaskViews(k, t) =>
       status[t] \in IF pc[k] = "collect" THEN {"initiated"} ELSE Settleable
  /\ Len(paid[t]) = IF status[t] = "settled" THEN 1 ELSE 0

Serial(t) == OneView(t) /\ ViewHolds(t)

SerialInv == \A t \in Txns \ contested : Serial(t)

(* At first nobody has a view and nothing is paid.                          *)
LEMMA SerialInit == Init => SerialInv
  BY DEF Init, SerialInv, Serial, OneView, ViewHolds, HookViews, TaskViews

(* A handler that comes to a view while another holds one contests the      *)
(* payment; one that does not comes to it alone.                            *)
LEMMA SerialStep == TypeInv /\ SerialInv /\ [Next]_vars => SerialInv'
<1> SUFFICES ASSUME TypeInv, SerialInv, [Next]_vars,
                    NEW u \in Txns \ contested'
             PROVE  Serial(u)'
  BY DEF SerialInv
<1> TypeOK
  BY DEF TypeInv
<1> \A k \in Tasks : TxOf(k) \in Txns /\ TxOf(k)' = TxOf(k)
  BY TxOfType, SameTx
<1> note' = note
  BY SameTx
<1> USE TaskNames
    DEF TypeOK, SerialInv, Serial, OneView, ViewHolds, HookViews, TaskViews,
        Quiet, HookAllowed, Settleable, Notification, history,
        vars, rowVars, hookVars, taskVars
<1>1. ASSUME NEW t \in Txns, Initiate(t) PROVE Serial(u)'
  BY <1>1 DEF Initiate
<1>2. ASSUME NEW t \in Txns, ExpireLock(t) PROVE Serial(u)'
  BY <1>2 DEF ExpireLock
<1>3. ASSUME NEW h \in Hooks, HookRead(h) PROVE Serial(u)'
  BY <1>3 DEF HookRead, View
<1>4. ASSUME NEW h \in Hooks, HookConfirm(h) PROVE Serial(u)'
  BY <1>4 DEF HookConfirm
<1>5. ASSUME NEW h \in Hooks, HookFail(h) PROVE Serial(u)'
  BY <1>5 DEF HookFail
<1>6. ASSUME NEW h \in Hooks, HookPending(h) PROVE Serial(u)'
  BY <1>6 DEF HookPending
<1>7. ASSUME NEW h \in Hooks, HookRollback(h) PROVE Serial(u)'
  BY <1>7 DEF HookRollback
<1>8. ASSUME NEW k \in Tasks, Enqueue(k) PROVE Serial(u)'
  BY <1>8 DEF Enqueue
<1>9. ASSUME NEW k \in Tasks, LoseEnqueue(k) PROVE Serial(u)'
  BY <1>9 DEF LoseEnqueue, GiveUp
<1>10. ASSUME NEW k \in Tasks, TaskDeliver(k) PROVE Serial(u)'
  BY <1>10 DEF TaskDeliver, TaskStep
<1>11. ASSUME NEW k \in Tasks, TaskFetch(k) PROVE Serial(u)'
  BY <1>11 DEF TaskFetch, TaskStep, AfterLoad, View
<1>12. ASSUME NEW k \in Tasks, TaskCollect(k) PROVE Serial(u)'
  BY <1>12 DEF TaskCollect, TaskStep
<1>13. ASSUME NEW k \in Tasks, TaskRefresh(k) PROVE Serial(u)'
  BY <1>13 DEF TaskRefresh, TaskStep, View
<1>14. ASSUME NEW k \in Tasks, TaskPrice(k) PROVE Serial(u)'
  BY <1>14 DEF TaskPrice, TaskStep
<1>15. ASSUME NEW k \in Tasks, TaskSettle(k) PROVE Serial(u)'
  <2>1. /\ u \notin contested /\ pc[k] = "settle"
        /\ UNCHANGED <<note, hook>> /\ pc' = [pc EXCEPT ![k] = "log"]
    BY <1>15 DEF TaskSettle, TaskStep
  <2>2. CASE u = TxOf(k)
    <3>1. status'[u] = "settled" /\ paid'[u] = Append(paid[u], quoted[k])
      BY <1>15, <2>2 DEF TaskSettle
    <3>2. TaskViews(k, u) /\ Serial(u)
      BY <2>1, <2>2
    <3>3. Len(paid'[u]) = 1 /\ status'[u] = "settled"
      <4>1. Len(paid[u]) = 0 /\ paid[u] \in Seq(Rates)
        BY <2>1, <3>2
      <4>2. quoted[k] \in Rates
        BY <2>1 DEF TypeInv, RatesKnown
      <4> QED
        BY <3>1, <4>1, <4>2
    <3>4. /\ \A h \in Hooks : ~ HookViews(h, u)'
          /\ \A j \in Tasks : ~ TaskViews(j, u)'
      BY <2>1, <3>2
    <3> HIDE DEF HookViews, TaskViews
    <3> QED
      BY <3>3, <3>4
  <2>3. CASE u # TxOf(k)
    <3>1. status'[u] = status[u] /\ paid'[u] = paid[u]
      BY <1>15, <2>3 DEF TaskSettle
    <3>2. \A j \in Tasks : /\ TaskViews(j, u)' <=> TaskViews(j, u)
                           /\ TaskViews(j, u) => pc'[j] = pc[j]
      BY <2>1, <2>3
    <3>3. \A h \in Hooks : HookViews(h, u)' <=> HookViews(h, u)
      BY <2>1
    <3>4. Serial(u)
      BY <2>1
    <3> HIDE DEF HookViews, TaskViews, TypeOK, SerialInv
    <3> QED
      BY <3>1, <3>2, <3>3, <3>4
  <2> QED
    BY <2>2, <2>3
<1>16. ASSUME NEW k \in Tasks, TaskLog(k) PROVE Serial(u)'
  BY <1>16 DEF TaskLog, TaskStep
<1>17. ASSUME NEW k \in Tasks, TaskDustLog(k) PROVE Serial(u)'
  BY <1>17 DEF TaskDustLog, TaskStep
<1>18. ASSUME NEW k \in Tasks, TaskAck(k) PROVE Serial(u)'
  BY <1>18 DEF TaskAck
<1>19. ASSUME NEW k \in Tasks, TaskError(k) PROVE Serial(u)'
  BY <1>19 DEF TaskError, Running
<1>20. ASSUME NEW k \in Tasks, TaskCrash(k) PROVE Serial(u)'
  BY <1>20 DEF TaskCrash, Running
<1>21. ASSUME NEW r \in Recons, ReconSelect(r) PROVE Serial(u)'
  BY <1>21 DEF ReconSelect
<1>22. ASSUME NEW r \in Recons, NEW t \in Txns, ReconCheck(r, t)
       PROVE  Serial(u)'
  BY <1>22 DEF ReconCheck
<1>23. ASSUME NEW r \in Recons, NEW t \in Txns, ReconAbort(r, t)
       PROVE  Serial(u)'
  BY <1>23 DEF ReconAbort
<1>24. ASSUME NEW r \in Recons, ReconCommit(r) PROVE Serial(u)'
  BY <1>24 DEF ReconCommit
<1>25. ASSUME NEW r \in Recons, ReconCrash(r) PROVE Serial(u)'
  BY <1>25 DEF ReconCrash
<1>26. ASSUME NEW k \in Tasks, NEW m \in Txns \cup Resends, TaskRetry(k, m)
       PROVE  Serial(u)'
  <2>1. /\ m \in Tasks /\ UNCHANGED <<status, paid, hook, contested>>
        /\ pc[k] = "retry" /\ pc[m] \in {"none", "done"}
        /\ pc' = [pc EXCEPT ![k] = "retried", ![m] = "queued"]
    BY <1>26 DEF TaskRetry
  <2>2. \A j \in Tasks : /\ TaskViews(j, u)' <=> TaskViews(j, u)
                         /\ TaskViews(j, u) => pc'[j] = pc[j]
    BY <2>1
  <2>3. \A h \in Hooks : HookViews(h, u)' <=> HookViews(h, u)
    BY <2>1
  <2>4. Serial(u)
    BY <2>1
  <2> HIDE DEF HookViews, TaskViews, TypeOK, SerialInv
  <2> QED
    BY <2>1, <2>2, <2>3, <2>4
<1>27. ASSUME NEW k \in Tasks, TaskRetryLost(k) PROVE Serial(u)'
  BY <1>27 DEF TaskRetryLost, TaskStep, GiveUp
<1>28. ASSUME NEW k \in Tasks, TaskGiveUp(k) PROVE Serial(u)'
  BY <1>28 DEF TaskGiveUp, TaskStep, GiveUp
<1>29. CASE UNCHANGED vars
  BY <1>29
<1> QED
  BY <1>1, <1>2, <1>3, <1>4, <1>5, <1>6, <1>7, <1>8, <1>9, <1>10, <1>11,
     <1>12, <1>13, <1>14, <1>15, <1>16, <1>17, <1>18, <1>19, <1>20, <1>21,
     <1>22, <1>23, <1>24, <1>25, <1>26, <1>27, <1>28, <1>29
  DEF Next, TaskWork, ReconWork, HookCommit

(* The serial view of uncontested payments, in every behaviour.             *)
THEOREM ViewsAreSerial == Spec => []SerialInv
  BY SerialInit, SerialStep, TypeInvariant, PTL DEF Spec

(* Initial states map to initial states.                                    *)
LEMMA LifecycleInit == Init => Lifecycle!Init
  BY DEF Init, Lifecycle!Init

(* A step of the lifecycle, or one that changes nothing it speaks of.       *)
Simulated == Lifecycle!Next \/ UNCHANGED <<status, paid, contested>>

(* A step that changes one payment's row and leaves the others alone is     *)
(* allowed when that payment is contested.                                  *)
LEMMA StraySimulates ==
  ASSUME TypeOK, NEW t \in contested, contested' = contested,
         \A u \in Txns \ {t} : status'[u] = status[u] /\ paid'[u] = paid[u]
  PROVE  Simulated
<1>1. t \in Txns
  BY DEF TypeOK
<1>2. \A u \in Txns \ {t} :
        [v \in Txns |-> Len(paid[v])]'[u] = [v \in Txns |-> Len(paid[v])][u]
  OBVIOUS
<1>3. Lifecycle!Stray(t)
  BY <1>1, <1>2 DEF Lifecycle!Stray
<1> QED
  BY <1>1, <1>3 DEF Simulated, Lifecycle!Next

(* A view that contests a payment is a Contest, and any other a stutter.    *)
LEMMA ViewSimulates ==
  ASSUME NEW t \in Txns, NEW goesOn, View(t, goesOn), UNCHANGED <<status, paid>>
  PROVE  Simulated
<1>1. CASE contested' = contested
  BY <1>1 DEF Simulated
<1>2. CASE contested' = contested \cup {t}
  <2>1. Lifecycle!Contest(t)
    BY <1>2 DEF Lifecycle!Contest
  <2> QED
    BY <2>1 DEF Simulated, Lifecycle!Next
<1> QED
  BY <1>1, <1>2 DEF View

(* Every step maps to a step of the lifecycle or to a stutter.              *)
LEMMA LifecycleStep ==
  TypeInv /\ SerialInv /\ [Next]_vars => [Lifecycle!Next]_(Lifecycle!vars)
<1> SUFFICES ASSUME TypeInv, SerialInv, [Next]_vars PROVE Simulated
  BY DEF Simulated, Lifecycle!vars
<1> TypeOK
  BY DEF TypeInv
<1> \A k \in Tasks : TxOf(k) \in Txns
  BY TxOfType
<1> \A h \in Hooks : note[h].tx \in Txns
  BY DEF TypeOK, Notification
<1> USE DEF Simulated, vars, rowVars, history
<1>1. ASSUME NEW t \in Txns, Initiate(t) PROVE Simulated
  BY <1>1 DEF Initiate, Lifecycle!Next, Lifecycle!Initiate, Lifecycle!Move
<1>2. ASSUME NEW t \in Txns, ExpireLock(t) PROVE Simulated
  BY <1>2 DEF ExpireLock
<1>3. ASSUME NEW h \in Hooks, HookRead(h) PROVE Simulated
  BY <1>3, ViewSimulates DEF HookRead
<1>4. ASSUME NEW h \in Hooks, HookConfirm(h) PROVE Simulated
  <2>0. PICK t \in Txns : t = note[h].tx
    OBVIOUS
  <2>1. /\ HookViews(h, t) /\ UNCHANGED <<paid, contested>>
        /\ status' = [status EXCEPT ![t] = "upi_confirmed"]
    BY <1>4, <2>0 DEF HookConfirm, HookViews
  <2>2. CASE t \in contested
    BY <2>1, <2>2, StraySimulates DEF TypeOK
  <2>3. CASE t \notin contested
    <3>1. status[t] \in HookAllowed
      BY <2>1, <2>3 DEF SerialInv, Serial, ViewHolds
    <3>2. Lifecycle!Confirm(t)
      BY <2>1, <3>1 DEF Lifecycle!Confirm, Lifecycle!Move, HookAllowed
    <3> QED
      BY <3>2 DEF Lifecycle!Next
  <2> QED
    BY <2>2, <2>3
<1>5. ASSUME NEW h \in Hooks, HookFail(h) PROVE Simulated
  <2>0. PICK t \in Txns : t = note[h].tx
    OBVIOUS
  <2>1. /\ HookViews(h, t) /\ UNCHANGED <<paid, contested>>
        /\ status' = [status EXCEPT ![t] = "failed"]
    BY <1>5, <2>0 DEF HookFail, HookViews
  <2>2. CASE t \in contested
    BY <2>1, <2>2, StraySimulates DEF TypeOK
  <2>3. CASE t \notin contested
    <3>1. status[t] \in HookAllowed
      BY <2>1, <2>3 DEF SerialInv, Serial, ViewHolds
    <3>2. Lifecycle!Fail(t)
      BY <2>1, <3>1 DEF Lifecycle!Fail, Lifecycle!Move, HookAllowed
    <3> QED
      BY <3>2 DEF Lifecycle!Next
  <2> QED
    BY <2>2, <2>3
<1>6. ASSUME NEW h \in Hooks, HookPending(h) PROVE Simulated
  BY <1>6 DEF HookPending
<1>7. ASSUME NEW h \in Hooks, HookRollback(h) PROVE Simulated
  BY <1>7 DEF HookRollback
<1>8. ASSUME NEW k \in Tasks, Enqueue(k) PROVE Simulated
  BY <1>8 DEF Enqueue
<1>9. ASSUME NEW k \in Tasks, LoseEnqueue(k) PROVE Simulated
  BY <1>9 DEF LoseEnqueue, GiveUp
<1>10. ASSUME NEW k \in Tasks, TaskDeliver(k) PROVE Simulated
  BY <1>10 DEF TaskDeliver, TaskStep
<1>11. ASSUME NEW k \in Tasks, TaskFetch(k) PROVE Simulated
  BY <1>11, ViewSimulates DEF TaskFetch
<1>12. ASSUME NEW k \in Tasks, TaskCollect(k) PROVE Simulated
  <2>0. PICK t \in Txns : t = TxOf(k)
    OBVIOUS
  <2>1. /\ TaskViews(k, t) /\ pc[k] = "collect"
        /\ UNCHANGED <<paid, contested>>
        /\ status' = [status EXCEPT ![t] = "inr_collected"]
    BY <1>12, <2>0 DEF TaskCollect, TaskStep, TaskViews
  <2>2. CASE t \in contested
    BY <2>1, <2>2, StraySimulates DEF TypeOK
  <2>3. CASE t \notin contested
    <3>1. status[t] = "initiated"
      BY <2>1, <2>3 DEF SerialInv, Serial, ViewHolds
    <3>2. Lifecycle!Collect(t)
      BY <2>1, <3>1 DEF Lifecycle!Collect, Lifecycle!Move
    <3> QED
      BY <3>2 DEF Lifecycle!Next
  <2> QED
    BY <2>2, <2>3
<1>13. ASSUME NEW k \in Tasks, TaskRefresh(k) PROVE Simulated
  BY <1>13, ViewSimulates DEF TaskRefresh
<1>14. ASSUME NEW k \in Tasks, TaskPrice(k) PROVE Simulated
  BY <1>14 DEF TaskPrice, TaskStep
<1>15. ASSUME NEW k \in Tasks, TaskSettle(k) PROVE Simulated
  <2>0. PICK t \in Txns : t = TxOf(k)
    OBVIOUS
  <2>1. /\ TaskViews(k, t) /\ pc[k] = "settle"
        /\ contested' = contested
        /\ status' = [status EXCEPT ![t] = "settled"]
        /\ paid' = [paid EXCEPT ![t] = Append(paid[t], quoted[k])]
    BY <1>15, <2>0 DEF TaskSettle, TaskStep, TaskViews
  <2>2. CASE t \in contested
    BY <2>1, <2>2, StraySimulates DEF TypeOK
  <2>3. CASE t \notin contested
    <3>1. status[t] \in Settleable /\ Len(paid[t]) = 0
      BY <2>1, <2>3 DEF SerialInv, Serial, ViewHolds, Settleable
    <3>2. quoted[k] \in Rates
      BY <2>1 DEF TypeInv, RatesKnown
    <3>3. Len(Append(paid[t], quoted[k])) = 1
      BY <2>1, <3>1, <3>2 DEF TypeOK
    <3>4. [v \in Txns |-> Len(paid'[v])]
            = [[v \in Txns |-> Len(paid[v])] EXCEPT ![t] = 1]
      BY <2>1, <3>3 DEF TypeOK
    <3>5. Lifecycle!Settle(t)
      BY <2>1, <3>1, <3>4
      DEF Lifecycle!Settle, Lifecycle!Move, Settleable
    <3> QED
      BY <3>5 DEF Lifecycle!Next
  <2> QED
    BY <2>2, <2>3
<1>16. ASSUME NEW k \in Tasks, TaskLog(k) PROVE Simulated
  BY <1>16 DEF TaskLog, TaskStep
<1>17. ASSUME NEW k \in Tasks, TaskDustLog(k) PROVE Simulated
  BY <1>17 DEF TaskDustLog, TaskStep
<1>18. ASSUME NEW k \in Tasks, TaskAck(k) PROVE Simulated
  BY <1>18 DEF TaskAck
<1>19. ASSUME NEW k \in Tasks, TaskError(k) PROVE Simulated
  BY <1>19 DEF TaskError, Running
<1>20. ASSUME NEW k \in Tasks, TaskCrash(k) PROVE Simulated
  BY <1>20 DEF TaskCrash, Running
<1>21. ASSUME NEW r \in Recons, ReconSelect(r) PROVE Simulated
  BY <1>21 DEF ReconSelect
<1>22. ASSUME NEW r \in Recons, NEW t \in Txns, ReconCheck(r, t)
       PROVE  Simulated
  BY <1>22 DEF ReconCheck
<1>23. ASSUME NEW r \in Recons, NEW t \in Txns, ReconAbort(r, t)
       PROVE  Simulated
  BY <1>23 DEF ReconAbort
<1>24. ASSUME NEW r \in Recons, ReconCommit(r) PROVE Simulated
  BY <1>24 DEF ReconCommit
<1>25. ASSUME NEW r \in Recons, ReconCrash(r) PROVE Simulated
  BY <1>25 DEF ReconCrash
<1>26. ASSUME NEW k \in Tasks, NEW m \in Txns \cup Resends, TaskRetry(k, m)
       PROVE  Simulated
  BY <1>26 DEF TaskRetry
<1>27. ASSUME NEW k \in Tasks, TaskRetryLost(k) PROVE Simulated
  BY <1>27 DEF TaskRetryLost, TaskStep, GiveUp
<1>28. ASSUME NEW k \in Tasks, TaskGiveUp(k) PROVE Simulated
  BY <1>28 DEF TaskGiveUp, TaskStep, GiveUp
<1>29. CASE UNCHANGED vars
  BY <1>29
<1> QED
  BY <1>1, <1>2, <1>3, <1>4, <1>5, <1>6, <1>7, <1>8, <1>9, <1>10, <1>11,
     <1>12, <1>13, <1>14, <1>15, <1>16, <1>17, <1>18, <1>19, <1>20, <1>21,
     <1>22, <1>23, <1>24, <1>25, <1>26, <1>27, <1>28, <1>29
  DEF Next, TaskWork, ReconWork, HookCommit

(* The pipeline implements the promised life of every payment no two        *)
(* handlers have held views of at once, for any number of payments,         *)
(* webhooks, workers, crashes, retries and lost enqueues.                   *)
THEOREM PipelineImplementsLifecycle == Spec => LifecycleSpec
  BY SerialInit, SerialStep, TypeInvariant, LifecycleInit, LifecycleStep, PTL
  DEF Spec, LifecycleSpec, Lifecycle!Spec

-----------------------------------------------------------------------------
(* DirectFlowPaysOnce.  A payment that no webhook has read, and none of     *)
(* whose messages came back after its retry was sent, has one message on    *)
(* which work is to be done, so nobody contests it.                         *)
Active(k, t) == TxOf(k) = t /\ pc[k] \notin {"none", "retried", "done"}

OneMessage(t) ==
  /\ t \notin contested
  /\ \A j, k \in Tasks : Active(j, t) /\ Active(k, t) => j = k
  /\ status[t] = "absent" => \A k \in Tasks : TxOf(k) = t => pc[k] = "none"

DirectInv == \A t \in Txns \ doubled : Direct(t) => OneMessage(t)

(* At first there is no message.                                            *)
LEMMA DirectInit == Init => DirectInv
  BY DEF Init, DirectInv, OneMessage, Active

(* A direct payment has been direct, and a doubled one stays it.            *)
LEMMA DirectBefore ==
  ASSUME TypeInv, DirectInv, [Next]_vars, NEW u \in Txns \ doubled', Direct(u)'
  PROVE  u \notin doubled /\ Direct(u) /\ OneMessage(u)
<1> SUFFICES u \notin doubled /\ Direct(u)
  BY DEF DirectInv
<1> TypeOK
  BY DEF TypeInv
<1> note' = note
  BY SameTx
<1> DEFINE Before == u \notin doubled /\ Direct(u)
<1> USE DEF TypeOK, Direct, vars, hookVars, history
<1>1. ASSUME NEW t \in Txns, Initiate(t) PROVE Before
  BY <1>1 DEF Initiate
<1>2. ASSUME NEW t \in Txns, ExpireLock(t) PROVE Before
  BY <1>2 DEF ExpireLock
<1>3. ASSUME NEW h \in Hooks, HookRead(h) PROVE Before
  BY <1>3 DEF HookRead, View
<1>4. ASSUME NEW h \in Hooks, HookConfirm(h) PROVE Before
  BY <1>4 DEF HookConfirm
<1>5. ASSUME NEW h \in Hooks, HookFail(h) PROVE Before
  BY <1>5 DEF HookFail
<1>6. ASSUME NEW h \in Hooks, HookPending(h) PROVE Before
  BY <1>6 DEF HookPending
<1>7. ASSUME NEW h \in Hooks, HookRollback(h) PROVE Before
  BY <1>7 DEF HookRollback
<1>8. ASSUME NEW k \in Tasks, Enqueue(k) PROVE Before
  BY <1>8 DEF Enqueue
<1>9. ASSUME NEW k \in Tasks, LoseEnqueue(k) PROVE Before
  BY <1>9 DEF LoseEnqueue, GiveUp
<1>10. ASSUME NEW k \in Tasks, TaskDeliver(k) PROVE Before
  BY <1>10 DEF TaskDeliver
<1>11. ASSUME NEW k \in Tasks, TaskFetch(k) PROVE Before
  BY <1>11 DEF TaskFetch, View
<1>12. ASSUME NEW k \in Tasks, TaskCollect(k) PROVE Before
  BY <1>12 DEF TaskCollect
<1>13. ASSUME NEW k \in Tasks, TaskRefresh(k) PROVE Before
  BY <1>13 DEF TaskRefresh, View
<1>14. ASSUME NEW k \in Tasks, TaskPrice(k) PROVE Before
  BY <1>14 DEF TaskPrice
<1>15. ASSUME NEW k \in Tasks, TaskSettle(k) PROVE Before
  BY <1>15 DEF TaskSettle
<1>16. ASSUME NEW k \in Tasks, TaskLog(k) PROVE Before
  BY <1>16 DEF TaskLog
<1>17. ASSUME NEW k \in Tasks, TaskDustLog(k) PROVE Before
  BY <1>17 DEF TaskDustLog
<1>18. ASSUME NEW k \in Tasks, TaskAck(k) PROVE Before
  BY <1>18 DEF TaskAck
<1>19. ASSUME NEW k \in Tasks, TaskError(k) PROVE Before
  BY <1>19 DEF TaskError
<1>20. ASSUME NEW k \in Tasks, TaskCrash(k) PROVE Before
  BY <1>20 DEF TaskCrash
<1>21. ASSUME NEW r \in Recons, ReconSelect(r) PROVE Before
  BY <1>21 DEF ReconSelect
<1>22. ASSUME NEW r \in Recons, NEW t \in Txns, ReconCheck(r, t) PROVE Before
  BY <1>22 DEF ReconCheck
<1>23. ASSUME NEW r \in Recons, NEW t \in Txns, ReconAbort(r, t) PROVE Before
  BY <1>23 DEF ReconAbort
<1>24. ASSUME NEW r \in Recons, ReconCommit(r) PROVE Before
  BY <1>24 DEF ReconCommit
<1>25. ASSUME NEW r \in Recons, ReconCrash(r) PROVE Before
  BY <1>25 DEF ReconCrash
<1>26. ASSUME NEW k \in Tasks, NEW m \in Txns \cup Resends, TaskRetry(k, m)
       PROVE  Before
  BY <1>26 DEF TaskRetry
<1>27. ASSUME NEW k \in Tasks, TaskRetryLost(k) PROVE Before
  BY <1>27 DEF TaskRetryLost, TaskStep, GiveUp
<1>28. ASSUME NEW k \in Tasks, TaskGiveUp(k) PROVE Before
  BY <1>28 DEF TaskGiveUp, TaskStep, GiveUp
<1>29. CASE UNCHANGED vars
  BY <1>29
<1> QED
  BY <1>1, <1>2, <1>3, <1>4, <1>5, <1>6, <1>7, <1>8, <1>9, <1>10, <1>11,
     <1>12, <1>13, <1>14, <1>15, <1>16, <1>17, <1>18, <1>19, <1>20, <1>21,
     <1>22, <1>23, <1>24, <1>25, <1>26, <1>27, <1>28, <1>29
  DEF Next, TaskWork, ReconWork, HookCommit

(* Only a lost worker's second message makes two of one.                    *)
LEMMA DirectStep == TypeInv /\ DirectInv /\ [Next]_vars => DirectInv'
<1> SUFFICES ASSUME TypeInv, DirectInv, [Next]_vars,
                    NEW u \in Txns \ doubled', Direct(u)'
             PROVE  OneMessage(u)'
  BY DEF DirectInv
<1> u \notin doubled /\ Direct(u) /\ OneMessage(u)
  BY DirectBefore
<1> TypeOK
  BY DEF TypeInv
<1> \A k \in Tasks : TxOf(k) \in Txns /\ TxOf(k)' = TxOf(k)
  BY TxOfType, SameTx
<1> note' = note
  BY SameTx
<1> USE TaskNames
    DEF TypeOK, Direct, OneMessage, Active, Quiet, Notification, history,
        vars, rowVars, hookVars, taskVars
<1>1. ASSUME NEW t \in Txns, Initiate(t) PROVE OneMessage(u)'
  BY <1>1 DEF Initiate
<1>2. ASSUME NEW t \in Txns, ExpireLock(t) PROVE OneMessage(u)'
  BY <1>2 DEF ExpireLock
<1>3. ASSUME NEW h \in Hooks, HookRead(h) PROVE OneMessage(u)'
  BY <1>3 DEF HookRead, View
<1>4. ASSUME NEW h \in Hooks, HookConfirm(h) PROVE OneMessage(u)'
  BY <1>4 DEF HookConfirm
<1>5. ASSUME NEW h \in Hooks, HookFail(h) PROVE OneMessage(u)'
  BY <1>5 DEF HookFail
<1>6. ASSUME NEW h \in Hooks, HookPending(h) PROVE OneMessage(u)'
  BY <1>6 DEF HookPending
<1>7. ASSUME NEW h \in Hooks, HookRollback(h) PROVE OneMessage(u)'
  BY <1>7 DEF HookRollback
<1>8. ASSUME NEW k \in Tasks, Enqueue(k) PROVE OneMessage(u)'
  BY <1>8 DEF Enqueue
<1>9. ASSUME NEW k \in Tasks, LoseEnqueue(k) PROVE OneMessage(u)'
  BY <1>9 DEF LoseEnqueue, GiveUp
<1>10. ASSUME NEW k \in Tasks, TaskDeliver(k) PROVE OneMessage(u)'
  BY <1>10 DEF TaskDeliver, TaskStep
<1>11. ASSUME NEW k \in Tasks, TaskFetch(k) PROVE OneMessage(u)'
  <2>1. /\ pc[k] = "fetch" /\ status' = status
        /\ \E next \in PCs : pc' = [pc EXCEPT ![k] = next]
    BY <1>11 DEF TaskFetch, TaskStep, AfterLoad, PCs, Running
  <2>2. u = TxOf(k) => Quiet(u)
    BY <2>1
  <2>3. u \notin contested'
    <3>1. \/ contested' = contested
          \/ contested' = contested \cup {TxOf(k)} /\ ~ Quiet(TxOf(k))
      BY <1>11 DEF TaskFetch, View
    <3> QED
      BY <2>2, <3>1
  <2>4. /\ \A j \in Tasks : Active(j, u)' => Active(j, u)
        /\ status[u] = "absent" => u # TxOf(k)
    BY <2>1
  <2> QED
    BY <2>1, <2>3, <2>4
<1>12. ASSUME NEW k \in Tasks, TaskCollect(k) PROVE OneMessage(u)'
  BY <1>12 DEF TaskCollect, TaskStep
<1>13. ASSUME NEW k \in Tasks, TaskRefresh(k) PROVE OneMessage(u)'
  <2>1. /\ pc[k] = "refresh" /\ status' = status
        /\ \E next \in PCs : pc' = [pc EXCEPT ![k] = next]
    BY <1>13 DEF TaskRefresh, TaskStep, PCs, Running
  <2>2. u = TxOf(k) => Quiet(u)
    BY <2>1
  <2>3. u \notin contested'
    <3>1. \/ contested' = contested
          \/ contested' = contested \cup {TxOf(k)} /\ ~ Quiet(TxOf(k))
      BY <1>13 DEF TaskRefresh, View
    <3> QED
      BY <2>2, <3>1
  <2>4. /\ \A j \in Tasks : Active(j, u)' => Active(j, u)
        /\ status[u] = "absent" => u # TxOf(k)
    BY <2>1
  <2> QED
    BY <2>1, <2>3, <2>4
<1>14. ASSUME NEW k \in Tasks, TaskPrice(k) PROVE OneMessage(u)'
  BY <1>14 DEF TaskPrice, TaskStep
<1>15. ASSUME NEW k \in Tasks, TaskSettle(k) PROVE OneMessage(u)'
  BY <1>15 DEF TaskSettle, TaskStep
<1>16. ASSUME NEW k \in Tasks, TaskLog(k) PROVE OneMessage(u)'
  BY <1>16 DEF TaskLog, TaskStep
<1>17. ASSUME NEW k \in Tasks, TaskDustLog(k) PROVE OneMessage(u)'
  BY <1>17 DEF TaskDustLog, TaskStep
<1>18. ASSUME NEW k \in Tasks, TaskAck(k) PROVE OneMessage(u)'
  BY <1>18 DEF TaskAck
<1>19. ASSUME NEW k \in Tasks, TaskError(k) PROVE OneMessage(u)'
  BY <1>19 DEF TaskError, Running
<1>20. ASSUME NEW k \in Tasks, TaskCrash(k) PROVE OneMessage(u)'
  BY <1>20 DEF TaskCrash, Running
<1>21. ASSUME NEW r \in Recons, ReconSelect(r) PROVE OneMessage(u)'
  BY <1>21 DEF ReconSelect
<1>22. ASSUME NEW r \in Recons, NEW t \in Txns, ReconCheck(r, t)
       PROVE  OneMessage(u)'
  BY <1>22 DEF ReconCheck
<1>23. ASSUME NEW r \in Recons, NEW t \in Txns, ReconAbort(r, t)
       PROVE  OneMessage(u)'
  BY <1>23 DEF ReconAbort
<1>24. ASSUME NEW r \in Recons, ReconCommit(r) PROVE OneMessage(u)'
  BY <1>24 DEF ReconCommit
<1>25. ASSUME NEW r \in Recons, ReconCrash(r) PROVE OneMessage(u)'
  BY <1>25 DEF ReconCrash
<1>26. ASSUME NEW k \in Tasks, NEW m \in Txns \cup Resends, TaskRetry(k, m)
       PROVE  OneMessage(u)'
  BY <1>26 DEF TaskRetry
<1>27. ASSUME NEW k \in Tasks, TaskRetryLost(k) PROVE OneMessage(u)'
  BY <1>27 DEF TaskRetryLost, TaskStep, GiveUp
<1>28. ASSUME NEW k \in Tasks, TaskGiveUp(k) PROVE OneMessage(u)'
  BY <1>28 DEF TaskGiveUp, TaskStep, GiveUp
<1>29. CASE UNCHANGED vars
  BY <1>29
<1> QED
  BY <1>1, <1>2, <1>3, <1>4, <1>5, <1>6, <1>7, <1>8, <1>9, <1>10, <1>11,
     <1>12, <1>13, <1>14, <1>15, <1>16, <1>17, <1>18, <1>19, <1>20, <1>21,
     <1>22, <1>23, <1>24, <1>25, <1>26, <1>27, <1>28, <1>29
  DEF Next, TaskWork, ReconWork, HookCommit

(* A payment no webhook has touched is settled at most once, whatever       *)
(* crashes, errors, retries and redeliveries at whatever concurrency, but   *)
(* for a worker lost between sending the retry and its acknowledgement.     *)
THEOREM DirectFlowOnce == Spec => []DirectFlowPaysOnce
<1>1. TypeInv /\ SerialInv /\ DirectInv => DirectFlowPaysOnce
  BY DEF SerialInv, Serial, ViewHolds, DirectInv, OneMessage, DirectFlowPaysOnce
<1> QED
  BY SerialInit, SerialStep, DirectInit, DirectStep, TypeInvariant, <1>1, PTL
  DEF Spec
=============================================================================
