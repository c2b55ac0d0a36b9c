--------------------------- MODULE PaymentPipeline ---------------------------
(***************************************************************************)
(* The life of payments from POST /payments to the reconciliation log:     *)
(* the UPI webhook handler of the API process, the Celery tasks            *)
(* process_payment_pipeline, and the periodic reconciliation task, all     *)
(* over the tables transactions and reconciliation_logs.                   *)
(*                                                                         *)
(* The database runs READ COMMITTED and the code takes no row locks, so a  *)
(* handler is split at every SELECT, refresh and commit.  What a handler   *)
(* learnt from a SELECT lives in its session (the ORM keeps the first      *)
(* loaded attributes of an object), and its UPDATE names the row by id     *)
(* only: it overwrites whatever status the row has by then.                *)
(***************************************************************************)
EXTENDS Naturals, Sequences, FiniteSets

CONSTANTS
  Txns,         \* payments; each one's POST enqueues one pipeline task
  Hooks,        \* webhook notifications the payment aggregator may deliver
  Recons,       \* concurrent runs of reconcile_settlements
  Rates,        \* exchange rates
  LockedRate,   \* the rate locked when a payment is initiated
  NoRate,       \* NULL in transactions.fx_rate
  Dust,         \* payments so small that the net settlement rounds to zero
  Copies,       \* names of the further messages that retries send
  Concurrency,  \* celery worker --concurrency
  MaxRetries,   \* max_retries of the pipeline task
  FaultLimit    \* how many faults of each kind a behaviour contains

Faults == {"crash", "error", "lost"}

ASSUME FiniteAssumption ==
  /\ IsFiniteSet(Txns) /\ IsFiniteSet(Hooks)
  /\ IsFiniteSet(Recons) /\ IsFiniteSet(Copies)
ASSUME IdsAssumption ==
  Txns \cap Hooks = {} /\ (Txns \cup Hooks) \cap (Txns \X Copies) = {}
ASSUME ConcurrencyAssumption == Concurrency \in Nat \ {0}
ASSUME RatesAssumption == LockedRate \in Rates /\ NoRate \notin Rates
ASSUME DustAssumption == Dust \subseteq Txns
ASSUME RetriesAssumption == MaxRetries \in Nat
ASSUME FaultAssumption == FaultLimit \in [Faults -> Nat]

VARIABLES
  status,       \* transactions.status, "absent" before the row exists
  rate,         \* transactions.fx_rate, which fixes settlement_amount
  expired,      \* payments whose fx_rate_expires_at has passed
  logs,         \* reconciliation_logs, per payment, in insertion order
  note,         \* the notification each webhook delivery carries
  hook,         \* where each webhook handler is
  pc,           \* where each pipeline task is
  loaded,       \* transactions.fx_rate as a task's session has it
  quoted,       \* the rate a running settlement has chosen
  retries,      \* request.retries of each task message
  scanning,     \* reconciliation runs in progress
  todo,         \* settled payments a run has still to look at
  adds,         \* payments a run will insert a pending entry for
  snap,         \* settlement amounts a run has loaded
  faults,       \* history: faults so far, by kind
  paid,         \* history: the rate of every committed settlement
  dropped,      \* history: payments one of whose pipelines was given up
  doubled,      \* history: payments with a message back after its retry was sent
  contested     \* history: payments two handlers have held views of at once

rowVars == <<status, rate, expired, paid>>
hookVars == <<note, hook>>
sessionVars == <<loaded, quoted>>
taskVars == <<pc, sessionVars, retries>>
reconVars == <<scanning, todo, adds, snap>>
history == <<dropped, doubled, contested>>
vars == <<rowVars, logs, hookVars, taskVars, reconVars, faults, history>>

-----------------------------------------------------------------------------
(* A message of the pipeline is named after what sends it: a payment's      *)
(* POST, a webhook delivery that reports SUCCESS, or a retry.               *)
Resends == Txns \X Copies
Tasks == Txns \cup Hooks \cup Resends
TxOf(k) ==
  IF k \in Hooks THEN note[k].tx ELSE IF k \in Resends THEN k[1] ELSE k

Statuses == {"absent", "initiated", "inr_collected", "upi_confirmed",
             "settled", "failed"}
Terminal == {"settled", "failed"}
Outcomes == {"SUCCESS", "FAILED", "PENDING"}

HookAllowed_Failed == {"initiated", "inr_collected", "failed"}
HookAllowed == {"initiated", "inr_collected"}

Settleable_Settled == {"inr_collected", "upi_confirmed", "settled"}
Settleable == {"inr_collected", "upi_confirmed"}

Running == {"fetch", "collect", "refresh", "price", "settle", "log", "ack",
            "retry", "retried"}
PCs == {"none", "deferred", "queued", "done"} \cup Running

Notification == [tx : Txns, status : Outcomes]
Log == [amount : Rates, status : {"checked", "pending"}]

Init ==
  /\ status = [t \in Txns |-> "absent"]
  /\ rate = [t \in Txns |-> NoRate]
  /\ expired = {}
  /\ logs = [t \in Txns |-> <<>>]
  /\ note \in [Hooks -> Notification]
  /\ hook = [h \in Hooks |-> "idle"]
  /\ pc = [k \in Tasks |-> "none"]
  /\ loaded = [k \in Tasks |-> NoRate]
  /\ quoted = [k \in Tasks |-> NoRate]
  /\ retries = [k \in Tasks |-> 0]
  /\ scanning = {}
  /\ todo = [r \in Recons |-> {}]
  /\ adds = [r \in Recons |-> {}]
  /\ snap = [r \in Recons |-> [t \in Txns |-> NoRate]]
  /\ faults = [f \in Faults |-> 0]
  /\ paid = [t \in Txns |-> <<>>]
  /\ dropped = {}
  /\ doubled = {}
  /\ contested = {}

Fault(f) ==
  /\ faults[f] < FaultLimit[f]
  /\ faults' = [faults EXCEPT ![f] = @ + 1]

SlotFree ==
  Cardinality({k \in Tasks : pc[k] \in Running}) + Cardinality(scanning)
    < Concurrency

(* Nobody in flight holds a view of payment t: a status it has acted on or  *)
(* will act on, in a commit to come.                                        *)
Quiet(t) ==
  /\ \A h \in Hooks : note[h].tx = t => hook[h] # "read"
  /\ \A k \in Tasks : TxOf(k) = t =>
       pc[k] \notin {"collect", "price", "settle"}

(* A SELECT of t, after which a handler that goes on holds a view.          *)
View(t, goesOn) ==
  /\ contested' = IF goesOn /\ ~ Quiet(t) THEN contested \cup {t} ELSE contested
  /\ UNCHANGED <<dropped, doubled>>

GiveUp(t) ==
  /\ dropped' = dropped \cup {t}
  /\ UNCHANGED <<doubled, contested>>

-----------------------------------------------------------------------------
(* The API process.                                                         *)

(* POST /payments: the row is committed, then a background task of the      *)
(* response is left to enqueue the pipeline.                                *)
Initiate(t) ==
  /\ status[t] = "absent"
  /\ status' = [status EXCEPT ![t] = "initiated"]
  /\ pc' = [pc EXCEPT ![t] = "deferred"]
  /\ UNCHANGED <<rate, expired, paid, logs, hookVars, sessionVars, retries,
                 reconVars, faults, history>>

(* FX_RATE_LOCK_TTL_SECONDS after initiation.                               *)
ExpireLock(t) ==
  /\ status[t] # "absent" /\ t \notin expired
  /\ expired' = expired \cup {t}
  /\ UNCHANGED <<status, rate, paid, logs, hookVars, taskVars, reconVars,
                 faults, history>>

(* process_upi_webhook up to its status check; a refusal is a 409.          *)
HookRead(h) ==
  LET allowed == status[note[h].tx] \in HookAllowed
  IN  /\ hook[h] = "idle"
      /\ status[note[h].tx] # "absent"
      /\ hook' = [hook EXCEPT ![h] = IF allowed THEN "read" ELSE "done"]
      /\ View(note[h].tx, allowed)
      /\ UNCHANGED <<rowVars, logs, note, taskVars, reconVars, faults>>

(* The commit of a SUCCESS notification, after which .delay is called.      *)
HookConfirm(h) ==
  /\ hook[h] = "read" /\ note[h].status = "SUCCESS"
  /\ status' = [status EXCEPT ![note[h].tx] = "upi_confirmed"]
  /\ hook' = [hook EXCEPT ![h] = "done"]
  /\ pc' = [pc EXCEPT ![h] = "deferred"]
  /\ UNCHANGED <<rate, expired, paid, logs, note, sessionVars, retries,
                 reconVars,
                 faults, history>>

(* The commit of a FAILED notification.                                     *)
HookFail(h) ==
  /\ hook[h] = "read" /\ note[h].status = "FAILED"
  /\ status' = [status EXCEPT ![note[h].tx] = "failed"]
  /\ hook' = [hook EXCEPT ![h] = "done"]
  /\ UNCHANGED <<rate, expired, paid, logs, note, taskVars, reconVars,
                 faults, history>>

(* Any other notification status changes nothing.                           *)
HookPending(h) ==
  /\ hook[h] = "read" /\ note[h].status = "PENDING"
  /\ hook' = [hook EXCEPT ![h] = "done"]
  /\ UNCHANGED <<rowVars, logs, note, taskVars, reconVars, faults, history>>

(* The API process dies, or its session fails, before the commit.           *)
HookRollback(h) ==
  /\ hook[h] = "read"
  /\ Fault("crash")
  /\ hook' = [hook EXCEPT ![h] = "done"]
  /\ UNCHANGED <<rowVars, logs, note, taskVars, reconVars, history>>

(* process_payment_pipeline.delay reaches the broker ...                    *)
Enqueue(k) ==
  /\ pc[k] = "deferred"
  /\ pc' = [pc EXCEPT ![k] = "queued"]
  /\ UNCHANGED <<rowVars, logs, hookVars, sessionVars, retries, reconVars,
                 faults, history>>

(* ... or does not: the broker is away and the exception is swallowed, or   *)
(* the API process dies between the commit and the call.                    *)
LoseEnqueue(k) ==
  /\ pc[k] = "deferred"
  /\ Fault("lost")
  /\ pc' = [pc EXCEPT ![k] = "done"]
  /\ GiveUp(TxOf(k))
  /\ UNCHANGED <<rowVars, logs, hookVars, sessionVars, retries, reconVars>>

-----------------------------------------------------------------------------
(* The Celery worker running process_payment_pipeline.                      *)

TaskStep(k, from, to) ==
  /\ pc[k] = from
  /\ pc' = [pc EXCEPT ![k] = to]

(* A worker process takes the message and opens a session.                  *)
TaskDeliver(k) ==
  /\ SlotFree
  /\ TaskStep(k, "queued", "fetch")
  /\ UNCHANGED <<rowVars, logs, hookVars, sessionVars, retries, reconVars,
                 faults, history>>

AfterLoad_SettledToo(s) == IF s = "initiated" THEN "collect" ELSE "price"

(* What the task does next, from the status its session has loaded.  It is  *)
(* asked after the first SELECT and again after the refresh; in between,    *)
(* and until its last commit, the task never looks at the row again.        *)
AfterLoad(s) ==
  CASE s = "initiated"    -> "collect"
    [] s \in Settleable   -> "price"
    [] OTHER              -> "ack"

TaskFetch(k) ==
  LET next == AfterLoad(status[TxOf(k)])
  IN  /\ TaskStep(k, "fetch", next)
      /\ loaded' = [loaded EXCEPT ![k] = rate[TxOf(k)]]
      /\ View(TxOf(k), next # "ack")
      /\ UNCHANGED <<rowVars, logs, hookVars, quoted, retries, reconVars, faults>>

(* simulate_inr_collection: its own status check reads the session's copy,  *)
(* so it cannot fail; the UPDATE overwrites the row's present status.       *)
TaskCollect(k) ==
  /\ TaskStep(k, "collect", "refresh")
  /\ status' = [status EXCEPT ![TxOf(k)] = "inr_collected"]
  /\ UNCHANGED <<rate, expired, paid, logs, hookVars, sessionVars, retries,
                 reconVars, faults, history>>

(* db.refresh(tx), the sleep of two seconds, and the choice that follows.   *)
TaskRefresh(k) ==
  LET goesOn == status[TxOf(k)] \in Settleable
  IN  /\ TaskStep(k, "refresh", IF goesOn THEN "price" ELSE "ack")
      /\ loaded' = [loaded EXCEPT ![k] = rate[TxOf(k)]]
      /\ View(TxOf(k), goesOn)
      /\ UNCHANGED <<rowVars, logs, hookVars, quoted, retries, reconVars, faults>>

(* The rates process_settlement may choose now: the locked one while the    *)
(* lock is live, and otherwise whatever fx_service.convert returns.         *)
Quotes_Flipped(t) == IF t \in expired THEN {LockedRate} ELSE Rates
Quotes(t) == IF t \in expired THEN Rates ELSE {LockedRate}

TaskPrice_RateFirst(k) ==
  /\ TaskStep(k, "price", "settle")
  /\ \E r \in Quotes(TxOf(k)) :
       /\ quoted' = [quoted EXCEPT ![k] = r]
       /\ rate' = [rate EXCEPT ![TxOf(k)] = r]
  /\ UNCHANGED <<status, expired, paid, logs, hookVars, loaded, retries, reconVars,
                 faults, history>>

TaskPrice(k) ==
  /\ TaskStep(k, "price", "settle")
  /\ \E r \in Quotes(TxOf(k)) : quoted' = [quoted EXCEPT ![k] = r]
  /\ UNCHANGED <<rowVars, logs, hookVars, loaded, retries, reconVars, faults,
                 history>>

(* The flush of fx_converted and the commit of settled are one transaction, *)
(* so nobody else ever sees fx_converted.  The ORM leaves a column whose    *)
(* value the session thinks unchanged out of the UPDATE.                    *)
TaskSettle(k) ==
  /\ TaskStep(k, "settle", "log")
  /\ status' = [status EXCEPT ![TxOf(k)] = "settled"]
  /\ rate' = [rate EXCEPT ![TxOf(k)] =
                IF loaded[k] = quoted[k] THEN @ ELSE quoted[k]]
  /\ paid' = [paid EXCEPT ![TxOf(k)] = Append(@, quoted[k])]
  /\ UNCHANGED <<expired, logs, hookVars, sessionVars, retries, reconVars,
                 faults, history>>

CloseSession(k) ==
  /\ loaded' = [loaded EXCEPT ![k] = NoRate]
  /\ quoted' = [quoted EXCEPT ![k] = NoRate]

(* The reconciliation entry, in a transaction of its own.                   *)
TaskLog(k) ==
  /\ TxOf(k) \notin Dust
  /\ TaskStep(k, "log", "ack")
  /\ logs' = [logs EXCEPT ![TxOf(k)] =
                Append(@, [amount |-> quoted[k], status |-> "checked"])]
  /\ UNCHANGED <<rowVars, hookVars, sessionVars, retries, reconVars, faults,
                 history>>

(* The message is acknowledged only when the task has returned, or raised   *)
(* Retry, Reject or, out of retries, its exception.                         *)
TaskAck(k) ==
  /\ pc[k] \in {"ack", "retried"}
  /\ pc' = [pc EXCEPT ![k] = "done"]
  /\ CloseSession(k)
  /\ UNCHANGED <<rowVars, logs, hookVars, retries, reconVars, faults, history>>

(* A net settlement of zero: the variance is divided by it after the        *)
(* settlement has been committed, and the exception leaves the session.     *)
TaskDustLog(k) ==
  /\ TxOf(k) \in Dust
  /\ TaskStep(k, "log", "retry")
  /\ CloseSession(k)
  /\ UNCHANGED <<rowVars, logs, hookVars, retries, reconVars, faults, history>>

(* Any other exception of a session: the open transaction is rolled back.   *)
TaskError(k) ==
  /\ pc[k] \in Running \ {"ack", "retry", "retried"}
  /\ Fault("error")
  /\ pc' = [pc EXCEPT ![k] = "retry"]
  /\ CloseSession(k)
  /\ UNCHANGED <<rowVars, logs, hookVars, retries, reconVars, history>>

(* raise self.retry(exc=exc, countdown=5) sends a message, under a name m   *)
(* that is not in use, with the task's own message still unacknowledged.    *)
TaskRetry_OffByOne(k, m) ==
  /\ retries[k] <= MaxRetries
  /\ TxOf(m) = TxOf(k) /\ pc[m] \in {"none", "done"}
  /\ pc[k] = "retry"
  /\ pc' = [pc EXCEPT ![k] = "retried", ![m] = "queued"]
  /\ retries' = [retries EXCEPT ![m] = retries[k] + 1]
  /\ UNCHANGED <<rowVars, logs, hookVars, sessionVars, reconVars, faults, history>>

TaskRetry(k, m) ==
  /\ retries[k] < MaxRetries
  /\ TxOf(m) = TxOf(k) /\ pc[m] \in {"none", "done"}
  /\ pc[k] = "retry"
  /\ pc' = [pc EXCEPT ![k] = "retried", ![m] = "queued"]
  /\ retries' = [retries EXCEPT ![m] = retries[k] + 1]
  /\ UNCHANGED <<rowVars, logs, hookVars, sessionVars, reconVars, faults, history>>

(* The broker is away: self.retry raises Reject, without a requeue.         *)
TaskRetryLost(k) ==
  /\ retries[k] < MaxRetries
  /\ TaskStep(k, "retry", "ack")
  /\ Fault("lost")
  /\ GiveUp(TxOf(k))
  /\ UNCHANGED <<rowVars, logs, hookVars, sessionVars, retries, reconVars>>

(* The message was the last one: self.retry raises the exception itself.    *)
TaskGiveUp(k) ==
  /\ retries[k] = MaxRetries
  /\ TaskStep(k, "retry", "ack")
  /\ GiveUp(TxOf(k))
  /\ UNCHANGED <<rowVars, logs, hookVars, sessionVars, retries, reconVars, faults>>

(* The worker process is lost: task_acks_late and                           *)
(* task_reject_on_worker_lost give the message back to the broker, also     *)
(* when the task has sent its retry already.                                *)
TaskCrash_AcksEarly(k) ==
  /\ pc[k] \in Running
  /\ Fault("crash")
  /\ pc' = [pc EXCEPT ![k] = "done"]
  /\ CloseSession(k)
  /\ UNCHANGED <<rowVars, logs, hookVars, retries, reconVars, history>>

TaskCrash(k) ==
  /\ pc[k] \in Running
  /\ Fault("crash")
  /\ pc' = [pc EXCEPT ![k] = "queued"]
  /\ CloseSession(k)
  /\ doubled' = IF pc[k] = "retried" THEN doubled \cup {TxOf(k)} ELSE doubled
  /\ UNCHANGED <<rowVars, logs, hookVars, retries, reconVars, dropped, contested>>

-----------------------------------------------------------------------------
(* reconcile_settlements, sent by beat every 60 seconds.                    *)

ReconRest(r) ==
  /\ scanning' = scanning \ {r}
  /\ todo' = [todo EXCEPT ![r] = {}]
  /\ adds' = [adds EXCEPT ![r] = {}]
  /\ snap' = [snap EXCEPT ![r] = [t \in Txns |-> NoRate]]

(* The SELECT of settled payments, loading their settlement amounts.        *)
Selected == {t \in Txns : status[t] = "settled"}

ReconSelect_AtLockedRate(r) ==
  /\ r \notin scanning /\ SlotFree
  /\ scanning' = scanning \cup {r}
  /\ todo' = [todo EXCEPT ![r] = Selected]
  /\ snap' = [snap EXCEPT ![r] =
                [t \in Txns |-> IF t \in Selected THEN LockedRate ELSE NoRate]]
  /\ UNCHANGED <<rowVars, logs, hookVars, taskVars, adds, faults, history>>

ReconSelect(r) ==
  /\ r \notin scanning /\ SlotFree
  /\ scanning' = scanning \cup {r}
  /\ todo' = [todo EXCEPT ![r] = Selected]
  /\ snap' = [snap EXCEPT ![r] =
                [t \in Txns |-> IF t \in Selected THEN rate[t] ELSE NoRate]]
  /\ UNCHANGED <<rowVars, logs, hookVars, taskVars, adds, faults, history>>

(* The look-up of one payment's entries: existing.scalar_one_or_none()      *)
(* yields None, the one entry, or raises MultipleResultsFound.              *)
ReconCheck_NoLookup(r, t) ==
  /\ r \in scanning /\ t \in todo[r]
  /\ todo' = [todo EXCEPT ![r] = @ \ {t}]
  /\ adds' = [adds EXCEPT ![r] = @ \cup {t}]
  /\ UNCHANGED <<rowVars, logs, hookVars, taskVars, scanning, snap, faults,
                 history>>

ReconCheck(r, t) ==
  /\ r \in scanning /\ t \in todo[r]
  /\ Len(logs[t]) <= 1
  /\ todo' = [todo EXCEPT ![r] = @ \ {t}]
  /\ adds' = [adds EXCEPT ![r] = IF logs[t] = <<>> THEN @ \cup {t} ELSE @]
  /\ UNCHANGED <<rowVars, logs, hookVars, taskVars, scanning, snap, faults,
                 history>>

(* The exception ends the run: the entries it was going to add are lost,    *)
(* for every payment.                                                       *)
ReconAbort(r, t) ==
  /\ r \in scanning /\ t \in todo[r]
  /\ Len(logs[t]) > 1
  /\ ReconRest(r)
  /\ UNCHANGED <<rowVars, logs, hookVars, taskVars, faults, history>>

(* The one commit at the end of the run.                                    *)
ReconCommit_NoCommit(r) ==
  /\ r \in scanning /\ todo[r] = {}
  /\ ReconRest(r)
  /\ UNCHANGED <<rowVars, logs, hookVars, taskVars, faults, history>>

ReconCommit(r) ==
  /\ r \in scanning /\ todo[r] = {}
  /\ logs' = [t \in Txns |->
                IF t \in adds[r]
                THEN Append(logs[t],
                            [amount |-> snap[r][t], status |-> "pending"])
                ELSE logs[t]]
  /\ ReconRest(r)
  /\ UNCHANGED <<rowVars, hookVars, taskVars, faults, history>>

ReconCrash(r) ==
  /\ r \in scanning
  /\ Fault("crash")
  /\ ReconRest(r)
  /\ UNCHANGED <<rowVars, logs, hookVars, taskVars, history>>

-----------------------------------------------------------------------------
TaskWork(k) ==
  \/ TaskFetch(k) \/ TaskCollect(k) \/ TaskRefresh(k) \/ TaskPrice(k)
  \/ TaskSettle(k) \/ TaskLog(k) \/ TaskDustLog(k) \/ TaskAck(k)
  \/ TaskGiveUp(k) \/ \E m \in Txns \cup Resends : TaskRetry(k, m)

ReconWork(r) ==
  \/ ReconCommit(r)
  \/ \E t \in Txns : ReconCheck(r, t) \/ ReconAbort(r, t)

HookCommit(h) == HookConfirm(h) \/ HookFail(h) \/ HookPending(h)

Next ==
  \/ \E t \in Txns : Initiate(t) \/ ExpireLock(t)
  \/ \E h \in Hooks : HookRead(h) \/ HookCommit(h) \/ HookRollback(h)
  \/ \E k \in Tasks : \/ Enqueue(k) \/ LoseEnqueue(k) \/ TaskDeliver(k)
                      \/ TaskWork(k) \/ TaskError(k) \/ TaskCrash(k)
                      \/ TaskRetryLost(k)
  \/ \E r \in Recons : ReconSelect(r) \/ ReconWork(r) \/ ReconCrash(r)

Spec == Init /\ [][Next]_vars

(* Handlers and tasks that have started are run to their end, and the       *)
(* broker's list is first in first out, so a queued message is not passed   *)
(* over for ever.  Nothing makes a payment arrive, a notification come, a   *)
(* lock expire or a fault happen.                                           *)
Fairness ==
  /\ \A h \in Hooks : WF_vars(HookCommit(h))
  /\ \A k \in Tasks : /\ WF_vars(Enqueue(k)) /\ WF_vars(TaskWork(k))
                      /\ SF_vars(TaskDeliver(k))
  /\ \A r \in Recons : SF_vars(ReconSelect(r)) /\ WF_vars(ReconWork(r))

FairSpec == Spec /\ Fairness

-----------------------------------------------------------------------------
(* Properties.                                                              *)

(* Every variable has its type; in particular no task is sent more often    *)
(* than max_retries allows, and no entry is written without an amount.      *)
TypeOK ==
  /\ status \in [Txns -> Statuses]
  /\ rate \in [Txns -> Rates \cup {NoRate}]
  /\ expired \subseteq Txns
  /\ logs \in [Txns -> Seq(Log)]
  /\ note \in [Hooks -> Notification]
  /\ hook \in [Hooks -> {"idle", "read", "done"}]
  /\ pc \in [Tasks -> PCs]
  /\ loaded \in [Tasks -> Rates \cup {NoRate}]
  /\ quoted \in [Tasks -> Rates \cup {NoRate}]
  /\ retries \in [Tasks -> 0 .. MaxRetries]
  /\ scanning \subseteq Recons
  /\ todo \in [Recons -> SUBSET Txns]
  /\ adds \in [Recons -> SUBSET Txns]
  /\ snap \in [Recons -> [Txns -> Rates \cup {NoRate}]]
  /\ faults \in [Faults -> Nat]
  /\ paid \in [Txns -> Seq(Rates)]
  /\ dropped \subseteq Txns /\ doubled \subseteq Txns /\ contested \subseteq Txns

Open == {"initiated", "inr_collected", "upi_confirmed"}
WillSettle == {"deferred", "queued", "fetch", "collect", "refresh", "price",
               "settle", "retry"}

(* A payment that is neither settled nor failed has a pipeline task that    *)
(* has yet to settle it, however webhooks, retries, redeliveries and stale  *)
(* writes interleave.  The only ways to strand a payment are the two that   *)
(* dropped records: an enqueue that was lost (the exception that            *)
(* process_upi_webhook swallows) and a task out of retries.                 *)
NotStranded ==
  \A t \in Txns : status[t] \in Open =>
    \/ t \in dropped
    \/ \E k \in Tasks : TxOf(k) = t /\ pc[k] \in WillSettle

(* While a payment's rate lock is live, everything recorded about it is at  *)
(* the locked rate: the row, every settlement and every reconciliation      *)
(* entry, even when two tasks settle it twice.                              *)
LockHonoured ==
  \A t \in Txns \ expired :
    /\ rate[t] \in {NoRate, LockedRate}
    /\ \A i \in DOMAIN paid[t] : paid[t][i] = LockedRate
    /\ \A i \in DOMAIN logs[t] : logs[t][i].amount = LockedRate

(* Once a payment is settled or failed and no handler that read it earlier  *)
(* is still in flight, its row never changes again: late and duplicate      *)
(* webhooks and redelivered tasks find the status checks of                 *)
(* process_upi_webhook and of the pipeline task closed.                     *)
TerminalStable ==
  [][\A t \in Txns :
       status[t] \in Terminal /\ Quiet(t) =>
         status'[t] = status[t] /\ rate'[t] = rate[t] /\ Quiet(t)']_vars

(* No webhook has read the payment yet.                                     *)
Direct(t) == \A h \in Hooks : note[h].tx = t => hook[h] = "idle"

(* A payment no webhook has touched is settled at most once, at any         *)
(* concurrency and through errors, retries, crashes and redeliveries, with  *)
(* the one exception that doubled records: a worker lost after its task has *)
(* sent the retry and before the message is acknowledged leaves two         *)
(* messages of the payment.                                                 *)
DirectFlowPaysOnce ==
  \A t \in Txns \ doubled : Direct(t) => Len(paid[t]) <= 1

Entries(t, s) == {i \in DOMAIN logs[t] : logs[t][i].status = s}

(* The reconciliation log invents nothing: a payment has no more checked    *)
(* entries than settlements, and the amount of every entry, also of those   *)
(* the periodic task adds, is one that was really settled.                  *)
LogBacked ==
  \A t \in Txns :
    /\ Cardinality(Entries(t, "checked")) <= Len(paid[t])
    /\ \A i \in DOMAIN logs[t] :
         \E j \in DOMAIN paid[t] : paid[t][j] = logs[t][i].amount

(* The rate in the row is one the payment was really settled at, although   *)
(* get_rate commits the session in the middle of a settlement, crashes come *)
(* between its commits, and the ORM may leave the column out of an UPDATE.  *)
RateWasPaid ==
  \A t \in Txns :
    rate[t] # NoRate => \E j \in DOMAIN paid[t] : paid[t][j] = rate[t]

(* Overlapping reconciliation runs may each add an entry for a payment, but *)
(* no run adds a second one, however often beat starts it.                  *)
OnePendingPerRun ==
  \A t \in Txns :
    Cardinality(Entries(t, "pending")) <= Cardinality(Recons)

(* A payment is eventually settled or failed unless its pipeline was        *)
(* dropped: crashes, retries and racing webhooks only delay it.             *)
EventuallyClosed ==
  \A t \in Txns :
    status[t] \in Open ~> (status[t] \in Terminal \/ t \in dropped)

(* "Every settled transaction generates a ReconciliationLog entry"          *)
(* (requirement.md): process_settlement writes it or the periodic task      *)
(* does, unless two entries of some payment abort each of its runs.         *)
EverySettledLogged ==
  \A t \in Txns : status[t] = "settled" ~>
    logs[t] # <<>> \/ \E u \in Txns : Len(logs[u]) > 1

(* Each settlement brings one entry.  The periodic task may look between a  *)
(* settlement and its entry, and two of its runs at once, so it adds more,  *)
(* but fewer than there are slots: with a single worker none, with the two  *)
(* of the compose file one, whatever webhooks, crashes and retries do.      *)
FewerStrayEntriesThanSlots ==
  \A t \in Txns : Len(logs[t]) < Len(paid[t]) + Concurrency

(* process_settlement is the "full settlement pipeline for a transaction in *)
(* inr_collected or upi_confirmed state": the row a settlement commits over *)
(* is in one of these states.                                               *)
SettlesOnlyCollected ==
  [][\A t \in Txns : paid'[t] # paid[t] => status[t] \in Settleable]_vars

(* reconcile_settlements is to "find settled transactions from last 24h     *)
(* without a reconciliation log and create pending entries for them": a run *)
(* that no crash cuts short leaves every payment it selected with an entry. *)
RunLogsAll ==
  [][\A r \in scanning \ scanning' : faults' = faults =>
       \A t \in Txns : snap[r][t] # NoRate => logs'[t] # <<>>]_vars

(* A run that no crash cuts short leaves every payment it selected with an  *)
(* entry, unless one of these has two entries: nothing else keeps a payment *)
(* out of the log, whatever other runs and tasks commit in the meantime.    *)
RunEndsExplained ==
  [][\A r \in scanning \ scanning' : faults' = faults =>
       \/ \A t \in Txns : snap[r][t] # NoRate => logs'[t] # <<>>
       \/ \E t \in Txns : snap[r][t] # NoRate /\ Len(logs[t]) > 1]_vars

-----------------------------------------------------------------------------
(* What the documents promise of a payment, see PaymentLifecycle.           *)
Lifecycle == INSTANCE PaymentLifecycle WITH
  stage <- status,
  payouts <- [t \in Txns |-> Len(paid[t])]

(* The pipeline keeps that promise, webhooks included and at any            *)
(* concurrency, for every payment of which no two handlers have held views  *)
(* at once: no crash, redelivery, retry or lost enqueue by itself moves a   *)
(* payment backwards, out of order, or pays it twice.                       *)
LifecycleSpec == Lifecycle!Spec
=============================================================================
