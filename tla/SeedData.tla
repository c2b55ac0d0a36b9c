------------------------------- MODULE SeedData -------------------------------
(***************************************************************************)
(* Runs of seeds.py beside each other and beside the two endpoints that    *)
(* create merchants.  A merchant is named by its e-mail, which is unique   *)
(* in the table: PostgreSQL makes an INSERT wait for an uncommitted one of *)
(* the same e-mail, then lets it proceed or fail.  A merchant's account is *)
(* written in the transaction that writes the merchant; that two random    *)
(* account numbers are equal is left out.                                  *)
(***************************************************************************)
EXTENDS FiniteSets, Sequences, Naturals

CONSTANTS
  Runs,    \* executions of seeds.py
  Calls    \* calls of POST /merchants and POST /merchants/onboard

Nobody == "nobody"

ASSUME IdsAssumption == Runs \cap Calls = {} /\ Nobody \notin Runs \cup Calls

(* MERCHANTS, in the order of the list, which every run follows.            *)
MERCHANTS == <<"Acme SaaS", "Berlin Marketplace", "Singapore Retailer">>
Emails == {MERCHANTS[i] : i \in DOMAIN MERCHANTS}

Order_OfEachRun(s) ==
  IF s = CHOOSE r \in Runs : TRUE THEN <<MERCHANTS[3], MERCHANTS[2], MERCHANTS[1]>> ELSE MERCHANTS
Order(s) == MERCHANTS

(* sample_txns: the merchant and the status of each.                        *)
SampleTxns == <<[of |-> 1, status |-> "settled"], [of |-> 1, status |-> "inr_collected"],
                [of |-> 2, status |-> "fx_converted"], [of |-> 3, status |-> "initiated"],
                [of |-> 3, status |-> "settled"]>>

VARIABLES
  kyb,           \* kyb_status of the committed merchants, "absent" without a row
  account,       \* the merchants with a committed virtual account
  transactions,  \* the committed samples: the run and the index of each
  pc, at,        \* each run: what it does next, and for which merchant of its list
  call, email,   \* each call: what it does next, and the e-mail it is for
  holder         \* who has inserted a merchant and not committed it yet

tables == <<kyb, account, transactions>>
runVars == <<pc, at>>
callVars == <<call, email>>
vars == <<tables, runVars, callVars, holder>>

Running == {"look", "fetch", "insert", "commit", "samples"}

Init ==
  /\ kyb = [e \in Emails |-> "absent"]
  /\ account = {}
  /\ transactions = {}
  /\ pc = [s \in Runs |-> "idle"]
  /\ at = [s \in Runs |-> 1]
  /\ call = [c \in Calls |-> "idle"]
  /\ email \in [Calls -> Emails]
  /\ holder = [e \in Emails |-> Nobody]

Current(s) == Order(s)[at[s]]
Held(w) == {e \in Emails : holder[e] = w}
Release(w) == holder' = [e \in Emails |-> IF holder[e] = w THEN Nobody ELSE holder[e]]

Goto(s, label) == pc' = [pc EXCEPT ![s] = label]

(* The end of the loop body.                                                *)
NextMerchant(s) ==
  IF at[s] < Len(MERCHANTS)
  THEN Goto(s, "look") /\ at' = [at EXCEPT ![s] = @ + 1]
  ELSE Goto(s, "commit") /\ UNCHANGED at

-----------------------------------------------------------------------------
(* seed().                                                                  *)

Start(s) ==
  /\ pc[s] = "idle" /\ Goto(s, "look")
  /\ UNCHANGED <<tables, at, callVars, holder>>

(* The SELECT by e-mail sees committed rows.                                *)
Look(s) ==
  /\ pc[s] = "look"
  /\ Goto(s, IF kyb[Current(s)] = "absent" THEN "insert" ELSE "fetch")
  /\ UNCHANGED <<tables, at, callVars, holder>>

(* scalar_one raises when an existing merchant has no account.              *)
Fetch(s) ==
  /\ pc[s] = "fetch"
  /\ \/ Current(s) \in account /\ NextMerchant(s) /\ UNCHANGED holder
     \/ Current(s) \notin account /\ Goto(s, "no account") /\ Release(s) /\ UNCHANGED at
  /\ UNCHANGED <<tables, callVars>>

(* The flushes of merchant and account, once no other transaction holds the *)
(* e-mail.  A merchant committed since Look is an IntegrityError.           *)
Insert_Upsert(s) ==
  /\ pc[s] = "insert" /\ holder[Current(s)] = Nobody
  /\ holder' = [holder EXCEPT ![Current(s)] = s] /\ NextMerchant(s)
  /\ UNCHANGED <<tables, callVars>>

Insert(s) ==
  /\ pc[s] = "insert" /\ holder[Current(s)] = Nobody
  /\ \/ /\ kyb[Current(s)] = "absent"
        /\ holder' = [holder EXCEPT ![Current(s)] = s] /\ NextMerchant(s)
     \/ /\ kyb[Current(s)] # "absent"
        /\ Goto(s, "duplicate") /\ Release(s) /\ UNCHANGED at
  /\ UNCHANGED <<tables, callVars>>

(* The first commit: the merchants, approved, and their accounts.           *)
CommitMerchants_ApprovesAll(s) ==
  /\ pc[s] = "commit" /\ Goto(s, "samples")
  /\ kyb' = [e \in Emails |-> "APPROVED"]
  /\ account' = account \cup Held(s)
  /\ Release(s)
  /\ UNCHANGED <<transactions, at, callVars>>

CommitMerchants(s) ==
  /\ pc[s] = "commit" /\ Goto(s, "samples")
  /\ kyb' = [e \in Emails |-> IF e \in Held(s) THEN "APPROVED" ELSE kyb[e]]
  /\ account' = account \cup Held(s)
  /\ Release(s)
  /\ UNCHANGED <<transactions, at, callVars>>

(* The second commit: the samples, whatever the table holds already.        *)
CommitSamples_OneByOne(s) ==
  /\ pc[s] = "samples"
  /\ \E i \in DOMAIN SampleTxns :
       /\ <<s, i>> \notin transactions
       /\ transactions' = transactions \cup {<<s, i>>}
       /\ IF i = Len(SampleTxns) THEN Goto(s, "done") ELSE UNCHANGED pc
  /\ UNCHANGED <<kyb, account, at, callVars, holder>>

CommitSamples(s) ==
  /\ pc[s] = "samples" /\ Goto(s, "done")
  /\ transactions' = transactions \cup {<<s, i>> : i \in DOMAIN SampleTxns}
  /\ UNCHANGED <<kyb, account, at, callVars, holder>>

(* The process is killed: its transaction is rolled back.                   *)
Crash(s) ==
  /\ pc[s] \in Running /\ Goto(s, "crashed") /\ Release(s)
  /\ UNCHANGED <<tables, at, callVars>>

-----------------------------------------------------------------------------
(* The API.                                                                 *)

(* create_merchant and onboard_merchant up to the commit; a duplicate       *)
(* e-mail is a 500.                                                         *)
CallInsert(c) ==
  /\ call[c] = "idle" /\ holder[email[c]] = Nobody
  /\ \/ /\ kyb[email[c]] = "absent"
        /\ holder' = [holder EXCEPT ![email[c]] = c]
        /\ call' = [call EXCEPT ![c] = "commit"]
     \/ /\ kyb[email[c]] # "absent"
        /\ call' = [call EXCEPT ![c] = "refused"] /\ UNCHANGED holder
  /\ UNCHANGED <<tables, runVars, email>>

(* POST /merchants approves the merchant at once, /merchants/onboard not.   *)
CallCommit_MerchantFirst(c) ==
  /\ call[c] = "commit" /\ call' = [call EXCEPT ![c] = "done"]
  /\ \E k \in {"APPROVED", "PENDING"} : kyb' = [kyb EXCEPT ![email[c]] = k]
  /\ Release(c)
  /\ UNCHANGED <<account, transactions, runVars, email>>

CallCommit(c) ==
  /\ call[c] = "commit" /\ call' = [call EXCEPT ![c] = "done"]
  /\ \E k \in {"APPROVED", "PENDING"} : kyb' = [kyb EXCEPT ![email[c]] = k]
  /\ account' = account \cup {email[c]}
  /\ Release(c)
  /\ UNCHANGED <<transactions, runVars, email>>

CallFail(c) ==
  /\ call[c] = "commit" /\ call' = [call EXCEPT ![c] = "refused"] /\ Release(c)
  /\ UNCHANGED <<tables, runVars, email>>

(* auto_approve_kyb, as a whole.                                            *)
Review(e) ==
  /\ kyb[e] = "PENDING" /\ kyb' = [kyb EXCEPT ![e] = "APPROVED"]
  /\ UNCHANGED <<account, transactions, runVars, callVars, holder>>

SeedStep(s) ==
  \/ Start(s) \/ Look(s) \/ Fetch(s) \/ Insert(s)
  \/ CommitMerchants(s) \/ CommitSamples(s) \/ Crash(s)

Next ==
  \/ \E s \in Runs : SeedStep(s)
  \/ \E c \in Calls : CallInsert(c) \/ CallCommit(c) \/ CallFail(c)
  \/ \E e \in Emails : Review(e)

Spec == Init /\ [][Next]_vars

-----------------------------------------------------------------------------
(* Properties.                                                              *)

(* Only an absent merchant is held, and only by a transaction that is open. *)
TypeOK ==
  /\ kyb \in [Emails -> {"absent", "PENDING", "APPROVED"}]
  /\ account \subseteq Emails
  /\ transactions \subseteq Runs \X DOMAIN SampleTxns
  /\ pc \in [Runs -> Running \cup {"idle", "done", "crashed", "duplicate", "no account"}]
  /\ at \in [Runs -> DOMAIN MERCHANTS]
  /\ call \in [Calls -> {"idle", "commit", "done", "refused"}]
  /\ email \in [Calls -> Emails]
  /\ holder \in [Emails -> Runs \cup Calls \cup {Nobody}]
  /\ \A e \in Emails : holder[e] # Nobody =>
       /\ kyb[e] = "absent"
       /\ \/ holder[e] \in Runs /\ pc[holder[e]] \in Running \ {"samples"}
          \/ holder[e] \in Calls /\ call[holder[e]] = "commit"

(* No run of the seeds is stopped by a merchant without an account: every   *)
(* other writer of merchants commits the two together.                      *)
AccountsFound == \A s \in Runs : pc[s] # "no account"

(* A run leaves all its samples, or none; and a run that leaves some leaves *)
(* all the merchants, whoever created them.                                 *)
SamplesWhole ==
  \A s \in Runs :
    (\E i \in DOMAIN SampleTxns : <<s, i>> \in transactions) =>
      /\ \A i \in DOMAIN SampleTxns : <<s, i>> \in transactions
      /\ \A e \in Emails : kyb[e] # "absent" /\ e \in account

(* Runs and calls that wait for each other's uncommitted merchants never    *)
(* wait in a circle: of those that hold any, one can go on.                 *)
Waits(s) == pc[s] = "insert" /\ holder[Current(s)] # Nobody
NoneWaitsForEver ==
  (\E s \in Runs : Waits(s)) =>
    \E e \in Emails : holder[e] \in Calls \/ (holder[e] \in Runs /\ ~ Waits(holder[e]))

(* "Idempotent: skip if already exists" (seeds.py): no step of a run        *)
(* changes a merchant that is in the table, one under review included.      *)
SeedsSkipExisting ==
  [][\A s \in Runs : pc'[s] # pc[s] =>
       \A e \in Emails : kyb[e] # "absent" => kyb'[e] = kyb[e]]_vars
===============================================================================
