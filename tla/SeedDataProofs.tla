---------------------------- MODULE SeedDataProofs ----------------------------
(***************************************************************************)
(* Theorems about SeedData, for every number of runs of the seeds and of   *)
(* calls beside them.                                                      *)
(***************************************************************************)
EXTENDS SeedData, TLAPS

(* The merchants a run is through with: found, or inserted by itself.       *)
Through(s) ==
  {MERCHANTS[i] : i \in {j \in DOMAIN MERCHANTS :
                            j < at[s] \/ pc[s] \in {"commit", "samples"}}}

(* A call that has inserted its merchant holds it until its commit.         *)
CallsHold == \A c \in Calls : call[c] = "commit" => holder[email[c]] = c

(* Merchants come with their accounts.                                      *)
WithAccounts == \A e \in Emails : kyb[e] # "absent" => e \in account

(* A run holds only what it is through with, and all of that is in the      *)
(* table or held by the run; it asks for the account of a merchant that is  *)
(* there; and only a run that is done has left samples: all of them.        *)
RunInv(s) ==
  /\ \A e \in Emails : holder[e] = s => e \in Through(s)
  /\ pc[s] \in Running \cup {"idle"} =>
       \A e \in Through(s) : kyb[e] # "absent" \/ holder[e] = s
  /\ pc[s] = "fetch" => kyb[Current(s)] # "absent"
  /\ pc[s] # "no account"
  /\ \A i \in DOMAIN SampleTxns : <<s, i>> \in transactions <=> pc[s] = "done"
  /\ pc[s] = "done" => \A e \in Emails : kyb[e] # "absent"

SeedInv == TypeOK /\ CallsHold /\ WithAccounts /\ \A s \in Runs : RunInv(s)

-----------------------------------------------------------------------------
(* The list has three merchants, each at one place.                         *)
LEMMA MerchantList ==
  /\ DOMAIN MERCHANTS = 1..3 /\ Len(MERCHANTS) = 3
  /\ Emails = {MERCHANTS[1], MERCHANTS[2], MERCHANTS[3]}
  /\ \A i, j \in 1..3 : MERCHANTS[i] = MERCHANTS[j] => i = j
<1>1. DOMAIN MERCHANTS = 1..3 /\ Len(MERCHANTS) = 3
  BY DEF MERCHANTS
<1>2. Emails = {MERCHANTS[1], MERCHANTS[2], MERCHANTS[3]}
  <2>1. Emails = {MERCHANTS[i] : i \in 1..3}
    BY <1>1 DEF Emails
  <2>2. \A i : i \in 1..3 <=> i = 1 \/ i = 2 \/ i = 3
    OBVIOUS
  <2> QED
    BY <2>1, <2>2
<1>3. /\ MERCHANTS[1] = "Acme SaaS" /\ MERCHANTS[2] = "Berlin Marketplace"
      /\ MERCHANTS[3] = "Singapore Retailer"
  BY DEF MERCHANTS
<1>4. \A i, j \in 1..3 : MERCHANTS[i] = MERCHANTS[j] => i = j
  <2>1. /\ MERCHANTS[1] # MERCHANTS[2] /\ MERCHANTS[1] # MERCHANTS[3]
        /\ MERCHANTS[2] # MERCHANTS[3]
    BY <1>3
  <2>2. \A i : i \in 1..3 <=> i = 1 \/ i = 2 \/ i = 3
    OBVIOUS
  <2> QED
    BY <2>1, <2>2
<1> QED
  BY <1>1, <1>2, <1>4

(* The image of one element more.                                           *)
LEMMA ImageAdds ==
  ASSUME NEW f, NEW A, NEW x
  PROVE  {f[i] : i \in A \cup {x}} = {f[i] : i \in A} \cup {f[x]}
OBVIOUS

(* What a run is through with, once it has gone on to the next merchant, is *)
(* that and what it was at; a run past the list is through with all of it.  *)
LEMMA ThroughStep ==
  ASSUME TypeOK, NEW s \in Runs
  PROVE  /\ Current(s) \in Emails /\ Through(s) \subseteq Emails
         /\ pc[s] \in {"commit", "samples"} => Through(s) = Emails
         /\ NextMerchant(s) /\ pc[s] \notin {"commit", "samples"} =>
              Through(s)' = Through(s) \cup {Current(s)}
<1> at[s] \in 1..3
  BY MerchantList DEF TypeOK
<1>1. Current(s) = MERCHANTS[at[s]]
  BY DEF Current, Order
<1>2. Through(s) = {MERCHANTS[i] : i \in {j \in 1..3 : j < at[s] \/ pc[s] \in {"commit", "samples"}}}
  BY MerchantList DEF Through
<1>3. Through(s)' = {MERCHANTS[i] : i \in {j \in 1..3 : j < at'[s] \/ pc'[s] \in {"commit", "samples"}}}
  BY MerchantList DEF Through
<1>4. ASSUME NextMerchant(s), pc[s] \notin {"commit", "samples"}
      PROVE  Through(s)' = Through(s) \cup {MERCHANTS[at[s]]}
  <2>1. CASE at[s] < 3
    <3>1. pc'[s] = "look" /\ at'[s] = at[s] + 1
      BY <1>4, <2>1, MerchantList DEF NextMerchant, Goto, TypeOK
    <3>2. {j \in 1..3 : j < at'[s] \/ pc'[s] \in {"commit", "samples"}}
            = {j \in 1..3 : j < at[s] \/ pc[s] \in {"commit", "samples"}} \cup {at[s]}
      BY <1>4, <3>1
    <3> QED
      BY <1>2, <1>3, <3>2, ImageAdds
  <2>2. CASE at[s] = 3
    <3>1. pc'[s] = "commit"
      <4>1. ~ (at[s] < Len(MERCHANTS))
        BY <2>2, MerchantList
      <4> QED
        BY <1>4, <4>1 DEF NextMerchant, Goto, TypeOK
    <3>2. \A j \in 1..3 : j < at[s] \/ j = at[s]
      BY <2>2
    <3> QED
      BY <1>2, <1>3, <1>4, <3>1, <3>2
  <2> QED
    BY <2>1, <2>2
<1> QED
  BY <1>1, <1>2, <1>4, MerchantList

(* The tables are empty at first, and nobody holds anything.                *)
LEMMA SeedInit == Init => SeedInv
<1> SUFFICES ASSUME Init PROVE SeedInv
  OBVIOUS
<1> USE DEF Init
<1>1. TypeOK
  BY MerchantList DEF TypeOK, Running
<1>2. CallsHold /\ WithAccounts
  BY DEF CallsHold, WithAccounts
<1>3. ASSUME NEW s \in Runs PROVE RunInv(s)
  <2>1. Through(s) = {}
    BY MerchantList DEF Through
  <2>2. \A e \in Emails : holder[e] # s
    BY IdsAssumption
  <2> QED
    BY <2>1, <2>2 DEF RunInv
<1> QED
  BY <1>1, <1>2, <1>3 DEF SeedInv

-----------------------------------------------------------------------------
(* Types.  Releasing a holder's merchants leaves the others held.           *)
LEMMA Released ==
  ASSUME TypeOK, NEW w, Release(w)
  PROVE  /\ holder' \in [Emails -> Runs \cup Calls \cup {Nobody}]
         /\ \A e \in Emails :
              /\ holder[e] = w => holder'[e] = Nobody
              /\ holder[e] # w => holder'[e] = holder[e]
  BY DEF Release, TypeOK

(* A run goes on to a position in the list.                                 *)
LEMMA NextMerchantType ==
  ASSUME TypeOK, NEW s \in Runs, NextMerchant(s)
  PROVE  /\ at' \in [Runs -> DOMAIN MERCHANTS]
         /\ \E l \in {"look", "commit"} : pc' = [pc EXCEPT ![s] = l]
         /\ \A r \in Runs : r # s => at'[r] = at[r]
<1> at[s] \in 1..3 /\ at \in [Runs -> 1..3]
  BY MerchantList DEF TypeOK
<1>1. CASE at[s] < 3
  BY <1>1, MerchantList DEF NextMerchant, Goto
<1>2. CASE ~ (at[s] < 3)
  BY <1>2, MerchantList DEF NextMerchant, Goto
<1> QED
  BY <1>1, <1>2

(* The samples of a run are rows of the table.                              *)
LEMMA SamplesOf ==
  ASSUME NEW R, NEW s \in R, NEW I
  PROVE  {<<s, i>> : i \in I} \subseteq R \X I
OBVIOUS

(* What a step of w, a run or a call, leaves as it was: the other runs and  *)
(* calls, and every merchant but those w takes, gives back or commits; a    *)
(* review approves a merchant that is there.                                *)
Effects(w) ==
  /\ \A r \in Runs : r # w => pc'[r] = pc[r] /\ at'[r] = at[r]
  /\ \A c \in Calls : c # w => call'[c] = call[c]
  /\ email' = email
  /\ \A e \in Emails :
       \/ holder'[e] = holder[e]
       \/ holder[e] = w /\ holder'[e] = Nobody
       \/ holder[e] = Nobody /\ holder'[e] = w /\ kyb[e] = "absent"
  /\ \A e \in Emails :
       \/ kyb'[e] = kyb[e]
       \/ kyb[e] # "absent" /\ kyb'[e] # "absent"
       \/ w # Nobody /\ holder[e] = w /\ holder'[e] = Nobody /\ e \in account'
  /\ account \subseteq account'
  /\ \A r \in Runs : r # w =>
       \A i \in DOMAIN SampleTxns : <<r, i>> \in transactions' <=> <<r, i>> \in transactions
  /\ \A e \in Emails : holder'[e] = w =>
       \/ w = Nobody
       \/ w \in Runs /\ pc'[w] \in Running \ {"samples"}
       \/ w \in Calls /\ call'[w] = "commit"

(* The types of the state after a step.                                     *)
Typed ==
  /\ kyb' \in [Emails -> {"absent", "PENDING", "APPROVED"}]
  /\ account' \subseteq Emails
  /\ transactions' \subseteq Runs \X DOMAIN SampleTxns
  /\ pc' \in [Runs -> Running \cup {"idle", "done", "crashed", "duplicate", "no account"}]
  /\ at' \in [Runs -> DOMAIN MERCHANTS]
  /\ call' \in [Calls -> {"idle", "commit", "done", "refused"}]
  /\ email' \in [Calls -> Emails]
  /\ holder' \in [Emails -> Runs \cup Calls \cup {Nobody}]

(* The steps of a run are of this kind.                                     *)
LEMMA RunEffects ==
  ASSUME TypeOK, NEW s \in Runs, SeedStep(s)
  PROVE  Typed /\ Effects(s)
<1> call \in [Calls -> {"idle", "commit", "done", "refused"}] /\ email \in [Calls -> Emails]
  BY DEF TypeOK
<1> s \notin Calls
  BY IdsAssumption
<1> s # Nobody
  BY IdsAssumption
<1> Current(s) \in Emails
  BY ThroughStep
<1> kyb \in [Emails -> {"absent", "PENDING", "APPROVED"}] /\ account \subseteq Emails
  BY DEF TypeOK
<1> transactions \subseteq Runs \X DOMAIN SampleTxns
  BY DEF TypeOK
<1> pc \in [Runs -> Running \cup {"idle", "done", "crashed", "duplicate", "no account"}]
  BY DEF TypeOK
<1> at \in [Runs -> DOMAIN MERCHANTS]
  BY DEF TypeOK
<1> holder \in [Emails -> Runs \cup Calls \cup {Nobody}]
  BY DEF TypeOK
<1>o. \A e \in Emails : holder[e] = s => pc[s] \in Running \ {"samples"}
  BY IdsAssumption DEF TypeOK
<1>n. ASSUME NextMerchant(s)
      PROVE  /\ pc' \in [Runs -> Running \cup {"idle", "done", "crashed", "duplicate", "no account"}]
             /\ pc'[s] \in Running \ {"samples"} /\ at' \in [Runs -> DOMAIN MERCHANTS]
             /\ \A r \in Runs : r # s => pc'[r] = pc[r] /\ at'[r] = at[r]
  BY <1>n, NextMerchantType DEF Running
<1>r. ASSUME Release(s)
      PROVE  /\ holder' \in [Emails -> Runs \cup Calls \cup {Nobody}]
             /\ \A e \in Emails :
                  /\ holder'[e] = holder[e] \/ (holder[e] = s /\ holder'[e] = Nobody)
                  /\ holder'[e] # s
                  /\ holder[e] = s => holder'[e] = Nobody
  <2>1. /\ holder' \in [Emails -> Runs \cup Calls \cup {Nobody}]
        /\ \A e \in Emails : /\ holder[e] = s => holder'[e] = Nobody
                             /\ holder[e] # s => holder'[e] = holder[e]
    BY <1>r, Released
  <2>2. ASSUME NEW e \in Emails
        PROVE  /\ holder'[e] = holder[e] \/ (holder[e] = s /\ holder'[e] = Nobody)
               /\ holder'[e] # s
               /\ holder[e] = s => holder'[e] = Nobody
    <3>1. CASE holder[e] = s
      BY <2>1, <3>1
    <3>2. CASE holder[e] # s
      BY <2>1, <3>2
    <3> QED
      BY <3>1, <3>2
  <2> QED
    BY <2>1, <2>2
<1> USE DEF tables, callVars, Goto, Running
<1>1. CASE Start(s)
  <2>1. Typed
    BY <1>1 DEF Start, Typed
  <2> QED
    BY <1>1, <1>o, <2>1 DEF Start, Effects
<1>2. CASE Look(s)
  <2>1. \E l \in {"insert", "fetch"} : pc' = [pc EXCEPT ![s] = l]
    BY <1>2 DEF Look
  <2>2. Typed
    BY <1>2, <2>1 DEF Look, Typed
  <2> QED
    BY <1>2, <2>1, <2>2 DEF Look, Effects
<1>3. CASE Fetch(s)
  <2>1. CASE NextMerchant(s) /\ UNCHANGED holder
    <3>1. Typed
      BY <1>3, <2>1, <1>n DEF Fetch, Typed
    <3> QED
      BY <1>3, <2>1, <3>1, <1>n DEF Fetch, Effects
  <2>2. CASE Goto(s, "no account") /\ Release(s) /\ UNCHANGED at
    <3>1. Typed
      BY <1>3, <2>2, <1>r DEF Fetch, Typed
    <3> QED
      BY <1>3, <2>2, <3>1, <1>r DEF Fetch, Effects
  <2> QED
    BY <1>3, <2>1, <2>2 DEF Fetch
<1>4. CASE Insert(s)
  <2>1. CASE /\ kyb[Current(s)] = "absent"
             /\ holder' = [holder EXCEPT ![Current(s)] = s] /\ NextMerchant(s)
    <3>1. Typed
      BY <1>4, <2>1, <1>n DEF Insert, Typed
    <3> QED
      BY <1>4, <2>1, <3>1, <1>n DEF Insert, Effects
  <2>2. CASE Goto(s, "duplicate") /\ Release(s) /\ UNCHANGED at
    <3>1. Typed
      BY <1>4, <2>2, <1>r DEF Insert, Typed
    <3> QED
      BY <1>4, <2>2, <3>1, <1>r DEF Insert, Effects
  <2> QED
    BY <1>4, <2>1, <2>2 DEF Insert
<1>5. CASE CommitMerchants(s)
  <2>1. /\ \A e \in Emails : kyb'[e] = IF holder[e] = s THEN "APPROVED" ELSE kyb[e]
        /\ kyb' \in [Emails -> {"absent", "PENDING", "APPROVED"}]
        /\ account' \subseteq Emails
    BY <1>5 DEF CommitMerchants, Held
  <2>2. Typed
    BY <1>5, <2>1, <1>r DEF CommitMerchants, Typed
  <2> QED
    BY <1>5, <2>1, <2>2, <1>r DEF CommitMerchants, Effects
<1>6. CASE CommitSamples(s)
  <2>1. {<<s, i>> : i \in DOMAIN SampleTxns} \subseteq Runs \X DOMAIN SampleTxns
    BY SamplesOf
  <2>2. Typed
    BY <1>6, <2>1 DEF CommitSamples, Typed
  <2> QED
    <3>1. \A r \in Runs : r # s =>
            \A i \in DOMAIN SampleTxns : <<r, i>> \in transactions' <=> <<r, i>> \in transactions
      BY <1>6 DEF CommitSamples
    <3> QED
      BY <1>6, <1>o, <2>2, <3>1 DEF CommitSamples, Effects
<1>7. CASE Crash(s)
  <2>1. Typed
    BY <1>7, <1>r DEF Crash, Typed
  <2> QED
    BY <1>7, <2>1, <1>r DEF Crash, Effects
<1> QED
  BY <1>1, <1>2, <1>3, <1>4, <1>5, <1>6, <1>7 DEF SeedStep

(* They keep the types.                                                     *)
LEMMA TypesKept ==
  ASSUME TypeOK, NEW w, Typed, Effects(w)
  PROVE  TypeOK'
<1>1. ASSUME NEW e \in Emails, holder'[e] # Nobody
      PROVE  /\ kyb'[e] = "absent"
             /\ \/ holder'[e] \in Runs /\ pc'[holder'[e]] \in Running \ {"samples"}
                \/ holder'[e] \in Calls /\ call'[holder'[e]] = "commit"
  <2>1. kyb[e] = "absent"
    BY <1>1 DEF Effects, TypeOK
  <2>2. kyb'[e] = "absent"
    BY <1>1, <2>1 DEF Effects
  <2>3. CASE holder'[e] = w
    BY <1>1, <2>2, <2>3 DEF Effects
  <2>4. CASE holder'[e] # w
    <3>1. holder'[e] = holder[e]
      BY <1>1, <2>4 DEF Effects
    <3>2. \/ holder[e] \in Runs /\ pc[holder[e]] \in Running \ {"samples"}
          \/ holder[e] \in Calls /\ call[holder[e]] = "commit"
      BY <1>1, <3>1 DEF TypeOK
    <3>3. /\ \A r \in Runs : r # w => pc'[r] = pc[r]
          /\ \A c \in Calls : c # w => call'[c] = call[c]
      BY DEF Effects
    <3> QED
      BY <2>2, <2>4, <3>1, <3>2, <3>3
  <2> QED
    BY <2>3, <2>4
<1> QED
  BY <1>1 DEF Typed, TypeOK

(* They disturb no run but w.                                               *)
LEMMA OthersKept ==
  ASSUME SeedInv, NEW w, Effects(w), NEW r \in Runs, r # w
  PROVE  RunInv(r)'
<1>1. pc'[r] = pc[r] /\ at'[r] = at[r]
  BY DEF Effects
<1>2. Through(r)' = Through(r) /\ Current(r)' = Current(r) /\ Current(r) \in Emails
      /\ Through(r) \subseteq Emails
  BY <1>1, ThroughStep DEF SeedInv, Through, Current, Order
<1>3. RunInv(r) /\ r # Nobody
  BY IdsAssumption DEF SeedInv
<1>4. \A e \in Emails : holder'[e] = r <=> holder[e] = r
  BY <1>3 DEF Effects
<1>5. \A e \in Emails : kyb[e] # "absent" => kyb'[e] # "absent"
  <2> SUFFICES ASSUME NEW e \in Emails, kyb[e] # "absent" PROVE kyb'[e] # "absent"
    OBVIOUS
  <2>1. holder[e] = Nobody
    BY DEF SeedInv, TypeOK
  <2> QED
    BY <2>1 DEF Effects
<1>6. \A i \in DOMAIN SampleTxns : <<r, i>> \in transactions' <=> <<r, i>> \in transactions
  BY DEF Effects
<1> QED
  BY <1>1, <1>2, <1>3, <1>4, <1>5, <1>6 DEF RunInv

(* A merchant in the table is held by nobody, and its account is there.     *)
LEMMA AccountsStay ==
  ASSUME SeedInv, NEW w, Effects(w)
  PROVE  WithAccounts'
<1> SUFFICES ASSUME NEW e \in Emails, kyb'[e] # "absent" PROVE e \in account'
  BY DEF WithAccounts
<1>1. CASE kyb[e] # "absent"
  BY <1>1 DEF SeedInv, WithAccounts, Effects
<1>2. CASE kyb[e] = "absent"
  BY <1>2 DEF Effects
<1> QED
  BY <1>1, <1>2

(* A run's own step keeps what is said of it.                               *)
LEMMA OwnKept ==
  ASSUME SeedInv, NEW s \in Runs, SeedStep(s)
  PROVE  RunInv(s)'
<1> USE DEF Goto
<1>0. TypeOK /\ RunInv(s) /\ WithAccounts /\ s # Nobody
  BY IdsAssumption DEF SeedInv
<1>c. /\ Current(s) \in Emails /\ Through(s) \subseteq Emails
      /\ pc[s] \in {"commit", "samples"} => Through(s) = Emails
      /\ NextMerchant(s) /\ pc[s] \notin {"commit", "samples"} =>
           Through(s)' = Through(s) \cup {Current(s)}
  BY <1>0, ThroughStep
<1>t. ASSUME at'[s] = at[s], pc[s] \in {"commit", "samples"} <=> pc'[s] \in {"commit", "samples"}
      PROVE  Through(s)' = Through(s) /\ Current(s)' = Current(s)
  BY <1>t DEF Through, Current, Order
<1>n. ASSUME NextMerchant(s)
      PROVE  pc'[s] \in {"look", "commit"}
  BY <1>n, <1>0, NextMerchantType DEF TypeOK
<1>r. ASSUME Release(s)
      PROVE  \A e \in Emails : holder'[e] # s
  <2> TAKE e \in Emails
  <2>1. CASE holder[e] = s
    BY <1>0, <1>r, <2>1, Released
  <2>2. CASE holder[e] # s
    BY <1>0, <1>r, <2>2, Released
  <2> QED
    BY <2>1, <2>2
<1>p. \A l : (pc' = [pc EXCEPT ![s] = l]) => pc'[s] = l
  BY <1>0 DEF TypeOK
<1>i. ASSUME transactions' = transactions, pc[s] # "done", pc'[s] # "done"
      PROVE  \A i \in DOMAIN SampleTxns : <<s, i>> \in transactions' <=> pc'[s] = "done"
  BY <1>0, <1>i DEF RunInv
<1>1. CASE Start(s)
  <2>1. pc[s] = "idle" /\ pc'[s] = "look" /\ at' = at /\ holder' = holder /\ tables' = tables
    BY <1>1, <1>p DEF Start
  <2> QED
    BY <1>0, <1>t, <1>i, <2>1 DEF RunInv, Running, tables
<1>2. CASE Look(s)
  <2>1. /\ pc[s] = "look" /\ at' = at /\ holder' = holder /\ tables' = tables
        /\ pc'[s] = "insert" \/ (pc'[s] = "fetch" /\ kyb[Current(s)] # "absent")
    BY <1>2, <1>p DEF Look
  <2> QED
    BY <1>0, <1>t, <1>i, <2>1 DEF RunInv, Running, tables
<1>3. CASE Fetch(s)
  <2>1. pc[s] = "fetch" /\ kyb[Current(s)] # "absent" /\ Current(s) \in account /\ tables' = tables
    BY <1>0, <1>3, <1>c DEF Fetch, RunInv, WithAccounts
  <2>2. NextMerchant(s) /\ holder' = holder
    BY <1>3, <2>1 DEF Fetch
  <2>3. Through(s)' = Through(s) \cup {Current(s)} /\ pc'[s] \in {"look", "commit"}
    BY <1>c, <1>n, <2>1, <2>2
  <2> QED
    BY <1>0, <1>i, <2>1, <2>2, <2>3 DEF RunInv, Running, tables
<1>4. CASE Insert(s)
  <2>0. pc[s] = "insert" /\ tables' = tables
    BY <1>4 DEF Insert
  <2>1. CASE /\ kyb[Current(s)] = "absent"
             /\ holder' = [holder EXCEPT ![Current(s)] = s] /\ NextMerchant(s)
    <3>1. Through(s)' = Through(s) \cup {Current(s)} /\ pc'[s] \in {"look", "commit"}
      BY <1>c, <1>n, <2>0, <2>1
    <3>2. \A e \in Emails : holder'[e] = IF e = Current(s) THEN s ELSE holder[e]
      BY <1>0, <2>1 DEF TypeOK
    <3> QED
      BY <1>0, <1>c, <1>i, <2>0, <3>1, <3>2 DEF RunInv, Running, tables
  <2>2. CASE Goto(s, "duplicate") /\ Release(s) /\ UNCHANGED at
    <3>1. pc'[s] = "duplicate" /\ \A e \in Emails : holder'[e] # s
      BY <2>2, <1>p, <1>r
    <3> QED
      BY <1>i, <2>0, <3>1 DEF RunInv, Running, tables
  <2> QED
    BY <1>4, <2>1, <2>2 DEF Insert
<1>5. CASE CommitMerchants(s)
  <2>1. /\ pc[s] = "commit" /\ pc'[s] = "samples" /\ at' = at /\ transactions' = transactions
        /\ \A e \in Emails : kyb'[e] = IF holder[e] = s THEN "APPROVED" ELSE kyb[e]
    BY <1>5, <1>p DEF CommitMerchants, Held
  <2>2. \A e \in Emails : holder'[e] # s
    BY <1>5, <1>r DEF CommitMerchants
  <2>3. Through(s)' = Through(s) /\ Through(s) = Emails
    BY <1>c, <1>t, <2>1
  <2>4. \A e \in Emails : kyb'[e] # "absent"
    BY <1>0, <2>1, <2>3 DEF RunInv, Running
  <2> QED
    BY <1>i, <2>1, <2>2, <2>3, <2>4 DEF RunInv
<1>6. CASE CommitSamples(s)
  <2>1. /\ pc[s] = "samples" /\ pc'[s] = "done" /\ holder' = holder /\ kyb' = kyb
        /\ transactions' = transactions \cup {<<s, i>> : i \in DOMAIN SampleTxns}
    BY <1>6, <1>p DEF CommitSamples
  <2>2. \A e \in Emails : holder[e] # s
    BY <1>0, <2>1, IdsAssumption DEF TypeOK
  <2>3. \A e \in Emails : kyb[e] # "absent"
    BY <1>0, <1>c, <2>1, <2>2 DEF RunInv, Running
  <2>4. \A i \in DOMAIN SampleTxns : <<s, i>> \in transactions'
    BY <2>1
  <2> QED
    BY <2>1, <2>2, <2>3, <2>4 DEF RunInv, Running
<1>7. CASE Crash(s)
  <2>1. /\ pc[s] # "done" /\ pc'[s] = "crashed" /\ transactions' = transactions
        /\ \A e \in Emails : holder'[e] # s
    BY <1>7, <1>p, <1>r DEF Crash, Running, tables
  <2> QED
    BY <1>i, <2>1 DEF RunInv, Running
<1> QED
  BY <1>1, <1>2, <1>3, <1>4, <1>5, <1>6, <1>7 DEF SeedStep

-----------------------------------------------------------------------------
(* The steps of a call, and a review, are of the kind above.                *)
CallStep(c) == CallInsert(c) \/ CallCommit(c) \/ CallFail(c)

LEMMA CallEffects ==
  ASSUME TypeOK, CallsHold, NEW c \in Calls, CallStep(c)
  PROVE  /\ Typed /\ Effects(c)
         /\ call'[c] = "commit" => holder'[email[c]] = c
<1> c # Nobody /\ c \notin Runs
  BY IdsAssumption
<1> kyb \in [Emails -> {"absent", "PENDING", "APPROVED"}] /\ account \subseteq Emails
  BY DEF TypeOK
<1> transactions \subseteq Runs \X DOMAIN SampleTxns
  BY DEF TypeOK
<1> pc \in [Runs -> Running \cup {"idle", "done", "crashed", "duplicate", "no account"}]
  BY DEF TypeOK
<1> at \in [Runs -> DOMAIN MERCHANTS]
  BY DEF TypeOK
<1> call \in [Calls -> {"idle", "commit", "done", "refused"}]
  BY DEF TypeOK
<1> email \in [Calls -> Emails] /\ email[c] \in Emails
  BY DEF TypeOK
<1> holder \in [Emails -> Runs \cup Calls \cup {Nobody}]
  BY DEF TypeOK
<1>r. ASSUME Release(c)
      PROVE  /\ holder' \in [Emails -> Runs \cup Calls \cup {Nobody}]
             /\ \A e \in Emails : /\ holder[e] = c => holder'[e] = Nobody
                                  /\ holder[e] # c => holder'[e] = holder[e]
  BY <1>r, Released
<1>k. ASSUME Release(c)
      PROVE  \A e \in Emails : /\ holder'[e] # c
                               /\ holder'[e] = holder[e] \/ (holder[e] = c /\ holder'[e] = Nobody)
  <2> TAKE e \in Emails
  <2>1. CASE holder[e] = c
    BY <1>k, <1>r, <2>1
  <2>2. CASE holder[e] # c
    BY <1>k, <1>r, <2>2
  <2> QED
    BY <2>1, <2>2
<1> USE DEF tables, runVars
<1>1. CASE CallInsert(c)
  <2>1. CASE /\ kyb[email[c]] = "absent"
             /\ holder' = [holder EXCEPT ![email[c]] = c]
             /\ call' = [call EXCEPT ![c] = "commit"]
    <3>1. Typed
      BY <1>1, <2>1 DEF CallInsert, Typed
    <3> QED
      BY <1>1, <2>1, <3>1 DEF CallInsert, Effects
  <2>2. CASE call' = [call EXCEPT ![c] = "refused"] /\ UNCHANGED holder
    <3>1. Typed
      BY <1>1, <2>2 DEF CallInsert, Typed
    <3>2. \A e \in Emails : holder'[e] # c
      BY <1>1, <2>2 DEF CallInsert, TypeOK
    <3> QED
      BY <1>1, <2>2, <3>1, <3>2 DEF CallInsert, Effects
  <2> QED
    BY <1>1, <2>1, <2>2 DEF CallInsert
<1>2. CASE CallCommit(c)
  <2>1. holder[email[c]] = c
    BY <1>2 DEF CallCommit, CallsHold
  <2>2. PICK k \in {"APPROVED", "PENDING"} : kyb' = [kyb EXCEPT ![email[c]] = k]
    BY <1>2 DEF CallCommit
  <2>3. Typed
    BY <1>2, <1>r, <2>2 DEF CallCommit, Typed
  <2> QED
    BY <1>2, <1>k, <1>r, <2>1, <2>2, <2>3 DEF CallCommit, Effects
<1>3. CASE CallFail(c)
  <2>1. Typed
    BY <1>3, <1>r DEF CallFail, Typed
  <2> QED
    BY <1>3, <1>k, <2>1 DEF CallFail, Effects
<1> QED
  BY <1>1, <1>2, <1>3 DEF CallStep

LEMMA ReviewEffects ==
  ASSUME TypeOK, NEW e \in Emails, Review(e)
  PROVE  Typed /\ Effects(Nobody)
<1> USE DEF Review, runVars, callVars
<1>1. Typed
  BY DEF TypeOK, Typed
<1>2. \A d \in Emails : kyb'[d] = kyb[d] \/ (kyb[d] # "absent" /\ kyb'[d] # "absent")
  BY DEF TypeOK
<1> QED
  BY <1>1, <1>2 DEF Effects

(* What a call holds, it holds until its own step.                          *)
LEMMA CallsKept ==
  ASSUME TypeOK, CallsHold, NEW w, Effects(w),
         w \in Calls /\ call'[w] = "commit" => holder'[email[w]] = w
  PROVE  CallsHold'
<1> SUFFICES ASSUME NEW c \in Calls, call'[c] = "commit"
             PROVE  holder'[email[c]] = c
  BY DEF CallsHold, Effects
<1>1. CASE c # w
  <2>1. call[c] = "commit"
    BY <1>1 DEF Effects
  <2>2. holder[email[c]] = c /\ c # Nobody /\ email[c] \in Emails
    BY <2>1, IdsAssumption DEF CallsHold, TypeOK
  <2> QED
    BY <1>1, <2>2 DEF Effects
<1> QED
  BY <1>1

(* Every step keeps the invariant.                                          *)
LEMMA InvStep == SeedInv /\ [Next]_vars => SeedInv'
<1> SUFFICES ASSUME SeedInv, [Next]_vars PROVE SeedInv'
  OBVIOUS
<1>0. TypeOK /\ CallsHold
  BY DEF SeedInv
<1>1. ASSUME NEW s \in Runs, SeedStep(s) PROVE SeedInv'
  <2>1. Typed /\ Effects(s)
    BY <1>0, <1>1, RunEffects
  <2>2. TypeOK' /\ CallsHold'
    BY <1>0, <2>1, TypesKept, CallsKept, IdsAssumption
  <2>3. WithAccounts'
    BY <2>1, AccountsStay
  <2>4. ASSUME NEW r \in Runs PROVE RunInv(r)'
    <3>1. CASE r = s
      BY <1>1, <3>1, OwnKept
    <3>2. CASE r # s
      BY <2>1, <3>2, OthersKept
    <3> QED
      BY <3>1, <3>2
  <2> QED
    BY <2>2, <2>3, <2>4 DEF SeedInv
<1>2. ASSUME NEW c \in Calls, CallStep(c) PROVE SeedInv'
  <2>1. Typed /\ Effects(c) /\ (call'[c] = "commit" => holder'[email[c]] = c)
    BY <1>0, <1>2, CallEffects
  <2>2. TypeOK' /\ CallsHold'
    BY <1>0, <2>1, TypesKept, CallsKept
  <2>3. WithAccounts'
    BY <2>1, AccountsStay
  <2>4. ASSUME NEW r \in Runs PROVE RunInv(r)'
    BY <2>1, OthersKept, IdsAssumption
  <2> QED
    BY <2>2, <2>3, <2>4 DEF SeedInv
<1>3. ASSUME NEW e \in Emails, Review(e) PROVE SeedInv'
  <2>1. Typed /\ Effects(Nobody)
    BY <1>0, <1>3, ReviewEffects
  <2>2. TypeOK' /\ CallsHold'
    BY <1>0, <2>1, TypesKept, CallsKept, IdsAssumption
  <2>3. WithAccounts'
    BY <2>1, AccountsStay
  <2>4. ASSUME NEW r \in Runs PROVE RunInv(r)'
    BY <2>1, OthersKept, IdsAssumption
  <2> QED
    BY <2>2, <2>3, <2>4 DEF SeedInv
<1>4. CASE UNCHANGED vars
  <2>1. Typed /\ Effects(Nobody)
    BY <1>0, <1>4 DEF vars, tables, runVars, callVars, TypeOK, Typed, Effects
  <2>2. TypeOK' /\ CallsHold'
    BY <1>0, <2>1, TypesKept, CallsKept, IdsAssumption
  <2>3. WithAccounts'
    BY <2>1, AccountsStay
  <2>4. ASSUME NEW r \in Runs PROVE RunInv(r)'
    BY <2>1, OthersKept, IdsAssumption
  <2> QED
    BY <2>2, <2>3, <2>4 DEF SeedInv
<1> QED
  BY <1>1, <1>2, <1>3, <1>4 DEF Next, CallStep

THEOREM SeedInvariant == Spec => []SeedInv
BY SeedInit, InvStep, PTL DEF Spec

-----------------------------------------------------------------------------
(* The types, and that only an absent merchant is held, by an open          *)
(* transaction.                                                             *)
THEOREM TypeCorrect == Spec => []TypeOK
<1>1. SeedInv => TypeOK
  BY DEF SeedInv
<1> QED
  BY <1>1, SeedInvariant, PTL

(* No run finds a merchant without an account (seed's scalar_one).          *)
THEOREM NoMerchantWithoutAccount == Spec => []AccountsFound
<1>1. SeedInv => AccountsFound
  BY DEF SeedInv, RunInv, AccountsFound
<1> QED
  BY <1>1, SeedInvariant, PTL

(* A run leaves all of its samples and every merchant, or no sample.        *)
THEOREM SamplesAreWhole == Spec => []SamplesWhole
<1>1. SeedInv => SamplesWhole
  BY DEF SeedInv, RunInv, WithAccounts, SamplesWhole
<1> QED
  BY <1>1, SeedInvariant, PTL

(* A run that waits for another run's merchant is not as far in the list as *)
(* that one; so a chain of waits ends, after three runs at most, and never  *)
(* closes into the circle PostgreSQL would have to break.                   *)
LEMMA HolderAhead ==
  ASSUME SeedInv, NEW s \in Runs, Waits(s), holder[Current(s)] \in Runs,
         Waits(holder[Current(s)])
  PROVE  at[s] < at[holder[Current(s)]]
<1> DEFINE r == holder[Current(s)]
<1>1. at[s] \in 1..3 /\ at[r] \in 1..3
  BY MerchantList DEF SeedInv, TypeOK
<1>2. Current(s) = MERCHANTS[at[s]] /\ Current(s) \in Emails
  BY ThroughStep DEF Current, Order, SeedInv
<1>3. Current(s) \in Through(r) /\ pc[r] = "insert"
  BY <1>2 DEF SeedInv, RunInv, Waits
<1>4. PICK j \in 1..3 : j < at[r] /\ Current(s) = MERCHANTS[j]
  BY <1>3, MerchantList DEF Through
<1>5. j = at[s]
  BY <1>1, <1>2, <1>4, MerchantList
<1> QED
  BY <1>4, <1>5

THEOREM NoCircleOfWaits == Spec => []NoneWaitsForEver
<1>1. ASSUME SeedInv PROVE NoneWaitsForEver
  <2> SUFFICES ASSUME NEW s \in Runs, Waits(s),
                      \A e \in Emails : ~ (holder[e] \in Calls \/ (holder[e] \in Runs /\ ~ Waits(holder[e])))
               PROVE  FALSE
    BY DEF NoneWaitsForEver
  <2>1. ASSUME NEW r \in Runs, Waits(r)
        PROVE  \E q \in Runs : Waits(q) /\ at[r] < at[q]
    <3>1. Current(r) \in Emails
      BY <1>1, ThroughStep DEF SeedInv
    <3>2. holder[Current(r)] \in Runs /\ Waits(holder[Current(r)])
      BY <1>1, <2>1, <3>1 DEF Waits, SeedInv, TypeOK
    <3> QED
      BY <1>1, <2>1, <3>2, HolderAhead
  <2>2. \A r \in Runs : at[r] \in 1..3
    BY <1>1, MerchantList DEF SeedInv, TypeOK
  <2>3. PICK q \in Runs : Waits(q) /\ at[s] < at[q]
    BY <2>1
  <2>4. PICK p \in Runs : Waits(p) /\ at[q] < at[p]
    BY <2>1, <2>3
  <2>5. PICK o \in Runs : Waits(o) /\ at[p] < at[o]
    BY <2>1, <2>4
  <2>6. at[s] \in 1..3 /\ at[q] \in 1..3 /\ at[p] \in 1..3 /\ at[o] \in 1..3
    BY <2>2
  <2> QED
    BY <2>3, <2>4, <2>5, <2>6
<1> QED
  BY <1>1, SeedInvariant, PTL

(* No step of a run changes a merchant that is in the table: what it        *)
(* commits it holds, and what is held is absent ("Idempotent", seeds.py).   *)
THEOREM RunsSkipExisting == Spec => SeedsSkipExisting
<1>1. ASSUME SeedInv, [Next]_vars, NEW s \in Runs, pc'[s] # pc[s],
             NEW e \in Emails, kyb[e] # "absent"
      PROVE  kyb'[e] = kyb[e]
  <2>1. holder[e] = Nobody
    BY <1>1 DEF SeedInv, TypeOK
  <2>2. CASE \E r \in Runs : SeedStep(r)
    <3>1. PICK r \in Runs : SeedStep(r)
      BY <2>2
    <3>2. CASE CommitMerchants(r)
      BY <1>1, <2>1, <3>2, IdsAssumption DEF CommitMerchants, Held
    <3> QED
      BY <3>1, <3>2
      DEF SeedStep, Start, Look, Fetch, Insert, CommitSamples, Crash, tables
  <2>3. pc' = pc => FALSE
    BY <1>1
  <2> QED
    BY <1>1, <2>2, <2>3
    DEF Next, CallInsert, CallCommit, CallFail, Review, runVars, vars
<1>2. SeedInv /\ [Next]_vars =>
        [\A s \in Runs : pc'[s] # pc[s] =>
           \A e \in Emails : kyb[e] # "absent" => kyb'[e] = kyb[e]]_vars
  BY <1>1
<1> QED
  BY <1>2, SeedInvariant, PTL DEF Spec, SeedsSkipExisting
===============================================================================
