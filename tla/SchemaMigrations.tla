--------------------------- MODULE SchemaMigrations ---------------------------
(***************************************************************************)
(* The two alembic revisions, run up and down over databases that were     *)
(* installed with this revision 0001 or with an older one, while the       *)
(* application creates and reviews merchants.  PostgreSQL's DDL is         *)
(* transactional, and do_run_migrations runs in one transaction: a         *)
(* revision is applied as a whole or not at all.                           *)
(*                                                                         *)
(* Columns without a type of ours are "plain"; those that no revision adds *)
(* or drops one by one, and that have no enum type, are the column "rest". *)
(***************************************************************************)
EXTENDS Functions

CONSTANTS Merchants

VARIABLES
  version,  \* alembic_version
  db        \* types, tables and the data in merchants.kyb_status

vars == <<version, db>>

Tables == {"merchants", "virtual_accounts", "transactions", "fx_rates", "reconciliation_logs"}
Versions == {"none", "0001", "0002"}
KYBStatus == {"PENDING", "UNDER_REVIEW", "APPROVED"}

(* A merchant has no row, or a row with or without the column.              *)
KybValues == {"no row", "no column"} \cup KYBStatus

-----------------------------------------------------------------------------
(* The statements.  ok turns FALSE when one fails.                          *)

Plain(names) == [c \in names |-> "plain"]

(* The entries of f, and those of g that f has not: IF NOT EXISTS.          *)
Beside(f, g) == [x \in DOMAIN f \cup DOMAIN g |-> IF x \in DOMAIN f THEN f[x] ELSE g[x]]

Exists(d, t) == t \in DOMAIN d.tables
ColumnsOf(d, t) == d.tables[t].columns
References(d, t) == \E u \in DOMAIN d.tables : t \in d.tables[u].refs
Uses(d, ty) == \E t \in DOMAIN d.tables : ty \in Range(ColumnsOf(d, t))

(* CREATE TYPE, a duplicate being ignored, and ADD VALUE IF NOT EXISTS: the *)
(* value upi_confirmed is treated as a type.                                *)
CreateTypes(names) == [op |-> "create types", types |-> names]
AddValue(ty, value) == [op |-> "add value", type |-> ty, value |-> value]
DropType(ty) == [op |-> "drop type", type |-> ty]

CreateTable(t, columns, refs) ==
  [op |-> "create table", table |-> t, columns |-> columns, refs |-> refs]
DropTable(t) == [op |-> "drop table", table |-> t]

AddColumns(t, columns) == [op |-> "add columns", table |-> t, columns |-> columns]
DropColumns(t, names) == [op |-> "drop columns", table |-> t, names |-> names]

(* kyb_status NOT NULL DEFAULT 'PENDING'.                                   *)
Defaulted_NotNullOnly(d) == d.kyb
Defaulted(d) ==
  [m \in Merchants |-> IF d.kyb[m] = "no column" THEN "PENDING" ELSE d.kyb[m]]
Dropped(d) ==
  [m \in Merchants |-> IF d.kyb[m] \in KYBStatus THEN "no column" ELSE d.kyb[m]]

Fail(d) == [d EXCEPT !.ok = FALSE]

TypesCreated(d, s) == [d EXCEPT !.types = @ \cup s.types]

ValueAdded(d, s) ==
  IF s.type \in d.types THEN [d EXCEPT !.types = @ \cup {s.value}] ELSE Fail(d)

TypeDropped(d, s) ==
  IF Uses(d, s.type) THEN Fail(d) ELSE [d EXCEPT !.types = @ \ {s.type}]

TableCreated(d, s) ==
  IF Exists(d, s.table) THEN d
  ELSE IF Range(s.columns) \subseteq d.types \cup {"plain"} /\ s.refs \subseteq DOMAIN d.tables
  THEN [d EXCEPT !.tables =
          Beside(@, [t \in {s.table} |-> [columns |-> s.columns, refs |-> s.refs]])]
  ELSE Fail(d)

TableDropped(d, s) ==
  IF References(d, s.table) THEN Fail(d)
  ELSE [d EXCEPT !.tables = Restrict(@, DOMAIN @ \ {s.table}),
                 !.kyb = IF s.table = "merchants" THEN [m \in Merchants |-> "no row"] ELSE @]

ColumnsAdded(d, s) ==
  IF Exists(d, s.table) /\ Range(s.columns) \subseteq d.types \cup {"plain"}
  THEN [d EXCEPT !.tables[s.table].columns = Beside(@, s.columns),
                 !.kyb = IF "kyb_status" \in DOMAIN s.columns THEN Defaulted(d) ELSE @]
  ELSE Fail(d)

ColumnsDropped(d, s) ==
  IF Exists(d, s.table)
  THEN [d EXCEPT !.tables[s.table].columns = Restrict(@, DOMAIN @ \ s.names),
                 !.kyb = IF "kyb_status" \in s.names THEN Dropped(d) ELSE @]
  ELSE Fail(d)

Execute(d, s) ==
  CASE ~ d.ok -> d
    [] s.op = "create types" -> TypesCreated(d, s)
    [] s.op = "add value" -> ValueAdded(d, s)
    [] s.op = "drop type" -> TypeDropped(d, s)
    [] s.op = "create table" -> TableCreated(d, s)
    [] s.op = "drop table" -> TableDropped(d, s)
    [] s.op = "add columns" -> ColumnsAdded(d, s)
    [] s.op = "drop columns" -> ColumnsDropped(d, s)

(* The database d after a statement, and then another one.                  *)
d $ s == Execute(d, s)

-----------------------------------------------------------------------------
(* The revisions.                                                           *)

Enums == {"settlement_currency_enum", "merchant_status_enum", "kyb_status_enum",
          "business_type_enum", "payment_method_enum", "transaction_status_enum",
          "reconciliation_status_enum"}

MerchantColumns ==
  [c \in {"rest", "settlement_currency", "status", "kyb_status", "business_type",
          "website_url", "incorporation_number"} |->
     CASE c = "settlement_currency" -> "settlement_currency_enum"
       [] c = "status" -> "merchant_status_enum"
       [] c = "kyb_status" -> "kyb_status_enum"
       [] c = "business_type" -> "business_type_enum"
       [] OTHER -> "plain"]

TransactionColumns ==
  [c \in {"rest", "payment_method", "settlement_currency", "status", "upi_deep_link",
          "upi_qr_payload", "vpa", "upi_ref", "payment_expires_at", "usd_equivalent",
          "opgsp_cap_applied", "fx_rate_locked", "fx_rate_locked_at", "fx_rate_expires_at",
          "fx_rate_final", "amount_inr_collected", "merchant_country", "opgsp_ref",
          "settlement_initiated_at", "settlement_completed_at"} |->
     CASE c = "payment_method" -> "payment_method_enum"
       [] c = "settlement_currency" -> "settlement_currency_enum"
       [] c = "status" -> "transaction_status_enum"
       [] OTHER -> "plain"]

ReconciliationColumns ==
  [c \in {"rest", "status"} |-> IF c = "status" THEN "reconciliation_status_enum" ELSE "plain"]

upgrade_0001(d) ==
  d $ CreateTypes(Enums \cup {"upi_confirmed"})
    $ CreateTable("merchants", MerchantColumns, {})
    $ CreateTable("virtual_accounts", Plain({"rest"}), {"merchants"})
    $ CreateTable("transactions", TransactionColumns, {"merchants", "virtual_accounts"})
    $ CreateTable("fx_rates", Plain({"rest"}), {})
    $ CreateTable("reconciliation_logs", ReconciliationColumns, {"transactions"})

downgrade_0001_TypesFirst(d) ==
  d $ DropType("reconciliation_status_enum")
    $ DropTable("reconciliation_logs") $ DropTable("fx_rates") $ DropTable("transactions")
    $ DropTable("virtual_accounts") $ DropTable("merchants")
    $ DropType("transaction_status_enum") $ DropType("payment_method_enum")
    $ DropType("business_type_enum") $ DropType("kyb_status_enum")
    $ DropType("merchant_status_enum") $ DropType("settlement_currency_enum")

downgrade_0001(d) ==
  d $ DropTable("reconciliation_logs") $ DropTable("fx_rates") $ DropTable("transactions")
    $ DropTable("virtual_accounts") $ DropTable("merchants")
    $ DropType("reconciliation_status_enum") $ DropType("transaction_status_enum")
    $ DropType("payment_method_enum") $ DropType("business_type_enum")
    $ DropType("kyb_status_enum") $ DropType("merchant_status_enum")
    $ DropType("settlement_currency_enum")

AddedToMerchants ==
  Plain({"kyb_status", "business_type", "website_url", "incorporation_number"})

AddedToTransactions_NoVpa ==
  Plain({"upi_deep_link", "upi_qr_payload", "upi_ref", "payment_expires_at",
         "usd_equivalent", "opgsp_cap_applied", "fx_rate_locked", "fx_rate_locked_at",
         "fx_rate_expires_at", "fx_rate_final", "amount_inr_collected", "merchant_country",
         "opgsp_ref", "settlement_initiated_at", "settlement_completed_at"})

AddedToTransactions ==
  Plain({"upi_deep_link", "upi_qr_payload", "vpa", "upi_ref", "payment_expires_at",
         "usd_equivalent", "opgsp_cap_applied", "fx_rate_locked", "fx_rate_locked_at",
         "fx_rate_expires_at", "fx_rate_final", "amount_inr_collected", "merchant_country",
         "opgsp_ref", "settlement_initiated_at", "settlement_completed_at"})

upgrade_0002_Replaces(d) ==
  d $ AddValue("transaction_status_enum", "upi_confirmed")
    $ CreateTypes({"kyb_status_enum", "business_type_enum"})
    $ DropColumns("merchants", DOMAIN AddedToMerchants)
    $ AddColumns("merchants", AddedToMerchants)
    $ AddColumns("transactions", AddedToTransactions)

upgrade_0002(d) ==
  d $ AddValue("transaction_status_enum", "upi_confirmed")
    $ CreateTypes({"kyb_status_enum", "business_type_enum"})
    $ AddColumns("merchants", AddedToMerchants)
    $ AddColumns("transactions", AddedToTransactions)

downgrade_0002(d) ==
  d $ DropColumns("transactions",
        {"settlement_completed_at", "settlement_initiated_at", "opgsp_ref",
         "merchant_country", "amount_inr_collected", "fx_rate_final",
         "fx_rate_expires_at", "fx_rate_locked_at", "fx_rate_locked", "opgsp_cap_applied",
         "usd_equivalent", "payment_expires_at", "upi_ref", "vpa", "upi_qr_payload",
         "upi_deep_link"})
    $ DropColumns("merchants",
        {"kyb_status", "incorporation_number", "website_url", "business_type"})

(* The older 0001 "that lacked these columns" (0002).                       *)
OlderMerchants == Restrict(MerchantColumns, {"rest", "settlement_currency", "status"})
OlderTransactions ==
  Restrict(TransactionColumns, {"rest", "payment_method", "settlement_currency", "status"})

Older0001(d) ==
  d $ CreateTypes(Enums \ {"kyb_status_enum", "business_type_enum"})
    $ CreateTable("merchants", OlderMerchants, {})
    $ CreateTable("virtual_accounts", Plain({"rest"}), {"merchants"})
    $ CreateTable("transactions", OlderTransactions, {"merchants", "virtual_accounts"})
    $ CreateTable("fx_rates", Plain({"rest"}), {})
    $ CreateTable("reconciliation_logs", ReconciliationColumns, {"transactions"})

-----------------------------------------------------------------------------
Empty == [ok |-> TRUE, types |-> {}, tables |-> <<>>, kyb |-> [m \in Merchants |-> "no row"]]

Init ==
  \/ version = "none" /\ db = Empty
  \/ /\ version = "0001"
     /\ \E M \in SUBSET Merchants :
          db = [Older0001(Empty) EXCEPT
                  !.kyb = [m \in Merchants |-> IF m \in M THEN "no column" ELSE "no row"]]

(* A revision that fails is rolled back, with the entry in alembic_version. *)
Apply(d, to) == IF d.ok THEN db' = d /\ version' = to ELSE UNCHANGED vars

Upgrade ==
  \/ version = "none" /\ Apply(upgrade_0001(db), "0001")
  \/ version = "0001" /\ Apply(upgrade_0002(db), "0002")

Downgrade ==
  \/ version = "0001" /\ Apply(downgrade_0001(db), "none")
  \/ version = "0002" /\ Apply(downgrade_0002(db), "0001")

-----------------------------------------------------------------------------
(* The application.  Every statement of the ORM names all columns of its    *)
(* table, and raises when one is missing.                                   *)

OrmMerchant ==
  {"rest", "settlement_currency", "status", "kyb_status", "business_type", "website_url",
   "incorporation_number"}
OrmTransaction ==
  {"rest", "payment_method", "settlement_currency", "status", "upi_deep_link",
   "upi_qr_payload", "vpa", "upi_ref", "payment_expires_at", "usd_equivalent",
   "opgsp_cap_applied", "fx_rate_locked", "fx_rate_locked_at", "fx_rate_expires_at",
   "fx_rate_final", "amount_inr_collected", "merchant_country", "opgsp_ref",
   "settlement_initiated_at", "settlement_completed_at"}

Has(t, names) == Exists(db, t) /\ names \subseteq DOMAIN ColumnsOf(db, t)

SetKyb(m, from, to) ==
  /\ Has("merchants", OrmMerchant)
  /\ db.kyb[m] = from
  /\ db' = [db EXCEPT !.kyb[m] = to]
  /\ UNCHANGED version

Onboard(m) == SetKyb(m, "no row", "PENDING")
Review(m) == SetKyb(m, "PENDING", "UNDER_REVIEW") \/ SetKyb(m, "UNDER_REVIEW", "APPROVED")

Next == Upgrade \/ Downgrade \/ \E m \in Merchants : Onboard(m) \/ Review(m)

Spec == Init /\ [][Next]_vars

-----------------------------------------------------------------------------
(* Properties.                                                              *)

(* Only a table has rows, and only a column that exists a value in them.    *)
TypeOK ==
  /\ version \in Versions
  /\ db.ok /\ DOMAIN db.tables \subseteq Tables
  /\ db.kyb \in [Merchants -> KybValues]
  /\ \A m \in Merchants :
       /\ db.kyb[m] # "no row" => Exists(db, "merchants")
       /\ db.kyb[m] \in KYBStatus => Has("merchants", {"kyb_status"})
       /\ db.kyb[m] = "no column" => ~ Has("merchants", {"kyb_status"})

(* At the head revision the application can run: every column of the ORM's  *)
(* models exists, and the status a webhook writes is in its enum, whichever *)
(* way the database came there.                                             *)
HeadComplete ==
  version = "0002" =>
    /\ Has("merchants", OrmMerchant)
    /\ Has("transactions", OrmTransaction)
    /\ {"transaction_status_enum", "upi_confirmed"} \subseteq db.types

(* No sequence of upgrades and downgrades reaches a database on which the   *)
(* next one fails: tables are dropped before what they refer to and before  *)
(* the types of their columns, and nothing is created twice.                *)
NeverStuck ==
  /\ version = "none" => upgrade_0001(db).ok
  /\ version = "0001" => upgrade_0002(db).ok /\ downgrade_0001(db).ok
  /\ version = "0002" => downgrade_0002(db).ok

(* An approval is only ever lost in a downgrade.                            *)
UpgradesKeepApprovals ==
  [][\A m \in Merchants :
       db.kyb[m] = "APPROVED" /\ db'.kyb[m] # "APPROVED" =>
         <<version, version'>> \in {<<"0002", "0001">>, <<"0001", "none">>}]_vars
===============================================================================
