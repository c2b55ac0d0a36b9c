------------------------ MODULE SchemaMigrationsProofs ------------------------
(***************************************************************************)
(* Theorems about SchemaMigrations, for every set of merchants.  What a    *)
(* revision does is read statement by statement: the first part has a      *)
(* lemma for each kind of statement, saying what it leaves behind.         *)
(***************************************************************************)
EXTENDS SchemaMigrations, TLAPS

(* A database has four parts, and a table two.                              *)
Db(d) ==
  /\ DOMAIN d = {"ok", "types", "tables", "kyb"}
  /\ \A t \in DOMAIN d.tables : DOMAIN d.tables[t] = {"columns", "refs"}

LEMMA Dispatch ==
  ASSUME NEW d, d.ok, NEW s
  PROVE  /\ s.op = "create types" => d $ s = TypesCreated(d, s)
         /\ s.op = "add value" => d $ s = ValueAdded(d, s)
         /\ s.op = "drop type" => d $ s = TypeDropped(d, s)
         /\ s.op = "create table" => d $ s = TableCreated(d, s)
         /\ s.op = "drop table" => d $ s = TableDropped(d, s)
         /\ s.op = "add columns" => d $ s = ColumnsAdded(d, s)
         /\ s.op = "drop columns" => d $ s = ColumnsDropped(d, s)
<1>1. d $ s = Execute(d, s)
  BY DEF $
<1>2. /\ s.op = "create types" => Execute(d, s) = TypesCreated(d, s)
      /\ s.op = "add value" => Execute(d, s) = ValueAdded(d, s)
      /\ s.op = "drop type" => Execute(d, s) = TypeDropped(d, s)
  BY Zenon DEF Execute
<1>3. /\ s.op = "create table" => Execute(d, s) = TableCreated(d, s)
      /\ s.op = "drop table" => Execute(d, s) = TableDropped(d, s)
  BY Zenon DEF Execute
<1>4. /\ s.op = "add columns" => Execute(d, s) = ColumnsAdded(d, s)
      /\ s.op = "drop columns" => Execute(d, s) = ColumnsDropped(d, s)
  BY Zenon DEF Execute
<1> QED
  BY <1>1, <1>2, <1>3, <1>4, Zenon

LEMMA CreateTypesDoes ==
  ASSUME NEW d, Db(d), d.ok, NEW names, NEW e, e = d $ CreateTypes(names)
  PROVE  /\ Db(e) /\ e.ok /\ e.types = d.types \cup names
         /\ e.tables = d.tables /\ e.kyb = d.kyb
<1>1. PICK s : s = CreateTypes(names)
  OBVIOUS
<1>2. s.op = "create types" /\ s.types = names
  BY <1>1 DEF CreateTypes
<1>3. e = TypesCreated(d, s)
  BY <1>1, <1>2, Dispatch
<1> QED
  BY <1>2, <1>3 DEF Db, TypesCreated

LEMMA AddValueDoes ==
  ASSUME NEW d, Db(d), d.ok, NEW ty, ty \in d.types, NEW value,
         NEW e, e = d $ AddValue(ty, value)
  PROVE  /\ Db(e) /\ e.ok /\ e.types = d.types \cup {value}
         /\ e.tables = d.tables /\ e.kyb = d.kyb
<1>1. PICK s : s = AddValue(ty, value)
  OBVIOUS
<1>2. s.op = "add value" /\ s.type = ty /\ s.value = value
  BY <1>1 DEF AddValue
<1>3. e = ValueAdded(d, s)
  BY <1>1, <1>2, Dispatch
<1>4. e = [d EXCEPT !.types = @ \cup {value}]
  BY <1>2, <1>3 DEF ValueAdded
<1> QED
  BY <1>4 DEF Db

(* Types are only dropped after all tables.                                 *)
LEMMA DropTypeDoes ==
  ASSUME NEW d, Db(d), d.ok, DOMAIN d.tables = {}, NEW ty, NEW e, e = d $ DropType(ty)
  PROVE  Db(e) /\ e.ok /\ e.tables = d.tables /\ e.kyb = d.kyb
<1>1. PICK s : s = DropType(ty)
  OBVIOUS
<1>2. s.op = "drop type" /\ s.type = ty
  BY <1>1 DEF DropType
<1>3. e = TypeDropped(d, s)
  BY <1>1, <1>2, Dispatch
<1>4. ~ Uses(d, s.type)
  BY DEF Uses
<1>5. e = [d EXCEPT !.types = @ \ {ty}]
  BY <1>2, <1>3, <1>4 DEF TypeDropped
<1> QED
  BY <1>5 DEF Db

(* e is d with one table more.                                              *)
TableAdded(d, e, t, columns, refs) ==
  /\ Db(e) /\ e.ok /\ e.types = d.types /\ e.kyb = d.kyb
  /\ DOMAIN e.tables = DOMAIN d.tables \cup {t}
  /\ e.tables[t].columns = columns /\ e.tables[t].refs = refs
  /\ \A u \in DOMAIN d.tables : e.tables[u] = d.tables[u]

LEMMA CreateTableDoes ==
  ASSUME NEW d, Db(d), d.ok, NEW t, t \notin DOMAIN d.tables,
         NEW columns, Range(columns) \subseteq d.types \cup {"plain"},
         NEW refs, refs \subseteq DOMAIN d.tables,
         NEW e, e = d $ CreateTable(t, columns, refs)
  PROVE  TableAdded(d, e, t, columns, refs)
<1>1. PICK s : s = CreateTable(t, columns, refs)
  OBVIOUS
<1>2. s.op = "create table" /\ s.table = t /\ s.columns = columns /\ s.refs = refs
  BY <1>1 DEF CreateTable
<1>3. e = TableCreated(d, s)
  BY <1>1, <1>2, Dispatch
<1>4. PICK g : g = [u \in {t} |-> [columns |-> columns, refs |-> refs]]
  OBVIOUS
<1>5. e = [d EXCEPT !.tables = Beside(@, g)]
  BY <1>2, <1>3, <1>4 DEF TableCreated, Exists
<1>6. /\ DOMAIN e = DOMAIN d /\ e.ok /\ e.types = d.types /\ e.kyb = d.kyb
      /\ e.tables = Beside(d.tables, g)
  BY <1>5 DEF Db
<1>7. /\ DOMAIN e.tables = DOMAIN d.tables \cup {t}
      /\ e.tables[t] = [columns |-> columns, refs |-> refs]
      /\ \A u \in DOMAIN d.tables : e.tables[u] = d.tables[u]
  BY <1>4, <1>6 DEF Beside
<1> QED
  BY <1>6, <1>7 DEF Db, TableAdded

(* e is d without the table t, and with it go the rows of merchants.        *)
TableRemoved(d, e, t) ==
  /\ Db(e) /\ e.ok
  /\ t = "merchants" => e.kyb = [m \in Merchants |-> "no row"]
  /\ DOMAIN e.tables = DOMAIN d.tables \ {t}
  /\ \A u \in DOMAIN e.tables : e.tables[u] = d.tables[u]

LEMMA DropTableDoes ==
  ASSUME NEW d, Db(d), d.ok, NEW t, ~ References(d, t), NEW e, e = d $ DropTable(t)
  PROVE  TableRemoved(d, e, t)
<1>1. PICK s : s = DropTable(t)
  OBVIOUS
<1>2. s.op = "drop table" /\ s.table = t
  BY <1>1 DEF DropTable
<1>3. e = TableDropped(d, s)
  BY <1>1, <1>2, Dispatch
<1>4. PICK k : k = IF t = "merchants" THEN [m \in Merchants |-> "no row"] ELSE d.kyb
  OBVIOUS
<1>5. e = [d EXCEPT !.tables = Restrict(@, DOMAIN @ \ {t}), !.kyb = k]
  BY <1>2, <1>3, <1>4 DEF TableDropped
<1>6. /\ DOMAIN e = DOMAIN d /\ e.ok /\ e.kyb = k
      /\ e.tables = Restrict(d.tables, DOMAIN d.tables \ {t})
  BY <1>5 DEF Db
<1>7. /\ DOMAIN e.tables = DOMAIN d.tables \ {t}
      /\ \A u \in DOMAIN e.tables : e.tables[u] = d.tables[u]
  BY <1>6 DEF Restrict
<1> QED
  BY <1>4, <1>6, <1>7 DEF Db, TableRemoved

(* A statement that alters a table leaves the other tables, and what this   *)
(* one refers to, as they were.                                             *)
Altered(d, e, t) ==
  /\ Db(e) /\ e.ok /\ e.types = d.types /\ DOMAIN e.tables = DOMAIN d.tables
  /\ \A u \in DOMAIN d.tables :
       /\ e.tables[u].refs = d.tables[u].refs
       /\ u # t => e.tables[u] = d.tables[u]

Alter(d, t, columns, kyb) == [d EXCEPT !.tables[t].columns = columns, !.kyb = kyb]

LEMMA AlteredTable ==
  ASSUME NEW d, Db(d), d.ok, NEW t \in DOMAIN d.tables, NEW cols, NEW k,
         NEW e, e = Alter(d, t, cols, k)
  PROVE  Altered(d, e, t) /\ e.tables[t].columns = cols /\ e.kyb = k
<1>1. /\ DOMAIN e = DOMAIN d /\ e.ok /\ e.types = d.types /\ e.kyb = k
      /\ e.tables = [d.tables EXCEPT ![t].columns = cols]
  BY DEF Db, Alter
<1>2. /\ DOMAIN e.tables = DOMAIN d.tables
      /\ e.tables[t] = [d.tables[t] EXCEPT !.columns = cols]
      /\ \A u \in DOMAIN d.tables : u # t => e.tables[u] = d.tables[u]
  BY <1>1
<1>3. /\ DOMAIN e.tables[t] = {"columns", "refs"} /\ e.tables[t].columns = cols
      /\ e.tables[t].refs = d.tables[t].refs
  BY <1>2 DEF Db
<1>4. ASSUME NEW u \in DOMAIN d.tables
      PROVE  /\ DOMAIN e.tables[u] = {"columns", "refs"} /\ e.tables[u].refs = d.tables[u].refs
             /\ u # t => e.tables[u] = d.tables[u]
  <2>1. CASE u = t
    BY <1>3, <2>1
  <2>2. CASE u # t
    BY <1>2, <2>2 DEF Db
  <2> QED
    BY <2>1, <2>2
<1>5. Db(e)
  <2>1. DOMAIN e = {"ok", "types", "tables", "kyb"}
    BY <1>1 DEF Db
  <2> QED
    BY <1>2, <1>4, <2>1 DEF Db
<1> QED
  BY <1>1, <1>2, <1>3, <1>4, <1>5 DEF Altered

LEMMA AddColumnsDoes ==
  ASSUME NEW d, Db(d), d.ok, NEW t \in DOMAIN d.tables,
         NEW columns, Range(columns) \subseteq d.types \cup {"plain"},
         NEW e, e = d $ AddColumns(t, columns)
  PROVE  /\ Altered(d, e, t)
         /\ DOMAIN e.tables[t].columns = DOMAIN d.tables[t].columns \cup DOMAIN columns
         /\ "kyb_status" \in DOMAIN columns => e.kyb = Defaulted(d)
         /\ "kyb_status" \notin DOMAIN columns => e.kyb = d.kyb
<1>1. PICK s : s = AddColumns(t, columns)
  OBVIOUS
<1>2. s.op = "add columns" /\ s.table = t /\ s.columns = columns
  BY <1>1 DEF AddColumns
<1>3. e = ColumnsAdded(d, s)
  BY <1>1, <1>2, Dispatch
<1>4. PICK k : k = IF "kyb_status" \in DOMAIN columns THEN Defaulted(d) ELSE d.kyb
  OBVIOUS
<1>5. PICK cols : cols = Beside(d.tables[t].columns, columns)
  OBVIOUS
<1>6. e = Alter(d, t, cols, k)
  BY <1>2, <1>3, <1>4, <1>5 DEF Alter, ColumnsAdded, Exists
<1>7. Altered(d, e, t) /\ e.tables[t].columns = cols /\ e.kyb = k
  BY <1>6, AlteredTable
<1>8. DOMAIN cols = DOMAIN d.tables[t].columns \cup DOMAIN columns
  BY <1>5 DEF Beside
<1> QED
  BY <1>4, <1>7, <1>8

LEMMA DropColumnsDoes ==
  ASSUME NEW d, Db(d), d.ok, NEW t \in DOMAIN d.tables, NEW names,
         NEW e, e = d $ DropColumns(t, names)
  PROVE  /\ Altered(d, e, t)
         /\ DOMAIN e.tables[t].columns = DOMAIN d.tables[t].columns \ names
         /\ "kyb_status" \in names => e.kyb = Dropped(d)
         /\ "kyb_status" \notin names => e.kyb = d.kyb
<1>1. PICK s : s = DropColumns(t, names)
  OBVIOUS
<1>2. s.op = "drop columns" /\ s.table = t /\ s.names = names
  BY <1>1 DEF DropColumns
<1>3. e = ColumnsDropped(d, s)
  BY <1>1, <1>2, Dispatch
<1>4. PICK k : k = IF "kyb_status" \in names THEN Dropped(d) ELSE d.kyb
  OBVIOUS
<1>5. PICK cols : cols = Restrict(d.tables[t].columns, DOMAIN d.tables[t].columns \ names)
  OBVIOUS
<1>6. e = Alter(d, t, cols, k)
  BY <1>2, <1>3, <1>4, <1>5 DEF Alter, ColumnsDropped, Exists
<1>7. Altered(d, e, t) /\ e.tables[t].columns = cols /\ e.kyb = k
  BY <1>6, AlteredTable
<1>8. DOMAIN cols = DOMAIN d.tables[t].columns \ names
  BY <1>5 DEF Restrict
<1> QED
  BY <1>4, <1>7, <1>8

-----------------------------------------------------------------------------
(* The columns of the revisions, and the types they need.                   *)
LEMMA ColumnTypes ==
  /\ DOMAIN MerchantColumns = OrmMerchant
  /\ Range(MerchantColumns) \subseteq
       {"plain", "settlement_currency_enum", "merchant_status_enum", "kyb_status_enum",
        "business_type_enum"}
  /\ DOMAIN TransactionColumns = OrmTransaction
  /\ Range(TransactionColumns) \subseteq
       {"plain", "payment_method_enum", "settlement_currency_enum", "transaction_status_enum"}
  /\ Range(ReconciliationColumns) \subseteq {"plain", "reconciliation_status_enum"}
<1>1. DOMAIN MerchantColumns = OrmMerchant
  BY DEF MerchantColumns, OrmMerchant
<1>2. DOMAIN TransactionColumns = OrmTransaction
  BY DEF TransactionColumns, OrmTransaction
<1>3. Range(MerchantColumns) \subseteq
       {"plain", "settlement_currency_enum", "merchant_status_enum", "kyb_status_enum",
        "business_type_enum"}
  BY DEF MerchantColumns, Range
<1>4. Range(TransactionColumns) \subseteq
       {"plain", "payment_method_enum", "settlement_currency_enum", "transaction_status_enum"}
  BY DEF TransactionColumns, Range
<1>5. Range(ReconciliationColumns) \subseteq {"plain", "reconciliation_status_enum"}
  BY DEF ReconciliationColumns, Range
<1> QED
  BY <1>1, <1>2, <1>3, <1>4, <1>5

LEMMA OlderColumnTypes ==
  /\ DOMAIN OlderMerchants = {"rest", "settlement_currency", "status"}
  /\ Range(OlderMerchants) \subseteq {"plain", "settlement_currency_enum", "merchant_status_enum"}
  /\ DOMAIN OlderTransactions = {"rest", "payment_method", "settlement_currency", "status"}
  /\ Range(OlderTransactions) \subseteq
       {"plain", "payment_method_enum", "settlement_currency_enum", "transaction_status_enum"}
<1>1. /\ DOMAIN OlderMerchants = {"rest", "settlement_currency", "status"}
      /\ DOMAIN OlderTransactions = {"rest", "payment_method", "settlement_currency", "status"}
  BY DEF OlderMerchants, OlderTransactions, Restrict
<1>2. Range(OlderMerchants) \subseteq {"plain", "settlement_currency_enum", "merchant_status_enum"}
  BY DEF OlderMerchants, MerchantColumns, Restrict, Range
<1>3. Range(OlderTransactions) \subseteq
       {"plain", "payment_method_enum", "settlement_currency_enum", "transaction_status_enum"}
  BY DEF OlderTransactions, TransactionColumns, Restrict, Range
<1> QED
  BY <1>1, <1>2, <1>3

LEMMA PlainColumns ==
  ASSUME NEW names
  PROVE  DOMAIN Plain(names) = names /\ Range(Plain(names)) \subseteq {"plain"}
BY DEF Plain, Range

-----------------------------------------------------------------------------
(* What the revisions leave.  A database without tables:                    *)
Vacant(d) ==
  /\ Db(d) /\ d.ok /\ DOMAIN d.tables = {}
  /\ d.kyb = [m \in Merchants |-> "no row"]

(* All tables, referring to each other as 0001 created them, with the       *)
(* columns that no revision drops:                                          *)
Installed(d) ==
  /\ Db(d) /\ d.ok /\ DOMAIN d.tables = Tables
  /\ d.tables["merchants"].refs = {} /\ d.tables["fx_rates"].refs = {}
  /\ d.tables["virtual_accounts"].refs = {"merchants"}
  /\ d.tables["transactions"].refs = {"merchants", "virtual_accounts"}
  /\ d.tables["reconciliation_logs"].refs = {"transactions"}
  /\ {"rest", "settlement_currency", "status"} \subseteq DOMAIN ColumnsOf(d, "merchants")
  /\ {"rest", "payment_method", "settlement_currency", "status"}
       \subseteq DOMAIN ColumnsOf(d, "transactions")
  /\ "transaction_status_enum" \in d.types

(* All that the application asks for:                                       *)
Complete(d) ==
  /\ OrmMerchant \subseteq DOMAIN ColumnsOf(d, "merchants")
  /\ OrmTransaction \subseteq DOMAIN ColumnsOf(d, "transactions")
  /\ "upi_confirmed" \in d.types

(* The rows of merchants have a kyb_status when the column exists.          *)
KybFits(d) ==
  /\ d.kyb \in [Merchants -> KybValues]
  /\ \A m \in Merchants :
       /\ d.kyb[m] \in KYBStatus => "kyb_status" \in DOMAIN ColumnsOf(d, "merchants")
       /\ d.kyb[m] = "no column" => "kyb_status" \notin DOMAIN ColumnsOf(d, "merchants")

(* Both editions of 0001 create the types of the columns, then the tables,  *)
(* each after those it refers to.                                           *)
LEMMA Creation ==
  ASSUME NEW d, Vacant(d), NEW names, NEW MC, NEW TC,
         Range(MC) \subseteq names \cup {"plain"}, Range(TC) \subseteq names \cup {"plain"},
         {"rest", "settlement_currency", "status"} \subseteq DOMAIN MC,
         {"rest", "payment_method", "settlement_currency", "status"} \subseteq DOMAIN TC,
         {"reconciliation_status_enum", "transaction_status_enum"} \subseteq names,
         NEW e,
         e = d $ CreateTypes(names)
               $ CreateTable("merchants", MC, {})
               $ CreateTable("virtual_accounts", Plain({"rest"}), {"merchants"})
               $ CreateTable("transactions", TC, {"merchants", "virtual_accounts"})
               $ CreateTable("fx_rates", Plain({"rest"}), {})
               $ CreateTable("reconciliation_logs", ReconciliationColumns, {"transactions"})
  PROVE  /\ Installed(e) /\ e.kyb = d.kyb /\ names \subseteq e.types
         /\ ColumnsOf(e, "merchants") = MC /\ ColumnsOf(e, "transactions") = TC
<1>1. PICK d1 : d1 = d $ CreateTypes(names)
  OBVIOUS
<1>2. PICK d2 : d2 = d1 $ CreateTable("merchants", MC, {})
  OBVIOUS
<1>3. PICK d3 : d3 = d2 $ CreateTable("virtual_accounts", Plain({"rest"}), {"merchants"})
  OBVIOUS
<1>4. PICK d4 : d4 = d3 $ CreateTable("transactions", TC, {"merchants", "virtual_accounts"})
  OBVIOUS
<1>5. PICK d5 : d5 = d4 $ CreateTable("fx_rates", Plain({"rest"}), {})
  OBVIOUS
<1>6. e = d5 $ CreateTable("reconciliation_logs", ReconciliationColumns, {"transactions"})
  BY <1>1, <1>2, <1>3, <1>4, <1>5
<1>10. Db(d) /\ d.ok /\ DOMAIN d.tables = {}
  BY DEF Vacant
<1>11. /\ Db(d1) /\ d1.ok /\ d1.types = d.types \cup names /\ d1.kyb = d.kyb
       /\ d1.tables = d.tables
  BY <1>1, <1>10, CreateTypesDoes
<1>12. /\ Db(d2) /\ d2.ok /\ d2.types = d1.types /\ d2.kyb = d.kyb
       /\ DOMAIN d2.tables = {"merchants"}
       /\ d2.tables["merchants"].columns = MC /\ d2.tables["merchants"].refs = {}
  <2>1. /\ "merchants" \notin DOMAIN d1.tables /\ {} \subseteq DOMAIN d1.tables
        /\ Range(MC) \subseteq d1.types \cup {"plain"}
    BY <1>10, <1>11
  <2>2. TableAdded(d1, d2, "merchants", MC, {})
    BY <1>2, <1>11, <2>1, CreateTableDoes
  <2> QED
    BY <1>10, <1>11, <2>2 DEF TableAdded
<1>13. /\ Db(d3) /\ d3.ok /\ d3.types = d1.types /\ d3.kyb = d.kyb
       /\ DOMAIN d3.tables = {"merchants", "virtual_accounts"}
       /\ d3.tables["merchants"] = d2.tables["merchants"]
       /\ d3.tables["virtual_accounts"].refs = {"merchants"}
  <2>1. /\ "virtual_accounts" \notin DOMAIN d2.tables /\ {"merchants"} \subseteq DOMAIN d2.tables
        /\ Range(Plain({"rest"})) \subseteq d2.types \cup {"plain"}
    BY <1>10, <1>11, <1>12, PlainColumns
  <2>2. TableAdded(d2, d3, "virtual_accounts", Plain({"rest"}), {"merchants"})
    BY <1>3, <1>12, <2>1, CreateTableDoes
  <2> QED
    BY <1>10, <1>11, <1>12, <2>2 DEF TableAdded
<1>14. /\ Db(d4) /\ d4.ok /\ d4.types = d1.types /\ d4.kyb = d.kyb
       /\ DOMAIN d4.tables = {"merchants", "virtual_accounts", "transactions"}
       /\ d4.tables["merchants"] = d2.tables["merchants"]
       /\ d4.tables["virtual_accounts"] = d3.tables["virtual_accounts"]
       /\ d4.tables["transactions"].columns = TC
       /\ d4.tables["transactions"].refs = {"merchants", "virtual_accounts"}
  <2>1. /\ "transactions" \notin DOMAIN d3.tables /\ {"merchants", "virtual_accounts"} \subseteq DOMAIN d3.tables
        /\ Range(TC) \subseteq d3.types \cup {"plain"}
    BY <1>10, <1>11, <1>13
  <2>2. TableAdded(d3, d4, "transactions", TC, {"merchants", "virtual_accounts"})
    BY <1>4, <1>13, <2>1, CreateTableDoes
  <2> QED
    BY <1>10, <1>11, <1>13, <2>2 DEF TableAdded
<1>15. /\ Db(d5) /\ d5.ok /\ d5.types = d1.types /\ d5.kyb = d.kyb
       /\ DOMAIN d5.tables = {"merchants", "virtual_accounts", "transactions", "fx_rates"}
       /\ d5.tables["merchants"] = d2.tables["merchants"]
       /\ d5.tables["virtual_accounts"] = d3.tables["virtual_accounts"]
       /\ d5.tables["transactions"] = d4.tables["transactions"]
       /\ d5.tables["fx_rates"].refs = {}
  <2>1. /\ "fx_rates" \notin DOMAIN d4.tables /\ {} \subseteq DOMAIN d4.tables
        /\ Range(Plain({"rest"})) \subseteq d4.types \cup {"plain"}
    BY <1>10, <1>11, <1>14, PlainColumns
  <2>2. TableAdded(d4, d5, "fx_rates", Plain({"rest"}), {})
    BY <1>5, <1>14, <2>1, CreateTableDoes
  <2> QED
    BY <1>10, <1>11, <1>14, <2>2 DEF TableAdded
<1>16. /\ Db(e) /\ e.ok /\ e.types = d1.types /\ e.kyb = d.kyb
       /\ DOMAIN e.tables = DOMAIN d5.tables \cup {"reconciliation_logs"}
       /\ \A t \in DOMAIN d5.tables : e.tables[t] = d5.tables[t]
       /\ e.tables["reconciliation_logs"].refs = {"transactions"}
  <2>1. /\ "reconciliation_logs" \notin DOMAIN d5.tables /\ {"transactions"} \subseteq DOMAIN d5.tables
        /\ Range(ReconciliationColumns) \subseteq d5.types \cup {"plain"}
    BY <1>10, <1>11, <1>15, ColumnTypes
  <2>2. TableAdded(d5, e, "reconciliation_logs", ReconciliationColumns, {"transactions"})
    BY <1>6, <1>15, <2>1, CreateTableDoes
  <2> QED
    BY <1>10, <1>11, <1>15, <2>2 DEF TableAdded
<1> QED
  BY <1>11, <1>12, <1>13, <1>14, <1>15, <1>16 DEF Installed, ColumnsOf, Tables

LEMMA Upgrade0001Does ==
  ASSUME NEW d, Vacant(d)
  PROVE  LET e == upgrade_0001(d)
         IN  Installed(e) /\ KybFits(e) /\ e.kyb = d.kyb
<1>1. PICK e : e = upgrade_0001(d)
  OBVIOUS
<1>2. Installed(e) /\ e.kyb = d.kyb
  BY <1>1, ColumnTypes, Creation DEF upgrade_0001, Enums, OrmMerchant, OrmTransaction
<1>3. KybFits(e)
  BY <1>2 DEF KybFits, Vacant, KybValues, KYBStatus
<1> QED
  BY <1>1, <1>2, <1>3

LEMMA Older0001Does ==
  ASSUME NEW d, Vacant(d)
  PROVE  LET e == Older0001(d)
         IN  Installed(e) /\ "kyb_status" \notin DOMAIN ColumnsOf(e, "merchants")
<1>1. PICK e : e = Older0001(d)
  OBVIOUS
<1>2. Installed(e) /\ ColumnsOf(e, "merchants") = OlderMerchants
  BY <1>1, OlderColumnTypes, Creation DEF Older0001, Enums
<1> QED
  BY <1>1, <1>2, OlderColumnTypes

(* The downgrade of 0001 drops every table before those it refers to, and   *)
(* the types when no table is left.                                         *)
LEMMA Downgrade0001Does ==
  ASSUME NEW d, Installed(d)
  PROVE  Vacant(downgrade_0001(d))
<1>1. PICK d1 : d1 = d $ DropTable("reconciliation_logs")
  OBVIOUS
<1>2. PICK d2 : d2 = d1 $ DropTable("fx_rates")
  OBVIOUS
<1>3. PICK d3 : d3 = d2 $ DropTable("transactions")
  OBVIOUS
<1>4. PICK d4 : d4 = d3 $ DropTable("virtual_accounts")
  OBVIOUS
<1>5. PICK d5 : d5 = d4 $ DropTable("merchants")
  OBVIOUS
<1>10. Db(d) /\ d.ok /\ DOMAIN d.tables = Tables
  BY DEF Installed
<1>11. TableRemoved(d, d1, "reconciliation_logs")
  <2>1. ~ References(d, "reconciliation_logs")
    BY DEF Installed, References, Tables
  <2> QED
    BY <1>1, <1>10, <2>1, DropTableDoes
<1>12. TableRemoved(d1, d2, "fx_rates")
  <2>1. ~ References(d1, "fx_rates") /\ Db(d1) /\ d1.ok
    BY <1>11 DEF Installed, References, TableRemoved, Tables
  <2> QED
    BY <1>2, <2>1, DropTableDoes
<1>13. TableRemoved(d2, d3, "transactions")
  <2>1. ~ References(d2, "transactions") /\ Db(d2) /\ d2.ok
    BY <1>11, <1>12 DEF Installed, References, TableRemoved, Tables
  <2> QED
    BY <1>3, <2>1, DropTableDoes
<1>14. TableRemoved(d3, d4, "virtual_accounts")
  <2>1. ~ References(d3, "virtual_accounts") /\ Db(d3) /\ d3.ok
    BY <1>11, <1>12, <1>13 DEF Installed, References, TableRemoved, Tables
  <2> QED
    BY <1>4, <2>1, DropTableDoes
<1>15. TableRemoved(d4, d5, "merchants") /\ DOMAIN d5.tables = {}
  <2>1. /\ DOMAIN d4.tables = {"merchants"} /\ d4.tables["merchants"] = d.tables["merchants"]
        /\ Db(d4) /\ d4.ok
    BY <1>10, <1>11, <1>12, <1>13, <1>14 DEF TableRemoved, Tables
  <2>2. ~ References(d4, "merchants")
    BY <2>1 DEF Installed, References
  <2>3. TableRemoved(d4, d5, "merchants")
    BY <1>5, <2>1, <2>2, DropTableDoes
  <2> QED
    BY <2>1, <2>3 DEF TableRemoved
<1>16. Vacant(d5)
  BY <1>15 DEF TableRemoved, Vacant
<1>17. ASSUME NEW v, Vacant(v), NEW ty
       PROVE  Vacant(v $ DropType(ty))
  <2>1. PICK w : w = v $ DropType(ty)
    OBVIOUS
  <2>2. Db(v) /\ v.ok /\ DOMAIN v.tables = {} /\ v.kyb = [m \in Merchants |-> "no row"]
    BY <1>17 DEF Vacant
  <2>3. Db(w) /\ w.ok /\ w.tables = v.tables /\ w.kyb = v.kyb
    BY <2>1, <2>2, DropTypeDoes
  <2> QED
    BY <2>1, <2>2, <2>3 DEF Vacant
<1>18. downgrade_0001(d) =
         d5 $ DropType("reconciliation_status_enum") $ DropType("transaction_status_enum")
            $ DropType("payment_method_enum") $ DropType("business_type_enum")
            $ DropType("kyb_status_enum") $ DropType("merchant_status_enum")
            $ DropType("settlement_currency_enum")
  BY <1>1, <1>2, <1>3, <1>4, <1>5 DEF downgrade_0001
<1> QED
  BY <1>16, <1>17, <1>18

(* What 0002 adds and drops.                                                *)
LEMMA AlteredInstalled ==
  ASSUME NEW d, Installed(d), NEW e, NEW t \in Tables, Altered(d, e, t),
         t = "merchants" =>
           {"rest", "settlement_currency", "status"} \subseteq DOMAIN ColumnsOf(e, t),
         t = "transactions" =>
           {"rest", "payment_method", "settlement_currency", "status"}
             \subseteq DOMAIN ColumnsOf(e, t)
  PROVE  Installed(e)
<1>1. /\ Db(e) /\ e.ok /\ e.types = d.types /\ DOMAIN e.tables = Tables
      /\ \A u \in Tables : /\ e.tables[u].refs = d.tables[u].refs
                           /\ u # t => e.tables[u] = d.tables[u]
  BY DEF Altered, Installed
<1>2. /\ {"rest", "settlement_currency", "status"} \subseteq DOMAIN ColumnsOf(e, "merchants")
      /\ {"rest", "payment_method", "settlement_currency", "status"}
           \subseteq DOMAIN ColumnsOf(e, "transactions")
  BY <1>1 DEF Installed, ColumnsOf, Tables
<1> QED
  BY <1>1, <1>2 DEF Installed, Tables

LEMMA AddedColumns ==
  /\ OrmMerchant = {"rest", "settlement_currency", "status"} \cup DOMAIN AddedToMerchants
  /\ OrmTransaction = {"rest", "payment_method", "settlement_currency", "status"}
                        \cup DOMAIN AddedToTransactions
  /\ "kyb_status" \in DOMAIN AddedToMerchants
  /\ "kyb_status" \notin DOMAIN AddedToTransactions
  /\ Range(AddedToMerchants) \subseteq {"plain"} /\ Range(AddedToTransactions) \subseteq {"plain"}
BY PlainColumns DEF OrmMerchant, OrmTransaction, AddedToMerchants, AddedToTransactions

LEMMA Upgrade0002Does ==
  ASSUME NEW d, Installed(d), KybFits(d)
  PROVE  LET e == upgrade_0002(d)
         IN  /\ Installed(e) /\ Complete(e) /\ KybFits(e)
             /\ \A m \in Merchants : d.kyb[m] = "APPROVED" => e.kyb[m] = "APPROVED"
<1>1. PICK d1 : d1 = d $ AddValue("transaction_status_enum", "upi_confirmed")
  OBVIOUS
<1>2. PICK d2 : d2 = d1 $ CreateTypes({"kyb_status_enum", "business_type_enum"})
  OBVIOUS
<1>3. PICK d3 : d3 = d2 $ AddColumns("merchants", AddedToMerchants)
  OBVIOUS
<1>4. PICK e : e = d3 $ AddColumns("transactions", AddedToTransactions)
  OBVIOUS
<1>10. Db(d) /\ d.ok /\ "transaction_status_enum" \in d.types /\ DOMAIN d.tables = Tables
  BY DEF Installed
<1>11. /\ Db(d1) /\ d1.ok /\ d1.types = d.types \cup {"upi_confirmed"}
       /\ d1.tables = d.tables /\ d1.kyb = d.kyb
  BY <1>1, <1>10, AddValueDoes
<1>12. /\ Db(d2) /\ d2.ok /\ d2.types = d1.types \cup {"kyb_status_enum", "business_type_enum"}
       /\ d2.tables = d1.tables /\ d2.kyb = d1.kyb
  BY <1>2, <1>11, CreateTypesDoes
<1>13. Installed(d2) /\ "upi_confirmed" \in d2.types /\ d2.tables = d.tables /\ d2.kyb = d.kyb
  BY <1>11, <1>12 DEF Installed, ColumnsOf
<1>14. /\ Altered(d2, d3, "merchants") /\ d3.kyb = Defaulted(d)
       /\ DOMAIN ColumnsOf(d3, "merchants")
            = DOMAIN ColumnsOf(d2, "merchants") \cup DOMAIN AddedToMerchants
  <2>1. "merchants" \in DOMAIN d2.tables /\ Range(AddedToMerchants) \subseteq d2.types \cup {"plain"}
    BY <1>10, <1>13, AddedColumns DEF Tables
  <2>2. Altered(d2, d3, "merchants")
    BY <1>3, <1>12, <2>1, AddColumnsDoes
  <2>3. /\ DOMAIN d3.tables["merchants"].columns
             = DOMAIN d2.tables["merchants"].columns \cup DOMAIN AddedToMerchants
        /\ d3.kyb = Defaulted(d2)
    BY <1>3, <1>12, <2>1, AddedColumns, AddColumnsDoes
  <2> QED
    BY <1>13, <2>2, <2>3 DEF ColumnsOf, Defaulted
<1>15. Installed(d3) /\ OrmMerchant \subseteq DOMAIN ColumnsOf(d3, "merchants")
  <2>1. OrmMerchant \subseteq DOMAIN ColumnsOf(d3, "merchants")
    BY <1>13, <1>14, AddedColumns DEF Installed
  <2> QED
    BY <1>13, <1>14, <2>1, AlteredInstalled DEF Tables, OrmMerchant
<1>16. /\ Altered(d3, e, "transactions") /\ e.kyb = d3.kyb
       /\ DOMAIN ColumnsOf(e, "transactions")
            = DOMAIN ColumnsOf(d3, "transactions") \cup DOMAIN AddedToTransactions
  <2>1. /\ "transactions" \in DOMAIN d3.tables /\ Db(d3) /\ d3.ok
        /\ Range(AddedToTransactions) \subseteq d3.types \cup {"plain"}
    BY <1>15, AddedColumns DEF Installed, Tables
  <2>2. Altered(d3, e, "transactions")
    BY <1>4, <2>1, AddColumnsDoes
  <2>3. /\ DOMAIN e.tables["transactions"].columns
             = DOMAIN d3.tables["transactions"].columns \cup DOMAIN AddedToTransactions
        /\ e.kyb = d3.kyb
    BY <1>4, <2>1, AddedColumns, AddColumnsDoes
  <2> QED
    BY <2>2, <2>3 DEF ColumnsOf
<1>17. Installed(e) /\ Complete(e)
  <2>1. OrmTransaction \subseteq DOMAIN ColumnsOf(e, "transactions")
    BY <1>15, <1>16, AddedColumns DEF Installed
  <2>2. Installed(e)
    BY <1>15, <1>16, <2>1, AlteredInstalled DEF Tables, OrmTransaction
  <2>3. ColumnsOf(e, "merchants") = ColumnsOf(d3, "merchants")
    BY <1>15, <1>16 DEF Altered, Installed, Tables, ColumnsOf
  <2>4. "upi_confirmed" \in e.types
    BY <1>13, <1>14, <1>16 DEF Altered
  <2> QED
    BY <1>15, <2>1, <2>2, <2>3, <2>4 DEF Complete
<1>18. KybFits(e) /\ \A m \in Merchants : d.kyb[m] = "APPROVED" => e.kyb[m] = "APPROVED"
  <2>1. /\ e.kyb \in [Merchants -> KybValues]
        /\ \A m \in Merchants : /\ e.kyb[m] # "no column"
                                /\ d.kyb[m] = "APPROVED" => e.kyb[m] = "APPROVED"
    BY <1>14, <1>16 DEF Defaulted, KybFits, KybValues, KYBStatus
  <2>2. "kyb_status" \in DOMAIN ColumnsOf(e, "merchants")
    BY <1>17 DEF Complete, OrmMerchant
  <2> QED
    BY <2>1, <2>2 DEF KybFits
<1>19. e = upgrade_0002(d)
  BY <1>1, <1>2, <1>3, <1>4 DEF upgrade_0002
<1> QED
  BY <1>17, <1>18, <1>19

LEMMA Downgrade0002Does ==
  ASSUME NEW d, Installed(d), KybFits(d)
  PROVE  LET e == downgrade_0002(d)
         IN  Installed(e) /\ KybFits(e)
<1> DEFINE T == {"settlement_completed_at", "settlement_initiated_at", "opgsp_ref",
                 "merchant_country", "amount_inr_collected", "fx_rate_final",
                 "fx_rate_expires_at", "fx_rate_locked_at", "fx_rate_locked",
                 "opgsp_cap_applied", "usd_equivalent", "payment_expires_at", "upi_ref", "vpa",
                 "upi_qr_payload", "upi_deep_link"}
           M == {"kyb_status", "incorporation_number", "website_url", "business_type"}
<1>1. PICK d1 : d1 = d $ DropColumns("transactions", T)
  OBVIOUS
<1>2. PICK e : e = d1 $ DropColumns("merchants", M)
  OBVIOUS
<1>3. downgrade_0002(d) = e
  BY <1>1, <1>2 DEF downgrade_0002
<1>4. /\ "kyb_status" \notin T /\ "kyb_status" \in M
      /\ \A c \in {"rest", "payment_method", "settlement_currency", "status"} : c \notin T
      /\ \A c \in {"rest", "settlement_currency", "status"} : c \notin M
  OBVIOUS
<1> HIDE DEF T, M
<1>10. Db(d) /\ d.ok /\ "transactions" \in DOMAIN d.tables
  BY DEF Installed, Tables
<1>11. /\ Altered(d, d1, "transactions") /\ d1.kyb = d.kyb
       /\ DOMAIN ColumnsOf(d1, "transactions") = DOMAIN ColumnsOf(d, "transactions") \ T
  BY <1>1, <1>4, <1>10, DropColumnsDoes DEF ColumnsOf
<1>12. Installed(d1)
  <2>1. {"rest", "payment_method", "settlement_currency", "status"}
          \subseteq DOMAIN ColumnsOf(d1, "transactions")
    BY <1>4, <1>11 DEF Installed
  <2> QED
    BY <1>11, <2>1, AlteredInstalled DEF Tables
<1>13. Db(d1) /\ d1.ok /\ "merchants" \in DOMAIN d1.tables
  BY <1>12 DEF Installed, Tables
<1>14. /\ Altered(d1, e, "merchants") /\ e.kyb = Dropped(d1)
       /\ DOMAIN ColumnsOf(e, "merchants") = DOMAIN ColumnsOf(d1, "merchants") \ M
  BY <1>2, <1>4, <1>13, DropColumnsDoes DEF ColumnsOf
<1>15. Installed(e)
  <2>1. {"rest", "settlement_currency", "status"} \subseteq DOMAIN ColumnsOf(e, "merchants")
    BY <1>4, <1>12, <1>14 DEF Installed
  <2> QED
    BY <1>12, <1>14, <2>1, AlteredInstalled DEF Tables
<1>16. KybFits(e)
  BY <1>4, <1>11, <1>14 DEF KybFits, Dropped, KybValues, KYBStatus
<1> QED
  BY <1>3, <1>15, <1>16

-----------------------------------------------------------------------------
(* The invariant: what each revision leaves, the application keeps.         *)
SchemaInv ==
  \/ version = "none" /\ Vacant(db)
  \/ version = "0001" /\ Installed(db) /\ KybFits(db)
  \/ version = "0002" /\ Installed(db) /\ KybFits(db) /\ Complete(db)

LEMMA SchemaInit == Init => SchemaInv
<1>1. Vacant(Empty)
  BY DEF Empty, Vacant, Db
<1>2. CASE version = "none" /\ db = Empty
  BY <1>1, <1>2 DEF SchemaInv
<1>3. ASSUME version = "0001", NEW M \in SUBSET Merchants,
             db = [Older0001(Empty) EXCEPT
                     !.kyb = [m \in Merchants |-> IF m \in M THEN "no column" ELSE "no row"]]
      PROVE  SchemaInv
  <2>1. PICK e : e = Older0001(Empty)
    OBVIOUS
  <2>2. Installed(e) /\ "kyb_status" \notin DOMAIN ColumnsOf(e, "merchants")
    BY <1>1, <2>1, Older0001Does
  <2>3. PICK k : k = [m \in Merchants |-> IF m \in M THEN "no column" ELSE "no row"]
    OBVIOUS
  <2>4. db = [e EXCEPT !.kyb = k]
    BY <1>3, <2>1, <2>3
  <2>5. /\ DOMAIN db = DOMAIN e /\ db.kyb = k /\ db.ok = e.ok /\ db.types = e.types
        /\ db.tables = e.tables
    BY <2>2, <2>4 DEF Installed, Db
  <2>6. Installed(db)
    BY <2>2, <2>5 DEF Installed, Db, ColumnsOf
  <2>7. KybFits(db)
    BY <2>2, <2>3, <2>5 DEF KybFits, ColumnsOf, KybValues, KYBStatus
  <2> QED
    BY <1>3, <2>6, <2>7 DEF SchemaInv
<1> QED
  BY <1>2, <1>3 DEF Init

(* No revision fails where the invariant holds.                             *)
LEMMA RevisionsSucceed == SchemaInv => NeverStuck
<1> SUFFICES ASSUME SchemaInv PROVE NeverStuck
  OBVIOUS
<1>1. version = "none" => upgrade_0001(db).ok
  BY Upgrade0001Does DEF SchemaInv, Installed
<1>2. version = "0001" => upgrade_0002(db).ok /\ downgrade_0001(db).ok
  BY Upgrade0002Does, Downgrade0001Does DEF SchemaInv, Installed, Vacant
<1>3. version = "0002" => downgrade_0002(db).ok
  BY Downgrade0002Does DEF SchemaInv, Installed
<1> QED
  BY <1>1, <1>2, <1>3 DEF NeverStuck

(* The application writes kyb_status only where the column exists.          *)
LEMMA SetKybKeeps ==
  ASSUME SchemaInv, NEW m \in Merchants, NEW from, NEW to \in KYBStatus, SetKyb(m, from, to)
  PROVE  /\ SchemaInv'
         /\ \A n \in Merchants : n # m => db'.kyb[n] = db.kyb[n]
         /\ db.kyb[m] = from
<1>1. /\ "merchants" \in DOMAIN db.tables /\ OrmMerchant \subseteq DOMAIN ColumnsOf(db, "merchants")
      /\ db' = [db EXCEPT !.kyb[m] = to] /\ version' = version /\ db.kyb[m] = from
  BY DEF SetKyb, Has, Exists
<1>2. version \in {"0001", "0002"} /\ Installed(db) /\ KybFits(db)
  BY <1>1 DEF SchemaInv, Vacant
<1>3. Db(db)
  BY <1>2 DEF Installed
<1>4. /\ DOMAIN db' = DOMAIN db /\ db'.ok = db.ok /\ db'.types = db.types
      /\ db'.tables = db.tables /\ db'.kyb = [db.kyb EXCEPT ![m] = to]
  BY <1>1, <1>3 DEF Db
<1>5. Installed(db') /\ (Complete(db) => Complete(db'))
  BY <1>2, <1>3, <1>4 DEF Installed, Complete, Db, ColumnsOf
<1>6. KybFits(db')
  <2>1. "kyb_status" \in DOMAIN ColumnsOf(db', "merchants")
    BY <1>1, <1>4 DEF ColumnsOf, OrmMerchant
  <2>2. /\ db'.kyb \in [Merchants -> KybValues]
        /\ \A n \in Merchants : db'.kyb[n] # "no column"
    BY <1>1, <1>2, <1>4 DEF KybFits, KybValues, KYBStatus, OrmMerchant
  <2> QED
    BY <2>1, <2>2 DEF KybFits
<1>7. \A n \in Merchants : n # m => db'.kyb[n] = db.kyb[n]
  BY <1>2, <1>4 DEF KybFits
<1> QED
  BY <1>1, <1>2, <1>5, <1>6, <1>7 DEF SchemaInv

(* Every step keeps the invariant, and an approval except in a downgrade.   *)
KeepsApprovals ==
  \A m \in Merchants :
    db.kyb[m] = "APPROVED" /\ db'.kyb[m] # "APPROVED" =>
      <<version, version'>> \in {<<"0002", "0001">>, <<"0001", "none">>}

LEMMA SchemaStep == SchemaInv /\ [Next]_vars => SchemaInv' /\ KeepsApprovals
<1> SUFFICES ASSUME SchemaInv, [Next]_vars PROVE SchemaInv' /\ KeepsApprovals
  OBVIOUS
<1>0. NeverStuck
  BY RevisionsSucceed
<1>1. CASE version = "none" /\ Apply(upgrade_0001(db), "0001")
  <2>1. Vacant(db)
    BY <1>1 DEF SchemaInv
  <2>2. PICK e : e = upgrade_0001(db)
    OBVIOUS
  <2>3. Installed(e) /\ KybFits(e) /\ e.kyb = db.kyb /\ e.ok
    BY <2>1, <2>2, Upgrade0001Does DEF Installed
  <2>4. db' = e /\ version' = "0001"
    BY <1>1, <2>2, <2>3 DEF Apply
  <2> QED
    BY <2>3, <2>4 DEF SchemaInv, KeepsApprovals
<1>2. CASE version = "0001" /\ Apply(upgrade_0002(db), "0002")
  <2>1. Installed(db) /\ KybFits(db)
    BY <1>2 DEF SchemaInv
  <2>2. PICK e : e = upgrade_0002(db)
    OBVIOUS
  <2>3. /\ Installed(e) /\ Complete(e) /\ KybFits(e) /\ e.ok
        /\ \A m \in Merchants : db.kyb[m] = "APPROVED" => e.kyb[m] = "APPROVED"
    BY <2>1, <2>2, Upgrade0002Does DEF Installed
  <2>4. db' = e /\ version' = "0002"
    BY <1>2, <2>2, <2>3 DEF Apply
  <2> QED
    BY <2>3, <2>4 DEF SchemaInv, KeepsApprovals
<1>3. CASE version = "0001" /\ Apply(downgrade_0001(db), "none")
  <2>1. PICK e : e = downgrade_0001(db)
    OBVIOUS
  <2>2. Vacant(e) /\ e.ok
    BY <1>3, <2>1, Downgrade0001Does DEF SchemaInv, Vacant
  <2>3. db' = e /\ version' = "none"
    BY <1>3, <2>1, <2>2 DEF Apply
  <2> QED
    BY <1>3, <2>2, <2>3 DEF SchemaInv, KeepsApprovals
<1>4. CASE version = "0002" /\ Apply(downgrade_0002(db), "0001")
  <2>1. Installed(db) /\ KybFits(db)
    BY <1>4 DEF SchemaInv
  <2>2. PICK e : e = downgrade_0002(db)
    OBVIOUS
  <2>3. Installed(e) /\ KybFits(e) /\ e.ok
    BY <2>1, <2>2, Downgrade0002Does DEF Installed
  <2>4. db' = e /\ version' = "0001"
    BY <1>4, <2>2, <2>3 DEF Apply
  <2> QED
    BY <1>4, <2>3, <2>4 DEF SchemaInv, KeepsApprovals
<1>5. ASSUME NEW m \in Merchants, Onboard(m) \/ Review(m)
      PROVE  SchemaInv' /\ KeepsApprovals
  <2>1. PICK from \in {"no row", "PENDING", "UNDER_REVIEW"}, to \in KYBStatus : SetKyb(m, from, to)
    BY <1>5 DEF Onboard, Review, KYBStatus
  <2> QED
    BY <2>1, SetKybKeeps DEF KeepsApprovals
<1>6. CASE UNCHANGED vars
  <2>1. version' = version /\ db' = db
    BY <1>6 DEF vars
  <2>2. Vacant(db') = Vacant(db) /\ Installed(db') = Installed(db)
        /\ KybFits(db') = KybFits(db) /\ Complete(db') = Complete(db)
    BY <2>1
  <2> QED
    BY <2>1, <2>2 DEF SchemaInv, KeepsApprovals
<1> QED
  BY <1>1, <1>2, <1>3, <1>4, <1>5, <1>6 DEF Next, Upgrade, Downgrade

THEOREM SchemaInvariant == Spec => []SchemaInv
<1>1. SchemaInv /\ [Next]_vars => SchemaInv'
  BY SchemaStep
<1> QED
  BY <1>1, SchemaInit, PTL DEF Spec

-----------------------------------------------------------------------------
(* The types; a merchant has a kyb_status exactly when the column exists.   *)
THEOREM TypeCorrect == Spec => []TypeOK
<1>1. SchemaInv => TypeOK
  <2> SUFFICES ASSUME SchemaInv PROVE TypeOK
    OBVIOUS
  <2>1. CASE version = "none" /\ Vacant(db)
    BY <2>1 DEF TypeOK, Vacant, Versions, KybValues, KYBStatus
  <2>2. CASE version \in {"0001", "0002"} /\ Installed(db) /\ KybFits(db)
    BY <2>2 DEF TypeOK, Installed, KybFits, Versions, Has, Exists, Tables
  <2> QED
    BY <2>1, <2>2 DEF SchemaInv
<1> QED
  BY <1>1, SchemaInvariant, PTL

(* Head has every column of the models and the status of the webhook,       *)
(* whether 0001 was this one or the older one.                              *)
THEOREM HeadIsComplete == Spec => []HeadComplete
<1>1. SchemaInv => HeadComplete
  BY DEF SchemaInv, HeadComplete, Complete, Installed, Has, Exists, Tables
<1> QED
  BY <1>1, SchemaInvariant, PTL

(* No revision fails, whatever ran before.                                  *)
THEOREM NoRevisionFails == Spec => []NeverStuck
BY RevisionsSucceed, SchemaInvariant, PTL

(* An upgrade, and the application, keep every approval.                    *)
THEOREM ApprovalsSurviveUpgrades == Spec => UpgradesKeepApprovals
<1>1. SchemaInv /\ [Next]_vars =>
        [\A m \in Merchants :
           db.kyb[m] = "APPROVED" /\ db'.kyb[m] # "APPROVED" =>
             <<version, version'>> \in {<<"0002", "0001">>, <<"0001", "none">>}]_vars
  BY SchemaStep DEF KeepsApprovals
<1> QED
  BY <1>1, SchemaInvariant, PTL DEF Spec, UpgradesKeepApprovals
===============================================================================
