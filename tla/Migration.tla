----------------------------- MODULE Migration -----------------------------
(***************************************************************************)
(* corm_auto_migrate (src/migration.c) with the drivers' describe_table,   *)
(* run by several processes against one database: each has its own version *)
(* of the models, may crash between two statements, and is started again.  *)
(* Every statement is one step of the database; what the three backends    *)
(* accept is external.                                                     *)
(*                                                                         *)
(* A column is a record [name, flags, ref]; a field of a model is the same *)
(* record before the library has put it into SQL.                          *)
(***************************************************************************)
EXTENDS Integers, Sequences, FiniteSets

CONSTANTS Migrators,   \* processes that call corm_auto_migrate
          Models,      \* [Migrators -> Seq([table, fields])], its argument
          Backends,    \* the backends a behaviour may start with
          Elsewhere,   \* per table: names of the columns that tables of that
                       \* name have in other PostgreSQL schemas
          NoRef,       \* fk_ref is NULL
          MaxFaults    \* bound: statements that fail by chance

Tables == DOMAIN Elsewhere
AllFields == UNION {UNION {{Models[m][k].fields[i] : i \in DOMAIN Models[m][k].fields} :
                            k \in DOMAIN Models[m]} : m \in Migrators}
ColumnNames == {f.name : f \in AllFields}
Flags == {"primary", "autoinc", "notnull", "unique", "default", "index"}
Columns == [name : ColumnNames, flags : SUBSET Flags,
            ref : {f.ref : f \in AllFields} \union {NoRef}]

ASSUME MigrationConstants ==
  /\ MaxFaults \in Nat
  /\ Backends \subseteq {"sqlite", "mysql", "postgres"}
  /\ \A m \in Migrators : /\ Models[m] \in Seq([table : Tables, fields : Seq(Columns)])
                          /\ Models[m] /= <<>>

VARIABLES backend,  \* db->backend->type
          db,       \* per table: its columns in order (none: no such table),
                    \* the columns it has indexes on, and whether it has rows
          pc,       \* per process: "down", its next statement, or "done"
          at,       \* i, the model it works on
          field,    \* j, the field it dealt with last
          seen,     \* the names in existing; none after a failed describe
          result,   \* what corm_auto_migrate returned
          refused,  \* <<table, name>> of the fields whose ALTER was refused
          faults    \* statements that failed by chance

local == <<pc, at, field, seen, result, refused>>
vars == <<backend, db, local, faults>>

NoTable == [cols |-> <<>>, indexes |-> {}, rows |-> FALSE]

Init ==
  /\ backend \in Backends
  /\ db = [t \in Tables |-> NoTable]
  /\ pc = [m \in Migrators |-> "down"] /\ at = [m \in Migrators |-> 1]
  /\ field = [m \in Migrators |-> 0] /\ seen = [m \in Migrators |-> {}]
  /\ result = [m \in Migrators |-> "none"] /\ refused = [m \in Migrators |-> {}]
  /\ faults = 0

Exists(t) == db[t].cols /= <<>>
Names(cols) == {cols[i].name : i \in DOMAIN cols}
Model(m) == Models[m][at[m]]
Has(f, flag) == flag \in f.flags

(***************************************************************************)
(* The statements that migration.c writes                                  *)
(***************************************************************************)

\* The fields whose definition is the dialect's own: "SERIAL PRIMARY KEY",
\* "INTEGER PRIMARY KEY AUTOINCREMENT".
OwnDefinition(f) == Has(f, "autoinc") /\ backend /= "mysql"

\* A column as CREATE TABLE declares it.
Declared(f) ==
  IF OwnDefinition(f)
  THEN [name |-> f.name, flags |-> {"primary", "autoinc"}, ref |-> NoRef]
  ELSE [f EXCEPT !.flags = @ \ {"index"}]

\* A column as ALTER TABLE adds it: without its key, counter and reference.
Added(f) ==
  [name |-> f.name, flags |-> f.flags \intersect {"notnull", "unique", "default"},
   ref |-> NoRef]

\* How many PRIMARY KEY clauses CREATE TABLE has: those of the dialect, and one
\* in the only key field's line or one of their own for several.
KeyClauses(fields) ==
  LET Those(P(_)) == {i \in DOMAIN fields : P(fields[i])}
      Primary(f) == Has(f, "primary")
      Inline(f) == Primary(f) /\ ~OwnDefinition(f)
  IN  Cardinality(Those(OwnDefinition))
        + (IF Cardinality(Those(Primary)) > 1 THEN 1 ELSE Cardinality(Those(Inline)))

Missing_NotAfterError(m) ==  \* mutant: adds nothing after a failed describe
  {j \in DOMAIN Model(m).fields :
     /\ j > field[m] /\ seen[m] /= {}
     /\ ~Has(Model(m).fields[j], "primary")
     /\ Model(m).fields[j].name \notin seen[m]}

\* The fields for which an ALTER is still to be sent.
Missing(m) ==
  {j \in DOMAIN Model(m).fields :
     /\ j > field[m]
     /\ ~Has(Model(m).fields[j], "primary")
     /\ Model(m).fields[j].name \notin seen[m]}

Unindexed_NewOnly(m) ==      \* mutant: no index on columns that were there
  {j \in DOMAIN Model(m).fields :
     /\ j > field[m] /\ Has(Model(m).fields[j], "index")
     /\ Model(m).fields[j].name \notin seen[m]}

\* The fields for which an index is still to be created.
Unindexed(m) ==
  {j \in DOMAIN Model(m).fields : j > field[m] /\ Has(Model(m).fields[j], "index")}

First(S) == CHOOSE j \in S : \A k \in S : j <= k

(***************************************************************************)
(* What the databases accept (external)                                    *)
(***************************************************************************)

\* One primary key; MySQL wants a key on a counter, PostgreSQL that a referenced
\* table exists.
AcceptsCreate(model) ==
  LET fields == {model.fields[i] : i \in DOMAIN model.fields}
  IN  /\ KeyClauses(model.fields) <= 1
      /\ backend = "mysql" =>
           \A f \in fields : Has(f, "autoinc") => Has(f, "primary") \/ Has(f, "unique")
      /\ backend = "postgres" =>
           \A f \in fields : Declared(f).ref = NoRef \/ f.ref = model.table \/ Exists(f.ref)

\* Why a column that is not there cannot be added, however often it is tried.
NeverAccepted(t, f) ==
  CASE backend = "sqlite"   -> \/ Has(f, "unique")
                               \/ db[t].rows /\ Has(f, "notnull") /\ ~Has(f, "default")
    [] backend = "postgres" -> db[t].rows /\ \/ Has(f, "notnull") /\ ~Has(f, "default")
                                             \/ Has(f, "unique") /\ Has(f, "default")
    [] backend = "mysql"    -> db[t].rows /\ Has(f, "unique")
                                 /\ (Has(f, "notnull") \/ Has(f, "default"))

AcceptsAlter(t, f) ==
  Exists(t) /\ f.name \notin Names(db[t].cols) /\ ~NeverAccepted(t, f)

\* MySQL has no CREATE INDEX IF NOT EXISTS.
AcceptsIndex(t, f) == backend /= "mysql" /\ f.name \in Names(db[t].cols)

\* corm_exec of a statement that makes new out of the database.  By chance it
\* fails without effect (a lock, a lost connection), or after it (a lost answer).
Exec(accepted, new, ok) ==
  \/ /\ ok = accepted
     /\ db' = IF accepted THEN new ELSE db
     /\ UNCHANGED faults
  \/ /\ ~ok /\ faults < MaxFaults /\ faults' = faults + 1
     /\ db' \in {db} \union (IF accepted THEN {new} ELSE {})

(***************************************************************************)
(* corm_auto_migrate                                                       *)
(***************************************************************************)

Start(m) ==
  /\ pc[m] \in {"down", "done"}
  /\ pc' = [pc EXCEPT ![m] = "create"] /\ result' = [result EXCEPT ![m] = "none"]
  /\ at' = [at EXCEPT ![m] = 1] /\ refused' = [refused EXCEPT ![m] = {}]
  /\ UNCHANGED <<backend, db, field, seen, faults>>

CreateTable_NoResult(m) ==   \* mutant: the early return has no value
  /\ pc[m] = "create"
  /\ pc' = [pc EXCEPT ![m] = "done"] /\ result' = [result EXCEPT ![m] = "garbage"]
  /\ UNCHANGED <<backend, db, at, field, seen, refused, faults>>

\* create_table: IF NOT EXISTS accepts any table of that name.
CreateTable(m) ==
  LET model == Model(m)
      t == model.table
      cols == [i \in DOMAIN model.fields |-> Declared(model.fields[i])]
      new == IF Exists(t) THEN db ELSE [db EXCEPT ![t].cols = cols]
  IN  /\ pc[m] = "create"
      /\ \E ok \in BOOLEAN :
           /\ Exec(Exists(t) \/ AcceptsCreate(model), new, ok)
           /\ pc' = [pc EXCEPT ![m] = IF ok THEN "describe" ELSE "done"]
           /\ result' = [result EXCEPT ![m] = IF ok THEN "none" ELSE "error"]
      /\ UNCHANGED <<backend, at, field, seen, refused>>

\* What describe_table may return on each backend.  PostgreSQL's query names no
\* schema; SQLite's loop ends at an error as it does after the last column.
pg_describe_table(t) == {Names(db[t].cols) \union Elsewhere[t]}
mysql_describe_table(t) == {Names(db[t].cols)}
sqlite_describe_table(t) == {Names(SubSeq(db[t].cols, 1, n)) : n \in 0..Len(db[t].cols)}

\* An error counts as an empty list: no field is skipped.
Descriptions(t) ==
  {{}} \union (CASE backend = "postgres" -> pg_describe_table(t)
                 [] backend = "mysql" -> mysql_describe_table(t)
                 [] backend = "sqlite" -> sqlite_describe_table(t))

Describe(m) ==
  LET t == Model(m).table
      Complete(names) == Names(db[t].cols) \subseteq names
  IN  /\ pc[m] = "describe"
      /\ \E names \in Descriptions(t) :
           /\ Complete(names) \/ faults < MaxFaults
           /\ faults' = IF Complete(names) THEN faults ELSE faults + 1
           /\ seen' = [seen EXCEPT ![m] = names]
      /\ pc' = [pc EXCEPT ![m] = "alter"]
      /\ UNCHANGED <<backend, db, at, field, result, refused>>

\* ALTER TABLE ... ADD COLUMN for the next field; its error is ignored.
AlterTable(m) ==
  LET t == Model(m).table
      j == First(Missing(m))
      f == Model(m).fields[j]
      new == [db EXCEPT ![t].cols = Append(@, Added(f))]
  IN  /\ pc[m] = "alter" /\ Missing(m) /= {}
      /\ \E ok \in BOOLEAN : Exec(AcceptsAlter(t, f), new, ok)
      /\ refused' = [refused EXCEPT ![m] =
           @ \union (IF f.name \in Names(db'[t].cols) THEN {} ELSE {<<t, f.name>>})]
      /\ field' = [field EXCEPT ![m] = j]
      /\ UNCHANGED <<backend, pc, at, seen, result>>

\* All fields are dealt with: on to the indexes.
AlterDone(m) ==
  /\ pc[m] = "alter" /\ Missing(m) = {}
  /\ pc' = [pc EXCEPT ![m] = "index"] /\ field' = [field EXCEPT ![m] = 0]
  /\ UNCHANGED <<backend, db, at, seen, result, refused, faults>>

\* CREATE INDEX for the next indexed field; its error is ignored.
CreateIndex(m) ==
  LET t == Model(m).table
      j == First(Unindexed(m))
      f == Model(m).fields[j]
  IN  /\ pc[m] = "index" /\ Unindexed(m) /= {}
      /\ \E ok \in BOOLEAN :
           Exec(AcceptsIndex(t, f), [db EXCEPT ![t].indexes = @ \union {f.name}], ok)
      /\ field' = [field EXCEPT ![m] = j]
      /\ UNCHANGED <<backend, pc, at, seen, result, refused>>

\* The next model, or CORM_OK after the last.
ModelDone(m) ==
  /\ pc[m] = "index" /\ Unindexed(m) = {}
  /\ at' = [at EXCEPT ![m] = @ + 1] /\ field' = [field EXCEPT ![m] = 0]
  /\ seen' = [seen EXCEPT ![m] = {}]
  /\ IF at[m] = Len(Models[m])
     THEN pc' = [pc EXCEPT ![m] = "done"] /\ result' = [result EXCEPT ![m] = "ok"]
     ELSE pc' = [pc EXCEPT ![m] = "create"] /\ UNCHANGED result
  /\ UNCHANGED <<backend, db, refused, faults>>

\* The process is killed; the statements it has sent stay.
Crash(m) ==
  /\ pc[m] \notin {"down", "done"} /\ faults < MaxFaults
  /\ faults' = faults + 1
  /\ pc' = [pc EXCEPT ![m] = "down"] /\ at' = [at EXCEPT ![m] = 1]
  /\ field' = [field EXCEPT ![m] = 0] /\ seen' = [seen EXCEPT ![m] = {}]
  /\ refused' = [refused EXCEPT ![m] = {}]
  /\ UNCHANGED <<backend, db, result>>

\* Some client inserts rows.
Insert(t) ==
  /\ Exists(t) /\ ~db[t].rows
  /\ db' = [db EXCEPT ![t].rows = TRUE]
  /\ UNCHANGED <<backend, local, faults>>

Step(m) ==
  \/ Start(m) \/ CreateTable(m) \/ Describe(m) \/ AlterTable(m) \/ AlterDone(m)
  \/ CreateIndex(m) \/ ModelDone(m)

Next ==
  \/ \E m \in Migrators : Step(m) \/ Crash(m)
  \/ \E t \in Tables : Insert(t)

Spec == Init /\ [][Next]_vars

\* A process works on, and its application is started again and again.
FairSpec == Spec /\ \A m \in Migrators : WF_vars(Step(m))

-----------------------------------------------------------------------------

TypeOK ==
  /\ backend \in Backends
  /\ db \in [Tables -> [cols : Seq(Columns), indexes : SUBSET ColumnNames, rows : BOOLEAN]]
  /\ pc \in [Migrators -> {"down", "create", "describe", "alter", "index", "done"}]
  /\ \A m \in Migrators : at[m] \in 1..(Len(Models[m]) + 1) /\ field[m] \in Nat
  /\ result \in [Migrators -> {"none", "ok", "error"}]
  /\ refused \in [Migrators -> SUBSET (Tables \X ColumnNames)]
  /\ faults \in 0..MaxFaults

Fields(m, k) == {Models[m][k].fields[i] : i \in DOMAIN Models[m][k].fields}

\* A column of a model is there, or cannot be: PostgreSQL takes one of the same
\* name in another schema for it.
Present(t, f) ==
  \/ Has(f, "primary") \/ f.name \in Names(db[t].cols)
  \/ backend = "postgres" /\ f.name \in Elsewhere[t]

\* include/corm/corm.h:84: "create missing tables and add missing columns".
\* Once a call has gone past a model, the model's columns are in the table,
\* whatever other processes do meanwhile and wherever earlier calls were cut
\* short or description and ALTER raced; except for key fields, and for columns
\* whose ALTER was refused, which the call does not report.
Completed ==
  \A m \in Migrators : \A k \in 1..(at[m] - 1) : \A f \in Fields(m, k) :
    Present(Models[m][k].table, f) \/ <<Models[m][k].table, f.name>> \in refused[m]

\* Everything the models ask for that the database will ever accept.
Settled ==
  \A m \in Migrators : \A k \in DOMAIN Models[m] :
    LET t == Models[m][k].table IN
    \/ \E l \in 1..k : ~Exists(Models[m][l].table) /\ ~AcceptsCreate(Models[m][l])
    \/ /\ Exists(t)
       /\ \A f \in Fields(m, k) :
            /\ Present(t, f) \/ NeverAccepted(t, f)
            /\ Has(f, "index") /\ AcceptsIndex(t, f) => f.name \in db[t].indexes

\* The errors corm_auto_migrate ignores, and calls cut short, heal when the
\* application is started again: finally nothing is missing that the database
\* would accept.
Converges == <>[]Settled

=============================================================================
