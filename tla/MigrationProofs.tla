-------------------------- MODULE MigrationProofs --------------------------
(***************************************************************************)
(* Proofs about Migration, for any number of processes, models, fields and *)
(* faults, on every backend.                                               *)
(***************************************************************************)
EXTENDS Migration, SequenceTheorems, SequenceLemmas

(***************************************************************************)
(* The inductive invariant                                                 *)
(***************************************************************************)

LocalsTyped ==
  /\ at \in [Migrators -> Nat \ {0}] /\ field \in [Migrators -> Nat]
  /\ DOMAIN seen = Migrators

\* A process that works on a model has one, and starts with its first field.
Working(m) ==
  /\ pc[m] \in {"create", "describe", "alter", "index"} => at[m] <= Len(Models[m])
  /\ pc[m] \notin {"alter", "index"} => field[m] = 0

\* A field of the current model is present, or its ALTER was refused.
DealtWith(m, i) ==
  LET t == Model(m).table
      f == Model(m).fields[i]
  IN  Present(t, f) \/ <<t, f.name>> \in refused[m]

\* What a description names is there, although the table may have got more columns
\* since; and every field up to the last one is dealt with.
Altering(m) ==
  pc[m] = "alter" =>
    /\ \A n \in seen[m] : \/ n \in Names(db[Model(m).table].cols)
                          \/ backend = "postgres" /\ n \in Elsewhere[Model(m).table]
    /\ \A i \in DOMAIN Model(m).fields : i <= field[m] => DealtWith(m, i)

Indexing(m) ==
  pc[m] = "index" => \A i \in DOMAIN Model(m).fields : DealtWith(m, i)

\* Completed for one process.
Passed(m) ==
  \A k \in 1..(at[m] - 1) : \A f \in Fields(m, k) :
    Present(Models[m][k].table, f) \/ <<Models[m][k].table, f.name>> \in refused[m]

ProcessInv(m) == Working(m) /\ Altering(m) /\ Indexing(m) /\ Passed(m)

MigrationInv == TypeOK /\ LocalsTyped /\ \A m \in Migrators : ProcessInv(m)

(***************************************************************************)
(* Numbers, models and columns                                             *)
(***************************************************************************)

\* First is the least element.
LEMMA FirstIsLeast ==
  ASSUME NEW S \in SUBSET Nat, S /= {}
  PROVE  First(S) \in S /\ \A k \in S : First(S) <= k
BY LeastNumber DEF First

\* The parts of a process's models are what the database is asked for.
LEMMA ModelTyped ==
  ASSUME NEW m \in Migrators, NEW k \in 1..Len(Models[m])
  PROVE  /\ Len(Models[m]) \in Nat \ {0} /\ Models[m][k].table \in Tables
         /\ Models[m][k].fields \in Seq(Columns)
         /\ Len(Models[m][k].fields) \in Nat
         /\ DOMAIN Models[m][k].fields = 1..Len(Models[m][k].fields)
         /\ \A i \in DOMAIN Models[m][k].fields :
              /\ Models[m][k].fields[i] \in Columns
              /\ Models[m][k].fields[i] \in Fields(m, k)
<1>1. /\ Models[m] \in Seq([table : Tables, fields : Seq(Columns)])
      /\ Models[m] /= <<>>
  BY MigrationConstants
<1>2. /\ Models[m][k] \in [table : Tables, fields : Seq(Columns)]
      /\ Len(Models[m]) \in Nat \ {0}
  BY <1>1, ElementOfSeq, EmptySeq
<1>3. Models[m][k].table \in Tables /\ Models[m][k].fields \in Seq(Columns)
  BY <1>2
<1>4. PICK fs \in Seq(Columns) : fs = Models[m][k].fields
  BY <1>3
<1>5. /\ Len(fs) \in Nat /\ DOMAIN fs = 1..Len(fs)
      /\ \A i \in DOMAIN fs : fs[i] \in Columns
  BY LenProperties, ElementOfSeq
<1> QED BY <1>2, <1>3, <1>4, <1>5 DEF Fields

\* The model a process works on.
LEMMA CurrentModel ==
  ASSUME MigrationInv, NEW m \in Migrators,
         pc[m] \in {"create", "describe", "alter", "index"}
  PROVE  /\ at[m] \in 1..Len(Models[m]) /\ Model(m) = Models[m][at[m]]
         /\ Model(m).table \in Tables /\ Model(m).fields \in Seq(Columns)
         /\ Len(Model(m).fields) \in Nat
         /\ DOMAIN Model(m).fields = 1..Len(Model(m).fields)
         /\ \A i \in DOMAIN Model(m).fields :
              Model(m).fields[i] \in Columns /\ Model(m).fields[i] \in Fields(m, at[m])
<1>1. Len(Models[m]) \in Nat
  BY MigrationConstants, LenProperties
<1>2. at[m] \in 1..Len(Models[m])
  BY <1>1 DEF MigrationInv, LocalsTyped, ProcessInv, Working
<1> QED BY <1>2, ModelTyped DEF Model

\* The columns that CREATE TABLE and ALTER TABLE make of fields.
LEMMA ColumnTyped ==
  ASSUME NEW f \in Columns
  PROVE  /\ Declared(f) \in Columns /\ Added(f) \in Columns
         /\ Declared(f).name = f.name /\ Added(f).name = f.name
BY DEF Columns, Declared, Added, Flags

TableStates == [cols : Seq(Columns), indexes : SUBSET ColumnNames, rows : BOOLEAN]

\* The names of a table with one column more.
LEMMA NamesAppend ==
  ASSUME NEW cols \in Seq(Columns), NEW c \in Columns
  PROVE  Append(cols, c) \in Seq(Columns) /\ Names(Append(cols, c)) = Names(cols) \union {c.name}
<1>1. /\ Append(cols, c) \in Seq(Columns) /\ Len(Append(cols, c)) = Len(cols) + 1
      /\ \A i \in 1..Len(cols) : Append(cols, c)[i] = cols[i]
      /\ Append(cols, c)[Len(cols) + 1] = c
  BY AppendProperties
<1>2. /\ Len(cols) \in Nat /\ DOMAIN cols = 1..Len(cols)
      /\ DOMAIN Append(cols, c) = 1..(Len(cols) + 1)
  BY <1>1, LenProperties
<1>3. \A i \in 1..(Len(cols) + 1) : i \in 1..Len(cols) \/ i = Len(cols) + 1
  BY <1>2
<1>4. /\ \A i \in 1..Len(cols) : i \in 1..(Len(cols) + 1)
      /\ Len(cols) + 1 \in 1..(Len(cols) + 1)
  BY <1>2
<1> QED BY <1>1, <1>2, <1>3, <1>4 DEF Names

\* The first columns of a table have names of the table.
LEMMA NamesPrefix ==
  ASSUME NEW cols \in Seq(Columns), NEW n \in 0..Len(cols)
  PROVE  Names(SubSeq(cols, 1, n)) \subseteq Names(cols)
<1>1. Len(cols) \in Nat /\ DOMAIN cols = 1..Len(cols)
      /\ \A i \in 1..n : i \in 1..Len(cols) /\ cols[i] \in Columns
  BY LenProperties, ElementOfSeq
<1>2. /\ SubSeq(cols, 1, n) \in Seq(Columns)
      /\ Len(SubSeq(cols, 1, n)) = IF 1 <= n THEN n - 1 + 1 ELSE 0
      /\ \A i \in 1..(n - 1 + 1) : SubSeq(cols, 1, n)[i] = cols[1 + i - 1]
  BY <1>1, SubSeqProperties
<1>3. DOMAIN SubSeq(cols, 1, n) = 1..n
  BY <1>1, <1>2, LenProperties
<1>4. \A i \in 1..n : SubSeq(cols, 1, n)[i] = cols[i]
  BY <1>1, <1>2
<1> QED BY <1>1, <1>3, <1>4 DEF Names

(***************************************************************************)
(* The database only grows                                                 *)
(***************************************************************************)

\* No step of any process or client drops a column.
Grows ==
  /\ db' \in [Tables -> TableStates] /\ backend' = backend
  /\ \A t \in Tables : Names(db[t].cols) \subseteq Names(db'[t].cols)

\* A statement of a process, whatever becomes of it.
LEMMA ExecEffect ==
  ASSUME TypeOK, NEW accepted \in BOOLEAN, NEW new, NEW ok \in BOOLEAN,
         Exec(accepted, new, ok)
  PROVE  db' \in {db, new} /\ faults' \in 0..MaxFaults
BY MigrationConstants DEF Exec, TypeOK

\* What is present stays present.
LEMMA PresentStays ==
  ASSUME Grows, NEW t \in Tables, NEW f, Present(t, f)
  PROVE  Present(t, f)'
BY DEF Grows, Present

\* The models a process is past stay complete.
LEMMA PassedStays ==
  ASSUME MigrationInv, Grows, NEW m \in Migrators,
         at'[m] = at[m], refused[m] \subseteq refused'[m]
  PROVE  Passed(m)'
<1>1. SUFFICES ASSUME NEW k \in 1..(at[m] - 1), NEW f \in Fields(m, k)
               PROVE  \/ Present(Models[m][k].table, f)'
                      \/ <<Models[m][k].table, f.name>> \in refused'[m]
  BY DEF Passed, Fields
<1>2. k \in 1..Len(Models[m])
  BY MigrationConstants, LenProperties DEF MigrationInv, TypeOK
<1>3. Models[m][k].table \in Tables
  BY <1>2, ModelTyped
<1> QED BY <1>1, <1>3, PresentStays DEF MigrationInv, ProcessInv, Passed

\* Whatever other processes do, what a process has established holds on.
LEMMA UndisturbedProcess ==
  ASSUME MigrationInv, Grows, NEW m \in Migrators,
         pc'[m] = pc[m], at'[m] = at[m], field'[m] = field[m], seen'[m] = seen[m],
         refused'[m] = refused[m]
  PROVE  ProcessInv(m)'
<1> USE DEF MigrationInv, ProcessInv
<1>1. Working(m)'
  BY DEF Working
<1>2. Model(m)' = Model(m)
  BY DEF Model
<1>3. ASSUME pc[m] \in {"alter", "index"}, NEW i \in DOMAIN Model(m).fields, DealtWith(m, i)
      PROVE  DealtWith(m, i)'
  <2>1. Model(m).table \in Tables
    BY <1>3, CurrentModel
  <2> QED BY <2>1, <1>2, <1>3, PresentStays DEF DealtWith
<1>4. Altering(m)'
  <2>1. SUFFICES ASSUME pc[m] = "alter" PROVE Altering(m)'
    BY DEF Altering
  <2>2. Model(m).table \in Tables
    BY <2>1, CurrentModel
  <2>3. \A n \in seen[m] : \/ n \in Names(db'[Model(m).table].cols)
                           \/ backend' = "postgres" /\ n \in Elsewhere[Model(m).table]
    BY <2>1, <2>2 DEF Altering, Grows
  <2>4. \A i \in DOMAIN Model(m).fields : i <= field[m] => DealtWith(m, i)'
    BY <2>1, <1>3 DEF Altering
  <2> QED BY <2>3, <2>4, <1>2 DEF Altering
<1>5. Indexing(m)'
  BY <1>2, <1>3 DEF Indexing
<1>6. Passed(m)'
  BY PassedStays
<1> QED BY <1>1, <1>4, <1>5, <1>6

\* A step of one process: it is enough to look at that process.
LEMMA OneProcess ==
  ASSUME MigrationInv, Grows, TypeOK', LocalsTyped', NEW m \in Migrators,
         \A u \in Migrators \ {m} :
            /\ pc'[u] = pc[u] /\ at'[u] = at[u] /\ field'[u] = field[u]
            /\ seen'[u] = seen[u] /\ refused'[u] = refused[u],
         ProcessInv(m)'
  PROVE  MigrationInv'
BY UndisturbedProcess DEF MigrationInv

\* The database and the models as they are.
LEMMA DatabaseKept ==
  ASSUME MigrationInv, db' = db, backend' = backend
  PROVE  Grows
BY DEF MigrationInv, TypeOK, Grows, TableStates

\* A call starts anew, whatever was left by an earlier one.
LEMMA StartStep ==
  ASSUME MigrationInv, NEW m \in Migrators, Start(m)
  PROVE  MigrationInv' /\ Grows
<1> USE DEF Start
<1>1. Grows
  BY DatabaseKept
<1>2. Len(Models[m]) \in Nat \ {0}
  BY MigrationConstants, EmptySeq
<1>3. TypeOK' /\ LocalsTyped'
  BY <1>2 DEF MigrationInv, TypeOK, LocalsTyped
<1>4. /\ pc'[m] = "create" /\ at'[m] = 1 /\ field'[m] = field[m]
      /\ \A u \in Migrators \ {m} :
            /\ pc'[u] = pc[u] /\ at'[u] = at[u] /\ field'[u] = field[u]
            /\ seen'[u] = seen[u] /\ refused'[u] = refused[u]
  BY DEF MigrationInv, TypeOK, LocalsTyped
<1>5. field[m] = 0
  BY DEF MigrationInv, ProcessInv, Working
<1>6. ProcessInv(m)'
  BY <1>2, <1>4, <1>5 DEF ProcessInv, Working, Altering, Indexing, Passed
<1> QED BY <1>1, <1>3, <1>4, <1>6, OneProcess

\* CREATE TABLE IF NOT EXISTS makes a table where there was none.
LEMMA CreateTableStep ==
  ASSUME MigrationInv, NEW m \in Migrators, CreateTable(m)
  PROVE  MigrationInv' /\ Grows
<1> DEFINE model == Model(m)
           t == model.table
           cols == [i \in DOMAIN model.fields |-> Declared(model.fields[i])]
           new == IF Exists(t) THEN db ELSE [db EXCEPT ![t].cols = cols]
<1>1. PICK ok \in BOOLEAN :
        /\ Exec(Exists(t) \/ AcceptsCreate(model), new, ok)
        /\ pc' = [pc EXCEPT ![m] = IF ok THEN "describe" ELSE "done"]
        /\ result' = [result EXCEPT ![m] = IF ok THEN "none" ELSE "error"]
  BY DEF CreateTable
<1>2. pc[m] = "create" /\ UNCHANGED <<backend, at, field, seen, refused>>
  BY DEF CreateTable
<1>3. /\ t \in Tables /\ at[m] <= Len(Models[m])
      /\ DOMAIN model.fields = 1..Len(model.fields) /\ Len(model.fields) \in Nat
      /\ \A i \in DOMAIN model.fields : model.fields[i] \in Columns
  BY <1>2, CurrentModel DEF MigrationInv, ProcessInv, Working
<1>4. cols \in Seq(Columns)
  <2>1. \A i \in DOMAIN model.fields : Declared(model.fields[i]) \in Columns
    BY <1>3, ColumnTyped
  <2>2. cols \in [1..Len(model.fields) -> Columns]
    BY <2>1, <1>3
  <2> QED BY <2>2, <1>3, SeqDef
<1>5. db \in [Tables -> TableStates] /\ db' \in {db, new} /\ faults' \in 0..MaxFaults
  <2>1. PICK a \in BOOLEAN : a = (Exists(t) \/ AcceptsCreate(model))
    BY DEF Exists, AcceptsCreate
  <2>n. PICK n : n = new
    OBVIOUS
  <2>2. Exec(a, n, ok)
    BY <1>1, <2>1, <2>n
  <2>3. db' \in {db, n} /\ faults' \in 0..MaxFaults
    BY <2>2, ExecEffect DEF MigrationInv
  <2> QED BY <2>1, <2>n, <2>3 DEF MigrationInv, TypeOK, TableStates
<1> HIDE DEF cols
<1>6. Grows
  <2>1. CASE db' = db
    BY <2>1, <1>2, DatabaseKept
  <2>2. CASE db' = new /\ ~Exists(t)
    <3>1. db' = [db EXCEPT ![t].cols = cols]
      BY <2>2
    <3>2. db' \in [Tables -> TableStates] /\ \A x \in Tables \ {t} : db'[x] = db[x]
      BY <3>1, <1>3, <1>4, <1>5 DEF TableStates
    <3>3. db[t].cols = <<>>
      BY <2>2 DEF Exists
    <3>4. Names(db[t].cols) = {}
      BY <3>3 DEF Names
    <3> QED BY <3>2, <3>4, <1>2 DEF Grows
  <2> QED BY <2>1, <2>2, <1>5
<1>7. TypeOK' /\ LocalsTyped'
  <2>1. db' \in [Tables -> TableStates]
    BY <1>6 DEF Grows
  <2> QED BY <2>1, <1>1, <1>2, <1>5 DEF MigrationInv, TypeOK, LocalsTyped, TableStates
<1>8. /\ pc'[m] \in {"describe", "done"}
      /\ \A u \in Migrators \ {m} : pc'[u] = pc[u]
  BY <1>1 DEF MigrationInv, TypeOK
<1>9. Working(m)' /\ Altering(m)' /\ Indexing(m)'
  BY <1>2, <1>3, <1>8 DEF MigrationInv, ProcessInv, Working, Altering, Indexing
<1>10. Passed(m)'
  BY <1>2, <1>6, PassedStays
<1> QED BY <1>2, <1>6, <1>7, <1>8, <1>9, <1>10, OneProcess DEF ProcessInv

\* A description names columns that are there, or in another schema.
LEMMA DescribeStep ==
  ASSUME MigrationInv, NEW m \in Migrators, Describe(m)
  PROVE  MigrationInv' /\ Grows
<1> DEFINE t == Model(m).table
           Complete(names) == Names(db[t].cols) \subseteq names
<1>1. PICK names \in Descriptions(t) :
        /\ Complete(names) \/ faults < MaxFaults
        /\ faults' = IF Complete(names) THEN faults ELSE faults + 1
        /\ seen' = [seen EXCEPT ![m] = names]
  BY DEF Describe
<1>2. /\ pc[m] = "describe" /\ pc' = [pc EXCEPT ![m] = "alter"]
      /\ UNCHANGED <<backend, db, at, field, result, refused>>
  BY DEF Describe
<1>3. Grows
  BY <1>2, DatabaseKept
<1>4. /\ t \in Tables /\ at[m] <= Len(Models[m]) /\ field[m] = 0
      /\ DOMAIN Model(m).fields = 1..Len(Model(m).fields) /\ Len(Model(m).fields) \in Nat
  BY <1>2, CurrentModel DEF MigrationInv, ProcessInv, Working
<1>5. faults' \in 0..MaxFaults
  BY <1>1, MigrationConstants DEF MigrationInv, TypeOK
<1>6. TypeOK' /\ LocalsTyped'
  BY <1>1, <1>2, <1>5 DEF MigrationInv, TypeOK, LocalsTyped
<1>7. /\ pc'[m] = "alter" /\ seen'[m] = names
      /\ \A u \in Migrators \ {m} : pc'[u] = pc[u] /\ seen'[u] = seen[u]
  BY <1>1, <1>2 DEF MigrationInv, TypeOK, LocalsTyped
<1>8. \A n \in names : \/ n \in Names(db[t].cols)
                       \/ backend = "postgres" /\ n \in Elsewhere[t]
  <2>1. db[t].cols \in Seq(Columns) /\ backend \in {"sqlite", "mysql", "postgres"}
    BY <1>4, MigrationConstants DEF MigrationInv, TypeOK
  <2>2. \/ names = {} \/ (backend = "postgres" /\ names \in pg_describe_table(t))
        \/ names \in mysql_describe_table(t) \/ names \in sqlite_describe_table(t)
    BY <1>1, <2>1 DEF Descriptions
  <2>3. ASSUME names \in sqlite_describe_table(t) PROVE names \subseteq Names(db[t].cols)
    BY <2>1, <2>3, NamesPrefix DEF sqlite_describe_table
  <2>4. ASSUME names \in mysql_describe_table(t) PROVE names \subseteq Names(db[t].cols)
    BY <2>4 DEF mysql_describe_table
  <2>5. ASSUME names \in pg_describe_table(t)
        PROVE  names \subseteq Names(db[t].cols) \union Elsewhere[t]
    BY <2>5 DEF pg_describe_table
  <2> QED BY <2>2, <2>3, <2>4, <2>5
<1>9. Altering(m)'
  <2>1. Model(m)' = Model(m)
    BY <1>2 DEF Model
  <2>2. \A i \in DOMAIN Model(m).fields : ~(i <= field[m])
    BY <1>4
  <2> QED BY <2>1, <2>2, <1>2, <1>7, <1>8 DEF Altering
<1>10. Working(m)' /\ Indexing(m)'
  BY <1>2, <1>4, <1>7 DEF Working, Indexing
<1>11. Passed(m)'
  BY <1>2, <1>3, PassedStays
<1> QED BY <1>2, <1>3, <1>6, <1>7, <1>9, <1>10, <1>11, OneProcess DEF ProcessInv

\* One ALTER: the next missing field gets its column, or is refused; the fields
\* skipped were described or are keys.
LEMMA AlterTableStep ==
  ASSUME MigrationInv, NEW m \in Migrators, AlterTable(m)
  PROVE  MigrationInv' /\ Grows
<1> DEFINE t == Model(m).table
           j == First(Missing(m))
           f == Model(m).fields[j]
           new == [db EXCEPT ![t].cols = Append(@, Added(f))]
<1>1. /\ pc[m] = "alter" /\ Missing(m) /= {} /\ UNCHANGED <<backend, pc, at, seen, result>>
      /\ field' = [field EXCEPT ![m] = j]
      /\ refused' = [refused EXCEPT ![m] =
           @ \union (IF f.name \in Names(db'[t].cols) THEN {} ELSE {<<t, f.name>>})]
  BY DEF AlterTable
<1>2. /\ t \in Tables /\ at[m] <= Len(Models[m])
      /\ DOMAIN Model(m).fields = 1..Len(Model(m).fields) /\ Len(Model(m).fields) \in Nat
      /\ \A i \in DOMAIN Model(m).fields : Model(m).fields[i] \in Columns
  BY <1>1, CurrentModel DEF MigrationInv, ProcessInv, Working
<1>3. /\ j \in Missing(m) /\ \A k \in Missing(m) : j <= k
      /\ j \in DOMAIN Model(m).fields /\ j \in Nat
  <2>1. Missing(m) \in SUBSET Nat /\ Missing(m) \subseteq DOMAIN Model(m).fields
    BY <1>2 DEF Missing
  <2> QED BY <2>1, <1>1, FirstIsLeast
<1>4. f \in Columns /\ Added(f) \in Columns /\ Added(f).name = f.name
  BY <1>2, <1>3, ColumnTyped
<1>5. db \in [Tables -> TableStates] /\ db' \in {db, new} /\ faults' \in 0..MaxFaults
  <2>1. PICK ok \in BOOLEAN : Exec(AcceptsAlter(t, f), new, ok)
    BY DEF AlterTable
  <2>2. PICK a \in BOOLEAN : a = AcceptsAlter(t, f)
    BY DEF AcceptsAlter
  <2>n. PICK n : n = new
    OBVIOUS
  <2>3. Exec(a, n, ok)
    BY <2>1, <2>2, <2>n
  <2>4. db' \in {db, n} /\ faults' \in 0..MaxFaults
    BY <2>3, ExecEffect DEF MigrationInv
  <2> QED BY <2>2, <2>n, <2>4 DEF MigrationInv, TypeOK, TableStates
<1>6. Grows
  <2>1. CASE db' = db
    BY <2>1, <1>1, DatabaseKept
  <2>2. CASE db' = new
    <3>1. db[t].cols \in Seq(Columns)
      BY <1>2, <1>5 DEF TableStates
    <3>2. PICK cols : cols = Append(db[t].cols, Added(f))
      OBVIOUS
    <3>3. cols \in Seq(Columns) /\ Names(db[t].cols) \subseteq Names(cols)
      BY <3>1, <3>2, <1>4, NamesAppend
    <3>4. db' = [db EXCEPT ![t].cols = cols]
      BY <2>2, <3>2
    <3>5. /\ db' \in [Tables -> TableStates] /\ db'[t].cols = cols
          /\ \A x \in Tables \ {t} : db'[x] = db[x]
      <4>1. /\ DOMAIN db' = Tables /\ db'[t] = [db[t] EXCEPT !.cols = cols]
            /\ \A x \in Tables \ {t} : db'[x] = db[x]
            /\ db' = [x \in Tables |-> db'[x]]
        BY <3>4, <1>2, <1>5
      <4>2. db'[t] \in TableStates /\ db'[t].cols = cols
        <5>1. db[t] \in [cols : Seq(Columns), indexes : SUBSET ColumnNames, rows : BOOLEAN]
          BY <1>2, <1>5 DEF TableStates
        <5>2. cols \in Seq(Columns) /\ db'[t] = [db[t] EXCEPT !.cols = cols]
          BY <3>3, <4>1
        <5> QED BY <5>1, <5>2 DEF TableStates
      <4> QED BY <4>1, <4>2, <1>5
    <3> QED BY <3>3, <3>5, <1>1 DEF Grows
  <2> QED BY <2>1, <2>2, <1>5
<1> HIDE DEF f, j
<1>7. TypeOK' /\ LocalsTyped'
  <2>1. db' \in [Tables -> TableStates]
    BY <1>6 DEF Grows
  <2>2. f.name \in ColumnNames
    BY <1>4 DEF Columns
  <2>3. refused' \in [Migrators -> SUBSET (Tables \X ColumnNames)]
    BY <2>2, <1>1, <1>2 DEF MigrationInv, TypeOK
  <2>4. field' \in [Migrators -> Nat]
    BY <1>1, <1>3 DEF MigrationInv, LocalsTyped
  <2> QED BY <2>1, <2>3, <2>4, <1>1, <1>5 DEF MigrationInv, TypeOK, LocalsTyped, TableStates
<1>8. /\ field'[m] = j
      /\ refused'[m] = refused[m] \union (IF f.name \in Names(db'[t].cols) THEN {} ELSE {<<t, f.name>>})
      /\ \A u \in Migrators \ {m} : field'[u] = field[u] /\ refused'[u] = refused[u]
  BY <1>1 DEF MigrationInv, TypeOK, LocalsTyped
<1>9. Model(m)' = Model(m)
  BY <1>1 DEF Model
<1>10. ASSUME NEW i \in DOMAIN Model(m).fields, i <= j PROVE DealtWith(m, i)'
  <2>1. PICK tt \in Tables : tt = t
    BY <1>2
  <2>g. PICK g : g = Model(m).fields[i]
    OBVIOUS
  <2>2. SUFFICES Present(tt, g)' \/ <<tt, g.name>> \in refused'[m]
    BY <2>1, <2>g, <1>9 DEF DealtWith
  <2>3. CASE i <= field[m]
    <3>1. Present(tt, g) \/ <<tt, g.name>> \in refused[m]
      BY <2>1, <2>g, <2>3, <1>1 DEF MigrationInv, ProcessInv, Altering, DealtWith
    <3> QED BY <3>1, <1>6, <1>8, PresentStays
  <2>4. CASE i = j
    <3>1. g.name \in Names(db'[tt].cols) \/ <<tt, g.name>> \in refused'[m]
      BY <2>1, <2>g, <2>4, <1>8 DEF f
    <3> QED BY <3>1 DEF Present
  <2>5. CASE i > field[m] /\ i < j
    <3>1. i \notin Missing(m)
      BY <2>5, <1>2, <1>3
    <3>2. Has(g, "primary") \/ g.name \in seen[m]
      BY <3>1, <2>1, <2>g, <2>5 DEF Missing
    <3>3. Present(tt, g)
      BY <3>2, <2>1, <1>1 DEF MigrationInv, ProcessInv, Altering, Present
    <3> QED BY <3>3, <1>6, PresentStays
  <2> QED BY <2>3, <2>4, <2>5, <1>2, <1>3, <1>10 DEF MigrationInv, LocalsTyped
<1>11. Altering(m)'
  <2>1. \A n \in seen[m] : \/ n \in Names(db'[t].cols)
                           \/ backend' = "postgres" /\ n \in Elsewhere[t]
    BY <1>1, <1>2, <1>6 DEF MigrationInv, ProcessInv, Altering, Grows
  <2> QED BY <2>1, <1>1, <1>8, <1>9, <1>10 DEF Altering
<1>12. Working(m)' /\ Indexing(m)'
  BY <1>1, <1>2 DEF Working, Indexing
<1>13. Passed(m)'
  BY <1>1, <1>6, <1>8, PassedStays
<1> QED BY <1>1, <1>6, <1>7, <1>8, <1>11, <1>12, <1>13, OneProcess DEF ProcessInv

\* When no field is missing any more, all of them are dealt with.
LEMMA AlterDoneStep ==
  ASSUME MigrationInv, NEW m \in Migrators, AlterDone(m)
  PROVE  MigrationInv' /\ Grows
<1> DEFINE t == Model(m).table
<1>1. /\ pc[m] = "alter" /\ Missing(m) = {}
      /\ pc' = [pc EXCEPT ![m] = "index"] /\ field' = [field EXCEPT ![m] = 0]
      /\ UNCHANGED <<backend, db, at, seen, result, refused, faults>>
  BY DEF AlterDone
<1>2. Grows
  BY <1>1, DatabaseKept
<1>3. TypeOK' /\ LocalsTyped'
  BY <1>1 DEF MigrationInv, TypeOK, LocalsTyped
<1>4. /\ pc'[m] = "index" /\ at[m] <= Len(Models[m])
      /\ \A u \in Migrators \ {m} : pc'[u] = pc[u] /\ field'[u] = field[u]
  BY <1>1 DEF MigrationInv, TypeOK, LocalsTyped, ProcessInv, Working
<1>5. ASSUME NEW i \in DOMAIN Model(m).fields PROVE DealtWith(m, i)
  <2>1. i \in Nat /\ field[m] \in Nat
    BY <1>1, CurrentModel DEF MigrationInv, LocalsTyped
  <2>2. CASE i <= field[m]
    BY <2>2, <1>1 DEF MigrationInv, ProcessInv, Altering
  <2>3. CASE i > field[m]
    <3>1. Has(Model(m).fields[i], "primary") \/ Model(m).fields[i].name \in seen[m]
      BY <2>3, <1>1 DEF Missing
    <3> QED BY <3>1, <1>1 DEF MigrationInv, ProcessInv, Altering, DealtWith, Present
  <2> QED BY <2>1, <2>2, <2>3
<1>6. Indexing(m)'
  BY <1>1, <1>5 DEF Indexing, DealtWith, Model, Present
<1>7. Working(m)' /\ Altering(m)'
  BY <1>1, <1>4 DEF Working, Altering
<1>8. Passed(m)'
  BY <1>1, <1>2, PassedStays
<1> QED BY <1>1, <1>2, <1>3, <1>4, <1>6, <1>7, <1>8, OneProcess DEF ProcessInv

\* CREATE INDEX leaves the columns alone.
LEMMA CreateIndexStep ==
  ASSUME MigrationInv, NEW m \in Migrators, CreateIndex(m)
  PROVE  MigrationInv' /\ Grows
<1> DEFINE t == Model(m).table
           j == First(Unindexed(m))
           f == Model(m).fields[j]
           new == [db EXCEPT ![t].indexes = @ \union {f.name}]
<1>1. /\ pc[m] = "index" /\ Unindexed(m) /= {} /\ field' = [field EXCEPT ![m] = j]
      /\ UNCHANGED <<backend, pc, at, seen, result, refused>>
  BY DEF CreateIndex
<1>2. /\ t \in Tables /\ at[m] <= Len(Models[m])
      /\ DOMAIN Model(m).fields = 1..Len(Model(m).fields) /\ Len(Model(m).fields) \in Nat
      /\ \A i \in DOMAIN Model(m).fields : Model(m).fields[i] \in Columns
  BY <1>1, CurrentModel DEF MigrationInv, ProcessInv, Working
<1>3. j \in DOMAIN Model(m).fields /\ j \in Nat
  <2>1. Unindexed(m) \in SUBSET Nat /\ Unindexed(m) \subseteq DOMAIN Model(m).fields
    BY <1>2 DEF Unindexed
  <2> QED BY <2>1, <1>1, FirstIsLeast
<1>4. f.name \in ColumnNames
  BY <1>2, <1>3 DEF Columns
<1>5. db \in [Tables -> TableStates] /\ db' \in {db, new} /\ faults' \in 0..MaxFaults
  <2>1. PICK ok \in BOOLEAN : Exec(AcceptsIndex(t, f), new, ok)
    BY DEF CreateIndex
  <2>2. PICK a \in BOOLEAN : a = AcceptsIndex(t, f)
    BY DEF AcceptsIndex
  <2>n. PICK n : n = new
    OBVIOUS
  <2>3. Exec(a, n, ok)
    BY <2>1, <2>2, <2>n
  <2>4. db' \in {db, n} /\ faults' \in 0..MaxFaults
    BY <2>3, ExecEffect DEF MigrationInv
  <2> QED BY <2>2, <2>n, <2>4 DEF MigrationInv, TypeOK, TableStates
<1> HIDE DEF f, j
<1>6. Grows
  <2>1. CASE db' = db
    BY <2>1, <1>1, DatabaseKept
  <2>2. CASE db' = new
    <3>1. /\ db' \in [Tables -> TableStates]
          /\ \A x \in Tables : db'[x].cols = db[x].cols
      <4>1. /\ DOMAIN db' = Tables
            /\ db'[t] = [db[t] EXCEPT !.indexes = @ \union {f.name}]
            /\ \A x \in Tables \ {t} : db'[x] = db[x]
            /\ db' = [x \in Tables |-> db'[x]]
        BY <2>2, <1>2, <1>5
      <4>2. db'[t] \in TableStates /\ db'[t].cols = db[t].cols
        BY <4>1, <1>2, <1>4, <1>5 DEF TableStates
      <4> QED BY <4>1, <4>2, <1>5
    <3> QED BY <3>1, <1>1 DEF Grows
  <2> QED BY <2>1, <2>2, <1>5
<1>7. TypeOK' /\ LocalsTyped'
  <2>1. db' \in [Tables -> TableStates]
    BY <1>6 DEF Grows
  <2>2. field' \in [Migrators -> Nat]
    BY <1>1, <1>3 DEF MigrationInv, LocalsTyped
  <2> QED BY <2>1, <2>2, <1>1, <1>5 DEF MigrationInv, TypeOK, LocalsTyped, TableStates
<1>8. \A u \in Migrators \ {m} : field'[u] = field[u]
  BY <1>1 DEF MigrationInv, LocalsTyped
<1>9. Indexing(m)'
  <2>1. SUFFICES ASSUME NEW i \in DOMAIN Model(m).fields PROVE DealtWith(m, i)'
    BY <1>1 DEF Indexing, Model
  <2>2. PICK tt \in Tables : tt = t
    BY <1>2
  <2>g. PICK g : g = Model(m).fields[i]
    OBVIOUS
  <2>3. Present(tt, g) \/ <<tt, g.name>> \in refused[m]
    BY <2>2, <2>g, <1>1 DEF MigrationInv, ProcessInv, Indexing, DealtWith
  <2>4. Present(tt, g)' \/ <<tt, g.name>> \in refused'[m]
    BY <2>3, <1>1, <1>6, PresentStays
  <2>5. Model(m)' = Model(m)
    BY <1>1 DEF Model
  <2> QED BY <2>2, <2>g, <2>4, <2>5 DEF DealtWith
<1>10. Working(m)' /\ Altering(m)'
  BY <1>1, <1>2 DEF Working, Altering
<1>11. Passed(m)'
  BY <1>1, <1>6, PassedStays
<1> QED BY <1>1, <1>6, <1>7, <1>8, <1>9, <1>10, <1>11, OneProcess DEF ProcessInv

\* Going on to the next model: the one just left is complete.
LEMMA ModelDoneStep ==
  ASSUME MigrationInv, NEW m \in Migrators, ModelDone(m)
  PROVE  MigrationInv' /\ Grows
<1>1. /\ pc[m] = "index" /\ at' = [at EXCEPT ![m] = @ + 1]
      /\ field' = [field EXCEPT ![m] = 0] /\ seen' = [seen EXCEPT ![m] = {}]
      /\ UNCHANGED <<backend, db, refused, faults>>
  BY DEF ModelDone
<1>2. Grows
  BY <1>1, DatabaseKept
<1>3. at[m] \in 1..Len(Models[m]) /\ Len(Models[m]) \in Nat /\ Model(m) = Models[m][at[m]]
  BY <1>1, CurrentModel, MigrationConstants, LenProperties
<1>4. /\ at'[m] = at[m] + 1 /\ field'[m] = 0
      /\ \/ at[m] = Len(Models[m]) /\ pc'[m] = "done"
         \/ at[m] /= Len(Models[m]) /\ pc'[m] = "create"
      /\ pc' \in [Migrators -> {"down", "create", "describe", "alter", "index", "done"}]
      /\ result' \in [Migrators -> {"none", "ok", "error"}]
      /\ \A u \in Migrators \ {m} : /\ pc'[u] = pc[u] /\ at'[u] = at[u]
                                    /\ field'[u] = field[u] /\ seen'[u] = seen[u]
  <2>1. at'[m] = at[m] + 1 /\ field'[m] = 0
    BY <1>1 DEF MigrationInv, LocalsTyped
  <2>2. \A u \in Migrators \ {m} : at'[u] = at[u] /\ field'[u] = field[u] /\ seen'[u] = seen[u]
    BY <1>1 DEF MigrationInv, LocalsTyped
  <2>3. CASE at[m] = Len(Models[m])
    <3>1. pc' = [pc EXCEPT ![m] = "done"] /\ result' = [result EXCEPT ![m] = "ok"]
      BY <2>3 DEF ModelDone
    <3> QED BY <3>1, <2>1, <2>2, <2>3 DEF MigrationInv, TypeOK
  <2>4. CASE at[m] /= Len(Models[m])
    <3>1. pc' = [pc EXCEPT ![m] = "create"] /\ result' = result
      BY <2>4 DEF ModelDone
    <3> QED BY <3>1, <2>1, <2>2, <2>4 DEF MigrationInv, TypeOK
  <2> QED BY <2>3, <2>4
<1>5. TypeOK' /\ LocalsTyped'
  <2>1. at'[m] \in 1..(Len(Models[m]) + 1)
    BY <1>3, <1>4
  <2>2. \A u \in Migrators : at'[u] \in 1..(Len(Models[u]) + 1) /\ field'[u] \in Nat
    <3>1. \A u \in Migrators : at[u] \in 1..(Len(Models[u]) + 1) /\ field[u] \in Nat
      BY DEF MigrationInv, TypeOK
    <3> QED BY <3>1, <2>1, <1>4
  <2>3. at' \in [Migrators -> Nat \ {0}] /\ field' \in [Migrators -> Nat]
    BY <1>1, <1>3 DEF MigrationInv, LocalsTyped
  <2> QED BY <2>2, <2>3, <1>1, <1>4 DEF MigrationInv, TypeOK, LocalsTyped
<1>6. Working(m)' /\ Altering(m)' /\ Indexing(m)'
  BY <1>3, <1>4 DEF Working, Altering, Indexing
<1>7. Passed(m)'
  <2>1. SUFFICES ASSUME NEW k \in 1..at[m], NEW g \in Fields(m, k)
                 PROVE  \/ Present(Models[m][k].table, g)
                        \/ <<Models[m][k].table, g.name>> \in refused[m]
    BY <1>1, <1>3, <1>4 DEF Passed, Fields, Present
  <2>2. CASE k \in 1..(at[m] - 1)
    BY <2>2 DEF MigrationInv, ProcessInv, Passed
  <2>3. CASE k = at[m]
    <3>1. PICK i \in DOMAIN Model(m).fields : g = Model(m).fields[i]
      BY <2>1, <2>3, <1>3 DEF Fields
    <3>2. DealtWith(m, i)
      BY <1>1 DEF MigrationInv, ProcessInv, Indexing
    <3> QED BY <3>1, <3>2, <2>3, <1>3 DEF DealtWith
  <2> QED BY <2>2, <2>3, <1>3
<1> QED BY <1>1, <1>2, <1>4, <1>5, <1>6, <1>7, OneProcess DEF ProcessInv

\* A process that is killed has claimed nothing.
LEMMA CrashStep ==
  ASSUME MigrationInv, NEW m \in Migrators, Crash(m)
  PROVE  MigrationInv' /\ Grows
<1> USE DEF Crash
<1>1. Grows
  BY DatabaseKept
<1>2. Len(Models[m]) \in Nat \ {0}
  BY MigrationConstants, EmptySeq
<1>3. TypeOK' /\ LocalsTyped'
  <2>1. faults' \in 0..MaxFaults
    BY MigrationConstants DEF MigrationInv, TypeOK
  <2> QED BY <2>1, <1>2 DEF MigrationInv, TypeOK, LocalsTyped
<1>4. /\ pc'[m] = "down" /\ at'[m] = 1 /\ field'[m] = 0
      /\ \A u \in Migrators \ {m} :
            /\ pc'[u] = pc[u] /\ at'[u] = at[u] /\ field'[u] = field[u]
            /\ seen'[u] = seen[u] /\ refused'[u] = refused[u]
  BY DEF MigrationInv, TypeOK, LocalsTyped
<1>5. ProcessInv(m)'
  BY <1>4 DEF ProcessInv, Working, Altering, Indexing, Passed
<1> QED BY <1>1, <1>3, <1>4, <1>5, OneProcess

\* Rows of clients leave the columns alone.
LEMMA InsertStep ==
  ASSUME MigrationInv, NEW t \in Tables, Insert(t)
  PROVE  MigrationInv' /\ Grows
<1>1. db' = [db EXCEPT ![t].rows = TRUE] /\ UNCHANGED <<backend, local, faults>>
  BY DEF Insert
<1>2. /\ db' \in [Tables -> TableStates]
      /\ \A x \in Tables : db'[x].cols = db[x].cols
  BY <1>1 DEF MigrationInv, TypeOK, TableStates
<1>3. Grows
  BY <1>1, <1>2 DEF Grows
<1>4. TypeOK' /\ LocalsTyped'
  BY <1>1, <1>2 DEF MigrationInv, TypeOK, LocalsTyped, TableStates, local
<1>5. \A m \in Migrators : ProcessInv(m)'
  BY <1>1, <1>3, UndisturbedProcess DEF local
<1> QED BY <1>3, <1>4, <1>5 DEF MigrationInv

(***************************************************************************)
(* The theorems                                                            *)
(***************************************************************************)

\* At first no process has started and there is no table.
LEMMA MigrationInit == Init => MigrationInv
<1> SUFFICES ASSUME Init PROVE MigrationInv
  OBVIOUS
<1>1. \A m \in Migrators : Len(Models[m]) \in Nat \ {0}
  BY MigrationConstants, EmptySeq
<1>2. db \in [Tables -> TableStates]
  BY EmptySeq DEF Init, NoTable, TableStates
<1>3. TypeOK
  BY <1>1, <1>2, MigrationConstants DEF Init, TypeOK, TableStates
<1>4. LocalsTyped
  BY DEF Init, LocalsTyped
<1>5. \A m \in Migrators : ProcessInv(m)
  BY DEF Init, ProcessInv, Working, Altering, Indexing, Passed
<1> QED BY <1>3, <1>4, <1>5 DEF MigrationInv

\* Every step keeps the invariant and drops no column.
LEMMA MigrationStep == MigrationInv /\ [Next]_vars => MigrationInv' /\ Grows
<1> SUFFICES ASSUME MigrationInv, [Next]_vars PROVE MigrationInv' /\ Grows
  OBVIOUS
<1>1. ASSUME NEW m \in Migrators, Step(m) \/ Crash(m) PROVE MigrationInv' /\ Grows
  BY <1>1, StartStep, CreateTableStep, DescribeStep, AlterTableStep, AlterDoneStep,
     CreateIndexStep, ModelDoneStep, CrashStep DEF Step
<1>2. ASSUME NEW t \in Tables, Insert(t) PROVE MigrationInv' /\ Grows
  BY <1>2, InsertStep
<1>3. CASE UNCHANGED vars
  <2>1. UNCHANGED <<backend, db, pc, at, field, seen, result, refused, faults>>
    BY <1>3 DEF vars, local
  <2>2. Grows
    BY <2>1, DatabaseKept
  <2>3. TypeOK' /\ LocalsTyped'
    BY <2>1 DEF MigrationInv, TypeOK, LocalsTyped
  <2> QED BY <2>1, <2>2, <2>3, UndisturbedProcess DEF MigrationInv
<1> QED BY <1>1, <1>2, <1>3 DEF Next

\* corm_auto_migrate keeps its types, on every backend and for all models.
THEOREM MigrationTypes == Spec => []TypeOK
<1>1. MigrationInv => TypeOK
  BY DEF MigrationInv
<1> QED BY <1>1, MigrationInit, MigrationStep, PTL DEF Spec

\* Once a call has gone past a model, the model's columns are in the table, however
\* many processes migrate it at once, crash and start again; except for keys and
\* for columns whose ALTER was refused.
THEOREM MigrationCompletes == Spec => []Completed
<1>1. MigrationInv => Completed
  BY DEF MigrationInv, ProcessInv, Passed, Completed
<1> QED BY <1>1, MigrationInit, MigrationStep, PTL DEF Spec

\* No step of a migration, and no crash, takes a column away again: neither IF NOT
\* EXISTS nor a second ALTER replaces what another process has made.
THEOREM ColumnsStay ==
  Spec => [][\A t \in Tables : Names(db[t].cols) \subseteq Names(db'[t].cols)]_vars
<1>1. Grows => [\A t \in Tables : Names(db[t].cols) \subseteq Names(db'[t].cols)]_vars
  BY DEF Grows
<1> QED BY <1>1, MigrationInit, MigrationStep, PTL DEF Spec

=============================================================================
