--------------------------- MODULE SqliteQueries ---------------------------
(***************************************************************************)
(* sqlite_query on top of the statement cache: how it collects rows into a *)
(* result set, and the life of result sets (src/result.c) in the hands of  *)
(* the client or of corm_find_all, corm_first and corm_count.  The queries *)
(* are SELECT * on one table, which other connections of the library fill  *)
(* and, by migrating, widen.                                               *)
(*                                                                         *)
(* One column is followed, that of a field of one type; a value of it is   *)
(* "null" or "some".                                                       *)
(***************************************************************************)
EXTENDS SqliteStmts

CONSTANTS Results,   \* result sets
          FieldTypes,\* types of the field a behaviour may start with
          MaxRows,   \* bound: rows in the table
          MaxWidth,  \* bound: columns of the table
          MaxRefs,   \* bound: references to a result set
          MaxDropped \* bound: blocks that errors have dropped

ASSUME QueryConstants ==
  FieldTypes \subseteq {"INT", "INT64", "FLOAT", "DOUBLE", "STRING", "TEXT", "BOOL", "BLOB"}

VARIABLES ftype,     \* the type of the field
          table,     \* its values, row by row
          width,     \* the number of columns of the table
          compiled,  \* per statement: the number it was compiled for
          query,     \* per user: the locals of sqlite_query
          results,   \* the result sets that are allocated
          blocks,    \* texts and blobs allocated for values
          dropped    \* ... that no row points to any more

queryVars == <<ftype, table, width, compiled, query, results, blocks, dropped>>
allVars == <<vars, queryVars>>

\* The locals: col_count, how far a row was read, col_types of the column, rows,
\* and the rows the statement saw and has still to deliver.
NoQuery == [cols |-> 0, read |-> 0, type |-> "unset", rows |-> <<>>,
            seen |-> <<>>, todo |-> <<>>]

QInit ==
  /\ Init
  /\ ftype \in FieldTypes /\ table = <<>> /\ width = 1
  /\ compiled = [s \in Stmts |-> 0]
  /\ query = [u \in Users |-> NoQuery]
  /\ results = <<>> /\ blocks = 0 /\ dropped = 0

\* What sqlite_exec does with statements, and opening and closing.
Driver ==
  /\ \/ \E u \in Users : (\E q \in Sqls : Call(u, q))
          \/ PrepareFails(u) \/ Store(u) \/ RunFails(u)
     \/ Close \/ Open
  /\ UNCHANGED queryVars

QPrepare(u) ==
  /\ PrepareOk(u)
  /\ compiled' = [compiled EXCEPT ![stmt'[u]] = width]
  /\ UNCHANGED <<ftype, table, width, query, results, blocks, dropped>>

\* sqlite_exec of the same text; its only step compiles it again if need be.
QExec(u) ==
  /\ RunOk(u)
  /\ compiled' = [compiled EXCEPT ![stmt[u]] = width]
  /\ UNCHANGED <<ftype, table, width, query, results, blocks, dropped>>

Moves(u, from, to) == pc[u] = from /\ pc' = [pc EXCEPT ![u] = to]
StmtsKept == UNCHANGED <<cacheVars, open, text, sql, stmt, connected, oom, opened>>

\* The column count is taken, and the arrays allocated, before the first step.
CountColumns(u) ==
  /\ Moves(u, "run", "step") /\ StmtsKept
  /\ query' = [query EXCEPT ![u] = [NoQuery EXCEPT !.cols = compiled[stmt[u]]]]
  /\ UNCHANGED <<ftype, table, width, compiled, results, blocks, dropped>>

\* The first sqlite3_step compiles the statement again if the table has changed.
FirstStep(u) ==
  /\ Moves(u, "step", "rows") /\ StmtsKept
  /\ compiled' = [compiled EXCEPT ![stmt[u]] = width]
  /\ query' = [query EXCEPT ![u].seen = table, ![u].todo = table]
  /\ UNCHANGED <<ftype, table, width, results, blocks, dropped>>

\* sqlite_bind_params: the storage class in which a value of the field is stored;
\* the type that corm_dialect_type_name_str gives the column keeps it.
StoredAs(f) ==
  CASE f \in {"INT", "INT64", "BOOL"} -> "integer" [] f \in {"FLOAT", "DOUBLE"} -> "real"
    [] f \in {"STRING", "TEXT"} -> "text" [] f = "BLOB" -> "blob"

TypeAfter_NullIsText(t, v) ==   \* mutant: any NULL makes the column TEXT
  IF v = "null" THEN "text" ELSE IF t = "unset" THEN StoredAs(ftype) ELSE t

\* The first row decides the type of a column; NULL decides for TEXT.
TypeAfter(t, v) ==
  IF t /= "unset" THEN t ELSE IF v = "null" THEN "text" ELSE StoredAs(ftype)

\* The member of the union that holds a value of this type.
Member(t) ==
  CASE t = "integer" -> "i" [] t = "real" -> "f" [] t = "text" -> "s" [] t = "blob" -> "blob"

\* The members from which corm_field_set_value may read the value of a field: the
\* one of the field's type; a bool is the lowest byte of the integer as well.
ReadFrom(f) ==
  CASE f \in {"INT", "INT64"} -> {"i"} [] f \in {"FLOAT", "DOUBLE"} -> {"f"}
    [] f \in {"STRING", "TEXT"} -> {"s"} [] f = "BOOL" -> {"b", "i"} [] f = "BLOB" -> {"blob"}

Allocates(v) == v.set \in {"s", "blob"}
Blocks(rows) == {i \in DOMAIN rows : Allocates(rows[i])}
Owned(rows) == Cardinality(Blocks(rows))

ReadTo_FreshCount(u) ==      \* mutant: asks for the count again for every row
  compiled[stmt[u]]

ReadTo(u) == query[u].cols

FetchRow(u) ==
  LET q == query[u]
      t == TypeAfter(q.type, Head(q.todo))
      v == [type |-> t, set |-> IF Head(q.todo) = "null" THEN "nothing" ELSE Member(t)]
  IN  /\ pc[u] = "rows" /\ q.todo /= <<>>
      /\ query' = [query EXCEPT ![u].type = t, ![u].rows = Append(@, v),
                                ![u].todo = Tail(@), ![u].read = ReadTo(u)]
      /\ blocks' = IF Allocates(v) THEN blocks + 1 ELSE blocks
      /\ StmtsKept
      /\ UNCHANGED <<pc, ftype, table, width, compiled, results, dropped>>

\* A step or an allocation fails: the rows are freed without what they point to,
\* and the statement as after any error.
QueryFails(u) ==
  /\ pc[u] \in {"step", "rows"}
  /\ Remove(sql[u]) /\ Finalize({ret'}) /\ Return(u)
  /\ dropped' = dropped + Owned(query[u].rows)
  /\ query' = [query EXCEPT ![u] = NoQuery]
  /\ UNCHANGED <<connected, oom, opened, ftype, table, width, compiled, results, blocks>>

HandOut(u) ==
  \E r \in Results \ DOMAIN results :
    results' = [x \in DOMAIN results \union {r} |->
                  IF x /= r THEN results[x]
                  ELSE [rows |-> query[u].rows, of |-> query[u].seen, refs |-> 1]]

QueryDone_AnyEnd(u) ==       \* mutant: rc is not compared with SQLITE_DONE
  /\ pc[u] = "rows" /\ HandOut(u)
  /\ query' = [query EXCEPT ![u] = NoQuery]
  /\ Return(u)
  /\ UNCHANGED <<cacheVars, open, text, connected, oom, opened>>
  /\ UNCHANGED <<ftype, table, width, compiled, blocks, dropped>>

\* SQLITE_DONE: the rows become a result set with one reference.
QueryDone(u) ==
  /\ pc[u] = "rows" /\ query[u].todo = <<>> /\ HandOut(u)
  /\ query' = [query EXCEPT ![u] = NoQuery]
  /\ Return(u)
  /\ UNCHANGED <<cacheVars, open, text, connected, oom, opened>>
  /\ UNCHANGED <<ftype, table, width, compiled, blocks, dropped>>

Retain(r) ==
  /\ results[r].refs < MaxRefs
  /\ results' = [results EXCEPT ![r].refs = @ + 1]
  /\ UNCHANGED <<vars, ftype, table, width, compiled, query, blocks, dropped>>

Frees_TextsOnly(rows) ==     \* mutant: release forgets the blobs
  Cardinality({i \in DOMAIN rows : rows[i].set = "s"})

\* The values that corm_result_release frees: those whose type points to memory.
Frees(rows) ==
  Cardinality({i \in DOMAIN rows :
     rows[i].type \in {"text", "blob"} /\ rows[i].set /= "nothing"})

\* The last reference frees the rows; also after the connection is closed.
Release(r) ==
  /\ IF results[r].refs > 1
     THEN results' = [results EXCEPT ![r].refs = @ - 1] /\ UNCHANGED blocks
     ELSE /\ results' = [x \in DOMAIN results \ {r} |-> results[x]]
          /\ blocks' = blocks - Frees(results[r].rows)
  /\ UNCHANGED <<vars, ftype, table, width, compiled, query, dropped>>

\* Another connection commits a row or a migration.
Insert(v) ==
  /\ Len(table) < MaxRows /\ table' = Append(table, v)
  /\ UNCHANGED <<vars, ftype, width, compiled, query, results, blocks, dropped>>
AddColumn ==
  /\ width < MaxWidth /\ width' = width + 1
  /\ UNCHANGED <<vars, ftype, table, compiled, query, results, blocks, dropped>>

QNext ==
  \/ Driver
  \/ \E u \in Users : \/ QPrepare(u) \/ QExec(u) \/ CountColumns(u) \/ FirstStep(u)
                      \/ FetchRow(u) \/ QueryFails(u) \/ QueryDone(u)
  \/ \E r \in DOMAIN results : Retain(r) \/ Release(r)
  \/ \E v \in {"null", "some"} : Insert(v)
  \/ AddColumn

QSpec == QInit /\ [][QNext]_allVars

\* Behaviours are followed until errors have dropped a few blocks.
FewDropped == dropped <= MaxDropped

-----------------------------------------------------------------------------

\* A result set that sqlite_query returns with CORM_OK has every row its
\* statement saw, although steps may fail after any row.
RowsComplete ==
  \A r \in DOMAIN results : Len(results[r].rows) = Len(results[r].of)

\* What was bound as a value of the field, corm_field_set_value finds again in
\* every row: the driver has set the member that is read for the field's type,
\* and nothing for NULL; except in a column whose first row is NULL, which is
\* taken for TEXT.
FieldsAsStored ==
  \A r \in DOMAIN results : \A i \in DOMAIN results[r].rows :
    LET v == results[r].rows[i] IN
    IF results[r].of[i] = "null" THEN v.set = "nothing"
    ELSE v.set \in ReadFrom(ftype) \/ results[r].of[1] = "null"

\* Although a statement of the cache may be compiled again for a wider table when
\* it is stepped first, no row is read past the cells allocated for it or past
\* the columns the statement has.
WithinRow ==
  \A u \in Users : pc[u] = "rows" =>
    query[u].read <= query[u].cols /\ query[u].cols <= compiled[stmt[u]]

\* The blocks of several lists of rows, each named by its list and its position.
BlocksIn(lists) == UNION {{x} \X Blocks(lists[x]) : x \in DOMAIN lists}

ResultRows == [r \in DOMAIN results |-> results[r].rows]
QueryRows == [u \in Users |-> query[u].rows]

\* Every text and blob allocated for a value belongs to a row of a result set or
\* of a query that is running, or an error path has dropped it; none is freed
\* twice, and releasing a result set frees all of its own.
BlocksOwned ==
  blocks = dropped + Cardinality(BlocksIn(ResultRows)) + Cardinality(BlocksIn(QueryRows))

=============================================================================
