----------------------------- MODULE MysqlStmts -----------------------------
(***************************************************************************)
(* How the MySQL driver (src/backend/mysql.c) keeps prepared statements in *)
(* a connection's statement cache: mysql_exec and mysql_stmt_query, called *)
(* with parameters, by the one thread that owns the connection.  (Without  *)
(* parameters both go through mysql_query and use no statement.)           *)
(***************************************************************************)
EXTENDS StmtLRU

CONSTANT NoSql

VARIABLES open,   \* statements that are prepared and not closed
          text,   \* the SQL each open statement was prepared from
          pc,     \* where the call is
          kind,   \* "exec" or "query"
          sql,    \* its argument
          stmt    \* its local stmt

call == <<kind, sql, stmt>>
vars == <<cacheVars, open, text, pc, call>>

Init ==
  /\ CacheInit
  /\ open = {} /\ text = [s \in Stmts |-> NoSql]
  /\ pc = "idle" /\ kind = "exec" /\ sql = NoSql /\ stmt = NoStmt

\* mysql_stmt_close.  A handle that is closed already may be closed again.
CloseStmts(S) ==
  /\ open' = open \ S
  /\ text' = [s \in Stmts |-> IF s \in S THEN NoSql ELSE text[s]]

Return == pc' = "idle" /\ kind' = "exec" /\ sql' = NoSql /\ stmt' = NoStmt

Call(k, q) ==
  /\ pc = "idle"
  /\ Get(q)
  /\ kind' = k /\ sql' = q /\ stmt' = ret'
  /\ pc' = IF ret' = NoStmt THEN "prepare" ELSE "run"
  /\ UNCHANGED <<open, text>>

\* mysql_stmt_init and mysql_stmt_prepare
PrepareOk ==
  /\ pc = "prepare" /\ pc' = "put"
  /\ \E s \in Stmts \ open :
       open' = open \union {s} /\ text' = [text EXCEPT ![s] = sql] /\ stmt' = s
  /\ UNCHANGED <<cacheVars, kind, sql>>

PrepareFails ==
  /\ pc = "prepare"
  /\ Return
  /\ UNCHANGED <<cacheVars, open, text>>

\* corm_stmt_cache_put; mysql_stmt_close is the cache's entry_destroy_fn.
Store ==
  /\ pc = "put" /\ pc' = "run"
  /\ Put(sql, stmt)
  /\ CloseStmts(freed')
  /\ UNCHANGED call

\* mysql_exec succeeds: the statement stays open for the next call.
ExecOk ==
  /\ pc = "run" /\ kind = "exec"
  /\ Return
  /\ UNCHANGED <<cacheVars, open, text>>

\* Binding or executing fails, in mysql_exec or mysql_stmt_query.
RunFails ==
  /\ pc = "run"
  /\ CloseStmts({stmt})
  /\ Return
  /\ UNCHANGED cacheVars

\* The end of mysql_stmt_query, with or without a result set.
QueryOk ==
  /\ pc = "run" /\ kind = "query"
  /\ CloseStmts({stmt})
  /\ Return
  /\ UNCHANGED cacheVars

Next ==
  \/ \E k \in {"exec", "query"}, q \in Sqls : Call(k, q)
  \/ PrepareOk \/ PrepareFails \/ Store \/ ExecOk \/ RunFails \/ QueryOk

Spec == Init /\ [][Next]_vars

\* src/backend/mysql.c:224: "Do NOT close cached stmt -- reuse next time".  A
\* statement that is in the cache between two calls is open, and is the one
\* prepared from its text.
CachedStmtsReusable ==
  pc = "idle" =>
    \A i \in DOMAIN lru : lru[i].stmt \in open /\ text[lru[i].stmt] = lru[i].sql

=============================================================================
