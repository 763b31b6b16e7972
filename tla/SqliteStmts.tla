---------------------------- MODULE SqliteStmts ----------------------------
(***************************************************************************)
(* How the SQLite driver (src/backend/sqlite3.c) keeps prepared statements *)
(* in a connection's statement cache: sqlite_exec and sqlite_query, with   *)
(* sqlite_get_stmt and sqlite_cleanup_stmt, step by step.  sqlite_begin,   *)
(* commit, rollback are calls of sqlite_exec with a fixed text.  What a    *)
(* query does with its statement is in SqliteQueries.                      *)
(*                                                                         *)
(* A step that calls the cache is the cache's own action conjoined with    *)
(* what the driver does with the result.                                   *)
(***************************************************************************)
EXTENDS StmtLRU

CONSTANTS Users,     \* the thread that uses the connection
          NoSql,
          MaxReopen  \* bound: how often the connection is opened

\* A connection belongs to one thread: the pool lends it to one client at a time
\* (SoleOwner of ConnPool).  Nothing in the driver protects a statement between
\* the call of the cache that found it and its use.
ASSUME DriverConstants ==
  /\ NoSql \notin Sqls
  /\ \A u, v \in Users : u = v

VARIABLES open,      \* statements that are prepared and not finalized
          text,      \* the SQL each open statement was prepared from
          pc,        \* where each user is in the driver
          sql,       \* the argument of its call
          stmt,      \* the driver's local stmt
          connected, \* db->conn is open
          oom,       \* corm_stmt_cache_put has run out of memory
          opened     \* how often the connection was opened

driver == <<open, text, pc, sql, stmt, connected, oom, opened>>
vars == <<cacheVars, driver>>

Init ==
  /\ CacheInit
  /\ open = {} /\ text = [s \in Stmts |-> NoSql]
  /\ pc = [u \in Users |-> "idle"] /\ sql = [u \in Users |-> NoSql]
  /\ stmt = [u \in Users |-> NoStmt]
  /\ connected = TRUE /\ oom = FALSE /\ opened = 1

\* sqlite3_finalize
Finalize(S) ==
  /\ open' = open \ S
  /\ text' = [s \in Stmts |-> IF s \in S THEN NoSql ELSE text[s]]

Return(u) ==
  /\ pc' = [pc EXCEPT ![u] = "idle"]
  /\ sql' = [sql EXCEPT ![u] = NoSql]
  /\ stmt' = [stmt EXCEPT ![u] = NoStmt]

\* corm_stmt_cache_get: a hit is reset and used, a miss is prepared.
Call(u, q) ==
  /\ connected /\ pc[u] = "idle"
  /\ Get(q)
  /\ sql' = [sql EXCEPT ![u] = q]
  /\ stmt' = [stmt EXCEPT ![u] = ret']
  /\ pc' = [pc EXCEPT ![u] = IF ret' = NoStmt THEN "prepare" ELSE "run"]
  /\ UNCHANGED <<open, text, connected, oom, opened>>

PrepareOk(u) ==
  /\ pc[u] = "prepare"
  /\ \E s \in Stmts \ open :
       /\ open' = open \union {s}
       /\ text' = [text EXCEPT ![s] = sql[u]]
       /\ stmt' = [stmt EXCEPT ![u] = s]
  /\ pc' = [pc EXCEPT ![u] = "put"]
  /\ UNCHANGED <<cacheVars, sql, connected, oom, opened>>

PrepareFails(u) ==
  /\ pc[u] = "prepare"
  /\ Return(u)
  /\ UNCHANGED <<cacheVars, open, text, connected, oom, opened>>

Store_FinalizesUncached(u) ==   \* mutant: finalizes what the cache refused
  /\ pc[u] = "put"
  /\ Put(sql[u], stmt[u])
  /\ Finalize(freed' \union ({stmt[u]} \ CachedStmts'))
  /\ oom' = (oom \/ (sql[u] \notin Cached /\ stmt[u] \notin CachedStmts'))
  /\ pc' = [pc EXCEPT ![u] = "run"]
  /\ UNCHANGED <<sql, stmt, connected, opened>>

\* corm_stmt_cache_put: its result is ignored.  What it evicts is finalized
\* (sqlite_finalize_stmt is the cache's entry_destroy_fn).
Store(u) ==
  /\ pc[u] = "put"
  /\ Put(sql[u], stmt[u])
  /\ Finalize(freed')
  /\ oom' = (oom \/ (sql[u] \notin Cached /\ stmt[u] \notin CachedStmts'))
  /\ pc' = [pc EXCEPT ![u] = "run"]
  /\ UNCHANGED <<sql, stmt, connected, opened>>

\* sqlite_exec: binding and stepping succeeds.
RunOk(u) ==
  /\ pc[u] = "run"
  /\ Return(u)
  /\ UNCHANGED <<cacheVars, open, text, connected, oom, opened>>

RunFails_KeepsEntry(u) ==       \* mutant: finalized but left in the cache
  /\ pc[u] = "run"
  /\ Finalize({stmt[u]})
  /\ Return(u)
  /\ UNCHANGED <<cacheVars, connected, oom, opened>>

RunFails_Leaks(u) ==            \* mutant: removed but not finalized
  /\ pc[u] = "run"
  /\ Remove(sql[u])
  /\ Return(u)
  /\ UNCHANGED <<open, text, connected, oom, opened>>

\* A step or an allocation fails: sqlite_cleanup_stmt takes the statement out
\* of the cache and finalizes it.
RunFails(u) ==
  /\ pc[u] = "run"
  /\ Remove(sql[u])
  /\ Finalize({ret'})
  /\ Return(u)
  /\ UNCHANGED <<connected, oom, opened>>

\* corm_close: the cache is destroyed first, then the connection closed.
Close ==
  /\ connected /\ \A u \in Users : pc[u] = "idle"
  /\ DestroyAll
  /\ Finalize(freed')
  /\ connected' = FALSE
  /\ UNCHANGED <<pc, sql, stmt, oom, opened>>

\* corm_open: a new connection with a cache of its own.
Open ==
  /\ ~connected /\ opened < MaxReopen
  /\ connected' = TRUE /\ opened' = opened + 1
  /\ UNCHANGED <<cacheVars, open, text, pc, sql, stmt, oom>>

Next ==
  \/ \E u \in Users :
       \/ \E q \in Sqls : Call(u, q)
       \/ PrepareOk(u) \/ PrepareFails(u) \/ Store(u)
       \/ RunOk(u) \/ RunFails(u)
  \/ Close \/ Open

Spec == Init /\ [][Next]_vars

-----------------------------------------------------------------------------

\* The driver only ever steps, resets or finalizes a statement that is open and
\* was prepared from the text of the call (lines 58-61, 126 and 161).
RunsOwnStmt ==
  \A u \in Users : pc[u] \in {"put", "run", "step", "rows"} =>
     stmt[u] \in open /\ text[stmt[u]] = sql[u]

\* Every statement in the cache is open and stands for its text: neither an
\* eviction nor the cleanup after an error leaves a finalized one behind.
CacheCoherent ==
  \A i \in DOMAIN lru : lru[i].stmt \in open /\ text[lru[i].stmt] = lru[i].sql

\* Unless the cache ran out of memory, no open statement is forgotten: each one
\* is in the cache or on its way into it, so closing the connection finalizes
\* all of them before sqlite3_close.
NoStmtLost ==
  ~oom => open = CachedStmts \union {stmt[u] : u \in {v \in Users : pc[v] = "put"}}

=============================================================================
