SPECIFICATION Spec
CONSTANTS
  Sqls = {q1, q2}
  Stmts = {s1, s2}
  NoStmt = NoStmt
  NoSql = NoSql
  Capacity = 2
INVARIANTS CachedStmtsReusable
