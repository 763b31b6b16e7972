SPECIFICATION QSpec
CONSTANTS
  Sqls = {q1, q2}
  Stmts = {s1, s2, s3}
  NoStmt = NoStmt
  NoSql = NoSql
  Capacity = 1
  Users = {u1}
  MaxReopen = 2
  Results = {r1}
  FieldTypes = {"BOOL", "TEXT", "BLOB"}
  MaxRows = 3
  MaxWidth = 2
  MaxRefs = 2
  MaxDropped = 1
SYMMETRY Interchangeable
CONSTRAINT FewDropped
INVARIANTS RunsOwnStmt CacheCoherent NoStmtLost RowsComplete FieldsAsStored WithinRow BlocksOwned
CHECK_DEADLOCK FALSE
