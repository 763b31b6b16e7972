SPECIFICATION Spec
CONSTANTS
  Sqls = {q1, q2, q3, q4}
  Stmts = {s1, s2}
  NoStmt = NoStmt
  Capacity = 3
  Nodes = {n1, n2, n3, n4}
  Null = Null
SYMMETRY Symm
INVARIANTS WellLinked WithinCapacity
PROPERTIES ImplementsLRU
