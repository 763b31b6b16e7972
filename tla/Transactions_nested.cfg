SPECIFICATION Spec
CONSTANTS
  Backends = {"sqlite", "mysql", "postgres"}
  Writes = {w1, w2, w3}
  Names = {a, b}
  MaxSaves = 2
  BatchInTx = TRUE
  Swallows = FALSE
PROPERTIES ClosureDecides
