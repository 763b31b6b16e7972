SPECIFICATION Spec
CONSTANTS
  Settings <- BoundDelete
  Fields = 2
  MaxTerms = 2
  MaxParams = 4
INVARIANTS ValuesMatch
