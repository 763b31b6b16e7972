SPECIFICATION Spec
CONSTANTS
  Settings <- Orderly
  Fields = 2
  MaxTerms = 4
  MaxParams = 5
INVARIANTS ValuesMatch FilterOnlyHides
