SPECIFICATION StreamSpec
CONSTANTS
  MaxBytes = 60
  Diffs <- MCDiffs
  Payloads <- MCPayloads
INVARIANTS
  WordsInOrder
  PatternUnique
  Decodable
CHECK_DEADLOCK FALSE
