SPECIFICATION Spec
CONSTANTS
  a = a
  b = b
  Tokens = {a, b}
  MaxLen = 4
  FirstClause <- Clauses
  KeysOf <- PressedKeys
  AfterSpace = TRUE
  Budgets <- MCBudgets
INVARIANTS
  TypeOK
  ComposingHasTip
  KeptText
  ServerAgrees
  NothingLeftBehind
  WindowFollows
PROPERTIES
  LatinUntilConfirmed
