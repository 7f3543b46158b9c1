SPECIFICATION Spec
CONSTANTS
  a = a
  b = b
  Tokens = {a, b}
  MaxLen = 4
  FirstClause <- Clauses
  KeysOf <- PressedKeys
  AfterSpace = FALSE
  Budgets <- LatinBudgets
PROPERTIES
  LatinAppends
