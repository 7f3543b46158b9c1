CONSTANTS
  a = a
  b = b
  Tokens <- MCTokens
  MaxLen = 4
  MaxFaults = 2
  FirstClause <- MCFirstClause
SPECIFICATION Spec
INVARIANT ExtensionIsNoReset
