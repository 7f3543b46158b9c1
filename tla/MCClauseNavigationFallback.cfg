CONSTANTS
  KeySizes <- Two
  MaxLen = 5
  k1 = k1
  k2 = k2
  Letters <- TwoLetters
  FirstClause <- FirstOfOne
  Lengths <- WholeTwoOne
SPECIFICATION Spec
CONSTRAINT OneFallback
INVARIANTS FallbackKeepsText
