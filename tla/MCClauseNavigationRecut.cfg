CONSTANTS
  KeySizes <- One
  MaxLen = 3
  k1 = k1
  k2 = k2
  Letters <- TwoLetters
  FirstClause <- FirstOfTwo
  Lengths <- WholeTwoOne
SPECIFICATION Spec
CONSTRAINT EditsAtEnd
INVARIANTS RecutKeepsText
