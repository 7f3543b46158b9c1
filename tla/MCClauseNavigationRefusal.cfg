CONSTANTS
  KeySizes <- One
  MaxLen = 5
  k1 = k1
  k2 = k2
  Letters <- TwoLetters
  FirstClause <- FirstButFour
  Lengths <- WholeAndOne
SPECIFICATION Spec
CONSTRAINT OneRefusal
INVARIANTS RefusalKeepsText
