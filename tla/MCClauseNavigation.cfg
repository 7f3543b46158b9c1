CONSTANTS
  KeySizes <- Sizes
  MaxLen = 4
  k1 = k1
  k2 = k2
  Letters <- TwoLetters
  FirstClause <- FirstByLast
  Lengths <- WholeTwoOne
SPECIFICATION Spec
CONSTRAINT Bounded
INVARIANTS TypeOK WholeText BehindIsShown AheadIsShown StacksAgree CurrentAgrees RawAgrees RoundTrip
PROPERTIES LastIsLast LoopAdvances CommitsFirst
