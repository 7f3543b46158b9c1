CONSTANTS
  a = a
  b = b
  Tokens <- MCTokens
  MaxLen = 5
  MaxFaults = 3
  FirstClause <- MCFirstClause
SPECIFICATION FairSpec
INVARIANTS
  TypeOK
  AtMostOnce
  Agreement
  NoMixedSessions
PROPERTIES
  ImplementsEditOnce
  KeyReturns
