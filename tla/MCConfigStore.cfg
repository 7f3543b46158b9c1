SPECIFICATION Spec
CONSTANTS
  Windows = {w1}
  Launchers = {l1}
  Callers = {t1, t2}
  Fields = {zenzai, punctuation}
  Names = {n1}
  MaxStamp = 3
SYMMETRY Symmetry
INVARIANTS TypeOK SettingsAreCurrent
PROPERTIES WritersKeepTheRest
CONSTRAINT Pairs
