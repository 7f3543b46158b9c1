SPECIFICATION Spec
CONSTANTS
  Windows = {w1}
  Launchers = {l1}
  Callers = {}
  Fields = {zenzai}
  Names = {n1}
  MaxStamp = 3
INVARIANTS BackupIsTheBrokenFile
