--------------------------- MODULE MCInputSession ---------------------------
(* InputSession with two applications, for TLC.                             *)
EXTENDS InputSession

CONSTANTS a, b

\* The converter's clauses: the first of a composition is one key long, unless
\* that key is all there is.
Clauses(s) == 1

\* Every key is pressed in a; what b adds is a second text service at the server.
PressedKeys(c) == IF c = a THEN Keys ELSE {"kana", "enter"}

\* More keys where there are fewer disturbances.
MCBudgets == {[typed |-> 2, switches |-> 1, faults |-> 1],
              [typed |-> 3, switches |-> 1, faults |-> 0],
              [typed |-> 4, switches |-> 0, faults |-> 1]}

LatinBudgets == {[typed |-> 2, switches |-> 0, faults |-> 0]}
=============================================================================
