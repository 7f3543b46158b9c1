--------------------------- MODULE MCEditRecovery ---------------------------
(* Instances of EditRecovery for TLC. *)
EXTENDS EditRecovery

CONSTANTS a, b

MCTokens == {a, b}

\* The first clause ends with the first b (a word that closes a clause); a
\* composition without b is a single clause.
MCFirstClause(s) ==
  LET ends == {i \in 1..Len(s) : s[i] = b}
  IN IF ends = {} THEN Len(s) ELSE CHOOSE i \in ends : \A j \in ends : i <= j
=============================================================================
