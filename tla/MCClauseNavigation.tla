------------------------- MODULE MCClauseNavigation -------------------------
(***************************************************************************)
(* Small instances of ClauseNavigation.  Only judged states are expanded:    *)
(* the others are what the properties say nothing about.                    *)
(***************************************************************************)
EXTENDS ClauseNavigation

CONSTANTS k1, k2

\* Converters.  One that decides by the last kana, and may take everything; one
\* that splits after two kana, after one, or after one but for one text.
FirstByLast(s) == IF s = <<>> THEN 0
                  ELSE IF Last(s) = k1 THEN Max({1, Len(s) - 1}) ELSE Min({2, Len(s)})
FirstOfTwo(s) == IF Len(s) <= 2 THEN Min({1, Len(s)}) ELSE 2
FirstOfOne(s) == Min({1, Len(s)})
FirstButFour(s) == IF Len(s) = 4 /\ Head(s) = k2 THEN 4 ELSE FirstOfOne(s)

\* Candidates for the whole composition and for its beginnings.
WholeTwoOne(s) == IF Len(s) <= 1 THEN <<1>> ELSE IF Len(s) = 2 THEN <<2, 1>> ELSE <<Len(s), 2, 1>>
WholeAndOne(s) == IF Len(s) <= 3 THEN <<Len(s)>> ELSE IF Len(s) = 4 THEN <<4, 3>> ELSE <<5, 1>>

TwoLetters == {k1, k2}

Sizes == {1, 2}
One   == {1}
Two   == {2}

\* Bound: compositions that begin with k1; where a kana takes two keys, up to three
\* times the same kana.
Bounded ==
  /\ Judged
  /\ ghost.typed # <<>> => Head(ghost.typed) = k1
  /\ Keys = 1 \/ (Len(ghost.typed) <= 3 /\ \A i \in DOMAIN ghost.typed : ghost.typed[i] = ghost.typed[1])

\* Constraints of the runs that leave one flag out of Judged: nothing else is left
\* out, and the last two are about one text of five kana.
EditsAtEnd == ~ghost.inner
OneText == \A i \in DOMAIN ghost.typed : ghost.typed[i] = IF i = 1 THEN k1 ELSE k2
OneRefusal  == OneText /\ ~ghost.inner /\ ~ghost.recut /\ ~ghost.fellback /\ ghost.committed = <<>>
OneFallback == OneText /\ ~ghost.removed /\ ~ghost.inner /\ ~ghost.recut /\ ~ghost.refused
=============================================================================
