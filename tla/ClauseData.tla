----------------------------- MODULE ClauseData -----------------------------
(***************************************************************************)
(* The data that clause navigation works on: texts, what the server answers *)
(* when its cursor may be inside the composition, and the remembered clauses *)
(* ahead ("futures").                                                       *)
(*                                                                         *)
(* A text is a sequence of letters: a kana with a spelling, 0 when it is    *)
(* shown as kana and 1 when it is converted.  A raw input is a sequence of  *)
(* keys; every kana takes `Keys` of them.  Corresponding counts count keys. *)
(* The repairs for a lone "n", whose keys do not belong to one kana, and     *)
(* the function keys, which spell a clause in another script, are left out.  *)
(***************************************************************************)
EXTENDS Integers, FiniteSetsExt, SequencesExt

CONSTANTS KeySizes,        \* how many keys a kana may take
          FirstClause(_),  \* kana in the first clause of a composition
          Lengths(_)       \* kana in the candidates for a whole composition, in order

ASSUME KeysAssumption == KeySizes \subseteq Nat \ {0}

VARIABLE Keys   \* the keys that every kana takes in a behaviour

Take(n, s) == SubSeq(s, 1, IF n < Len(s) THEN n ELSE Len(s))
Drop(n, s) == SubSeq(s, n + 1, Len(s))

Spelled(spelling, kanas) == [i \in DOMAIN kanas |-> <<kanas[i], spelling>>]
Kana(text)    == [i \in DOMAIN text |-> text[i][1]]
KeysOf(kanas) == [i \in 1..Keys * Len(kanas) |->
                    <<kanas[(i - 1) \div Keys + 1], 2 + ((i - 1) % Keys)>>]

\* Turn applied n times.
Iterated(Turn(_), n, start) ==
  LET after[i \in 0..n] == IF i = 0 THEN start ELSE Turn(after[i - 1])
  IN after[n]

\* strip_prefix and strip_suffix, for callers that keep the text if they fail
AfterPrefix(p, s)  == IF IsPrefix(p, s) THEN Drop(Len(p), s) ELSE s
BeforeSuffix(t, s) == IF IsSuffix(t, s) THEN Take(Len(s) - Len(t), s) ELSE s

\* current_raw_suffix drops as many letters as the count has keys.
RawSuffix(reading, count) == Drop(count, reading)

-----------------------------------------------------------------------------
(* Answers: Candidates.                                                    *)

Item(text, rest, count) == [text |-> text, rest |-> rest, count |-> count]
NoView == [reading |-> <<>>, items |-> <<>>]

\* The first n kana of s, spelled as asked; the rest is kana.
FirstOf(n, s, spelling) ==
  Item(Spelled(spelling, Take(n, s)), Spelled(0, Drop(n, s)), Keys * n)

\* GetComposedText: candidates for the whole composition and its beginnings.
FullView(s) ==
  IF s = <<>> THEN NoView
  ELSE [reading |-> Spelled(0, s),
        items   |-> [i \in DOMAIN Lengths(s) |-> FirstOf(Lengths(s)[i], s, IF i = 1 THEN 1 ELSE 0)]]

\* GetComposedTextForCursorPrefix: spellings of the first clause of what is
\* before the cursor.
PrefixView(s, cursor) ==
  LET n == FirstClause(Take(cursor, s))
  IN [reading |-> Spelled(0, s),
      items   |-> IF cursor = 0 THEN <<>> ELSE <<FirstOf(n, s, 1), FirstOf(n, s, 0)>>]

\* select_candidate: the index is clamped (positions start with 1 here).
Clamp(i, view) == IF i < 1 THEN 1 ELSE IF i > Len(view.items) THEN Len(view.items) ELSE i

-----------------------------------------------------------------------------
(* The server: its composition, its cursor and the stack of both that the   *)
(* reserved cursor offsets work on.                                         *)

MoveCursor(d, server) ==
  [server EXCEPT !.cursor = IF @ + d < 0 THEN 0
                            ELSE IF @ + d > Len(server.input) THEN Len(server.input)
                            ELSE @ + d]

View0(server) == PrefixView(server.input, server.cursor)   \* move_cursor(0)

PushPlace(server) ==
  [server EXCEPT !.stack = Append(@, [input |-> server.input, cursor |-> server.cursor])]

\* Variant: only the cursor comes back.
PopCursor(server) ==
  IF server.stack = <<>> THEN server
  ELSE [server EXCEPT !.cursor = Last(server.stack).cursor, !.stack = Front(@)]

PopPlace(server) ==
  IF server.stack = <<>> THEN server
  ELSE [input  |-> Last(server.stack).input,
        cursor |-> Last(server.stack).cursor,
        stack  |-> Front(server.stack)]

\* Variant: the count is taken for kana.
ShrinkKana(count, server) ==
  [server EXCEPT !.input  = Drop(count, @),
                 !.cursor = IF @ > count THEN @ - count ELSE Len(Drop(count, server.input))]

\* prefixComplete keeps the cursor at its place in the text, or puts it at the
\* end when nothing is left before it.
Shrink(count, server) ==
  LET n == count \div Keys
  IN [server EXCEPT !.input  = Drop(n, @),
                    !.cursor = IF @ > n THEN @ - n ELSE Len(Drop(n, server.input))]

Insert(kana, server) ==
  [server EXCEPT !.input  = Take(server.cursor, @) \o <<kana>> \o Drop(server.cursor, @),
                 !.cursor = @ + 1]

DeleteBackward(server) ==
  IF server.cursor = 0 THEN server
  ELSE [server EXCEPT !.input  = Take(server.cursor - 1, @) \o Drop(server.cursor, @),
                      !.cursor = @ - 1]
=============================================================================
