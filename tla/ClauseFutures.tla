--------------------------- MODULE ClauseFutures ---------------------------
(***************************************************************************)
(* Clauses ahead of the current one (FutureClauseSnapshot) and clauses left  *)
(* behind (ClauseSnapshot): how they are made, matched with an answer, cut   *)
(* to a moved boundary, and kept in step with the text that is shown.       *)
(*                                                                         *)
(* A clause is the navigation part of `Composition`.  Flags: `derived`, it   *)
(* comes from a split; `remainder`, it is what a split left over; `neighbor`, *)
(* the clause to its left was split.  Group 0 is no split group.            *)
(***************************************************************************)
EXTENDS ClauseData

Blank == [fixed |-> <<>>, preview |-> <<>>, suffix |-> <<>>, raw |-> <<>>,
          reading |-> <<>>, count |-> 0, sel |-> 1, view |-> NoView,
          derived |-> FALSE, remainder |-> FALSE, neighbor |-> FALSE, group |-> 0]

ClausePreview(c) == AfterPrefix(c.fixed, c.preview)

Unflagged(c) == [c EXCEPT !.derived = FALSE, !.remainder = FALSE, !.neighbor = FALSE,
                          !.group = 0]

\* build_future_clause_snapshot, with the clause's own flags
Future(c) ==
  LET item == c.view.items[Clamp(c.sel, c.view)]
  IN [preview |-> ClausePreview(c), suffix |-> c.suffix, raw |-> c.raw,
      reading |-> c.reading, conservative |-> FALSE, count |-> c.count,
      sel |-> Clamp(c.sel, c.view), text |-> item.text, rest |-> item.rest, view |-> c.view,
      derived |-> c.derived, remainder |-> c.remainder, neighbor |-> c.neighbor,
      group |-> c.group]

\* build_conservative_future_clause_snapshot, as the remainder of a split
Remainder(preview, suffix, raw, reading, count, group) ==
  [preview |-> preview, suffix |-> suffix, raw |-> raw, reading |-> reading,
   conservative |-> TRUE, count |-> count, sel |-> 1, text |-> preview, rest |-> suffix,
   view |-> [reading |-> reading, items |-> <<Item(preview, suffix, count)>>],
   derived |-> TRUE, remainder |-> TRUE, neighbor |-> TRUE, group |-> group]

Display(f) == f.preview \o f.suffix

\* future_snapshot_matches_server
Matches(futures, view) ==
  /\ futures # <<>>
  /\ LET reading == Last(futures).reading
     IN \/ IsPrefix(reading, view.reading)
        \/ IsSuffix(reading, view.reading)
        \/ IsSuffix(view.reading, reading)

\* replace_future_suffix_in_sub_text, restore_raw_suffix_from_sub_text
ShowFuture(rest, f) ==
  IF IsSuffix(f.reading, rest) THEN BeforeSuffix(f.reading, rest) \o Display(f) ELSE rest
ReadFuture(rest, f) ==
  IF IsSuffix(Display(f), rest) THEN BeforeSuffix(Display(f), rest) \o f.reading ELSE rest

\* sync_current_clause_future_suffix, with the assignment of its result
ShowAhead(c, futures) ==
  LET items == IF futures = <<>> THEN c.view.items
               ELSE [i \in DOMAIN c.view.items |->
                       [c.view.items[i] EXCEPT !.rest = ShowFuture(@, Last(futures))]]
  IN [c EXCEPT !.view.items = items,
               !.suffix = IF c.sel \in DOMAIN items THEN items[c.sel].rest
                          ELSE IF futures = <<>> THEN <<>>
                          ELSE RawSuffix(c.view.reading, c.count)]

\* restore_future_clause_snapshot, resolve_selection_index
RestoreAhead(f, c) ==
  LET same == {i \in DOMAIN f.view.items : f.view.items[i] = Item(f.text, f.rest, f.count)}
  IN [fixed |-> c.fixed, preview |-> c.fixed \o f.preview, suffix |-> f.suffix, raw |-> f.raw,
      reading |-> f.reading, count |-> f.count,
      sel |-> IF same = {} THEN Clamp(f.sel, f.view) ELSE Min(same), view |-> f.view,
      derived |-> f.derived, remainder |-> f.remainder, neighbor |-> f.neighbor,
      group |-> IF f.derived THEN f.group ELSE 0]

\* sync_clause_snapshot_suffixes
ShowBehind(snaps, text) ==
  LET Update(s) ==
        LET suffix == AfterPrefix(s.preview, text)
            same   == {i \in DOMAIN s.view.items : s.view.items[i].count = s.count}
            Rest(i) == IF same # {} /\ i = Min(same) THEN suffix
                       ELSE IF IsSuffix(s.suffix, s.view.items[i].rest)
                         THEN BeforeSuffix(s.suffix, s.view.items[i].rest) \o suffix
                       ELSE s.view.items[i].rest
        IN [s EXCEPT !.suffix = suffix,
                     !.view.items = [i \in DOMAIN @ |-> [@[i] EXCEPT !.rest = Rest(i)]]]
  IN [i \in DOMAIN snaps |-> IF IsPrefix(snaps[i].preview, text) THEN Update(snaps[i])
                             ELSE snaps[i]]

-----------------------------------------------------------------------------
(* maybe_push_split_future_clause_snapshot: a boundary was moved, and `hint`  *)
(* is what the candidate leaves of the clause.                              *)

\* What is ahead of the boundary, as kana; <<>> where the code gives up.
ReadAhead(futures, raw, reading, count, hint, bootstrap) ==
  LET rawRest == Drop(count, raw)
      hinted  == IF futures = <<>> THEN hint ELSE ReadFuture(hint, Last(futures))
      same    == {i \in DOMAIN futures : rawRest # <<>> /\ futures[i].raw = rawRest}
  IN IF same # {} THEN futures[Max(same)].reading
     ELSE IF hinted # <<>> /\ IsSuffix(hinted, reading) THEN hinted
     ELSE IF futures # <<>> /\ IsSuffix(Last(futures).reading, hinted)
       THEN Last(futures).reading
     ELSE IF futures # <<>> /\ ~bootstrap THEN RawSuffix(reading, count)
     ELSE <<>>

\* The clause ahead, up to the clause behind it, takes over what was left.
Stretched(kept, raw, reading, group) ==
  LET beyond == IF Len(kept) > 1 THEN kept[Len(kept) - 1]
                ELSE [reading |-> <<>>, raw |-> <<>>]
  IN Append(Front(kept),
       Remainder(BeforeSuffix(beyond.reading, reading), Last(kept).suffix, raw, reading,
                 Len(BeforeSuffix(beyond.raw, raw)), group))

\* A new clause before the one ahead takes what was left.
Inserted(kept, raw, reading, group) ==
  LET f       == Last(kept)
      between == BeforeSuffix(f.reading, reading)
  IN Append(kept,
       Remainder(between, Display(f), raw, reading,
                 IF IsSuffix(f.raw, raw) THEN Len(raw) - Len(f.raw) ELSE Len(between), group))

\* What is ahead, as the clause ahead will show it.
LeftOver(f, ahead, hint) ==
  IF hint = <<>> THEN ahead
  ELSE IF IsSuffix(Display(f), hint) THEN ReadFuture(hint, f)
  ELSE IF hint = f.reading THEN f.reading ELSE ahead

\* `kept` are the clauses that still fit, `left` is what they must read.
Fit(kept, raw, left, group) ==
  LET f == Last(kept)
  IN IF f.conservative \/ (f.remainder /\ f.group = group /\ Len(kept) > 1)
       THEN Stretched(kept, raw, left, group)
     ELSE IF IsSuffix(f.reading, left) /\ left # f.reading
       THEN Inserted(kept, raw, left, group)
     ELSE kept

\* The first clause ahead, if there was none.
Bootstrapped(raw, ahead, hint, group) ==
  <<Remainder(IF hint = <<>> THEN ahead ELSE hint, <<>>, IF raw = <<>> THEN ahead ELSE raw,
              ahead, Len(IF raw = <<>> THEN ahead ELSE raw), group)>>

Cut(futures, raw, ahead, hint, bootstrap, group) ==
  LET fitting == {i \in DOMAIN futures : IsSuffix(futures[i].reading, ahead)}
      last    == Max({0} \union fitting)
  IN IF ahead = <<>> THEN futures
     ELSE IF futures = <<>> /\ bootstrap THEN Bootstrapped(raw, ahead, hint, group)
     ELSE IF last = 0 THEN <<>>
     ELSE Fit(SubSeq(futures, 1, last), raw, LeftOver(futures[last], ahead, hint), group)

\* Variant: a moved boundary leaves the clauses ahead as they are.
SplitNothing(futures, raw, reading, count, hint, bootstrap, group) == futures

Split(futures, raw, reading, count, hint, bootstrap, group) ==
  Cut(futures, Drop(count, raw), ReadAhead(futures, raw, reading, count, hint, bootstrap),
      hint, bootstrap, group)
=============================================================================
