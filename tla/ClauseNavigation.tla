-------------------------- MODULE ClauseNavigation --------------------------
(***************************************************************************)
(* Keys that move between the clauses of a composition, move their           *)
(* boundaries, choose among their candidates, and commit them.  The client   *)
(* keeps the clauses to the left of the current one in `snaps` and those to  *)
(* the right in `futures`; the server keeps a stack of compositions of its   *)
(* own, pushed and popped by reserved cursor offsets.                       *)
(*                                                                         *)
(* A key is one step here: nothing is lost and nobody else uses the server.  *)
(* Only the loop behind MoveToLast takes one step for each clause.          *)
(***************************************************************************)
EXTENDS ClauseFutures

CONSTANTS MaxLen,     \* bound on the kana typed into one composition
          Letters     \* kana there are

ASSUME MaxLenAssumption == MaxLen \in Nat \ {0}

\* A conversion starts with a clause, and no candidate comes twice (seen_texts).
ASSUME ConverterAssumption ==
  \A n \in 1..MaxLen : \A s \in [1..n -> Letters] :
    /\ FirstClause(s) \in 1..n
    /\ Lengths(s) \in Seq(1..n) /\ Lengths(s) # <<>>
    /\ \A i, j \in 2..Len(Lengths(s)) : i # j => Lengths(s)[i] # Lengths(s)[j]

VARIABLES client,     \* the Composition: state, clause, snaps, futures
          server,     \* the conversion server: input, cursor, stack
          pc,         \* "idle", or "last" inside the loop of MoveToLast
          ghost       \* what the user did: kana typed, kana committed, and flags

vars == <<client, server, pc, ghost, Keys>>

NoComposition == [state |-> "none", clause |-> Blank, snaps |-> <<>>, futures |-> <<>>]
Cleared       == [input |-> <<>>, cursor |-> 0, stack |-> <<>>]

\* Nothing is committed, and the user did nothing that a flag tells.
Fresh(typed) ==
  [typed |-> typed, committed |-> <<>>, inner |-> FALSE, recut |-> FALSE, refused |-> FALSE,
   fellback |-> FALSE, removed |-> FALSE]

Init ==
  /\ Keys \in KeySizes
  /\ client = NoComposition
  /\ server = Cleared
  /\ pc = "idle"
  /\ ghost = Fresh(<<>>)

-----------------------------------------------------------------------------
(* A bundle is what a handler works on: the clause, both stacks, the server,  *)
(* and the ClauseActionEffect.                                             *)

Bundle == [clause |-> client.clause, snaps |-> client.snaps, futures |-> client.futures,
           server |-> server, effect |-> "skipped"]

Skipped(n) == [n EXCEPT !.effect = "skipped"]
Applied(n) == [n EXCEPT !.effect = "applied"]

\* is_clause_navigation_state_active
Active(n) ==
  n.snaps # <<>> \/ n.futures # <<>> \/ n.clause.derived \/ n.clause.group # 0

\* MoveClauseProgressMarker: candidates and the server are no part of it.
Marker(n) ==
  <<[n.clause EXCEPT !.view = NoView], Len(n.snaps), Len(n.futures)>>

\* candidate_splits_raw_input
Splits(item, raw) == item.count > 0 /\ item.count < Len(raw) /\ item.rest # <<>>

\* display_suffix_after_selected_clause
SuffixAfter(c, item) ==
  IF IsPrefix(item.text, ClausePreview(c)) THEN AfterPrefix(item.text, ClausePreview(c))
  ELSE IF IsPrefix(item.text, c.suffix) THEN AfterPrefix(item.text, c.suffix)
  ELSE item.rest

\* A group id that nothing carries: next_split_group_id, as ids are only compared.
UnusedGroup(n) ==
  LET used == {n.clause.group} \union {n.snaps[i].group : i \in DOMAIN n.snaps}
              \union {n.futures[i].group : i \in DOMAIN n.futures}
  IN Min(1..(Cardinality(used) + 1) \ used)

\* sync_backend_current_clause_to_target: move the server's cursor left until its
\* first clause is the target, or shorter.
IsTarget(view, reading, rest, count) ==
  LET first == view.items[1]
  IN \/ first.count < count
     \/ /\ first.count = count
        /\ \/ first.rest = rest
           \/ view.reading = reading
           \/ RawSuffix(view.reading, first.count) = RawSuffix(reading, count)

\* The answer after a move to the left, kept in `acc`.
Stepped(acc, moved, view) ==
  LET mark == <<view.reading, view.items[1].count, view.items[1].rest>>
  IN IF view.items = <<>> THEN [acc EXCEPT !.done = TRUE, !.server = MoveCursor(1, moved)]
     ELSE [server |-> moved, view |-> view, done |-> mark = acc.mark, mark |-> mark]

SyncTo(from, shown, reading, rest, count) ==
  LET Step(acc) ==
        LET moved == MoveCursor(-1, acc.server)
        IN IF acc.done \/ (acc.view.items # <<>> /\ IsTarget(acc.view, reading, rest, count))
             THEN [acc EXCEPT !.done = TRUE]
           ELSE Stepped(acc, moved, View0(moved))
  IN Iterated(Step, IF shown.reading = <<>> THEN 1 ELSE Len(shown.reading),
              [server |-> from, view |-> shown, done |-> FALSE, mark |-> <<>>])

-----------------------------------------------------------------------------
(* MoveRight and MoveLeft.                                                 *)

\* The clause ahead is remembered: bring it back.
MoveToFuture(n) ==
  LET f       == Last(n.futures)
      futures == Front(n.futures)
  IN Applied([n EXCEPT
       !.clause  = ShowAhead(RestoreAhead(f, n.clause), futures),
       !.futures = futures,
       !.server  = SyncTo(n.server, n.clause.view, f.reading, f.rest, f.count).server])

\* The current clause as the candidate `i` of a view says.
Reread(c, view, i) ==
  [Unflagged(c) EXCEPT !.view    = view,
                       !.sel     = i,
                       !.count   = view.items[i].count,
                       !.preview = c.fixed \o view.items[i].text,
                       !.suffix  = SuffixAfter(c, view.items[i]),
                       !.reading = view.reading]

\* It is not: ask for it, and take the answer if it tells more.
TellsMore(nav, c) ==
  /\ nav.items # <<>>
  /\ \/ Splits(nav.items[Clamp(c.sel, nav)], c.raw)
     \/ Len(nav.items) > Len(c.view.items) /\ IsSuffix(nav.reading, c.view.reading)

Entered(n, view) ==
  IF view.items = <<>>
    THEN Applied([clause |-> Last(n.snaps), snaps |-> Front(n.snaps), futures |-> <<>>,
                  server |-> PopPlace(n.server), effect |-> "applied"])
  ELSE Applied([n EXCEPT !.futures = <<>>,
                         !.clause  = Reread(@, view, Clamp(@.sel, view))])

MoveToUnknown(n, nav) ==
  Entered(n, IF TellsMore(nav, n.clause) THEN nav ELSE n.clause.view)

Arrived(n) ==
  IF n.clause.view = NoView THEN [n EXCEPT !.effect = "reset"]
  ELSE IF Matches(n.futures, n.clause.view) THEN MoveToFuture(n)
  ELSE MoveToUnknown(n, View0(n.server))

MoveRight(n) ==
  LET c     == n.clause
      after == Shrink(c.count, PushPlace(n.server))
  IN IF c.suffix = <<>> THEN Skipped(n)
     ELSE Arrived([n EXCEPT !.snaps  = Append(@, c),
                            !.server = after,
                            !.clause = [c EXCEPT !.view  = FullView(after.input),
                                                 !.sel   = 1,
                                                 !.raw   = Drop(c.count, @),
                                                 !.fixed = @ \o ClausePreview(c)]])

\* Variant: the clause that is left is not remembered.
MoveLeftForgetsAhead(n) ==
  IF n.snaps = <<>> THEN Skipped(n)
  ELSE [n EXCEPT !.clause = Last(n.snaps), !.snaps = Front(n.snaps),
                 !.server = PopPlace(n.server), !.effect = "applied"]

MoveLeft(n) ==
  IF n.snaps = <<>> THEN Skipped(n)
  ELSE [clause |-> Last(n.snaps), snaps |-> Front(n.snaps),
        futures |-> Append(n.futures, Future(n.clause)),
        server |-> PopPlace(n.server), effect |-> "applied"]

-----------------------------------------------------------------------------
(* EnsureClauseNavigationReady.                                            *)

\* rebuild_future_clause_snapshots_from_backend: walk over the clauses ahead on
\* copies, remember each, and walk back.
Remembered(found, c, group) ==
  Append(found, IF found # <<>> THEN Future(c)
                ELSE Future([c EXCEPT !.derived = TRUE, !.remainder = TRUE,
                                      !.neighbor = TRUE, !.group = group]))

Walked(acc, next, group) ==
  IF next.effect # "applied" \/ Marker(next) = Marker(acc.walk)
    THEN [acc EXCEPT !.walk = next, !.done = TRUE]
  ELSE [walk |-> next, found |-> Remembered(acc.found, next.clause, group),
        done |-> next.clause.suffix = <<>>]

WalkedBack(n, end) ==
  [n EXCEPT !.futures = Reverse(end.found),
            !.server  = Iterated(PopPlace, Len(end.walk.snaps), end.walk.server)]

Rebuilt(n) ==
  LET Step(acc) == IF acc.done THEN acc
                   ELSE Walked(acc, MoveRight(acc.walk), n.clause.group)
      start == [walk |-> [n EXCEPT !.snaps = <<>>, !.futures = <<>>], found |-> <<>>,
                done |-> FALSE]
  IN IF n.clause.suffix = <<>> THEN [n EXCEPT !.futures = <<>>]
     ELSE WalkedBack(n, Iterated(Step, Len(n.server.input), start))

\* select_navigation_candidate_for_current_preview
NavigationItem(c, view) ==
  LET target == ClausePreview(c)
      exact  == {i \in DOMAIN view.items : target = view.items[i].text \o view.items[i].rest}
      starts == {i \in DOMAIN view.items : view.items[i].text # <<>>
                                           /\ IsPrefix(view.items[i].text, target)}
      widest == {i \in starts : \A j \in starts : view.items[i].count >= view.items[j].count}
  IN IF exact # {} THEN Min(exact) ELSE IF widest # {} THEN Max(widest) ELSE Clamp(c.sel, view)

\* The clause of the candidate, which now has a clause to its right.
Parted(c, view, i) ==
  LET part == Reread(c, view, i)
  IN [part EXCEPT !.view.items[i].rest = part.suffix, !.derived = TRUE]

Joined(n) == Applied([n EXCEPT !.clause = ShowAhead(@, n.futures)])

EnsureFrom(n, view) ==
  LET i == NavigationItem(n.clause, view)
  IN IF view = NoView THEN [n EXCEPT !.effect = "reset"]
     ELSE IF view.items = <<>> \/ ~Splits(view.items[i], n.clause.raw) THEN Skipped(n)
     ELSE Joined(Rebuilt([n EXCEPT !.clause = Parted(@, view, i)]))

Ensure(n) ==
  IF \/ Active(n) \/ n.clause.view.items = <<>>
     \/ n.clause.reading = <<>> \/ n.clause.suffix # <<>>
    THEN Skipped(n)
  ELSE EnsureFrom(n, View0(n.server))

-----------------------------------------------------------------------------
(* AdjustBoundary and SetSelection.                                        *)

\* apply_boundary_candidate_selection
BoundaryGroup(n) ==
  IF n.clause.group # 0 THEN n.clause.group
  ELSE IF n.futures # <<>> /\ (Last(n.futures).conservative \/ Last(n.futures).neighbor)
          /\ Last(n.futures).group # 0
    THEN Last(n.futures).group
  ELSE UnusedGroup(n)

Chosen(c, i, futures, group) ==
  LET item    == c.view.items[i]
      derived == c.neighbor \/ \E k \in DOMAIN futures : futures[k].group = group
  IN ShowAhead([c EXCEPT !.sel       = i,
                         !.count     = item.count,
                         !.preview   = c.fixed \o item.text,
                         !.reading   = c.view.reading,
                         !.derived   = derived,
                         !.remainder = FALSE,
                         !.group     = IF derived THEN group ELSE 0], futures)

Redrawn(n, c, futures) ==
  Applied([n EXCEPT !.clause  = c,
                    !.futures = futures,
                    !.snaps   = ShowBehind(@, c.preview \o c.suffix)])

ChooseIn(n, i, group) ==
  LET item      == n.clause.view.items[i]
      reading   == n.clause.view.reading
      bootstrap == n.futures = <<>> /\ n.snaps # <<>> /\ RawSuffix(reading, item.count) = <<>>
      futures   == Split(n.futures, n.clause.raw, reading, item.count, item.rest, bootstrap, group)
  IN Redrawn(n, Chosen(n.clause, i, futures, group), futures)

ChooseBoundary(n, i) == ChooseIn(n, i, BoundaryGroup(n))

\* select_split_left: the next shorter candidate
ShorterItems(c) ==
  LET shorter == {i \in DOMAIN c.view.items : c.view.items[i].count < c.count}
  IN {i \in shorter : \A j \in shorter : c.view.items[i].count >= c.view.items[j].count}

\* The answer `view` after the cursor was moved by d; `before` is the answer of the search.
AdjustTo(n, d, moved, view, before) ==
  LET back == IF d < 0 THEN MoveCursor(1, moved) ELSE moved
  IN IF view.items # <<>>
       THEN ChooseBoundary([n EXCEPT !.server = moved, !.clause.view = view], 1)
     ELSE IF d < 0 /\ ShorterItems(n.clause) # {}
       THEN ChooseBoundary([n EXCEPT !.server = back], Max(ShorterItems(n.clause)))
     ELSE Skipped([n EXCEPT !.server = back, !.clause.view = before])

\* The server, and its answer, at the clause.
Synced(n) ==
  LET c == n.clause
  IN IF c.suffix # <<>> \/ n.futures # <<>>
       THEN SyncTo(n.server, c.view, c.reading, c.suffix, c.count)
     ELSE [server |-> n.server, view |-> c.view]

Turned(n, d) == MoveCursor(d, Synced(n).server)

Adjust(n, d) == AdjustTo(n, d, Turned(n, d), View0(Turned(n, d)), Synced(n).view)

\* Variant: only the suffix is shown to the clauses behind.
SetSelectionShowsSuffix(n, i) ==
  LET c    == n.clause
      sel  == Clamp(i, c.view)
      item == c.view.items[sel]
      next == ShowAhead([c EXCEPT !.sel = sel, !.count = item.count,
                                  !.preview = c.fixed \o item.text,
                                  !.reading = c.view.reading], n.futures)
  IN IF c.view.items = <<>> THEN Skipped(n)
     ELSE Applied([n EXCEPT !.clause = next, !.snaps = ShowBehind(@, next.suffix)])

\* Variant: the count is that of the candidate chosen before.
SetSelectionKeepsCount(n, i) ==
  LET c    == n.clause
      sel  == Clamp(i, c.view)
      item == c.view.items[sel]
      next == ShowAhead([c EXCEPT !.sel = sel, !.preview = c.fixed \o item.text,
                                  !.reading = c.view.reading], n.futures)
  IN IF c.view.items = <<>> THEN Skipped(n)
     ELSE Applied([n EXCEPT !.clause = next,
                            !.snaps  = ShowBehind(@, next.preview \o next.suffix)])

SetSelection(n, i) ==
  LET c    == n.clause
      sel  == Clamp(i, c.view)
      item == c.view.items[sel]
      next == ShowAhead([c EXCEPT !.sel = sel, !.count = item.count,
                                  !.preview = c.fixed \o item.text,
                                  !.reading = c.view.reading], n.futures)
  IN IF c.view.items = <<>> THEN Skipped(n)
     ELSE Applied([n EXCEPT !.clause = next,
                            !.snaps  = ShowBehind(@, next.preview \o next.suffix)])

-----------------------------------------------------------------------------
(* Editing and committing.                                                 *)

\* Variant: the server is never told to drop its stack.
ForgetClientOnly(n) ==
  [n EXCEPT !.clause = Unflagged(@), !.snaps = <<>>, !.futures = <<>>]

\* clear_clause_caches: the server's stack is only cleared if the client has one.
Forget(n) ==
  [n EXCEPT !.clause  = Unflagged(@), !.snaps = <<>>, !.futures = <<>>,
            !.server.stack = IF n.snaps = <<>> THEN @ ELSE <<>>]

\* Take over what the server made of the whole composition.
Answered(n) ==
  LET c    == n.clause
      view == FullView(n.server.input)
      sel  == Clamp(c.sel, view)
  IN [n EXCEPT !.clause = [c EXCEPT !.view    = view,
                                    !.sel     = sel,
                                    !.count   = view.items[sel].count,
                                    !.preview = c.fixed \o view.items[sel].text,
                                    !.suffix  = view.items[sel].rest,
                                    !.reading = view.reading]]

AppendText(n, kana) ==
  LET m == Forget(n)
  IN Answered([m EXCEPT !.clause.raw = @ \o KeysOf(<<kana>>), !.server = Insert(kana, @)])

\* Variant: the raw input keeps its last key.
RemoveTextKeepsRaw(n) ==
  LET m == Forget(n)
  IN [m EXCEPT !.server = DeleteBackward(@)]

\* One key is taken off the raw input, one kana off the server's composition.
RemoveText(n) ==
  LET m == Forget(n)
  IN [m EXCEPT !.clause.raw = IF @ = <<>> THEN @ ELSE Front(@), !.server = DeleteBackward(@)]

\* Variant: the fixed prefix stays although it is committed.
ShrinkTextKeepsFixed(n) ==
  LET m == Forget(n)
  IN [m EXCEPT !.clause = [m.clause EXCEPT !.sel = 1, !.raw = Drop(n.clause.count, @)],
               !.server = Shrink(n.clause.count, @)]

ShrinkText(n) ==
  LET m == Forget(n)
  IN [m EXCEPT !.clause = [m.clause EXCEPT !.fixed = <<>>, !.sel = 1,
                                          !.raw = Drop(n.clause.count, @)],
               !.server = Shrink(n.clause.count, @)]

Shown(n) == Kana(n.clause.preview \o n.clause.suffix)

-----------------------------------------------------------------------------
(* Outcomes of a key.                                                      *)

\* EndComposition: what is shown stays in the document.
End(text) ==
  /\ client' = NoComposition
  /\ server' = Cleared
  /\ ghost'  = [ghost EXCEPT !.committed = @ \o text]

\* reset_after_empty_server_composition: what is shown is discarded.
Reset ==
  /\ client' = NoComposition
  /\ server' = Cleared

Store(n, state) ==
  IF n.effect = "reset" THEN Reset
  ELSE /\ client' = [state |-> state, clause |-> n.clause, snaps |-> n.snaps,
                     futures |-> n.futures]
       /\ server' = n.server

Commit(n) ==
  LET m == ShrinkText(n)
  IN IF n.clause.suffix = <<>> THEN End(Shown(n))
     ELSE IF m.server.input = <<>> THEN Reset /\ UNCHANGED ghost
     ELSE /\ Store(Answered(m), "composing")
          /\ ghost' = [ghost EXCEPT !.committed = @ \o Kana(n.clause.preview)]

-----------------------------------------------------------------------------
(* Keys: plan_actions_for_user_action_with_lookup.                          *)

Inside == server.cursor < Len(server.input)

Ready == pc = "idle" /\ client.state # "none"

\* The first kana of a composition, or one that ends a preview and begins anew.
Begin(kana) ==
  /\ pc = "idle" /\ client.state # "composing"
  /\ Store(AppendText([clause |-> Blank, snaps |-> <<>>, futures |-> <<>>,
                       server |-> Cleared, effect |-> "skipped"], kana), "composing")
  /\ ghost' = Fresh(<<kana>>)
  /\ UNCHANGED <<pc, Keys>>

Type(kana) ==
  /\ Ready /\ client.state = "composing"
  /\ Len(ghost.typed) < MaxLen /\ Len(client.clause.raw) + Keys <= Keys * MaxLen
  /\ Store(AppendText(Bundle, kana), "composing")
  /\ ghost' = [ghost EXCEPT !.typed = Append(@, kana), !.inner = @ \/ Inside]
  /\ UNCHANGED <<pc, Keys>>

Backspace ==
  /\ Ready
  /\ LET n    == RemoveText(Bundle)
         m    == Answered(n)
         text == IF n.server.input = <<>> THEN Kana(n.clause.fixed) ELSE Shown(m)
         last == n.server.input = <<>> \/ Len(client.clause.raw) <= 1
     IN /\ IF last THEN client' = NoComposition /\ server' = Cleared ELSE Store(m, "composing")
        /\ ghost' = [ghost EXCEPT !.typed     = Front(@),
                                  !.committed = IF last THEN @ \o text ELSE @,
                                  !.inner     = @ \/ Inside,
                                  !.removed   = Keys > 1]
  /\ UNCHANGED <<pc, Keys>>

Enter ==
  /\ Ready
  /\ IF Active(Bundle) THEN End(Shown(Bundle)) ELSE Commit(Bundle)
  /\ UNCHANGED <<pc, Keys>>

CommitAndNextClause ==
  /\ Ready
  /\ Commit(Bundle)
  /\ UNCHANGED <<pc, Keys>>

\* Variant: the key does not go back to the first clause.
CommitFirstClauseHere ==
  /\ Ready
  /\ LET suffix == Head(Append(client.snaps, client.clause)).suffix
     IN IF suffix = <<>> THEN End(Shown(Bundle)) ELSE Commit(Bundle)
  /\ UNCHANGED <<pc, Keys>>

CommitFirstClause ==
  /\ Ready
  /\ LET first  == Iterated(MoveLeft, Len(client.snaps), Bundle)
         suffix == Head(Append(client.snaps, client.clause)).suffix
     IN IF suffix = <<>> THEN End(Shown(first)) ELSE Commit(first)
  /\ UNCHANGED <<pc, Keys>>

Right ==
  /\ Ready
  /\ LET n == IF Active(Bundle) \/ client.clause.suffix # <<>> THEN MoveRight(Bundle)
              ELSE Ensure(Bundle)
     IN Store(n, "composing")
  /\ UNCHANGED <<pc, ghost, Keys>>

Left ==
  /\ Ready
  /\ IF Active(Bundle) \/ client.clause.suffix # <<>>
       THEN Store(MoveLeft(Bundle), "composing") /\ UNCHANGED pc
     ELSE Store(Ensure(Bundle), "composing") /\ pc' = "last"
  /\ UNCHANGED <<ghost, Keys>>

\* Variant: the loop is a single step.
MoveToLastOnce ==
  /\ pc = "last"
  /\ Store(MoveRight(Bundle), client.state)
  /\ pc' = "idle"
  /\ UNCHANGED <<ghost, Keys>>

\* Variant: the clause that a turn leaves is not remembered.
MoveToLastForgets ==
  /\ pc = "last"
  /\ LET n == MoveRight(Bundle)
     IN /\ Store([n EXCEPT !.snaps = client.snaps], client.state)
        /\ pc' = IF n.effect # "applied" \/ n.clause.suffix = <<>> THEN "idle" ELSE "last"
  /\ UNCHANGED <<ghost, Keys>>

\* One turn of the loop of MoveToLast.
MoveToLast ==
  /\ pc = "last"
  /\ LET n == MoveRight(Bundle)
     IN /\ Store(n, client.state)
        /\ pc' = IF \/ n.effect # "applied"
                    \/ Marker(n) = Marker(Bundle)
                    \/ n.clause.suffix = <<>>
                   THEN "idle" ELSE "last"
  /\ UNCHANGED <<ghost, Keys>>

AdjustBoundary(d) ==
  /\ Ready
  /\ LET n == Adjust(Bundle, d)
     IN /\ Store(n, client.state)
        /\ ghost' = [ghost EXCEPT
             !.refused  = @ \/ (n.effect = "skipped" /\ n.clause.view # client.clause.view),
             !.fellback = \/ @
                          \/ /\ Keys > 1 /\ client.futures # <<>> /\ n.effect = "applied"
                             /\ View0(Turned(Bundle, d)).items = <<>>]
  /\ UNCHANGED <<pc, Keys>>

Select(d) ==
  /\ Ready
  /\ LET n == SetSelection(Bundle, client.clause.sel + d)
     IN /\ Store(n, "previewing")
        /\ ghost' = [ghost EXCEPT !.recut = \/ @
                                            \/ /\ client.futures # <<>>
                                               /\ n.clause.count # client.clause.count]
  /\ UNCHANGED <<pc, Keys>>

Next ==
  \/ \E kana \in Letters : Begin(kana) \/ Type(kana)
  \/ Backspace \/ CommitFirstClause \/ Enter \/ CommitAndNextClause
  \/ Right \/ Left \/ MoveToLast
  \/ \E d \in {-1, 1} : AdjustBoundary(d) \/ Select(d)

Spec == Init /\ [][Next]_vars

-----------------------------------------------------------------------------
(* Properties.  They are judged until one of these, each by a flag of its own: *)
(*   inner     the user edits where the server's cursor is not at the end (the *)
(*             server edits inside its composition, the client at the end of   *)
(*             its raw input)                                                 *)
(*   recut     the user chooses a candidate of another length before           *)
(*             remembered clauses (RecutKeepsText)                            *)
(*   refused   a boundary does not move, and the clause is left with the       *)
(*             candidates of the search (RefusalKeepsText)                    *)
(*   fellback  a shorter candidate is taken for a boundary that the server     *)
(*             cannot move, before remembered clauses, where a kana takes       *)
(*             several keys (FallbackKeepsText)                               *)

Judged == ~ghost.inner /\ ~ghost.recut /\ ~ghost.refused /\ ~ghost.fellback

\* Cursors, selections and counts stay within what they index, and the selected
\* candidate is the clause that is shown (select_candidate, merge_preview_with_prefix).
TypeOK ==
  /\ client.state \in {"none", "composing", "previewing"}
  /\ pc \in {"idle", "last"}
  /\ server.cursor \in 0..Len(server.input)
  /\ Judged /\ client.state # "none" =>
       LET c == client.clause
       IN /\ c.sel \in DOMAIN c.view.items
          /\ c.count \in 1..Len(c.raw)
          /\ ClausePreview(c) = c.view.items[c.sel].text
          /\ c.count = c.view.items[c.sel].count

TypedIsShown == ghost.committed \o Shown(Bundle) = ghost.typed

\* No move, split, choice or commit loses or repeats a kana: what was committed and
\* what is shown are together what was typed.
WholeText == Judged => TypedIsShown

\* A clause left behind would show the same kana as the current one if the user
\* went back to it (sync_clause_snapshot_suffixes).
BehindIsShown ==
  Judged => \A i \in DOMAIN client.snaps :
              Kana(client.snaps[i].preview \o client.snaps[i].suffix) = Shown(Bundle)

\* The remembered clauses ahead follow each other: each one shows the kana it
\* reads, a suffix of what the one before it reads.  A clause that leaves something
\* shows it as its suffix, and the clause ahead takes its keys where those of that
\* one end (maybe_push_split_future_clause_snapshot).
AheadIsShown ==
  Judged => \A i \in DOMAIN client.futures :
    LET c == IF i = Len(client.futures) THEN client.clause ELSE client.futures[i + 1]
        f == client.futures[i]
    IN /\ IsSuffix(f.reading, c.reading)
       /\ Kana(Display(f)) = Kana(f.reading)
       /\ c.suffix # <<>> => /\ Kana(c.suffix) = Kana(Display(f))
                             /\ f.raw = Drop(c.count, c.raw)

\* The client's stack of clauses and the server's stack of compositions are two
\* stacks that no message compares: they have the same depth and the same readings.
StacksAgree ==
  Judged =>
    /\ Len(client.snaps) = Len(server.stack)
    /\ \A i \in DOMAIN client.snaps :
         client.snaps[i].reading = Spelled(0, server.stack[i].input)

\* The current clause reads what the server has after its pops and shrinks, however
\* the clause was reached.
CurrentAgrees == Judged => client.clause.reading = Spelled(0, server.input)

\* The keys the client would send again are those of the server's composition; where
\* a kana takes several keys, until one is removed: the client then drops one key.
RawAgrees == Judged /\ (Keys = 1 \/ ~ghost.removed) => client.clause.raw = KeysOf(server.input)

\* But for the spelling of the clauses ahead and the list of candidates.
Same(a, b) ==
  [a EXCEPT !.suffix = Kana(@), !.view = NoView] = [b EXCEPT !.suffix = Kana(@), !.view = NoView]

\* Left and then Right come back to the same clause, with its selection and its
\* flags, the same clauses around it and the same composition on the server.
RoundTrip ==
  Judged /\ client.snaps # <<>> =>
    LET back == MoveRight(MoveLeft(Bundle))
    IN /\ Same(back.clause, client.clause)
       /\ back.snaps = client.snaps
       /\ back.futures = client.futures
       /\ back.server.input = server.input
       /\ back.server.stack = server.stack

\* The loop of MoveToLast stops at the last clause, not before it.
LastIsLast == [][Judged /\ pc = "last" /\ pc' = "idle" => client'.clause.suffix = <<>>]_vars

\* Ctrl+Enter commits the first clause from whichever clause it is pressed at, with
\* the prefix that is shown before it.
CommitsFirst ==
  [][LET first == Head(Append(client.snaps, client.clause))
     IN Judged /\ CommitFirstClause =>
          ghost'.committed = ghost.committed \o Kana(first.preview)]_vars

\* The loop of MoveToLast comes to an end: a turn that is not the last leaves one
\* more clause behind and fewer kana ahead.
LoopAdvances ==
  [][Judged /\ pc = "last" /\ pc' = "last" =>
       /\ Len(client'.snaps) > Len(client.snaps)
       /\ Len(client'.clause.reading) < Len(client.clause.reading)]_vars

-----------------------------------------------------------------------------
(* What the tests say, and the code does not keep.                          *)

\* Choosing a candidate never changes which kana are in the composition.
RecutKeepsText == ~ghost.inner /\ ~ghost.refused /\ ~ghost.fellback => TypedIsShown

\* Nor does a boundary that does not move.
RefusalKeepsText == ~ghost.inner /\ ~ghost.recut /\ ~ghost.fellback => TypedIsShown

\* Nor does a shorter candidate that stands for a moved boundary.
FallbackKeepsText == ~ghost.inner /\ ~ghost.recut /\ ~ghost.refused => TypedIsShown
=============================================================================
