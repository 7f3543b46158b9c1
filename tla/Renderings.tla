----------------------------- MODULE Renderings -----------------------------
(***************************************************************************)
(* What the conversion server answers to the client, as far as the client  *)
(* can tell answers apart, and the decisions the client takes by comparing  *)
(* two answers (crates/client/src/engine/ipc_service.rs).                   *)
(*                                                                         *)
(* A composition is the sequence of key tokens the server holds.  An answer *)
(* is abstracted to the composition it renders and the corresponding counts *)
(* of its candidates: `texts`, `sub_texts` and `hiragana` are functions of  *)
(* those.  How many tokens the first clause of a composition spans is the   *)
(* converter's choice (the AzooKeyKanaKanjiConverter package): FirstClause. *)
(***************************************************************************)
EXTENDS Naturals, Sequences

CONSTANTS Tokens,           \* what one key press appends
          MaxLen,           \* bound on the length of a composition
          FirstClause(_)    \* tokens of the first clause of a composition

Compositions == UNION {[1..n -> Tokens] : n \in 0..MaxLen}

ASSUME MaxLenAssumption == MaxLen \in Nat
ASSUME FirstClauseAssumption ==
  \A s \in Compositions : s # <<>> => FirstClause(s) \in 1..Len(s)

-----------------------------------------------------------------------------
(* Answers.                                                                *)

NoView == [text |-> <<>>, counts |-> {}]

IsEmptyComposition(view) == view = NoView

\* GetComposedText: the conversions of the whole composition, and those of its first clause.
FullView(s) ==
  IF s = <<>> THEN NoView ELSE [text |-> s, counts |-> {FirstClause(s), Len(s)}]

\* GetComposedTextForCursorPrefix with the cursor at the end: only the
\* candidates that end where the first clause ends.
PrefixView(s) ==
  IF s = <<>> THEN NoView ELSE [text |-> s, counts |-> {FirstClause(s)}]

-----------------------------------------------------------------------------
(* What the three non-idempotent requests do to the composition.  An edit  *)
(* is any record with a kind, the text it appends and the count it drops.  *)

DropFirst(n, s) == SubSeq(s, n + 1, Len(s))
DropLast(s)     == IF s = <<>> THEN <<>> ELSE SubSeq(s, 1, Len(s) - 1)

Apply(edit, s) ==
  CASE edit.kind = "append" -> s \o edit.text
    [] edit.kind = "remove" -> DropLast(s)
    [] edit.kind = "shrink" -> DropFirst(edit.n, s)

-----------------------------------------------------------------------------
(* The client's decisions.                                                 *)

\* should_retry_append_after_refresh
ShouldRetryAppend(previous, refreshed) ==
  previous = refreshed \/ IsEmptyComposition(refreshed)

\* should_retry_non_idempotent_edit_after_refresh
ShouldRetryEdit(previous, refreshed) ==
  previous = refreshed /\ ~IsEmptyComposition(refreshed)

\* A variant that replays whatever the refresh answered.
RetryAlways(kind, previous, refreshed) == TRUE

ShouldRetry(kind, previous, refreshed) ==
  IF kind = "append"
    THEN ShouldRetryAppend(previous, refreshed)
    ELSE ShouldRetryEdit(previous, refreshed)

\* append_result_indicates_server_reset
LooksReset(raw, previous, appended, view) ==
  /\ raw # <<>>
  /\ ~IsEmptyComposition(previous)
  /\ ~IsEmptyComposition(view)
  /\ Len(appended) > 0
  /\ view.counts # {}
  /\ \A c \in view.counts : c <= Len(appended)

\* A variant that records a new session without noticing that it changed.
ObserveQuietly(svc, session) == [svc EXCEPT !.session = session]

\* observe_server_session; session 0 stands for None
Observe(svc, session) ==
  [session |-> session,
   reset   |-> svc.reset \/ (svc.session # 0 /\ svc.session # session)]
=============================================================================
