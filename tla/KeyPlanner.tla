----------------------------- MODULE KeyPlanner -----------------------------
(***************************************************************************)
(* What a key press makes the text service do: the new state of the          *)
(* composition and the ClientActions that lead to it (process_key and         *)
(* plan_actions_for_user_action of composition.rs).                         *)
(*                                                                         *)
(* Keys are abstracted to what the plans tell apart: "kana" is any character *)
(* or digit, "latin" is Shift with a letter, "punctuation" a mark that the    *)
(* settings let commit.  The three append actions are one, "append".  The    *)
(* keys that move between clauses are those of ClauseNavigation.            *)
(***************************************************************************)
EXTENDS Integers, Sequences

CONSTANT AfterSpace   \* general.show_candidate_window_after_space
ASSUME AfterSpaceAssumption == AfterSpace \in BOOLEAN

TextKeys  == {"kana", "latin", "punctuation", "space"}
ModeKeys  == {"toggle", "on", "off"}
Keys      == TextKeys \union ModeKeys \union
             {"backspace", "enter", "escape", "up", "down", "function", "shift", "other"}
States    == {"none", "composing", "previewing"}
Modes     == {"kana", "latin"}

\* The plan of a key that is left to the application.
Unhandled == [to |-> "unhandled", acts |-> <<>>]

Plan(to, acts) == [to |-> to, acts |-> acts]

\* The text shown behind the selected candidate.
Suffix(c) == SubSeq(c.text, c.n + 1, Len(c.text))

-----------------------------------------------------------------------------
\* The mode a mode key asks for.
ModeAction(key, mode) ==
  IF key = "on" \/ (key = "toggle" /\ mode = "latin") THEN "toKana" ELSE "toLatin"

\* While something is composed ToggleInputMode always means Latin.
ModeActionComposing(key) == IF key = "on" THEN "toKana" ELSE "toLatin"

LatinOn(starts) == IF starts THEN <<"latinOn">> ELSE <<>>

\* should_shrink_before_direct_append: Latin begins behind an n that is shown as a kana.
ShrinksFirst(c, starts, afterN) == starts /\ afterN /\ c.raw # <<>> /\ Len(c.raw) <= c.n

\* candidate_preview_actions
Preview == (IF AfterSpace THEN <<"show">> ELSE <<>>) \o <<"down">>

\* commit_current_clause_actions; Enter and the two keys that commit a clause
\* agree as long as no clause was moved.
CommitClause(c) ==
  IF Suffix(c) = <<>> THEN Plan("none", <<"end">>) ELSE Plan("composing", <<"shrink">>)

RemoveLast(c) ==
  IF Len(c.raw) <= 1 THEN Plan("none", <<"remove", "end">>) ELSE Plan("composing", <<"remove">>)

\* Nothing is composed.
PlanNone(c, key, mode, starts) ==
  IF (c.tl \/ starts) /\ key \in TextKeys
    THEN Plan("composing", <<"start">> \o LatinOn(starts) \o <<"append">>)
  ELSE IF mode = "kana" /\ key = "space"
    THEN Plan("none", <<"start", "append", "end">>)
  ELSE IF mode = "kana" /\ key \in TextKeys
    THEN Plan("composing", <<"start", "append">>)
  ELSE IF key \in ModeKeys THEN Plan("none", <<ModeAction(key, mode)>>)
  ELSE Unhandled

\* Keys that mean the same while composing and while a candidate is previewed.
PlanOpen(c, key) ==
  IF key = "backspace" THEN RemoveLast(c)
  ELSE IF key = "enter" THEN CommitClause(c)
  ELSE IF key = "escape" THEN Plan("none", <<"remove", "end">>)
  ELSE IF key \in {"up", "down"} THEN Plan("previewing", <<key>>)
  ELSE IF key = "space" THEN Plan("previewing", Preview)
  ELSE IF key = "function" THEN Plan("previewing", <<"convert">>)
  ELSE IF key \in ModeKeys THEN Plan("none", <<"end", ModeActionComposing(key)>>)
  ELSE Unhandled

\* punctuation_commit_actions: not while Latin letters are typed.
CommitsMark(c, key, mode, starts) ==
  key = "punctuation" /\ mode = "kana" /\ ~c.tl /\ ~starts

PlanComposing(c, key, mode, starts, afterN) ==
  IF CommitsMark(c, key, mode, starts) THEN Plan("none", <<"end", "commit">>)
  ELSE IF (c.tl \/ starts) /\ key \in TextKeys
    THEN Plan("composing", LatinOn(starts) \o
              <<IF ShrinksFirst(c, starts, afterN) THEN "shrinkAppend" ELSE "append">>)
  ELSE IF key \in TextKeys \ {"space"} THEN Plan("composing", <<"append">>)
  ELSE PlanOpen(c, key)

\* A variant that appends to the previewed composition instead of committing it.
PlanPreviewingAppends(c, key, mode, starts) ==
  IF key \in TextKeys \ {"space"} /\ ~CommitsMark(c, key, mode, starts)
    THEN Plan("composing", <<"start", "append">>)
    ELSE PlanOpen(c, key)

\* commit_preview_then_append_actions: text commits what is previewed.
PlanPreviewing(c, key, mode, starts) ==
  IF CommitsMark(c, key, mode, starts) THEN Plan("none", <<"end", "commit">>)
  ELSE IF (c.tl \/ starts) /\ key \in TextKeys
    THEN Plan("composing", <<"end", "start", "latinOn", "append">>)
  ELSE IF key \in TextKeys \ {"space"} THEN Plan("composing", <<"end", "start", "append">>)
  ELSE PlanOpen(c, key)

\* plan_actions_for_user_action_with_lookup
PlanFor(c, key, mode, starts, afterN) ==
  IF c.state = "none" THEN PlanNone(c, key, mode, starts)
  ELSE IF c.state = "composing" THEN PlanComposing(c, key, mode, starts, afterN)
  ELSE PlanPreviewing(c, key, mode, starts)

-----------------------------------------------------------------------------
(* process_key: what is put before the plan.                                *)

Does(plan, acts) == \E i \in 1..Len(plan.acts) : plan.acts[i] \in acts

\* Confirming or ending a composition ends the temporary Latin input.
EndsLatin(c, key, plan) ==
  /\ c.tl
  /\ key = "enter" \/ plan.to = "none" \/ Does(plan, {"end", "toKana", "toLatin"})

Before(plan, condition, act) ==
  IF condition THEN Plan(plan.to, <<act>> \o plan.acts) ELSE plan

\* A variant that leaves a pending release of Shift pending.
KeyPlanKeepsPending(c, key, mode, afterN) ==
  LET starts == key = "latin" /\ mode = "kana" /\ ~c.tl
      plan   == PlanFor(c, key, mode, starts, afterN)
  IN IF key = "shift" /\ c.tl THEN Plan(c.state, <<"pendingOn">>)
     ELSE IF plan = Unhandled THEN Unhandled
     ELSE Before(plan, EndsLatin(c, key, plan), "latinOff")

\* Shift with a letter begins temporary Latin input; Shift alone, once pressed,
\* is remembered as pending until it is released or another key is pressed.
KeyPlan(c, key, mode, afterN) ==
  LET starts == key = "latin" /\ mode = "kana" /\ ~c.tl
      plan   == PlanFor(c, key, mode, starts, afterN)
  IN IF key = "shift" /\ c.tl THEN Plan(c.state, <<"pendingOn">>)
     ELSE IF plan = Unhandled THEN Unhandled
     ELSE Before(Before(plan, EndsLatin(c, key, plan), "latinOff"),
                 c.pending /\ key # "shift", "pendingOff")

\* handle_preserved_eisu_shortcut: the key that Windows reserves for the text service.
EisuPlan(c, mode) ==
  LET plan == PlanFor(c, "toggle", mode, FALSE, FALSE)
  IN IF plan = Unhandled THEN Unhandled ELSE Before(plan, c.tl, "latinOff")

\* process_key_up, for Shift.
ShiftUpPlan(c) ==
  IF ~c.pending THEN Unhandled
  ELSE Plan(c.state, (IF c.tl THEN <<"latinOff">> ELSE <<>>) \o <<"pendingOff">>)
=============================================================================
