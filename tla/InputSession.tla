---------------------------- MODULE InputSession ----------------------------
(***************************************************************************)
(* Applications that use the input method at the same time.  Each has a text *)
(* service of its own, with the composition the user sees in the document;   *)
(* all of them share one conversion server, which holds one composition, and *)
(* one candidate window.  A key becomes a plan (KeyPlanner), a sequence of    *)
(* ClientActions that handle_action_with_config_snapshot works off on local   *)
(* copies which it stores at the end.  A ClientAction is one step here: other *)
(* applications, a restart of the server and focus changes come between.     *)
(*                                                                         *)
(* A request either reaches a living server or fails; requests that are lost *)
(* or replayed are EditRecovery's subject, clauses ClauseNavigation's.       *)
(***************************************************************************)
EXTENDS Renderings, KeyPlanner

CONSTANTS KeysOf(_),   \* the keys that are pressed in an application
          Budgets      \* bounds on a behaviour: see Budget

\* What an application's user types is told apart by who typed it.
Clients == Tokens

\* typed:    keys that type text, over all applications
\* switches: focus changes, and compositions that applications end
\* faults:   deaths of the server and lost window updates
Budget == [typed : Nat, switches : Nat, faults : Nat]

ASSUME SessionAssumption ==
  /\ Budgets \subseteq Budget
  /\ \A c \in Clients : KeysOf(c) \subseteq Keys
  /\ "nobody" \notin Clients

VARIABLES
  server,    \* up, session id, the composition
  window,    \* the candidate window: visible, the composition whose candidates it lists
  comp,      \* the Composition each text service stores
  svc,       \* the IPCService in each IMEState
  mode,      \* the input mode of each application
  tip,       \* the TSF composition in each document: open, its text
  doc,       \* what else was typed into each document
  due,       \* callbacks TSF has in store for each application
  run,       \* the handler that is running in each application
  focus,     \* the application that has the keyboard
  bounds,    \* what is left of the budget
  shown,     \* history: whose window update was delivered last, if none was lost since
  ghost      \* history, never read by the code

vars == <<server, window, comp, svc, mode, tip, doc, due, run, focus, bounds, shown, ghost>>

-----------------------------------------------------------------------------
(* State.                                                                  *)

Service  == [session : Nat, reset : BOOLEAN]
Actions  == {"start", "show", "end", "append", "commit", "remove", "shrink", "shrinkAppend",
             "up", "down", "convert", "toKana", "toLatin",
             "latinOn", "latinOff", "pendingOn", "pendingOff"}

\* cands: the composition whose candidates the server answered last
\* text, n: what is shown, and how much of it the selected candidate stands for
Comps == [state : States, raw : Seq(Tokens), cands : Seq(Tokens), text : Seq(Tokens), n : Nat,
          sel : 0..1, tl : BOOLEAN, pending : BOOLEAN]

NoComp == [state |-> "none", raw |-> <<>>, cands |-> <<>>, text |-> <<>>, n |-> 0,
           sel |-> 0, tl |-> FALSE, pending |-> FALSE]

\* plan: the ClientActions left; work: the handler's copies; why: key or callback
Runs == [plan : Seq(Actions), to : States \union {"unhandled"}, why : {"none", "key", "sink"},
         work : Comps, svc : Service]

Resting == [plan |-> <<>>, to |-> "none", why |-> "none", work |-> NoComp,
            svc |-> [session |-> 0, reset |-> FALSE]]

NoTip == [open |-> FALSE, text |-> <<>>]
Tip(s) == [open |-> TRUE, text |-> s]

\* owed:    how much the user typed into the document and did not take back
\* touched: someone else has changed the server's composition, or it has died,
\*          since this application began to type into an empty one
\* excused: an edit met such a server, or the code gave text up
\* alone:   Shift was pressed and no key since
Ghost == [owed : [Clients -> Int],
          touched : SUBSET Clients, excused : SUBSET Clients, alone : SUBSET Clients]

TypeOK ==
  /\ server \in [up : BOOLEAN, session : Nat \ {0}, input : Seq(Tokens)]
  /\ window \in [visible : BOOLEAN, items : Seq(Tokens)]
  /\ comp \in [Clients -> Comps]
  /\ svc \in [Clients -> Service]
  /\ mode \in [Clients -> Modes]
  /\ tip \in [Clients -> [open : BOOLEAN, text : Seq(Tokens)]]
  /\ doc \in [Clients -> Seq(Tokens)]
  /\ due \in [Clients -> SUBSET {"focus", "kill"}]
  /\ run \in [Clients -> Runs]
  /\ focus \in Clients
  /\ bounds \in Budget
  /\ shown \in Clients \union {"nobody"}
  /\ ghost \in Ghost

Init ==
  /\ server = [up |-> TRUE, session |-> 1, input |-> <<>>]
  /\ window = [visible |-> FALSE, items |-> <<>>]
  /\ comp = [c \in Clients |-> NoComp]
  /\ svc = [c \in Clients |-> [session |-> 1, reset |-> FALSE]]
  /\ mode = [c \in Clients |-> "kana"]
  /\ tip = [c \in Clients |-> NoTip]
  /\ doc = [c \in Clients |-> <<>>]
  /\ due = [c \in Clients |-> {}]
  /\ run = [c \in Clients |-> Resting]
  /\ focus \in Clients
  /\ bounds \in Budgets
  /\ shown = "nobody"
  /\ ghost = [owed |-> [c \in Clients |-> 0],
              touched |-> {}, excused |-> {}, alone |-> {}]

Idle(c) == run[c].why = "none"
Acting(c, act) == ~Idle(c) /\ Head(run[c].plan) = act

-----------------------------------------------------------------------------
(* The candidate window.                                                   *)

\* The window takes the update over.
Delivered(c, new) == window' = new /\ shown' = c /\ UNCHANGED bounds

\* A window that cannot be reached never stops a key: the error is ignored.
Dropped ==
  /\ bounds.faults > 0
  /\ bounds' = [bounds EXCEPT !.faults = @ - 1]
  /\ window' = window
  /\ shown' = "nobody"

\* update_candidate_window
Deliver(c, new) == Delivered(c, new) \/ Dropped

NoUpdate == UNCHANGED <<window, shown, bounds>>

\* A variant that empties the list and leaves it on the screen.
HiddenEmptied == [window EXCEPT !.items = <<>>]

Hidden == [visible |-> FALSE, items |-> <<>>]

\* sync_candidate_window_update, without a change of visibility
Relisted(items) == [window EXCEPT !.items = items]

\* sync_candidate_window_after_text_update
Listing(items, to) == [visible |-> to # "none" /\ ~AfterSpace, items |-> items]

-----------------------------------------------------------------------------
(* History.                                                                *)

\* c has changed the composition of the server.
Uses(g, c) ==
  IF server' = server THEN g ELSE [g EXCEPT !.touched = @ \union (Clients \ {c})]

Excuse(g, c) == [g EXCEPT !.excused = @ \union {c}]

\* An edit of c meets the server.  With nothing typed into it and nothing in
\* it, what happened to the server before does not matter.
Meets(g, c, w) ==
  IF c \notin g.touched THEN g
  ELSE IF w.raw = <<>> /\ server.input = <<>> THEN [g EXCEPT !.touched = @ \ {c}]
  ELSE Excuse(g, c)

\* A composition of c is over, with `written` in its document.
Over(g, c, written) ==
  [g EXCEPT !.excused = @ \ {c},
            !.owed[c] = IF c \in g.excused THEN Len(written) ELSE @]

-----------------------------------------------------------------------------
(* handle_action_with_config_snapshot: going from action to action.         *)

Work(c) == run[c].work

HasState(w) == w.raw # <<>> \/ w.text # <<>> \/ w.cands # <<>>

Last(c) == Len(run[c].plan) = 1

\* The copies go to the next action, or become the stored composition.
\* g is the history of the action itself.
Continue(c, w, to, s, g) ==
  IF ~Last(c)
    THEN /\ run' = [run EXCEPT ![c] = [plan |-> Tail(run[c].plan), to |-> to, why |-> run[c].why,
                                       work |-> w, svc |-> s]]
         /\ ghost' = g
         /\ UNCHANGED <<comp, svc>>
    ELSE /\ run' = [run EXCEPT ![c] = Resting]
         /\ comp' = [comp EXCEPT ![c] = [w EXCEPT !.state = to]]
         /\ svc' = [svc EXCEPT ![c] = s]
         /\ ghost' = IF tip'[c].open THEN g
                     ELSE IF to = "none" THEN Over(g, c, doc'[c]) ELSE Excuse(g, c)

\* An edit failed: recover_after_key_error deletes the text and forgets it.
\* s is what the handler had stored as the service by then.
Abandon(c, s) ==
  /\ tip' = [tip EXCEPT ![c] = NoTip]
  /\ doc' = doc
  /\ Deliver(c, Hidden)
  /\ run' = [run EXCEPT ![c] = Resting]
  /\ comp' = [comp EXCEPT ![c] = NoComp]
  /\ svc' = [svc EXCEPT ![c] = s]
  /\ ghost' = Over(Excuse(ghost, c), c, doc[c])
  /\ UNCHANGED server

\* clear_text failed, with the text already in the document.  A key forgets the
\* composition; a callback leaves the stored one as it was.
FailToClear(c) ==
  /\ run' = [run EXCEPT ![c] = Resting]
  /\ IF run[c].why = "key"
       THEN comp' = [comp EXCEPT ![c] = NoComp] /\ ghost' = Over(Excuse(ghost, c), c, doc'[c])
       ELSE comp' = comp /\ ghost' = Excuse(ghost, c)
  /\ UNCHANGED <<svc, server>>

\* A variant that deletes it, as abort_composition does.
WrittenDiscarded(c) == doc

\* close_composition: the text of the composition stays in the document.
Written(c) == [doc EXCEPT ![c] = @ \o tip[c].text]

Close(c) == [tip EXCEPT ![c] = NoTip]

\* set_text: without a composition nothing happens.
SetText(c, text) == IF tip[c].open THEN [tip EXCEPT ![c] = Tip(text)] ELSE tip

\* shift_start: the composition begins behind its first n, which stay.
Shifted(c, n) ==
  IF tip[c].open THEN [doc EXCEPT ![c] = @ \o SubSeq(tip[c].text, 1, n)] ELSE doc

\* A variant that never clears the server.
EmptiedNever == server

\* clear_text
Emptied == [server EXCEPT !.input = <<>>]

\* What ends a composition, or gives it up for a new one, leaves of the copies:
\* the candidates stay.
Ended(w) == [NoComp EXCEPT !.cands = w.cands, !.state = w.state]

-----------------------------------------------------------------------------
(* ClientActions that need no server.                                       *)

\* start_composition fails while a composition is open, because it holds the
\* TextService that end_composition wants to borrow.  ComposingHasTip says that
\* no plan gets there, so that only the other case is modelled.
Starting(c, act) == Acting(c, act) /\ ~tip[c].open

StartComposition(c) ==
  /\ Starting(c, "start")
  /\ tip' = [tip EXCEPT ![c] = Tip(<<>>)]
  /\ doc' = doc
  /\ IF AfterSpace THEN Deliver(c, [window EXCEPT !.visible = FALSE]) ELSE NoUpdate
  /\ Continue(c, Work(c), run[c].to, run[c].svc, ghost)
  /\ UNCHANGED <<server, mode, due, focus>>

ShowCandidateWindow(c) ==
  /\ Acting(c, "show")
  /\ Deliver(c, [window EXCEPT !.visible = TRUE])
  /\ UNCHANGED <<tip, doc>>
  /\ Continue(c, Work(c), run[c].to, run[c].svc, ghost)
  /\ UNCHANGED <<server, mode, due, focus>>

\* CommitTextDirect: a composition of its own, started, filled and ended.
CommitTextDirect(c) ==
  /\ Starting(c, "commit")
  /\ tip' = tip
  /\ doc' = [doc EXCEPT ![c] = Append(@, c)]
  /\ Continue(c, Work(c), run[c].to, run[c].svc, ghost)
  /\ NoUpdate
  /\ UNCHANGED <<server, mode, due, focus>>

\* SetTemporaryLatin, SetTemporaryLatinShiftPending
SetFlag(c) ==
  /\ \E act \in {"latinOn", "latinOff", "pendingOn", "pendingOff"} : Acting(c, act)
  /\ UNCHANGED <<tip, doc>>
  /\ LET act == Head(run[c].plan)
         w   == Work(c)
     IN Continue(c, IF act = "latinOn" THEN [w EXCEPT !.tl = TRUE]
                    ELSE IF act = "latinOff" THEN [w EXCEPT !.tl = FALSE, !.pending = FALSE]
                    ELSE [w EXCEPT !.pending = (act = "pendingOn")],
                 run[c].to, run[c].svc, ghost)
  /\ NoUpdate
  /\ UNCHANGED <<server, mode, due, focus>>

\* How many candidates there are for s, and how much of s one stands for.
Items(s) == IF s = <<>> THEN 0 ELSE IF FirstClause(s) = Len(s) THEN 1 ELSE 2
Count(s, i) == IF i = 0 THEN Len(s) ELSE FirstClause(s)

\* A variant that does not look how many candidates there are.
ClampLow(s, i) == IF i < 0 THEN 0 ELSE i

\* select_candidate
Clamp(s, i) == IF i < 0 THEN 0 ELSE IF i < Items(s) THEN i ELSE Items(s) - 1

\* The copies with a candidate of s selected.
Select(w, s, i) ==
  [w EXCEPT !.cands = s, !.text = s, !.sel = Clamp(s, i), !.n = Count(s, Clamp(s, i))]

\* SetSelection
SetSelection(c) ==
  /\ Acting(c, "up") \/ Acting(c, "down")
  /\ LET w   == Work(c)
         new == Select(w, w.cands, IF Acting(c, "up") THEN w.sel - 1 ELSE w.sel + 1)
     IN IF w.cands = <<>>
          THEN /\ UNCHANGED tip
               /\ NoUpdate
               /\ doc' = doc
               /\ Continue(c, w, run[c].to, run[c].svc, ghost)
          ELSE /\ tip' = SetText(c, new.text)
               /\ Deliver(c, Relisted(w.cands))
               /\ doc' = doc
               /\ Continue(c, new, run[c].to, run[c].svc, ghost)
  /\ UNCHANGED <<server, mode, due, focus>>

\* SetTextWithType: the clause in another script.
SetTextWithType(c) ==
  /\ Acting(c, "convert")
  /\ LET w    == Work(c)
         text == SubSeq(w.raw, 1, IF w.n < Len(w.raw) THEN w.n ELSE Len(w.raw)) \o Suffix(w)
     IN /\ tip' = SetText(c, text)
        /\ doc' = doc
        /\ Continue(c, [w EXCEPT !.text = text], run[c].to, run[c].svc, ghost)
  /\ NoUpdate
  /\ UNCHANGED <<server, mode, due, focus>>

-----------------------------------------------------------------------------
(* ClientActions that call the server.                                      *)

\* EndComposition
EndComposition(c) ==
  /\ Acting(c, "end")
  /\ tip' = Close(c)
  /\ doc' = Written(c)
  /\ Deliver(c, Hidden)
  /\ IF server.up
       THEN /\ server' = Emptied
            /\ Continue(c, Ended(Work(c)), run[c].to, Observe(run[c].svc, server.session),
                        Uses(ghost, c))
       ELSE FailToClear(c)
  /\ UNCHANGED <<mode, due, focus>>

\* SetIMEMode: a composition is started and ended for its position on the screen.
SetIMEMode(c) ==
  /\ Starting(c, "toKana") \/ Starting(c, "toLatin")
  /\ UNCHANGED <<tip, doc>>
  /\ mode' = [mode EXCEPT ![c] = IF Acting(c, "toKana") THEN "kana" ELSE "latin"]
  /\ IF server.up
       THEN /\ server' = Emptied
            /\ NoUpdate
            /\ Continue(c, Ended(Work(c)), run[c].to, Observe(run[c].svc, server.session),
                        Uses(ghost, c))
       ELSE Deliver(c, Hidden) /\ FailToClear(c)
  /\ UNCHANGED <<due, focus>>

\* What the server may hold after an edit that turns `before` into `after`.  A
\* client that has not met this server may break its connection on it: the edit
\* is then sent again only if the refresh shows the old candidates, or for an
\* append nothing at all (EditRecovery).
Outcomes(s, before, after) ==
  {after} \union IF s.session = server.session THEN {} ELSE {before}

Appending(s, before, text) ==
  IF before = <<>> THEN {text} ELSE Outcomes(s, before, before \o text)

\* The composition that is shown after an append answered with `result`; stale:
\* the client takes it for the first text in a new server.
Appended(c, w, to, result, stale, s) ==
  LET base == IF stale THEN Ended(w) ELSE w
      new  == Select([base EXCEPT !.raw = Append(@, c)], result, base.sel)
  IN /\ tip' = IF stale THEN [tip EXCEPT ![c] = Tip(new.text)] ELSE SetText(c, new.text)
     /\ Deliver(c, Listing(result, to))
     /\ Continue(c, new, to, s, Meets(Uses(ghost, c), c, w))

\* AppendText, AppendTextRaw, AppendTextDirect
AppendText(c) ==
  /\ Acting(c, "append")
  /\ IF ~server.up
       THEN Abandon(c, run[c].svc)
       ELSE \E result \in Appending(run[c].svc, server.input, <<c>>) :
              LET w     == Work(c)
                  s     == Observe(run[c].svc, server.session)
                  stale == \/ s.reset /\ HasState(w)
                           \/ LooksReset(w.raw, FullView(w.cands), <<c>>, FullView(result))
              IN /\ server' = [server EXCEPT !.input = result]
                 /\ doc' = doc
                 /\ Appended(c, w, IF stale THEN "composing" ELSE run[c].to, result, stale,
                             [s EXCEPT !.reset = FALSE])
  /\ UNCHANGED <<mode, due, focus>>

\* reset_after_empty_server_composition
ResetAfterEmpty(c, w, s) ==
  /\ tip' = Close(c)
  /\ doc' = doc
  /\ Deliver(c, Hidden)
  /\ server' = Emptied
  /\ Continue(c, [NoComp EXCEPT !.state = w.state], "none", Observe(s, server.session),
              Excuse(Uses(ghost, c), c))

\* RemoveText, for a client whose service is s once it has looked for a new session.
Removed(c, w, result, s) ==
  LET new == Select([w EXCEPT !.raw = DropLast(@)], result, w.sel)
  IN /\ server' = [server EXCEPT !.input = result]
     /\ doc' = doc
     /\ IF result # <<>>
          THEN /\ tip' = SetText(c, new.text)
               /\ Deliver(c, Relisted(result))
               /\ Continue(c, new, run[c].to, s, Meets(Uses(ghost, c), c, w))
          ELSE /\ tip' = Close(c)
               /\ Deliver(c, Hidden)
               /\ Continue(c, [NoComp EXCEPT !.state = w.state], "none", s,
                           Meets(Uses(ghost, c), c, w))

RemoveText(c) ==
  /\ Acting(c, "remove")
  /\ LET w == Work(c)
         s == Observe([run[c].svc EXCEPT !.reset = FALSE], server.session)
     IN IF ~server.up THEN Abandon(c, svc[c])
        ELSE IF run[c].svc.reset /\ HasState(w)
          THEN ResetAfterEmpty(c, w, [run[c].svc EXCEPT !.reset = FALSE])
        ELSE \E result \in Outcomes(run[c].svc, server.input, DropLast(server.input)) :
               IF s.reset /\ HasState([w EXCEPT !.raw = DropLast(@), !.cands = result])
                 THEN ResetAfterEmpty(c, w, [s EXCEPT !.reset = FALSE])
                 ELSE Removed(c, w, result, [s EXCEPT !.reset = FALSE])
  /\ UNCHANGED <<mode, due, focus>>

\* The composition after a shrink and an append of `text` that left `result` in
\* the server; fresh: nothing of the old composition is thought to be there.
Shrunk(c, w, text, result, fresh, s, g) ==
  LET base == IF fresh THEN [Ended(w) EXCEPT !.raw = text]
              ELSE [w EXCEPT !.raw = DropFirst(w.n, @) \o text]
      new  == Select(base, result, 0)
  IN IF result = <<>> THEN ResetAfterEmpty(c, w, s)
     ELSE /\ server' = [server EXCEPT !.input = result]
          /\ tip' = IF fresh THEN [tip EXCEPT ![c] = Tip(new.text)] ELSE SetText(c, new.text)
          /\ doc' = IF fresh THEN doc ELSE Shifted(c, w.n)
          /\ Deliver(c, Relisted(result))
          /\ Continue(c, new, "composing", s, Meets(Uses(g, c), c, w))

\* ShrinkText commits the selected clause; ShrinkTextDirect then begins Latin
\* text.  update_context, sent if the surrounding text changed, looks at the
\* session first.  A composition that the shrink empties is taken for one that
\* the server had lost.
ShrinkText(c) ==
  /\ Acting(c, "shrink") \/ Acting(c, "shrinkAppend")
  /\ LET w    == Work(c)
         text == IF Acting(c, "shrink") THEN <<>> ELSE <<c>>
         g    == IF Acting(c, "shrink") THEN ghost ELSE Excuse(ghost, c)
     IN \E seen \in {run[c].svc} \union
                    (IF server.up THEN {Observe(run[c].svc, server.session)} ELSE {}) :
          IF ~server.up THEN Abandon(c, seen)
          ELSE LET changed == seen.reset /\ HasState(w)
                   known   == [seen EXCEPT !.reset = FALSE]
                   after   == IF changed THEN known ELSE Observe(known, server.session)
               IN \E left \in IF changed THEN {server.input}
                              ELSE Outcomes(known, server.input, DropFirst(w.n, server.input)) :
                  \E result \in Appending(after, left, text) :
                    Shrunk(c, w, text, result,
                           changed \/ left = <<>> \/ Observe(after, server.session).reset,
                           [session |-> server.session, reset |-> FALSE], g)
  /\ UNCHANGED <<mode, due, focus>>

-----------------------------------------------------------------------------
(* What users, applications and TSF do.                                     *)

Begin(c, plan, why, g) ==
  /\ run' = [run EXCEPT ![c] = [plan |-> plan.acts, to |-> plan.to, why |-> why,
                                work |-> comp[c], svc |-> svc[c]]]
  /\ ghost' = g
  /\ UNCHANGED <<server, window, comp, svc, mode, tip, doc, due, focus, shown>>

Ready(c) == Idle(c) /\ focus = c /\ due[c] = {}

Types(plan) == Does(plan, {"append", "commit", "shrinkAppend"})

\* What a planned key adds to the history: typed text is owed, a removed
\* character is not; only a key other than Shift ends "Shift alone".
Pressed(c, key, plan) ==
  [ghost EXCEPT
     !.owed[c] = @ + (IF Types(plan) THEN 1 ELSE 0)
                   - (IF Does(plan, {"remove"}) /\ comp[c].raw # <<>> THEN 1 ELSE 0),
     !.alone   = IF key = "shift" THEN @ \union {c} ELSE @ \ {c}]

\* handle_key
Press(c, key) ==
  /\ Ready(c)
  /\ \E afterN \in BOOLEAN :
       LET plan == KeyPlan(comp[c], key, mode[c], afterN)
       IN /\ plan # Unhandled
          /\ Types(plan) => bounds.typed > 0
          /\ bounds' = [bounds EXCEPT !.typed = @ - IF Types(plan) THEN 1 ELSE 0]
          /\ Begin(c, plan, "key", Pressed(c, key, plan))

\* A key left to the application only takes back that Shift is pending.
PressUnhandled(c, key) ==
  /\ Ready(c)
  /\ KeyPlan(comp[c], key, mode[c], FALSE) = Unhandled
  /\ comp' = [comp EXCEPT ![c].pending = @ /\ key = "shift"]
  /\ ghost' = [ghost EXCEPT !.alone = IF key = "shift" THEN @ ELSE @ \ {c}]
  /\ UNCHANGED <<server, window, svc, mode, tip, doc, due, run, focus, bounds, shown>>

\* handle_key_up
ReleaseShift(c) ==
  /\ Ready(c)
  /\ ShiftUpPlan(comp[c]) # Unhandled
  /\ Begin(c, ShiftUpPlan(comp[c]), "key", ghost)
  /\ UNCHANGED bounds

\* handle_preserved_eisu_shortcut
PressEisu(c) ==
  /\ Ready(c) /\ "toggle" \in KeysOf(c)
  /\ EisuPlan(comp[c], mode[c]) # Unhandled
  /\ Begin(c, EisuPlan(comp[c], mode[c]), "key", [ghost EXCEPT !.alone = @ \ {c}])
  /\ UNCHANGED bounds

\* The user turns to an application, or to another document of the same one.
\* Each side may hear of it later, and the side that is left in any order.
SwitchTo(c) ==
  /\ bounds.switches > 0
  /\ bounds' = [bounds EXCEPT !.switches = @ - 1]
  /\ focus' = c
  /\ \E left \in {{"kill"}, {"kill", "focus"}}, entered \in {{}, {"focus"}} :
       due' = [d \in Clients |-> due[d] \union (IF d = c THEN entered
                                                ELSE IF d = focus THEN left ELSE {})]
  /\ UNCHANGED <<server, window, comp, svc, mode, tip, doc, run, shown, ghost>>

EndPlan == Plan("none", <<"end">>)

\* OnSetFocus of the document manager: whatever is composed is ended.
OnSetFocus(c) ==
  /\ Idle(c) /\ "focus" \in due[c]
  /\ due' = [due EXCEPT ![c] = @ \ {"focus"}]
  /\ run' = [run EXCEPT ![c] = [plan |-> EndPlan.acts, to |-> EndPlan.to, why |-> "sink",
                                work |-> comp[c], svc |-> svc[c]]]
  /\ UNCHANGED <<server, window, comp, svc, mode, tip, doc, focus, bounds, shown, ghost>>

\* OnKillThreadFocus, and OnSetFocus of the key sink: the window is hidden.
OnKillThreadFocus(c) ==
  /\ Idle(c) /\ "kill" \in due[c]
  /\ due' = [due EXCEPT ![c] = @ \ {"kill"}]
  /\ Deliver(c, Hidden)
  /\ UNCHANGED <<server, comp, svc, mode, tip, doc, run, focus, ghost>>

\* OnCompositionTerminated: the application has ended the composition.
OnCompositionTerminated(c) ==
  /\ Idle(c) /\ tip[c].open
  /\ bounds.switches > 0
  /\ bounds' = [bounds EXCEPT !.switches = @ - 1]
  /\ Begin(c, EndPlan, "sink", ghost)

\* A key where the keyboard is disabled, such as a password field:
\* cancel_composition_for_disabled_context.
KeyInDisabledContext(c) ==
  /\ Ready(c)
  /\ tip' = Close(c)
  /\ comp' = [comp EXCEPT ![c] = NoComp]
  /\ Deliver(c, Hidden)
  /\ server' = IF server.up THEN Emptied ELSE server
  /\ svc' = IF server.up THEN [svc EXCEPT ![c] = Observe(@, server.session)] ELSE svc
  /\ ghost' = Over(Excuse(Uses(ghost, c), c), c, doc[c])
  /\ UNCHANGED <<mode, doc, due, run, focus>>

Crash ==
  /\ server.up
  /\ bounds.faults > 0
  /\ bounds' = [bounds EXCEPT !.faults = @ - 1]
  /\ server' = [server EXCEPT !.up = FALSE, !.input = <<>>]
  /\ ghost' = [ghost EXCEPT !.touched = Clients]
  /\ UNCHANGED <<window, comp, svc, mode, tip, doc, due, run, focus, shown>>

\* The launcher starts a new server.
Restart ==
  /\ ~server.up
  /\ server' = [server EXCEPT !.up = TRUE, !.session = @ + 1]
  /\ UNCHANGED <<window, comp, svc, mode, tip, doc, due, run, focus, bounds, shown, ghost>>

-----------------------------------------------------------------------------
Handle(c) ==
  \/ StartComposition(c) \/ ShowCandidateWindow(c) \/ CommitTextDirect(c) \/ SetFlag(c)
  \/ SetSelection(c) \/ SetTextWithType(c) \/ EndComposition(c) \/ SetIMEMode(c)
  \/ AppendText(c) \/ RemoveText(c) \/ ShrinkText(c)

Callback(c) == OnSetFocus(c) \/ OnKillThreadFocus(c) \/ OnCompositionTerminated(c)

Next ==
  \/ \E c \in Clients :
       \/ \E key \in KeysOf(c) : Press(c, key) \/ PressUnhandled(c, key)
       \/ ReleaseShift(c) \/ PressEisu(c) \/ SwitchTo(c)
       \/ KeyInDisabledContext(c)
       \/ Callback(c)
       \/ Handle(c)
  \/ Crash
  \/ Restart

Spec == Init /\ [][Next]_vars

-----------------------------------------------------------------------------
(* Properties.                                                             *)

\* A text service that has a composition has one in the document too, and one
\* that has none has left none open there.  A server that died may break the
\* first half: its loss is noticed in the middle of a plan.  An action that
\* starts a composition never meets one that is open, which would make it fail.
ComposingHasTip ==
  \A c \in Clients :
    IF ~Idle(c) THEN Head(run[c].plan) \in {"start", "commit", "toKana", "toLatin"} => ~tip[c].open
    ELSE IF comp[c].state = "none" THEN ~tip[c].open
    ELSE tip[c].open \/ ~server.up \/ server.session > 1

\* Nothing a user typed gets lost or doubled: the document and the composition
\* in it have one character for each, whatever focus changes, late callbacks and
\* other applications do, unless the composition was at a server that had
\* meanwhile died or been used by others.
KeptText ==
  \A c \in Clients : Idle(c) /\ c \notin ghost.excused =>
    Len(doc[c]) + Len(tip[c].text) = ghost.owed[c]

\* While nobody else touches the server, it holds just what the text service
\* took down as typed, what the candidates are of and what the document shows.
ServerAgrees ==
  \A c \in Clients :
    Idle(c) /\ c \notin ghost.excused \union ghost.touched /\ comp[c].state # "none" =>
      /\ server.input = comp[c].raw
      /\ comp[c].cands = comp[c].raw
      /\ tip[c].text = comp[c].raw

\* When nobody is composing, the server holds no text: what was typed into one
\* application cannot turn up in the next one.
NothingLeftBehind ==
  (\A c \in Clients : Idle(c) /\ comp[c].state = "none") => server.input = <<>>

\* Between keys the candidate window shows what the application that updated it
\* last is composing, and is hidden when that is nothing.
WindowFollows ==
  \A c \in Clients : Idle(c) /\ shown = c /\ window.visible =>
    comp[c].state # "none" /\ window.items = comp[c].cands

\* Temporary Latin input lasts until the composition is confirmed, given up or
\* ended, or Shift was pressed alone (README of the repository); or until the
\* first edit that meets a new server.
LatinUntilConfirmed ==
  [][\A c \in Clients :
       comp[c].tl /\ ~comp'[c].tl /\ c \notin ghost'.excused =>
         \/ comp'[c].state = "none"
         \/ Acting(c, "shrink")
         \/ Acting(c, "pendingOff") /\ c \in ghost.alone
         \/ run[c].svc # [session |-> server.session, reset |-> FALSE]]_vars

\* Latin text that begins behind a finished composition is added to it
\* (temporary_latin_after_finalized_terminal_n_starts_direct_remainder).
LatinAppends ==
  [][\A c \in Clients :
       Acting(c, "shrinkAppend") /\ server.up /\ c \notin ghost.touched =>
         Len(doc'[c]) + Len(tip'[c].text) > Len(tip[c].text) + Len(doc[c])]_vars
=============================================================================
