---------------------------- MODULE EditRecovery ----------------------------
(***************************************************************************)
(* One IME client editing the composition the conversion server holds.     *)
(*                                                                         *)
(* A key press becomes an edit request.  The transport may lose the request *)
(* or the answer, and the server may die and be restarted with an empty     *)
(* composition and a new session id.  The requests are not idempotent, so   *)
(* after an error the client reconnects, asks for the current composition   *)
(* with move_cursor(0), and decides from the answer whether to send the     *)
(* edit again; the session ids it meets on the way tell it to give up text  *)
(* typed into an earlier server.  (ipc_service.rs, and the action handlers  *)
(* of composition.rs.)                                                      *)
(*                                                                         *)
(* The server handles a request without awaiting, so a request is one step  *)
(* of the server.  A request whose call failed has been executed or lost    *)
(* for good by the time the client sees the error.                          *)
(***************************************************************************)
EXTENDS Renderings

CONSTANT MaxFaults          \* bound on lost requests, lost answers and crashes
ASSUME MaxFaultsAssumption == MaxFaults \in Nat

VARIABLES
  server,   \* up, session id, composition
  stored,   \* the IPCService kept in IMEState
  ipc,      \* the clone the running handler works on
  comp,     \* the client's Composition: raw_input, candidates, Composing or not
  pc,       \* where the key handler is
  op,       \* what the key handler is doing
  answer,   \* the candidates the last request returned
  faults,   \* faults so far
  ghost     \* history, never read by the code: see Ghost

vars == <<server, stored, ipc, comp, pc, op, answer, faults, ghost>>

-----------------------------------------------------------------------------
(* State.                                                                  *)

Views   == [text : Seq(Tokens), counts : SUBSET Nat]
Service == [session : Nat, reset : BOOLEAN]
Edit    == [kind : {"append", "remove", "shrink"}, text : Seq(Tokens), n : Nat]

\* key:   which ClientAction is being handled; "sink" is the EndComposition of a TSF callback
\* kind, text, n: the request being sent
\* prev:  the candidates the client compares a refresh with
\* fresh: the handler has dropped the old client composition
\* after: what a clear_text in progress is for
Ops == [key   : {"append", "remove", "shrink", "end", "sink"},
        kind  : {"append", "remove", "shrink", "clear"},
        text  : Seq(Tokens),
        n     : Nat,
        prev  : Views,
        fresh : BOOLEAN,
        after : {"end", "abandon", "recover"}]

\* execs:   how often this server has changed its composition for the current edit
\* exact:   the client's candidates showed the server's composition when the
\*          edit was first sent, and the server has not died since
\* trusted: since the last clear_text, no edit failed that the client could not
\*          judge and no clear_text was given up
\* born:    the session into which the oldest token of comp.raw was typed
Ghost == [execs : 0..2, exact : BOOLEAN, trusted : BOOLEAN, born : Nat]

NewOp(key, kind, text, n) ==
  [key |-> key, kind |-> kind, text |-> text, n |-> n,
   prev |-> comp.cands, fresh |-> FALSE, after |-> "end"]

EmptyComposition == [raw |-> <<>>, cands |-> NoView, composing |-> FALSE]

Steps == {"idle", "context", "send", "reconnect", "refresh", "resend",
          "answered", "clear", "reclear", "failed"}

TypeOK ==
  /\ server \in [up : BOOLEAN, session : Nat \ {0}, input : Seq(Tokens)]
  /\ stored \in Service
  /\ ipc \in Service
  /\ comp \in [raw : Seq(Tokens), cands : Views, composing : BOOLEAN]
  /\ pc \in Steps
  /\ op \in Ops
  /\ answer \in Views
  /\ faults \in 0..MaxFaults
  /\ ghost \in Ghost

Init ==
  /\ server = [up |-> TRUE, session |-> 1, input |-> <<>>]
  /\ stored = [session |-> 0, reset |-> FALSE]
  /\ ipc = [session |-> 0, reset |-> FALSE]
  /\ comp = EmptyComposition
  /\ pc = "idle"
  /\ op = [key |-> "end", kind |-> "clear", text |-> <<>>, n |-> 0,
           prev |-> NoView, fresh |-> FALSE, after |-> "end"]
  /\ answer = NoView
  /\ faults = 0
  /\ ghost = [execs |-> 0, exact |-> FALSE, trusted |-> TRUE, born |-> 0]

-----------------------------------------------------------------------------
(* The server process and the transport.                                   *)

Fault == faults < MaxFaults /\ faults' = faults + 1

Crash ==
  /\ server.up
  /\ Fault
  /\ server' = [server EXCEPT !.up = FALSE, !.input = <<>>]
  /\ ghost' = [ghost EXCEPT !.execs = 0, !.exact = FALSE]
  /\ UNCHANGED <<stored, ipc, comp, pc, op, answer>>

\* The launcher starts a new server; its session id is new (server_session_id).
Restart ==
  /\ ~server.up
  /\ server' = [server EXCEPT !.up = TRUE, !.session = @ + 1]
  /\ UNCHANGED <<stored, ipc, comp, pc, op, answer, faults, ghost>>

\* The server executes a request that turns its composition into s.
Execute(s) == server' = [server EXCEPT !.input = s]

\* A call that ends in a transport error, for a request that would turn the
\* composition into s: the server is down, or the request is lost, or its answer is.
LostCall(s) ==
  \/ ~server.up /\ UNCHANGED <<server, faults>>
  \/ server.up /\ Fault /\ UNCHANGED server
  \/ server.up /\ Fault /\ Execute(s)

-----------------------------------------------------------------------------
(* A key arrives.                                                          *)

RoomToType == Len(server.input) + 2 <= MaxLen /\ Len(comp.raw) < MaxLen

\* AppendText: update_context runs first.
BeginAppend(t) ==
  /\ pc = "idle"
  /\ RoomToType
  /\ op' = NewOp("append", "append", <<t>>, 0)
  /\ ipc' = stored
  /\ pc' = "context"
  /\ UNCHANGED <<server, stored, comp, answer, faults, ghost>>

\* ShrinkText: the planner sends it only while a suffix is left behind the
\* selected candidate, whose corresponding count is n.
BeginShrink(n, text) ==
  /\ pc = "idle"
  /\ comp.composing
  /\ RoomToType
  /\ n \in comp.cands.counts
  /\ n < Len(comp.cands.text)
  /\ op' = NewOp("shrink", "shrink", text, n)
  /\ ipc' = stored
  /\ pc' = "context"
  /\ UNCHANGED <<server, stored, comp, answer, faults, ghost>>

\* RemoveText: a session change noticed earlier ends the composition at once.
BeginRemove ==
  /\ pc = "idle"
  /\ comp.composing
  /\ ipc' = [stored EXCEPT !.reset = FALSE]
  /\ IF stored.reset
       THEN /\ op' = [NewOp("remove", "clear", <<>>, 0) EXCEPT !.after = "abandon"]
            /\ pc' = "clear"
       ELSE /\ op' = NewOp("remove", "remove", <<>>, 0)
            /\ pc' = "send"
  /\ UNCHANGED <<server, stored, comp, answer, faults, ghost>>

\* EndComposition, from a key or from OnCompositionTerminated and OnSetFocus.
BeginEnd(key) ==
  /\ pc = "idle"
  /\ comp.composing \/ key = "sink"
  /\ op' = NewOp(key, "clear", <<>>, 0)
  /\ ipc' = stored
  /\ pc' = "clear"
  /\ UNCHANGED <<server, stored, comp, answer, faults, ghost>>

\* update_context: the surrounding text may be sent, and its answer names the
\* session; it is not sent when it is unchanged, and an error is swallowed.
\* ShrinkText then looks at the session: after a change it only appends.
UpdateContext ==
  /\ pc = "context"
  /\ \E svc \in {ipc} \union (IF server.up THEN {Observe(ipc, server.session)} ELSE {}) :
       /\ stored' = svc
       /\ IF op.key = "shrink" /\ svc.reset
            THEN /\ ipc' = [svc EXCEPT !.reset = FALSE]
                 /\ op' = [op EXCEPT !.kind = "append", !.prev = NoView, !.fresh = TRUE]
            ELSE /\ ipc' = svc
                 /\ op' = op
  /\ pc' = "send"
  /\ UNCHANGED <<server, comp, answer, faults, ghost>>

-----------------------------------------------------------------------------
(* An edit request and its recovery: append_text_with_style_and_context,    *)
(* run_non_idempotent_edit_with_reconnect.                                  *)

\* The client can tell a lost edit from an executed one only if its candidates
\* are what a refresh of the untouched composition would show.
CanJudge == ~server.up \/ op.prev = PrefixView(server.input)

Changes == IF server.input' # server.input THEN 1 ELSE 0

FirstSent == [ghost EXCEPT !.execs = Changes,
                           !.exact = server.up /\ op.prev.text = server.input]

Answered(view) ==
  /\ server.up
  /\ ipc' = Observe(ipc, server.session)
  /\ answer' = view

Send ==
  /\ pc = "send"
  /\ LET result == Apply(op, server.input) IN
       /\ Answered(FullView(result))
       /\ Execute(result)
  /\ ghost' = FirstSent
  /\ pc' = "answered"
  /\ UNCHANGED <<stored, comp, op, faults>>

SendFails ==
  /\ pc = "send"
  /\ LostCall(Apply(op, server.input))
  /\ ghost' = [FirstSent EXCEPT !.trusted = @ /\ CanJudge]
  /\ pc' = "reconnect"
  /\ UNCHANGED <<stored, ipc, comp, op, answer>>

\* reconnect: a new IPCService needs the server's pipe.
Reconnect ==
  /\ pc = "reconnect"
  /\ pc' = IF server.up THEN "refresh" ELSE "failed"
  /\ UNCHANGED <<server, stored, ipc, comp, op, answer, faults, ghost>>

\* move_cursor(0), and the decision; an append that finds the composition
\* empty also tells the handler that the server was reset.
Refresh ==
  /\ pc = "refresh"
  /\ server.up
  /\ answer' = PrefixView(server.input)
  /\ LET retry == ShouldRetry(op.kind, op.prev, answer')
         svc   == Observe(ipc, server.session)
         wiped == op.kind = "append" /\ IsEmptyComposition(answer')
     IN /\ ipc' = [svc EXCEPT !.reset = @ \/ wiped]
        /\ pc' = IF retry THEN "resend" ELSE "answered"
  /\ UNCHANGED <<server, stored, comp, op, faults, ghost>>

RefreshFails ==
  /\ pc = "refresh"
  /\ LostCall(server.input)
  /\ pc' = "failed"
  /\ UNCHANGED <<stored, ipc, comp, op, answer, ghost>>

Resend ==
  /\ pc = "resend"
  /\ LET result == Apply(op, server.input) IN
       /\ Answered(FullView(result))
       /\ Execute(result)
  /\ ghost' = [ghost EXCEPT !.execs = @ + Changes]
  /\ pc' = "answered"
  /\ UNCHANGED <<stored, comp, op, faults>>

\* A variant that sends the edit once more when the replay fails.
ResendFailsAgain ==
  /\ pc = "resend"
  /\ LostCall(Apply(op, server.input))
  /\ ghost' = [ghost EXCEPT !.execs = @ + Changes]
  /\ UNCHANGED <<stored, ipc, comp, pc, op, answer>>

ResendFails ==
  /\ pc = "resend"
  /\ LostCall(Apply(op, server.input))
  /\ ghost' = [ghost EXCEPT !.execs = @ + Changes]
  /\ pc' = "failed"
  /\ UNCHANGED <<stored, ipc, comp, op, answer>>

-----------------------------------------------------------------------------
(* The handler goes on with the answer: handle_action_with_config_snapshot. *)

HasClientState == comp.composing \/ comp.raw # <<>> \/ comp.cands # NoView

\* The handler stores its locals as the new composition, and the IPCService.
Commit(raw, kept) ==
  /\ comp' = [raw |-> raw, cands |-> answer, composing |-> TRUE]
  /\ stored' = [ipc EXCEPT !.reset = FALSE]
  /\ ipc' = [ipc EXCEPT !.reset = FALSE]
  /\ pc' = "idle"
  /\ op' = op
  /\ ghost' = [ghost EXCEPT !.born = IF kept /\ comp.raw # <<>> THEN @ ELSE ipc.session,
                            !.trusted = @ /\ (kept \/ ipc.reset \/ server.input = raw)]

\* reset_after_empty_server_composition, and the end of a RemoveText that
\* removed the last character: clear_text, then an empty composition.
Abandon ==
  /\ op' = [op EXCEPT !.kind = "clear", !.after = "abandon"]
  /\ ipc' = [ipc EXCEPT !.reset = FALSE]
  /\ pc' = "clear"
  /\ UNCHANGED <<stored, comp, ghost>>

FinishAppend ==
  /\ pc = "answered"
  /\ op.key = "append"
  /\ IF IsEmptyComposition(answer)
       THEN Abandon
       ELSE IF \/ ipc.reset /\ HasClientState
               \/ LooksReset(comp.raw, op.prev, op.text, answer)
              THEN Commit(op.text, FALSE)
              ELSE Commit(comp.raw \o op.text, TRUE)
  /\ UNCHANGED <<server, answer, faults>>

FinishRemove ==
  /\ pc = "answered"
  /\ op.key = "remove"
  /\ IF ipc.reset \/ IsEmptyComposition(answer)
       THEN Abandon
       ELSE Commit(DropLast(comp.raw), TRUE)
  /\ UNCHANGED <<server, answer, faults>>

\* The shrink is done; the key's text is appended with the shrunk candidates as context.
FinishShrink ==
  /\ pc = "answered"
  /\ op.key = "shrink" /\ op.kind = "shrink"
  /\ op' = [op EXCEPT !.kind = "append", !.prev = answer, !.fresh = IsEmptyComposition(answer)]
  /\ pc' = "send"
  /\ UNCHANGED <<server, stored, ipc, comp, answer, faults, ghost>>

\* A variant that forgets to drop the old raw input after a server reset.
FinishShrinkAppendStale ==
  /\ pc = "answered"
  /\ op.key = "shrink" /\ op.kind = "append"
  /\ IF IsEmptyComposition(answer)
       THEN Abandon
       ELSE Commit(DropFirst(op.n, comp.raw) \o op.text, TRUE)
  /\ UNCHANGED <<server, answer, faults>>

FinishShrinkAppend ==
  /\ pc = "answered"
  /\ op.key = "shrink" /\ op.kind = "append"
  /\ IF IsEmptyComposition(answer)
       THEN Abandon
       ELSE IF op.fresh \/ ipc.reset
              THEN Commit(op.text, FALSE)
              ELSE Commit(DropFirst(op.n, comp.raw) \o op.text, TRUE)
  /\ UNCHANGED <<server, answer, faults>>

-----------------------------------------------------------------------------
(* clear_text: run_rpc_with_reconnect sends it again once.                  *)

ClearDone ==
  /\ Execute(<<>>)
  /\ ipc' = Observe(ipc, server.session)
  /\ stored' = ipc'
  /\ comp' = IF op.after = "end"
                THEN [comp EXCEPT !.raw = <<>>, !.composing = FALSE]
                ELSE EmptyComposition
  /\ pc' = "idle"
  /\ ghost' = [ghost EXCEPT !.trusted = TRUE, !.born = 0]
  /\ UNCHANGED <<op, answer, faults>>

\* The handler fails; the composition sinks and the recovery ignore the error.
ClearGivenUp ==
  /\ pc' = IF op.after = "recover" \/ op.key = "sink" THEN "idle" ELSE "failed"
  /\ ghost' = [ghost EXCEPT !.trusted = FALSE]
  /\ UNCHANGED <<stored, ipc, comp, op, answer>>

Clear == pc = "clear" /\ server.up /\ ClearDone

ClearFails ==
  /\ pc = "clear"
  /\ LostCall(<<>>)
  /\ pc' = "reclear"
  /\ UNCHANGED <<stored, ipc, comp, op, answer, ghost>>

Reclear == pc = "reclear" /\ server.up /\ ClearDone

\* A variant that goes on trying while the server is away.
ReclearForever ==
  pc = "reclear" /\ LostCall(<<>>) /\ UNCHANGED <<stored, ipc, comp, pc, op, answer, ghost>>

ReclearFails == pc = "reclear" /\ LostCall(<<>>) /\ ClearGivenUp

\* recover_after_key_error: back to the IPCService stored before the key, an
\* empty client composition, and an attempt to empty the server's.
Recover ==
  /\ pc = "failed"
  /\ comp' = EmptyComposition
  /\ ipc' = stored
  /\ op' = [op EXCEPT !.kind = "clear", !.after = "recover"]
  /\ pc' = "clear"
  /\ UNCHANGED <<server, stored, answer, faults, ghost>>

-----------------------------------------------------------------------------
Begin ==
  \/ \E t \in Tokens : BeginAppend(t)
  \/ \E n \in 1..MaxLen, text \in {<<>>} \union {<<t>> : t \in Tokens} : BeginShrink(n, text)
  \/ BeginRemove
  \/ \E key \in {"end", "sink"} : BeginEnd(key)

Handle ==
  \/ UpdateContext
  \/ Send \/ SendFails \/ Reconnect \/ Refresh \/ RefreshFails \/ Resend \/ ResendFails
  \/ FinishAppend \/ FinishRemove \/ FinishShrink \/ FinishShrinkAppend
  \/ Clear \/ ClearFails \/ Reclear \/ ReclearFails
  \/ Recover

Next == Crash \/ Restart \/ Begin \/ Handle

Spec == Init /\ [][Next]_vars

\* The UI thread that handles a key goes on until the handler returns, and
\* every call of a request returns.
FairSpec == Spec /\ WF_vars(Handle)

-----------------------------------------------------------------------------
(* Properties.                                                             *)

\* An edit sent while the client's candidates showed the server's composition
\* changes that composition at most once, however the call failed and
\* whatever the refresh answered, as long as the server lives.
AtMostOnce == ghost.exact => ghost.execs <= 1

\* Between keys the client's raw input is what the server holds, and its
\* candidates render it, unless an edit failed that the client could not
\* judge (CanJudge), a reset was wrongly inferred, or a clear_text was given up.
Agreement ==
  (pc = "idle" /\ ghost.trusted /\ server.up /\ stored.session = server.session)
    => /\ comp.raw = server.input
       /\ comp.composing => comp.cands.text = server.input

\* Text typed into an earlier server never survives next to a newer session
\* the client has met: once an answer named it, the old raw input is gone by
\* the end of the key.
NoMixedSessions ==
  (pc = "idle" /\ comp.raw # <<>>) => ghost.born = stored.session \/ stored.reset

\* The composition the server holds changes only as EditOnce allows.
Once == INSTANCE EditOnce WITH
  text  <- server.input,
  edit  <- [kind |-> op.kind, text |-> op.text, n |-> op.n],
  phase <- IF pc = "send" THEN "pending"
           ELSE IF /\ op.kind # "clear"
                   /\ pc \in {"reconnect", "refresh", "resend", "answered", "failed"}
             THEN IF ghost.execs = 0 THEN "pending" ELSE "applied"
           ELSE "none",
  exact <- IF pc = "send" THEN server.up /\ op.prev.text = server.input ELSE ghost.exact

ImplementsEditOnce == Once!Spec

\* Every key press comes to an end: the recoveries do not retry for ever.
KeyReturns == (pc # "idle") ~> (pc = "idle")

-----------------------------------------------------------------------------
(* What the repository's tests say of the recovery, as said of its runs.    *)

\* append_retry_is_enabled_when_server_state_is_unchanged: a refresh of an
\* untouched composition makes the client send the lost append again.
RetryWhenUnchanged ==
  [][(/\ pc = "refresh" /\ pc' \in {"resend", "answered"}
      /\ op.kind = "append" /\ ghost.exact /\ ghost.execs = 0)
        => pc' = "resend"]_vars

\* append_retry_is_disabled_when_server_state_has_changed: once the server
\* has executed the append, a refresh does not make the client send it again
\* (with no restart of the server involved).
NoRetryWhenChanged ==
  [][(pc = "refresh" /\ op.kind = "append" /\ ghost.execs = 1 /\ ~ipc.reset)
       => ~(pc' = "resend" /\ ipc' = ipc)]_vars

\* append_result_does_not_indicate_server_reset_when_result_extends_previous_input:
\* an answer that extends the previous raw input is not taken for a reset.
ExtensionIsNoReset ==
  (/\ pc = "answered" /\ op.key = "append"
   /\ comp.raw # <<>> /\ answer.text = comp.raw \o op.text)
    => ~LooksReset(comp.raw, op.prev, op.text, answer)
=============================================================================
