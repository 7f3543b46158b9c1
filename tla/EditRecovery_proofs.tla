------------------------ MODULE EditRecovery_proofs ------------------------
(***************************************************************************)
(* For every alphabet, bound and converter: EditRecovery keeps its types, an *)
(* edit sent with an exact picture of the composition is executed at most    *)
(* once, text of two sessions is never mixed, the client's text is the       *)
(* server's, and the whole implements EditOnce.                              *)
(***************************************************************************)
EXTENDS EditRecovery, SequenceTheorems, TLAPS

-----------------------------------------------------------------------------
(* The inductive invariant.                                                *)

Editing == {"context", "send", "reconnect", "refresh", "resend", "answered"}

\* While an edit is under way the request is one.
KindInv ==
  /\ pc \in Editing => op.kind \in {"append", "remove", "shrink"}
  /\ pc = "context" => op.kind # "remove"
  /\ Len(op.text) <= 1

\* There is room for the executions still possible.
RoomInv ==
  /\ Len(server.input) <= MaxLen
  /\ (pc \in {"context", "send"} /\ op.kind \in {"append", "shrink"})
       => Len(server.input) + 2 <= MaxLen
  /\ (pc \in {"reconnect", "refresh", "resend", "answered"} /\ op.kind = "shrink")
       => Len(server.input) + 2 <= MaxLen
  /\ (pc \in {"reconnect", "refresh", "resend"} /\ op.kind = "append")
       => Len(server.input) + 1 <= MaxLen

\* If the client's picture was exact, a first execution shows in the
\* composition, so the refresh that precedes a replay rules it out.
OnceInv ==
  /\ pc \in {"reconnect", "refresh", "resend"} => ghost.execs <= 1
  /\ (pc \in {"reconnect", "refresh"} /\ ghost.exact /\ ghost.execs = 1)
       => /\ server.input # op.prev.text
          /\ op.kind = "append" => server.input # <<>>
  /\ (pc = "resend" /\ ghost.exact) => ghost.execs = 0
  /\ AtMostOnce

IndInv == TypeOK /\ KindInv /\ RoomInv /\ OnceInv

-----------------------------------------------------------------------------
(* Lemmas about edits and answers.                                         *)

\* A sequence of tokens within the bound is a composition, so the converter's
\* clause boundary is defined on it.
LEMMA CompositionLemma ==
  ASSUME NEW s \in Seq(Tokens), Len(s) <= MaxLen
  PROVE  s \in Compositions
<1>1. Len(s) \in Nat /\ s \in [1..Len(s) -> Tokens]
  BY LenProperties
<1>2. Len(s) \in 0..MaxLen
  BY <1>1, MaxLenAssumption
<1> QED
  BY <1>1, <1>2 DEF Compositions

\* Both renderings of a composition are well-formed answers, and say which
\* composition they render.
LEMMA ViewLemma ==
  ASSUME NEW s \in Seq(Tokens), Len(s) <= MaxLen
  PROVE  /\ FullView(s) \in Views /\ FullView(s).text = s
         /\ PrefixView(s) \in Views /\ PrefixView(s).text = s
         /\ IsEmptyComposition(PrefixView(s)) => s = <<>>
<1>1. CASE s = <<>>
  BY <1>1 DEF FullView, PrefixView, NoView, Views
<1>2. CASE s # <<>>
  <2>1. Len(s) \in Nat
    BY LenProperties
  <2>2. FirstClause(s) \in Nat
    BY <1>2, <2>1, CompositionLemma, FirstClauseAssumption
  <2>3. FullView(s) = [text |-> s, counts |-> {FirstClause(s), Len(s)}]
    BY <1>2 DEF FullView
  <2>4. PrefixView(s) = [text |-> s, counts |-> {FirstClause(s)}]
    BY <1>2 DEF PrefixView
  <2> QED
    BY <1>2, <2>1, <2>2, <2>3, <2>4 DEF Views, IsEmptyComposition, NoView
<1> QED
  BY <1>1, <1>2

\* Dropping tokens at either end leaves a composition that is no longer.
LEMMA DropLemma ==
  ASSUME NEW s \in Seq(Tokens), NEW n \in Nat
  PROVE  /\ DropFirst(n, s) \in Seq(Tokens) /\ Len(DropFirst(n, s)) <= Len(s)
         /\ DropLast(s) \in Seq(Tokens) /\ Len(DropLast(s)) <= Len(s)
<1>1. Len(s) \in Nat
  BY LenProperties
<1>2. DropFirst(n, s) \in Seq(Tokens) /\ Len(DropFirst(n, s)) <= Len(s)
  BY <1>1, SubSeqProperties DEF DropFirst
<1>3. DropLast(s) \in Seq(Tokens) /\ Len(DropLast(s)) <= Len(s)
  BY <1>1, SubSeqProperties DEF DropLast
<1> QED
  BY <1>2, <1>3

\* What an edit makes of a composition: only an append makes it longer, by
\* the text it appends, and it never leaves it empty if it changes it.
LEMMA ApplyLemma ==
  ASSUME NEW e, NEW s \in Seq(Tokens),
         e.kind \in {"append", "remove", "shrink"},
         e.text \in Seq(Tokens), e.n \in Nat, Len(e.text) <= 1
  PROVE  /\ Apply(e, s) \in Seq(Tokens)
         /\ Len(Apply(e, s)) <= Len(s) + 1
         /\ e.kind # "append" => Len(Apply(e, s)) <= Len(s)
         /\ (e.kind = "append" /\ Apply(e, s) # s) => Apply(e, s) # <<>>
<1>1. Len(s) \in Nat /\ Len(e.text) \in Nat
  BY LenProperties
<1>2. CASE e.kind = "append"
  <2>1. Apply(e, s) = s \o e.text
    BY <1>2 DEF Apply
  <2>2. s \o e.text \in Seq(Tokens) /\ Len(s \o e.text) = Len(s) + Len(e.text)
    BY ConcatProperties
  <2>3. ASSUME s \o e.text = <<>> PROVE s \o e.text = s
    <3>1. Len(s) = 0
      BY <1>1, <2>2, <2>3
    <3> QED
      BY <2>3, <3>1, EmptySeq
  <2> QED
    BY <1>1, <1>2, <2>1, <2>2, <2>3
<1>3. CASE e.kind = "remove"
  BY <1>1, <1>3, DropLemma DEF Apply
<1>4. CASE e.kind = "shrink"
  BY <1>1, <1>4, DropLemma DEF Apply
<1> QED
  BY <1>2, <1>3, <1>4

-----------------------------------------------------------------------------
(* The server and the transport.                                           *)

\* A failed call leaves the composition as it was or as the request makes it,
\* and a server that is down stays as it is.
LEMMA LostCallLemma ==
  ASSUME TypeOK, NEW s \in Seq(Tokens), LostCall(s)
  PROVE  /\ server' \in [up : BOOLEAN, session : Nat \ {0}, input : Seq(Tokens)]
         /\ faults' \in 0..MaxFaults
         /\ server' = server \/ (server.up /\ server' = [server EXCEPT !.input = s])
         /\ (server.input)' \in {server.input, s}
<1>1. faults' \in 0..MaxFaults
  BY MaxFaultsAssumption DEF TypeOK, LostCall, Fault
<1>2. server' = server \/ (server.up /\ server' = [server EXCEPT !.input = s])
  BY DEF LostCall, Execute
<1> QED
  BY <1>1, <1>2 DEF TypeOK

\* Meeting a session leaves a well-formed service.
LEMMA ObserveLemma ==
  ASSUME NEW svc \in Service, NEW session \in Nat
  PROVE  Observe(svc, session) \in Service
BY DEF Observe, Service

\* The inductive invariant holds initially.
LEMMA InitInd == Init => IndInv
<1> SUFFICES ASSUME Init PROVE IndInv
  OBVIOUS
<1>1. <<>> \in Seq(Tokens) /\ Len(<<>>) = 0
  BY EmptySeq
<1>2. NoView \in Views
  BY <1>1 DEF NoView, Views
<1>3. TypeOK
  BY <1>1, <1>2, MaxFaultsAssumption
  DEF Init, TypeOK, Service, EmptyComposition, Steps, Ops, Ghost
<1>4. KindInv /\ RoomInv /\ OnceInv
  BY <1>1, MaxLenAssumption DEF Init, KindInv, RoomInv, OnceInv, AtMostOnce, Editing
<1> QED
  BY <1>3, <1>4 DEF IndInv

\* A crash empties the composition and makes the client's picture wrong.
LEMMA CrashInd == IndInv /\ Crash => IndInv'
<1> SUFFICES ASSUME IndInv, Crash PROVE IndInv'
  OBVIOUS
<1>1. <<>> \in Seq(Tokens) /\ Len(<<>>) = 0
  BY EmptySeq
<1>2. Len(server.input) \in Nat
  BY LenProperties DEF IndInv, TypeOK
<1>3. TypeOK'
  <2>1. server' \in [up : BOOLEAN, session : Nat \ {0}, input : Seq(Tokens)]
    BY <1>1 DEF IndInv, TypeOK, Crash
  <2>2. ghost' \in Ghost
    <3>1. ghost \in [execs : 0..2, exact : BOOLEAN, trusted : BOOLEAN, born : Nat]
      BY DEF IndInv, TypeOK, Ghost
    <3>2. 0 \in 0..2 /\ FALSE \in BOOLEAN
      OBVIOUS
    <3>3. ghost' = [ghost EXCEPT !.execs = 0, !.exact = FALSE]
      BY DEF Crash
    <3> QED
      BY <3>1, <3>2, <3>3, Zenon DEF Ghost
  <2>3. faults' \in 0..MaxFaults
    BY MaxFaultsAssumption DEF IndInv, TypeOK, Crash, Fault
  <2> QED
    BY <2>1, <2>2, <2>3 DEF IndInv, TypeOK, Crash
<1>4. KindInv' /\ RoomInv'
  BY <1>1, <1>2, MaxLenAssumption DEF IndInv, TypeOK, KindInv, RoomInv, Crash
<1>5. OnceInv'
  BY DEF IndInv, TypeOK, OnceInv, AtMostOnce, Crash, Ghost
<1> QED
  BY <1>3, <1>4, <1>5 DEF IndInv

LEMMA RestartInd == IndInv /\ Restart => IndInv'
<1> SUFFICES ASSUME IndInv, Restart PROVE IndInv'
  OBVIOUS
<1>1. TypeOK'
  <2>1. server.session \in Nat \ {0}
    BY DEF IndInv, TypeOK
  <2>2. server.session + 1 \in Nat \ {0}
    BY <2>1
  <2>3. server' \in [up : BOOLEAN, session : Nat \ {0}, input : Seq(Tokens)]
    BY <2>2 DEF IndInv, TypeOK, Restart
  <2> QED
    BY <2>3 DEF IndInv, TypeOK, Restart
<1>2. KindInv' /\ RoomInv' /\ OnceInv'
  BY DEF IndInv, TypeOK, KindInv, RoomInv, OnceInv, AtMostOnce, Restart
<1> QED
  BY <1>1, <1>2 DEF IndInv

-----------------------------------------------------------------------------
(* A key arrives.                                                          *)

LEMMA BeginInd == IndInv /\ Begin => IndInv'
<1> SUFFICES ASSUME IndInv, Begin PROVE IndInv'
  OBVIOUS
<1>0. <<>> \in Seq(Tokens) /\ Len(<<>>) = 0 /\ Len(server.input) \in Nat
  BY EmptySeq, LenProperties DEF IndInv, TypeOK
<1>1. ASSUME NEW t \in Tokens, BeginAppend(t) PROVE IndInv'
  <2>1. <<t>> \in Seq(Tokens) /\ Len(<<t>>) = 1
    OBVIOUS
  <2>2. TypeOK'
    BY <1>1, <2>1 DEF IndInv, TypeOK, BeginAppend, NewOp, Ops, Steps, Service
  <2>3. KindInv' /\ RoomInv'
    BY <1>0, <1>1, <2>1 DEF IndInv, TypeOK, KindInv, RoomInv, BeginAppend, RoomToType, NewOp, Editing
  <2>4. OnceInv'
    BY <1>1 DEF IndInv, OnceInv, AtMostOnce, BeginAppend, NewOp
  <2> QED
    BY <2>2, <2>3, <2>4 DEF IndInv
<1>2. ASSUME NEW n \in 1..MaxLen, NEW text \in {<<>>} \union {<<t>> : t \in Tokens},
             BeginShrink(n, text)
      PROVE  IndInv'
  <2>1. text \in Seq(Tokens) /\ Len(text) <= 1 /\ n \in Nat
    <3>1. ASSUME NEW t \in Tokens PROVE <<t>> \in Seq(Tokens) /\ Len(<<t>>) = 1
      OBVIOUS
    <3>2. CASE text = <<>>
      BY <1>0, <3>2, MaxLenAssumption
    <3>3. CASE text # <<>>
      <4>1. PICK t \in Tokens : text = <<t>>
        BY <3>3
      <4> QED
        BY <3>1, <4>1, MaxLenAssumption
    <3> QED
      BY <3>2, <3>3
  <2>2. TypeOK'
    BY <1>2, <2>1 DEF IndInv, TypeOK, BeginShrink, NewOp, Ops, Steps, Service
  <2>3. KindInv' /\ RoomInv'
    BY <1>0, <1>2, <2>1 DEF IndInv, TypeOK, KindInv, RoomInv, BeginShrink, RoomToType, NewOp, Editing
  <2>4. OnceInv'
    BY <1>2 DEF IndInv, OnceInv, AtMostOnce, BeginShrink, NewOp
  <2> QED
    BY <2>2, <2>3, <2>4 DEF IndInv
<1>3. ASSUME BeginRemove PROVE IndInv'
  <2>1. TypeOK'
    <3>1. ipc' \in Service
      BY <1>3 DEF IndInv, TypeOK, BeginRemove, Service
    <3>2. op' \in Ops /\ pc' \in Steps
      <4>1. comp.cands \in Views
        BY DEF IndInv, TypeOK
      <4>2. NewOp("remove", "clear", <<>>, 0) \in Ops
        BY <1>0, <4>1 DEF NewOp, Ops
      <4>3. NewOp("remove", "remove", <<>>, 0) \in Ops
        BY <1>0, <4>1 DEF NewOp, Ops
      <4>4. [NewOp("remove", "clear", <<>>, 0) EXCEPT !.after = "abandon"] \in Ops
        BY <4>2 DEF Ops
      <4> QED
        BY <1>3, <4>3, <4>4 DEF BeginRemove, Steps
    <3> QED
      BY <1>3, <3>1, <3>2 DEF IndInv, TypeOK, BeginRemove
  <2>2. KindInv' /\ RoomInv'
    BY <1>0, <1>3 DEF IndInv, TypeOK, KindInv, RoomInv, BeginRemove, NewOp, Editing
  <2>3. OnceInv'
    BY <1>3 DEF IndInv, OnceInv, AtMostOnce, BeginRemove, NewOp
  <2> QED
    BY <2>1, <2>2, <2>3 DEF IndInv
<1>4. ASSUME NEW key \in {"end", "sink"}, BeginEnd(key) PROVE IndInv'
  <2>1. TypeOK'
    BY <1>0, <1>4 DEF IndInv, TypeOK, BeginEnd, NewOp, Ops, Steps, Service
  <2>2. KindInv' /\ RoomInv'
    BY <1>0, <1>4 DEF IndInv, TypeOK, KindInv, RoomInv, BeginEnd, NewOp, Editing
  <2>3. OnceInv'
    BY <1>4 DEF IndInv, OnceInv, AtMostOnce, BeginEnd, NewOp
  <2> QED
    BY <2>1, <2>2, <2>3 DEF IndInv
<1> QED
  BY <1>1, <1>2, <1>3, <1>4 DEF Begin

-----------------------------------------------------------------------------
(* The request and its recovery.                                           *)

\* Facts every action below starts from.
LEMMA EditFacts ==
  ASSUME IndInv, pc \in Editing
  PROVE  /\ op.kind \in {"append", "remove", "shrink"}
         /\ op.text \in Seq(Tokens) /\ Len(op.text) <= 1 /\ op.n \in Nat
         /\ op.prev \in Views
         /\ server.input \in Seq(Tokens) /\ Len(server.input) \in Nat
         /\ Len(server.input) <= MaxLen
<1>1. server.input \in Seq(Tokens) /\ Len(server.input) \in Nat
  BY LenProperties DEF IndInv, TypeOK
<1> QED
  BY <1>1 DEF IndInv, TypeOK, KindInv, RoomInv, Ops

\* The ghost record stays well-formed when its fields do.
LEMMA GhostLemma ==
  ASSUME ghost \in Ghost, NEW n \in 0..2, NEW x \in BOOLEAN, NEW y \in BOOLEAN, NEW k \in Nat
  PROVE  /\ [ghost EXCEPT !.execs = n] \in Ghost
         /\ [ghost EXCEPT !.execs = n, !.exact = x] \in Ghost
         /\ [[ghost EXCEPT !.execs = n, !.exact = x] EXCEPT !.trusted = y] \in Ghost
         /\ [ghost EXCEPT !.trusted = y] \in Ghost
         /\ [ghost EXCEPT !.trusted = y, !.born = k] \in Ghost
         /\ [ghost EXCEPT !.born = k, !.trusted = y] \in Ghost
BY Zenon DEF Ghost

LEMMA UpdateContextInd == IndInv /\ UpdateContext => IndInv'
<1> SUFFICES ASSUME IndInv, UpdateContext PROVE IndInv'
  OBVIOUS
<1>1. NoView \in Views
  BY EmptySeq DEF NoView, Views
<1>2. PICK svc \in {ipc} \union (IF server.up THEN {Observe(ipc, server.session)} ELSE {}) :
         /\ stored' = svc
         /\ IF op.key = "shrink" /\ svc.reset
              THEN /\ ipc' = [svc EXCEPT !.reset = FALSE]
                   /\ op' = [op EXCEPT !.kind = "append", !.prev = NoView, !.fresh = TRUE]
              ELSE /\ ipc' = svc
                   /\ op' = op
  BY DEF UpdateContext
<1>3. svc \in Service
  BY <1>2, ObserveLemma DEF IndInv, TypeOK
<1>4. ipc' \in Service /\ stored' \in Service
  BY <1>2, <1>3 DEF Service
<1>5. op' \in Ops /\ op'.text = op.text
  BY <1>1, <1>2 DEF IndInv, TypeOK, Ops
<1>6. op'.kind \in {op.kind, "append"}
  BY <1>2 DEF IndInv, TypeOK, Ops
<1>7. op.kind \in {"append", "shrink"} /\ pc = "context" /\ pc' = "send"
  BY DEF IndInv, KindInv, UpdateContext, Editing
<1>8. TypeOK'
  BY <1>4, <1>5 DEF IndInv, TypeOK, UpdateContext, Steps
<1>9. KindInv'
  BY <1>5, <1>6 DEF IndInv, KindInv, UpdateContext, Editing
<1>10. RoomInv'
  BY <1>5, <1>7 DEF IndInv, RoomInv, UpdateContext
<1>11. OnceInv'
  BY DEF IndInv, OnceInv, AtMostOnce, UpdateContext
<1> QED
  BY <1>8, <1>9, <1>10, <1>11 DEF IndInv

\* The first attempt, answered or not: it starts the count of executions, and
\* judges the client's picture of the composition.
LEMMA FirstSentLemma ==
  ASSUME IndInv, pc = "send", (server.input)' \in {server.input, Apply(op, server.input)},
         NEW y \in BOOLEAN
  PROVE  /\ FirstSent \in Ghost /\ FirstSent.execs = Changes
         /\ FirstSent.exact = (server.up /\ op.prev.text = server.input)
         /\ [FirstSent EXCEPT !.trusted = y] \in Ghost
         /\ [FirstSent EXCEPT !.trusted = y].execs = Changes
         /\ [FirstSent EXCEPT !.trusted = y].exact = FirstSent.exact
         /\ Changes \in {0, 1}
<1>1. Changes \in {0, 1} /\ Changes \in 0..2
  BY DEF Changes
<1>2. ghost \in Ghost
  BY DEF IndInv, TypeOK
<1>3. (server.up /\ op.prev.text = server.input) \in BOOLEAN
  OBVIOUS
<1> DEFINE x == server.up /\ op.prev.text = server.input
           f == [ghost EXCEPT !.execs = Changes, !.exact = x]
           g == [f EXCEPT !.trusted = y]
<1>4. f \in Ghost /\ g \in Ghost
  BY <1>1, <1>2, <1>3, GhostLemma, Zenon
<1>5. f.execs = Changes /\ f.exact = x
  BY <1>2 DEF Ghost
<1>6. g.execs = f.execs /\ g.exact = f.exact
  BY <1>4 DEF Ghost
<1>7. FirstSent = f
  BY Zenon DEF FirstSent
<1> QED
  BY <1>1, <1>4, <1>5, <1>6, <1>7, Zenon

\* What both outcomes of the first attempt leave behind.
LEMMA FirstAttemptInd ==
  ASSUME IndInv, pc = "send", op' = op, pc' \in {"answered", "reconnect"},
         (server.input)' \in {server.input, Apply(op, server.input)},
         ~server.up => (server.input)' = server.input,
         ghost'.execs = Changes,
         ghost'.exact = (server.up /\ op.prev.text = server.input)
  PROVE  KindInv' /\ RoomInv' /\ OnceInv'
<1>1. pc \in Editing
  BY DEF Editing
<1> DEFINE s == server.input
           t == (server.input)'
<1>2. /\ s \in Seq(Tokens) /\ Len(s) \in Nat /\ Len(s) <= MaxLen
      /\ op.kind \in {"append", "remove", "shrink"}
  BY <1>1, EditFacts
<1>3. /\ Apply(op, s) \in Seq(Tokens)
      /\ Len(Apply(op, s)) <= Len(s) + 1
      /\ op.kind # "append" => Len(Apply(op, s)) <= Len(s)
      /\ (op.kind = "append" /\ Apply(op, s) # s) => Apply(op, s) # <<>>
  BY <1>1, EditFacts, ApplyLemma
<1>4. /\ t \in Seq(Tokens) /\ Len(t) \in Nat
      /\ Len(t) <= Len(s) + 1
      /\ op.kind # "append" => Len(t) <= Len(s)
      /\ (op.kind = "append" /\ t # s) => t # <<>>
  BY <1>2, <1>3, LenProperties
<1>5. KindInv'
  BY <1>2 DEF IndInv, KindInv, Editing
<1>6. RoomInv'
  BY <1>2, <1>4, MaxLenAssumption DEF IndInv, RoomInv
<1>7. Changes = IF t = s THEN 0 ELSE 1
  BY DEF Changes
<1>8. ghost'.execs <= 1
  BY <1>7
<1>9. OnceInv'
  <2>1. ghost'.exact => op.prev.text = s
    BY Zenon
  <2>2. ghost'.execs = 1 => t # s
    BY <1>7
  <2>3. op'.prev.text = op.prev.text /\ op'.kind = op.kind /\ pc' # "resend"
    OBVIOUS
  <2> QED
    BY <1>4, <1>8, <2>1, <2>2, <2>3 DEF OnceInv, AtMostOnce
<1> QED
  BY <1>5, <1>6, <1>9

LEMMA SendInd == IndInv /\ Send => IndInv'
<1> SUFFICES ASSUME IndInv, Send PROVE IndInv'
  OBVIOUS
<1> DEFINE s == Apply(op, server.input)
<1>1. pc = "send" /\ pc \in Editing /\ server.up /\ pc' = "answered" /\ op' = op
  BY DEF Send, Answered, Editing
<1>2. s \in Seq(Tokens) /\ Len(s) \in Nat
  BY <1>1, EditFacts, ApplyLemma, LenProperties
<1>3. server' = [server EXCEPT !.input = s] /\ answer' = FullView(s)
  BY DEF Send, Answered, Execute
<1>4. (server.input)' = s
  BY <1>3 DEF IndInv, TypeOK
<1>5. Len(s) <= MaxLen
  <2>1. Len(s) <= Len(server.input) + 1 /\ (op.kind # "append" => Len(s) <= Len(server.input))
    BY <1>1, EditFacts, ApplyLemma
  <2> QED
    BY <1>1, <1>2, <2>1, EditFacts, MaxLenAssumption DEF IndInv, RoomInv
<1>6. ghost' = FirstSent
  BY DEF Send
<1>7. ghost' \in Ghost /\ ghost'.execs = Changes
      /\ ghost'.exact = (server.up /\ op.prev.text = server.input)
  BY <1>1, <1>4, <1>6, FirstSentLemma, Zenon
<1>8. TypeOK'
  <2>1. answer' \in Views
    BY <1>2, <1>3, <1>5, ViewLemma
  <2>2. ipc' \in Service
    BY ObserveLemma DEF IndInv, TypeOK, Send, Answered
  <2>3. server' \in [up : BOOLEAN, session : Nat \ {0}, input : Seq(Tokens)]
    BY <1>2, <1>3 DEF IndInv, TypeOK
  <2> QED
    BY <1>1, <1>7, <2>1, <2>2, <2>3 DEF IndInv, TypeOK, Send, Steps
<1>9. KindInv' /\ RoomInv' /\ OnceInv'
  BY <1>1, <1>4, <1>7, FirstAttemptInd
<1> QED
  BY <1>8, <1>9 DEF IndInv

LEMMA SendFailsInd == IndInv /\ SendFails => IndInv'
<1> SUFFICES ASSUME IndInv, SendFails PROVE IndInv'
  OBVIOUS
<1> DEFINE s == Apply(op, server.input)
<1>1. pc = "send" /\ pc \in Editing /\ pc' = "reconnect" /\ op' = op /\ LostCall(s)
  BY DEF SendFails, Editing
<1>2. s \in Seq(Tokens)
  BY <1>1, EditFacts, ApplyLemma
<1>3. /\ server' \in [up : BOOLEAN, session : Nat \ {0}, input : Seq(Tokens)]
      /\ faults' \in 0..MaxFaults
      /\ server' = server \/ (server.up /\ server' = [server EXCEPT !.input = s])
      /\ (server.input)' \in {server.input, s}
  BY <1>1, <1>2, LostCallLemma DEF IndInv
<1>4. (ghost.trusted /\ CanJudge) \in BOOLEAN
  OBVIOUS
<1>5. ghost' = [FirstSent EXCEPT !.trusted = ghost.trusted /\ CanJudge]
  BY DEF SendFails, FirstSent, IndInv, TypeOK, Ghost
<1>6. ghost' \in Ghost /\ ghost'.execs = Changes
      /\ ghost'.exact = (server.up /\ op.prev.text = server.input)
  BY <1>1, <1>3, <1>4, <1>5, FirstSentLemma, Zenon
<1>7. TypeOK'
  BY <1>1, <1>3, <1>6 DEF IndInv, TypeOK, SendFails, Steps
<1>8. KindInv' /\ RoomInv' /\ OnceInv'
  BY <1>1, <1>3, <1>6, FirstAttemptInd
<1> QED
  BY <1>7, <1>8 DEF IndInv

\* Reconnecting changes only where the handler is.
LEMMA ReconnectInd == IndInv /\ Reconnect => IndInv'
<1> SUFFICES ASSUME IndInv, Reconnect PROVE IndInv'
  OBVIOUS
<1>1. pc = "reconnect" /\ pc' \in {"refresh", "failed"}
  BY DEF Reconnect
<1>2. TypeOK'
  BY <1>1 DEF IndInv, TypeOK, Reconnect, Steps
<1>3. KindInv' /\ RoomInv' /\ OnceInv'
  BY <1>1 DEF IndInv, KindInv, RoomInv, OnceInv, AtMostOnce, Reconnect, Editing
<1> QED
  BY <1>2, <1>3 DEF IndInv

\* The heart of the matter: a refresh that leads to a replay showed the very
\* composition the client had in mind, so an exact edit has not been executed.
LEMMA RefreshInd == IndInv /\ Refresh => IndInv'
<1> SUFFICES ASSUME IndInv, Refresh PROVE IndInv'
  OBVIOUS
<1>1. pc = "refresh" /\ pc \in Editing
  BY DEF Refresh, Editing
<1>2. /\ server.input \in Seq(Tokens) /\ Len(server.input) <= MaxLen
      /\ op.kind \in {"append", "remove", "shrink"}
  BY <1>1, EditFacts
<1>3. /\ answer' = PrefixView(server.input)
      /\ answer' \in Views /\ answer'.text = server.input
      /\ IsEmptyComposition(answer') => server.input = <<>>
  BY <1>2, ViewLemma DEF Refresh
<1> DEFINE svc == Observe(ipc, server.session)
           wiped == op.kind = "append" /\ IsEmptyComposition(answer')
<1>4. svc \in Service
  BY ObserveLemma DEF IndInv, TypeOK
<1>5. /\ ipc' = [svc EXCEPT !.reset = @ \/ wiped]
      /\ pc' = IF ShouldRetry(op.kind, op.prev, answer') THEN "resend" ELSE "answered"
  BY DEF Refresh
<1>6. ipc' \in Service
  <2>1. (svc.reset \/ wiped) \in BOOLEAN
    OBVIOUS
  <2> QED
    BY <1>4, <1>5, <2>1 DEF Service
<1>7. TypeOK'
  BY <1>3, <1>5, <1>6 DEF IndInv, TypeOK, Refresh, Steps
<1>8. KindInv' /\ RoomInv'
  BY <1>1, <1>5 DEF IndInv, KindInv, RoomInv, Refresh, Editing
<1>9. ASSUME pc' = "resend", ghost.exact PROVE ghost.execs = 0
  <2>1. ShouldRetry(op.kind, op.prev, answer')
    BY <1>5, <1>9
  <2>2. op.prev.text = server.input \/ (op.kind = "append" /\ server.input = <<>>)
    BY <1>3, <2>1 DEF ShouldRetry, ShouldRetryAppend, ShouldRetryEdit
  <2>3. ghost.execs # 1
    BY <1>1, <1>9, <2>2 DEF IndInv, OnceInv
  <2>4. ghost.execs <= 1 /\ ghost.execs \in 0..2
    BY <1>1 DEF IndInv, OnceInv, TypeOK, Ghost
  <2> QED
    BY <2>3, <2>4
<1>10. OnceInv'
  <2>1. pc' \in {"resend", "answered"} /\ ghost' = ghost
    BY <1>5 DEF Refresh
  <2> QED
    BY <1>1, <1>9, <2>1 DEF IndInv, OnceInv, AtMostOnce
<1> QED
  BY <1>7, <1>8, <1>10 DEF IndInv

LEMMA RefreshFailsInd == IndInv /\ RefreshFails => IndInv'
<1> SUFFICES ASSUME IndInv, RefreshFails PROVE IndInv'
  OBVIOUS
<1>1. /\ pc = "refresh" /\ pc \in Editing /\ pc' = "failed" /\ LostCall(server.input)
      /\ UNCHANGED <<stored, ipc, comp, op, answer, ghost>>
  BY DEF RefreshFails, Editing
<1>2. /\ server' \in [up : BOOLEAN, session : Nat \ {0}, input : Seq(Tokens)]
      /\ faults' \in 0..MaxFaults /\ (server.input)' = server.input
  BY <1>1, LostCallLemma DEF IndInv, TypeOK
<1>3. TypeOK'
  BY <1>1, <1>2 DEF IndInv, TypeOK, Steps
<1>4. KindInv' /\ RoomInv' /\ OnceInv'
  BY <1>1, <1>2 DEF IndInv, KindInv, RoomInv, OnceInv, AtMostOnce, Editing
<1> QED
  BY <1>3, <1>4 DEF IndInv

\* What both outcomes of the replay leave behind.
LEMMA ReplayInd ==
  ASSUME IndInv, pc = "resend", op' = op, pc' \in {"answered", "failed"},
         (server.input)' \in {server.input, Apply(op, server.input)},
         ghost' = [ghost EXCEPT !.execs = ghost.execs + Changes]
  PROVE  KindInv' /\ RoomInv' /\ OnceInv' /\ ghost' \in Ghost
<1>1. pc \in Editing
  BY DEF Editing
<1> DEFINE s == server.input
           t == (server.input)'
<1>2. /\ s \in Seq(Tokens) /\ Len(s) \in Nat /\ Len(s) <= MaxLen
      /\ op.kind \in {"append", "remove", "shrink"}
  BY <1>1, EditFacts
<1>3. /\ Apply(op, s) \in Seq(Tokens)
      /\ Len(Apply(op, s)) <= Len(s) + 1
      /\ op.kind # "append" => Len(Apply(op, s)) <= Len(s)
  BY <1>1, EditFacts, ApplyLemma
<1>4. /\ t \in Seq(Tokens) /\ Len(t) \in Nat
      /\ Len(t) <= Len(s) + 1
      /\ op.kind # "append" => Len(t) <= Len(s)
  BY <1>2, <1>3, LenProperties
<1>5. Changes \in {0, 1}
  BY DEF Changes
<1>6. ghost \in Ghost /\ ghost.execs \in 0..2 /\ ghost.execs <= 1
  BY DEF IndInv, TypeOK, Ghost, OnceInv
<1>7. ghost.execs + Changes \in 0..2
  BY <1>5, <1>6
<1>8. ghost' \in Ghost
  BY <1>6, <1>7, GhostLemma, Zenon
<1>9. ghost'.execs = ghost.execs + Changes /\ ghost'.exact = ghost.exact
  BY <1>6 DEF Ghost
<1>10. KindInv'
  BY <1>2 DEF IndInv, KindInv, Editing
<1>11. RoomInv'
  BY <1>2, <1>4, MaxLenAssumption DEF IndInv, RoomInv
<1>12. OnceInv'
  <2>1. ghost.exact => ghost.execs = 0
    BY DEF IndInv, OnceInv
  <2> QED
    BY <1>5, <1>9, <2>1 DEF OnceInv, AtMostOnce
<1> QED
  BY <1>8, <1>10, <1>11, <1>12

LEMMA ResendInd == IndInv /\ Resend => IndInv'
<1> SUFFICES ASSUME IndInv, Resend PROVE IndInv'
  OBVIOUS
<1> DEFINE s == Apply(op, server.input)
<1>1. pc = "resend" /\ pc \in Editing /\ pc' = "answered" /\ op' = op
  BY DEF Resend, Editing
<1>2. s \in Seq(Tokens) /\ Len(s) \in Nat
  BY <1>1, EditFacts, ApplyLemma, LenProperties
<1>3. server' = [server EXCEPT !.input = s] /\ answer' = FullView(s)
  BY DEF Resend, Answered, Execute
<1>4. (server.input)' = s
  BY <1>3 DEF IndInv, TypeOK
<1>5. Len(s) <= MaxLen
  <2>1. Len(s) <= Len(server.input) + 1 /\ (op.kind # "append" => Len(s) <= Len(server.input))
    BY <1>1, EditFacts, ApplyLemma
  <2> QED
    BY <1>1, <1>2, <2>1, EditFacts, MaxLenAssumption DEF IndInv, RoomInv
<1>6. KindInv' /\ RoomInv' /\ OnceInv' /\ ghost' \in Ghost
  BY <1>1, <1>4, ReplayInd DEF Resend
<1>7. TypeOK'
  <2>1. answer' \in Views
    BY <1>2, <1>3, <1>5, ViewLemma
  <2>2. ipc' \in Service
    BY ObserveLemma DEF IndInv, TypeOK, Resend, Answered
  <2>3. server' \in [up : BOOLEAN, session : Nat \ {0}, input : Seq(Tokens)]
    BY <1>2, <1>3 DEF IndInv, TypeOK
  <2> QED
    BY <1>1, <1>6, <2>1, <2>2, <2>3 DEF IndInv, TypeOK, Resend, Steps
<1> QED
  BY <1>6, <1>7 DEF IndInv

LEMMA ResendFailsInd == IndInv /\ ResendFails => IndInv'
<1> SUFFICES ASSUME IndInv, ResendFails PROVE IndInv'
  OBVIOUS
<1> DEFINE s == Apply(op, server.input)
<1>1. /\ pc = "resend" /\ pc \in Editing /\ pc' = "failed" /\ LostCall(s)
      /\ UNCHANGED <<stored, ipc, comp, op, answer>>
  BY DEF ResendFails, Editing
<1>2. s \in Seq(Tokens)
  BY <1>1, EditFacts, ApplyLemma
<1>3. /\ server' \in [up : BOOLEAN, session : Nat \ {0}, input : Seq(Tokens)]
      /\ faults' \in 0..MaxFaults /\ (server.input)' \in {server.input, s}
  BY <1>1, <1>2, LostCallLemma DEF IndInv
<1>4. KindInv' /\ RoomInv' /\ OnceInv' /\ ghost' \in Ghost
  BY <1>1, <1>3, ReplayInd DEF ResendFails
<1>5. TypeOK'
  BY <1>1, <1>3, <1>4 DEF IndInv, TypeOK, Steps
<1> QED
  BY <1>4, <1>5 DEF IndInv

-----------------------------------------------------------------------------
(* The handler goes on with the answer.                                    *)

\* Ending the handler, whatever raw input it stores.
LEMMA CommitInd ==
  ASSUME IndInv, pc = "answered", NEW raw \in Seq(Tokens), NEW kept \in BOOLEAN,
         Commit(raw, kept), UNCHANGED <<server, answer, faults>>
  PROVE  IndInv'
<1>1. ipc' \in Service /\ stored' \in Service
  BY DEF Commit, IndInv, TypeOK, Service
<1>2. comp' \in [raw : Seq(Tokens), cands : Views, composing : BOOLEAN]
  BY DEF Commit, IndInv, TypeOK
<1>3. ghost' \in Ghost /\ ghost'.execs = ghost.execs /\ ghost'.exact = ghost.exact
  <2> DEFINE b == IF kept /\ comp.raw # <<>> THEN ghost.born ELSE ipc.session
             y == ghost.trusted /\ (kept \/ ipc.reset \/ server.input = raw)
  <2>1. ghost \in Ghost /\ b \in Nat
    BY DEF IndInv, TypeOK, Ghost, Service
  <2>2. y \in BOOLEAN
    OBVIOUS
  <2>3. ghost' = [ghost EXCEPT !.born = b, !.trusted = y]
    BY <2>1 DEF Commit, Ghost
  <2>4. ghost' \in Ghost
    BY <2>1, <2>2, <2>3, Zenon DEF Ghost
  <2> QED
    BY <2>1, <2>3, <2>4 DEF Ghost
<1>4. pc' = "idle" /\ op' = op
  BY DEF Commit
<1>5. TypeOK'
  BY <1>1, <1>2, <1>3, <1>4 DEF IndInv, TypeOK, Steps
<1>6. KindInv' /\ RoomInv' /\ OnceInv'
  BY <1>3, <1>4 DEF IndInv, KindInv, RoomInv, OnceInv, AtMostOnce, Editing
<1> QED
  BY <1>5, <1>6 DEF IndInv

LEMMA AbandonInd ==
  ASSUME IndInv, pc = "answered", Abandon, UNCHANGED <<server, answer, faults>>
  PROVE  IndInv'
<1>1. ipc' \in Service
  BY DEF Abandon, IndInv, TypeOK, Service
<1>2. op' \in Ops /\ op'.text = op.text
  BY DEF Abandon, IndInv, TypeOK, Ops
<1>3. pc' = "clear" /\ UNCHANGED <<stored, comp, ghost>>
  BY DEF Abandon
<1>4. TypeOK'
  BY <1>1, <1>2, <1>3 DEF IndInv, TypeOK, Steps
<1>5. KindInv' /\ RoomInv' /\ OnceInv'
  BY <1>2, <1>3 DEF IndInv, KindInv, RoomInv, OnceInv, AtMostOnce, Editing
<1> QED
  BY <1>4, <1>5 DEF IndInv

LEMMA FinishAppendInd == IndInv /\ FinishAppend => IndInv'
<1> SUFFICES ASSUME IndInv, FinishAppend PROVE IndInv'
  OBVIOUS
<1>1. pc = "answered" /\ UNCHANGED <<server, answer, faults>>
  BY DEF FinishAppend
<1>2. op.text \in Seq(Tokens) /\ comp.raw \o op.text \in Seq(Tokens)
  BY ConcatProperties DEF IndInv, TypeOK, Ops
<1>3. Abandon \/ Commit(op.text, FALSE) \/ Commit(comp.raw \o op.text, TRUE)
  BY Zenon DEF FinishAppend
<1> QED
  BY <1>1, <1>2, <1>3, AbandonInd, CommitInd

LEMMA FinishRemoveInd == IndInv /\ FinishRemove => IndInv'
<1> SUFFICES ASSUME IndInv, FinishRemove PROVE IndInv'
  OBVIOUS
<1>1. pc = "answered" /\ UNCHANGED <<server, answer, faults>>
  BY DEF FinishRemove
<1>2. DropLast(comp.raw) \in Seq(Tokens)
  BY DropLemma, 0 \in Nat DEF IndInv, TypeOK
<1>3. Abandon \/ Commit(DropLast(comp.raw), TRUE)
  BY Zenon DEF FinishRemove
<1> QED
  BY <1>1, <1>2, <1>3, AbandonInd, CommitInd

LEMMA FinishShrinkInd == IndInv /\ FinishShrink => IndInv'
<1> SUFFICES ASSUME IndInv, FinishShrink PROVE IndInv'
  OBVIOUS
<1>1. /\ pc = "answered" /\ op.kind = "shrink" /\ pc' = "send"
      /\ op' = [op EXCEPT !.kind = "append", !.prev = answer, !.fresh = IsEmptyComposition(answer)]
      /\ UNCHANGED <<server, stored, ipc, comp, answer, faults, ghost>>
  BY DEF FinishShrink
<1>2. IsEmptyComposition(answer) \in BOOLEAN
  BY DEF IsEmptyComposition
<1>3. op' \in Ops /\ op'.text = op.text /\ op'.kind = "append"
  BY <1>1, <1>2 DEF IndInv, TypeOK, Ops
<1>4. TypeOK'
  BY <1>1, <1>3 DEF IndInv, TypeOK, Steps
<1>5. KindInv' /\ RoomInv' /\ OnceInv'
  BY <1>1, <1>3 DEF IndInv, KindInv, RoomInv, OnceInv, AtMostOnce, Editing
<1> QED
  BY <1>4, <1>5 DEF IndInv

LEMMA FinishShrinkAppendInd == IndInv /\ FinishShrinkAppend => IndInv'
<1> SUFFICES ASSUME IndInv, FinishShrinkAppend PROVE IndInv'
  OBVIOUS
<1>1. pc = "answered" /\ UNCHANGED <<server, answer, faults>>
  BY DEF FinishShrinkAppend
<1>2. op.text \in Seq(Tokens) /\ comp.raw \in Seq(Tokens) /\ op.n \in Nat
  BY DEF IndInv, TypeOK, Ops
<1>3. DropFirst(op.n, comp.raw) \o op.text \in Seq(Tokens)
  BY <1>2, DropLemma, ConcatProperties
<1>4. Abandon \/ Commit(op.text, FALSE) \/ Commit(DropFirst(op.n, comp.raw) \o op.text, TRUE)
  BY Zenon DEF FinishShrinkAppend
<1> QED
  BY <1>1, <1>2, <1>3, <1>4, AbandonInd, CommitInd

-----------------------------------------------------------------------------
(* clear_text and the recovery.                                            *)

LEMMA ClearDoneInd ==
  ASSUME IndInv, pc \in {"clear", "reclear"}, ClearDone
  PROVE  IndInv'
<1>1. <<>> \in Seq(Tokens) /\ Len(<<>>) = 0 /\ NoView \in Views
  BY EmptySeq DEF NoView, Views
<1>2. server' = [server EXCEPT !.input = <<>>]
  BY DEF ClearDone, Execute
<1>3. /\ server' \in [up : BOOLEAN, session : Nat \ {0}, input : Seq(Tokens)]
      /\ (server.input)' = <<>>
  BY <1>1, <1>2 DEF IndInv, TypeOK
<1>4. ipc' \in Service /\ stored' \in Service
  BY ObserveLemma DEF IndInv, TypeOK, ClearDone
<1>5. comp' \in [raw : Seq(Tokens), cands : Views, composing : BOOLEAN]
  BY <1>1 DEF IndInv, TypeOK, ClearDone, EmptyComposition
<1>6. ghost' \in Ghost /\ ghost'.execs = ghost.execs /\ ghost'.exact = ghost.exact
  <2>1. ghost \in Ghost /\ ghost' = [ghost EXCEPT !.trusted = TRUE, !.born = 0]
    BY DEF IndInv, TypeOK, ClearDone
  <2>2. [ghost EXCEPT !.trusted = TRUE, !.born = 0] \in Ghost
    <3>1. TRUE \in BOOLEAN /\ 0 \in Nat
      OBVIOUS
    <3> QED
      BY <2>1, <3>1, Zenon DEF Ghost
  <2> QED
    BY <2>1, <2>2 DEF Ghost
<1>7. pc' = "idle" /\ UNCHANGED <<op, answer, faults>>
  BY DEF ClearDone
<1>8. TypeOK'
  BY <1>3, <1>4, <1>5, <1>6, <1>7 DEF IndInv, TypeOK, Steps
<1>9. KindInv' /\ RoomInv' /\ OnceInv'
  BY <1>1, <1>3, <1>6, <1>7, MaxLenAssumption
  DEF IndInv, KindInv, RoomInv, OnceInv, AtMostOnce, Editing
<1> QED
  BY <1>8, <1>9 DEF IndInv

\* A clear_text whose call fails, whatever the handler does next.
LEMMA ClearLostInd ==
  ASSUME IndInv, pc \in {"clear", "reclear"}, LostCall(<<>>),
         pc' \in {"reclear", "idle", "failed"},
         ghost' = ghost \/ ghost' = [ghost EXCEPT !.trusted = FALSE],
         UNCHANGED <<stored, ipc, comp, op, answer>>
  PROVE  IndInv'
<1>1. <<>> \in Seq(Tokens) /\ Len(<<>>) = 0
  BY EmptySeq
<1>2. /\ server' \in [up : BOOLEAN, session : Nat \ {0}, input : Seq(Tokens)]
      /\ faults' \in 0..MaxFaults /\ (server.input)' \in {server.input, <<>>}
  BY <1>1, LostCallLemma DEF IndInv
<1>3. ghost' \in Ghost /\ ghost'.execs = ghost.execs /\ ghost'.exact = ghost.exact
  <2>1. ghost \in Ghost
    BY DEF IndInv, TypeOK
  <2>2. ghost' \in Ghost
    <3>1. [ghost EXCEPT !.trusted = FALSE] \in Ghost
      BY <2>1, Zenon DEF Ghost
    <3> QED
      BY <2>1, <3>1
  <2> QED
    BY <2>1, <2>2 DEF Ghost
<1>4. TypeOK'
  BY <1>2, <1>3 DEF IndInv, TypeOK, Steps
<1>5. KindInv' /\ RoomInv' /\ OnceInv'
  BY <1>1, <1>2, <1>3, MaxLenAssumption
  DEF IndInv, KindInv, RoomInv, OnceInv, AtMostOnce, Editing
<1> QED
  BY <1>4, <1>5 DEF IndInv

LEMMA RecoverInd == IndInv /\ Recover => IndInv'
<1> SUFFICES ASSUME IndInv, Recover PROVE IndInv'
  OBVIOUS
<1>1. <<>> \in Seq(Tokens) /\ NoView \in Views
  BY EmptySeq DEF NoView, Views
<1>2. EmptyComposition \in [raw : Seq(Tokens), cands : Views, composing : BOOLEAN]
  BY <1>1 DEF EmptyComposition
<1>3. op' \in Ops /\ op'.text = op.text
  BY DEF IndInv, TypeOK, Ops, Recover
<1>4. TypeOK'
  BY <1>2, <1>3 DEF IndInv, TypeOK, Recover, Steps
<1>5. KindInv' /\ RoomInv' /\ OnceInv'
  BY <1>3 DEF IndInv, KindInv, RoomInv, OnceInv, AtMostOnce, Recover, Editing
<1> QED
  BY <1>4, <1>5 DEF IndInv

-----------------------------------------------------------------------------
(* Every step keeps the invariant.                                         *)

LEMMA HandleInd == IndInv /\ Handle => IndInv'
<1> SUFFICES ASSUME IndInv, Handle PROVE IndInv'
  OBVIOUS
<1>1. CASE Clear
  <2>1. pc \in {"clear", "reclear"} /\ ClearDone
    BY <1>1 DEF Clear
  <2> QED
    BY <2>1, ClearDoneInd
<1>2. CASE Reclear
  BY <1>2, ClearDoneInd DEF Reclear
<1>3. CASE ClearFails
  BY <1>3, ClearLostInd DEF ClearFails
<1>4. CASE ReclearFails
  BY <1>4, ClearLostInd DEF ReclearFails, ClearGivenUp
<1> QED
  BY <1>1, <1>2, <1>3, <1>4, UpdateContextInd, SendInd, SendFailsInd, ReconnectInd,
     RefreshInd, RefreshFailsInd, ResendInd, ResendFailsInd, FinishAppendInd,
     FinishRemoveInd, FinishShrinkInd, FinishShrinkAppendInd, RecoverInd
  DEF Handle

LEMMA NextInd == IndInv /\ [Next]_vars => IndInv'
<1> SUFFICES ASSUME IndInv, [Next]_vars PROVE IndInv'
  OBVIOUS
<1>1. CASE Next
  BY <1>1, CrashInd, RestartInd, BeginInd, HandleInd DEF Next
<1>2. CASE UNCHANGED vars
  BY <1>2 DEF vars, IndInv, TypeOK, KindInv, RoomInv, OnceInv, AtMostOnce
<1> QED
  BY <1>1, <1>2

-----------------------------------------------------------------------------
(* Sessions.                                                               *)

\* The raw input was typed into the session that svc knows, or svc says that
\* the session has changed since.
Tied(svc) ==
  comp.raw # <<>> => svc.reset \/ (ghost.born = svc.session /\ svc.session # 0)

Requesting == {"send", "reconnect", "refresh", "resend", "answered"}

\* A handler that has seen the change and taken it off its service is about
\* to drop the old raw input: it appends afresh, ends the composition or fails.
SessionInv ==
  /\ pc = "idle" => Tied(stored)
  /\ pc = "context" => Tied(ipc)
  /\ pc \in Requesting => op.fresh \/ Tied(ipc)
  /\ pc \in Editing /\ op.fresh => op.key = "shrink" /\ op.kind = "append"
  /\ pc = "answered" => ipc.session # 0
  /\ pc \in {"clear", "reclear"} /\ (op.after = "recover" \/ op.key = "sink") => Tied(stored)

\* Meeting a server's session keeps the tie, or notices that it is broken.
LEMMA ObserveTies ==
  ASSUME NEW svc \in Service, NEW session \in Nat \ {0}, Tied(svc)
  PROVE  Tied(Observe(svc, session)) /\ Observe(svc, session).session # 0
BY DEF Tied, Observe, Service

LEMMA BeginSession == IndInv /\ SessionInv /\ Begin => SessionInv'
<1> SUFFICES ASSUME IndInv, SessionInv, Begin PROVE SessionInv'
  OBVIOUS
<1>1. stored \in Service
  BY DEF IndInv, TypeOK
<1>2. pc = "idle" /\ Tied(stored) /\ UNCHANGED <<stored, comp, ghost>>
  BY DEF Begin, BeginAppend, BeginShrink, BeginRemove, BeginEnd, SessionInv
<1>3. ASSUME NEW t \in Tokens, BeginAppend(t) PROVE SessionInv'
  BY <1>2, <1>3 DEF BeginAppend, NewOp, SessionInv, Tied, Requesting
<1>4. ASSUME NEW n \in 1..MaxLen, NEW text \in {<<>>} \union {<<t>> : t \in Tokens},
             BeginShrink(n, text)
      PROVE  SessionInv'
  BY <1>2, <1>4 DEF BeginShrink, NewOp, SessionInv, Tied, Requesting
<1>5. ASSUME BeginRemove PROVE SessionInv'
  <2>1. CASE stored.reset
    BY <1>2, <1>5, <2>1 DEF BeginRemove, NewOp, SessionInv, Tied, Requesting, Editing
  <2>2. CASE ~stored.reset
    <3>1. ipc' = stored /\ op' = NewOp("remove", "remove", <<>>, 0) /\ pc' = "send"
      BY <1>1, <1>5, <2>2 DEF BeginRemove, Service
    <3> QED
      BY <1>2, <3>1 DEF NewOp, SessionInv, Tied, Requesting
  <2> QED
    BY <2>1, <2>2
<1>6. ASSUME NEW key \in {"end", "sink"}, BeginEnd(key) PROVE SessionInv'
  BY <1>2, <1>6 DEF BeginEnd, NewOp, SessionInv, Tied, Requesting, Editing
<1> QED
  BY <1>3, <1>4, <1>5, <1>6 DEF Begin

LEMMA UpdateContextSession == IndInv /\ SessionInv /\ UpdateContext => SessionInv'
<1> SUFFICES ASSUME IndInv, SessionInv, UpdateContext PROVE SessionInv'
  OBVIOUS
<1>1. PICK svc \in {ipc} \union (IF server.up THEN {Observe(ipc, server.session)} ELSE {}) :
         IF op.key = "shrink" /\ svc.reset
           THEN /\ ipc' = [svc EXCEPT !.reset = FALSE]
                /\ op' = [op EXCEPT !.kind = "append", !.prev = NoView, !.fresh = TRUE]
           ELSE /\ ipc' = svc
                /\ op' = op
  BY DEF UpdateContext
<1>2. /\ pc = "context" /\ pc \in Editing /\ pc' = "send" /\ UNCHANGED <<comp, ghost>>
      /\ Tied(ipc) /\ op \in Ops
  BY DEF UpdateContext, SessionInv, Editing, IndInv, TypeOK
<1>3. Tied(svc)
  BY <1>1, <1>2, ObserveTies DEF IndInv, TypeOK
<1>4. CASE op.key = "shrink" /\ svc.reset
  <2>1. op'.fresh /\ op'.kind = "append" /\ op'.key = "shrink"
    BY <1>1, <1>2, <1>4 DEF Ops
  <2> QED
    BY <1>2, <2>1 DEF SessionInv
<1>5. CASE ~(op.key = "shrink" /\ svc.reset)
  <2>1. ipc' = svc /\ op' = op
    BY <1>1, <1>5
  <2>2. Tied(svc)'
    BY <1>1, <1>2, <1>3, <2>1 DEF Tied
  <2> QED
    BY <1>2, <1>3, <2>1 DEF SessionInv, Tied
<1> QED
  BY <1>4, <1>5

\* The requests: an answer brings a session, an error leaves what was known.
LEMMA RequestSession ==
  ASSUME IndInv, SessionInv, pc \in Requesting, op' = op, comp' = comp,
         ghost'.born = ghost.born,
         \/ pc' = "failed"
         \/ pc' \in Requesting \ {"answered"} /\ ipc' = ipc
         \/ /\ pc' \in Requesting
            /\ \E svc \in Service : /\ svc = Observe(ipc, server.session)
                                    /\ ipc'.session = svc.session
                                    /\ svc.reset => ipc'.reset
  PROVE  SessionInv'
<1>1. (op.fresh \/ Tied(ipc)) /\ (op.fresh => op.key = "shrink" /\ op.kind = "append")
  BY DEF SessionInv, Requesting, Editing
<1>2. CASE pc' = "failed"
  BY <1>2 DEF SessionInv, Requesting, Editing
<1>3. CASE pc' \in Requesting \ {"answered"} /\ ipc' = ipc
  <2>1. Tied(ipc) => Tied(ipc)'
    BY <1>3 DEF Tied
  <2> QED
    BY <1>1, <1>3, <2>1 DEF SessionInv, Requesting, Editing
<1>4. ASSUME pc' \in Requesting,
             NEW svc \in Service,
             svc = Observe(ipc, server.session), ipc'.session = svc.session,
             svc.reset => ipc'.reset
      PROVE  SessionInv'
  <2>1. ipc \in Service /\ server.session \in Nat \ {0}
    BY DEF IndInv, TypeOK
  <2>2. ipc'.session # 0
    BY <1>4, <2>1 DEF Observe
  <2>3. Tied(ipc) => Tied(svc)
    BY <1>4, <2>1, ObserveTies
  <2>4. Tied(svc) => Tied(ipc)'
    BY <1>4 DEF Tied
  <2> QED
    BY <1>1, <1>4, <2>2, <2>3, <2>4 DEF SessionInv, Requesting, Editing
<1> QED
  BY <1>2, <1>3, <1>4

\* Storing the composition: old raw input is kept only beside its own session.
LEMMA CommitSession ==
  ASSUME IndInv, SessionInv, pc = "answered", NEW raw, NEW kept \in BOOLEAN, Commit(raw, kept),
         kept /\ comp.raw # <<>> => Tied(ipc) /\ ~ipc.reset
  PROVE  SessionInv'
<1>1. ipc.session # 0 /\ ipc \in Service /\ ghost \in Ghost
  BY DEF SessionInv, IndInv, TypeOK
<1>2. stored'.session = ipc.session /\ pc' = "idle"
  BY <1>1 DEF Commit, Service
<1>3. ghost'.born = IF kept /\ comp.raw # <<>> THEN ghost.born ELSE ipc.session
  BY <1>1 DEF Commit, Ghost
<1>4. ghost'.born = ipc.session
  BY <1>3 DEF Tied
<1> QED
  BY <1>1, <1>2, <1>4 DEF SessionInv, Tied, Requesting, Editing

LEMMA AbandonSession ==
  ASSUME IndInv, SessionInv, pc = "answered", Abandon, op.key # "sink"
  PROVE  SessionInv'
<1>1. pc' = "clear" /\ op'.key # "sink" /\ op'.after = "abandon"
  BY DEF Abandon, IndInv, TypeOK, Ops
<1> QED
  BY <1>1 DEF SessionInv, Requesting, Editing

LEMMA FinishSession ==
  IndInv /\ SessionInv /\ (FinishAppend \/ FinishRemove \/ FinishShrink \/ FinishShrinkAppend)
    => SessionInv'
<1> SUFFICES ASSUME IndInv, SessionInv,
                    FinishAppend \/ FinishRemove \/ FinishShrink \/ FinishShrinkAppend
             PROVE  SessionInv'
  OBVIOUS
<1>1. /\ pc = "answered" /\ ipc.session # 0
      /\ op.fresh \/ Tied(ipc)
      /\ op.fresh => op.key = "shrink" /\ op.kind = "append"
  BY DEF SessionInv, Requesting, Editing, FinishAppend, FinishRemove, FinishShrink,
     FinishShrinkAppend
<1>2. CASE FinishAppend
  <2>1. \/ Abandon
        \/ Commit(op.text, FALSE)
        \/ Commit(comp.raw \o op.text, TRUE) /\ ~(ipc.reset /\ HasClientState)
    BY <1>2 DEF FinishAppend
  <2>2. op.key = "append" /\ ~op.fresh
    BY <1>1, <1>2 DEF FinishAppend
  <2> QED
    BY <1>1, <2>1, <2>2, CommitSession, AbandonSession DEF HasClientState
<1>3. CASE FinishRemove
  <2>1. Abandon \/ (Commit(DropLast(comp.raw), TRUE) /\ ~ipc.reset)
    BY <1>3 DEF FinishRemove
  <2>2. op.key = "remove" /\ ~op.fresh
    BY <1>1, <1>3 DEF FinishRemove
  <2> QED
    BY <1>1, <2>1, <2>2, CommitSession, AbandonSession
<1>4. CASE FinishShrink
  <2>1. /\ pc' = "send" /\ op.kind = "shrink" /\ op.key = "shrink"
        /\ op' = [op EXCEPT !.kind = "append", !.prev = answer, !.fresh = IsEmptyComposition(answer)]
        /\ UNCHANGED <<ipc, comp, ghost>>
    BY <1>4 DEF FinishShrink
  <2>2. op'.key = "shrink" /\ op'.kind = "append"
    BY <2>1 DEF IndInv, TypeOK, Ops
  <2>3. Tied(ipc)'
    BY <1>1, <2>1 DEF Tied
  <2> QED
    BY <2>1, <2>2, <2>3 DEF SessionInv
<1>5. CASE FinishShrinkAppend
  <2>1. \/ Abandon
        \/ Commit(op.text, FALSE)
        \/ Commit(DropFirst(op.n, comp.raw) \o op.text, TRUE) /\ ~op.fresh /\ ~ipc.reset
    BY <1>5 DEF FinishShrinkAppend
  <2>2. op.key = "shrink"
    BY <1>5 DEF FinishShrinkAppend
  <2> QED
    BY <1>1, <2>1, <2>2, CommitSession, AbandonSession
<1> QED
  BY <1>2, <1>3, <1>4, <1>5

LEMMA ClearSession ==
  ASSUME IndInv, SessionInv, pc \in {"clear", "reclear"},
         \/ ClearDone
         \/ ClearGivenUp
         \/ pc' = "reclear" /\ UNCHANGED <<stored, ipc, comp, op, ghost>>
  PROVE  SessionInv'
<1>1. CASE ClearDone
  <2>1. pc' = "idle" /\ comp'.raw = <<>>
    BY <1>1 DEF ClearDone, EmptyComposition, IndInv, TypeOK
  <2> QED
    BY <2>1 DEF SessionInv, Tied, Requesting, Editing
<1>2. CASE ClearGivenUp
  <2>1. ghost'.born = ghost.born
    BY <1>2 DEF ClearGivenUp, IndInv, TypeOK, Ghost
  <2>2. CASE op.after = "recover" \/ op.key = "sink"
    <3>1. pc' = "idle" /\ Tied(stored) /\ UNCHANGED <<stored, comp>>
      BY <1>2, <2>2 DEF ClearGivenUp, SessionInv
    <3> QED
      BY <2>1, <3>1 DEF SessionInv, Tied, Requesting, Editing
  <2>3. CASE ~(op.after = "recover" \/ op.key = "sink")
    <3>1. pc' = "failed"
      BY <1>2, <2>3 DEF ClearGivenUp
    <3> QED
      BY <3>1 DEF SessionInv, Requesting, Editing
  <2> QED
    BY <2>2, <2>3
<1>3. CASE pc' = "reclear" /\ UNCHANGED <<stored, ipc, comp, op, ghost>>
  BY <1>3 DEF SessionInv, Tied, Requesting, Editing
<1> QED
  BY <1>1, <1>2, <1>3

LEMMA HandleSession == IndInv /\ SessionInv /\ Handle => SessionInv'
<1> SUFFICES ASSUME IndInv, SessionInv, Handle PROVE SessionInv'
  OBVIOUS
<1>0. ipc \in Service /\ Observe(ipc, server.session) \in Service /\ ghost \in Ghost
  BY ObserveLemma DEF IndInv, TypeOK
<1>1. CASE Send
  <2>1. ghost'.born = ghost.born
    BY <1>0, <1>1 DEF Send, FirstSent, Ghost
  <2> QED
    BY <1>0, <1>1, <2>1, RequestSession DEF Send, Answered, Requesting
<1>2. CASE SendFails
  <2>1. ghost'.born = ghost.born
    BY <1>0, <1>2 DEF SendFails, FirstSent, Ghost
  <2> QED
    BY <1>2, <2>1, RequestSession DEF SendFails, Requesting
<1>3. CASE Reconnect
  BY <1>3, RequestSession DEF Reconnect, Requesting
<1>4. CASE Refresh
  <2>1. /\ ipc'.session = Observe(ipc, server.session).session
        /\ Observe(ipc, server.session).reset => ipc'.reset
    BY <1>0, <1>4 DEF Refresh, Service
  <2>2. pc \in Requesting /\ pc' \in Requesting /\ op' = op /\ comp' = comp /\ ghost' = ghost
    BY <1>4 DEF Refresh, Requesting
  <2> QED
    BY <1>0, <2>1, <2>2, RequestSession
<1>5. CASE RefreshFails
  BY <1>5, RequestSession DEF RefreshFails, Requesting
<1>6. CASE Resend
  <2>1. ghost'.born = ghost.born
    BY <1>0, <1>6 DEF Resend, Ghost
  <2> QED
    BY <1>0, <1>6, <2>1, RequestSession DEF Resend, Answered, Requesting
<1>7. CASE ResendFails
  <2>1. ghost'.born = ghost.born
    BY <1>0, <1>7 DEF ResendFails, Ghost
  <2> QED
    BY <1>7, <2>1, RequestSession DEF ResendFails, Requesting
<1>8. CASE Clear \/ ClearFails \/ Reclear \/ ReclearFails
  BY <1>8, ClearSession DEF Clear, ClearFails, Reclear, ReclearFails
<1>9. CASE Recover
  <2>1. pc' = "clear" /\ comp'.raw = <<>>
    BY <1>9 DEF Recover, EmptyComposition
  <2> QED
    BY <2>1 DEF SessionInv, Tied, Requesting, Editing
<1> QED
  BY <1>1, <1>2, <1>3, <1>4, <1>5, <1>6, <1>7, <1>8, <1>9, UpdateContextSession, FinishSession
  DEF Handle

LEMMA SessionInd == IndInv /\ SessionInv /\ [Next]_vars => SessionInv'
<1> SUFFICES ASSUME IndInv, SessionInv, [Next]_vars PROVE SessionInv'
  OBVIOUS
<1>1. CASE Crash
  <2>1. ghost'.born = ghost.born /\ UNCHANGED <<stored, ipc, comp, pc, op>>
    BY <1>1 DEF Crash, IndInv, TypeOK, Ghost
  <2> QED
    BY <2>1 DEF SessionInv, Tied
<1>2. CASE Restart
  BY <1>2 DEF Restart, SessionInv, Tied
<1>3. CASE UNCHANGED vars
  BY <1>3 DEF vars, SessionInv, Tied
<1> QED
  BY <1>1, <1>2, <1>3, BeginSession, HandleSession DEF Next

-----------------------------------------------------------------------------
(* EditOnce.                                                               *)

\* Where a request that was sent is not yet taken back.
AfterSend == {"reconnect", "refresh", "resend", "answered", "failed"}

Offered == [kind |-> op.kind, text |-> op.text, n |-> op.n]

\* The steps that leave no edit on offer.
Withdrawn == pc # "send" /\ ~(op.kind # "clear" /\ pc \in AfterSend)

\* The request is the one that the step and the key are about.
RequestInv ==
  /\ pc \in {"clear", "reclear"} => op.kind = "clear"
  /\ pc \in Editing /\ op.key \in {"append", "remove"} => op.kind = op.key

LEMMA RequestInd == IndInv /\ RequestInv /\ [Next]_vars => RequestInv'
<1> SUFFICES ASSUME IndInv, RequestInv, [Next]_vars PROVE RequestInv'
  OBVIOUS
<1> USE DEF RequestInv, Editing
<1>1. op \in Ops
  BY DEF IndInv, TypeOK
<1>2. CASE Crash \/ Restart \/ UNCHANGED vars
  BY <1>2 DEF Crash, Restart, vars
<1>3. CASE Begin
  BY <1>3 DEF Begin, BeginAppend, BeginShrink, BeginRemove, BeginEnd, NewOp
<1>4. CASE FinishAppend \/ FinishRemove \/ FinishShrink \/ FinishShrinkAppend
  BY <1>1, <1>4 DEF FinishAppend, FinishRemove, FinishShrink, FinishShrinkAppend, Abandon, Commit,
     Ops
<1>5. CASE Clear \/ ClearFails \/ Reclear \/ ReclearFails \/ Recover
  BY <1>1, <1>5 DEF Clear, ClearFails, Reclear, ReclearFails, ClearDone, ClearGivenUp, Recover, Ops
<1>6. CASE UpdateContext \/ Send \/ SendFails \/ Reconnect \/ Refresh \/ RefreshFails
           \/ Resend \/ ResendFails
  BY <1>1, <1>6 DEF UpdateContext, Send, SendFails, Reconnect, Refresh, RefreshFails, Resend,
     ResendFails, Ops
<1> QED
  BY <1>2, <1>3, <1>4, <1>5, <1>6 DEF Next, Handle

\* What an edit does, whether a request or an offer carries it.
LEMMA SameEdit ==
  ASSUME NEW s, op.kind \in {"append", "remove", "shrink"}
  PROVE  Once!Apply(Offered, s) = Apply(op, s)
BY DEF Apply, Once!Apply, DropFirst, Once!DropFirst, DropLast, Once!DropLast, Offered

LEMMA OfferStep ==
  ASSUME pc' = "send", (server.input)' = server.input
  PROVE  Once!Next
BY DEF Once!Next, Once!Offer

LEMMA WithdrawStep ==
  ASSUME pc # "send", Withdrawn', (server.input)' = server.input, ghost'.exact = ghost.exact
  PROVE  Once!Next
<1>1. Once!Withdraw
  BY DEF Once!Withdraw, Withdrawn, AfterSend
<1> QED
  BY <1>1 DEF Once!Next

LEMMA WipeStep ==
  ASSUME Withdrawn, Withdrawn', (server.input)' = <<>>, ghost'.exact = ghost.exact
  PROVE  Once!Next
<1>1. Once!Wipe
  BY DEF Once!Wipe, Withdrawn, AfterSend
<1> QED
  BY <1>1 DEF Once!Next

\* Nothing that EditOnce sees changes.
LEMMA SameStep ==
  ASSUME pc \in AfterSend, pc' \in AfterSend, op' = op,
         (server.input)' = server.input,
         ghost'.execs = ghost.execs, ghost'.exact = ghost.exact
  PROVE  UNCHANGED Once!onceVars
BY DEF Once!onceVars, AfterSend

LEMMA CrashStep == IndInv /\ Crash => Once!Next
<1> SUFFICES ASSUME IndInv, Crash PROVE Once!Next
  OBVIOUS
<1>1. /\ (server.input)' = <<>> /\ (server.up)' = FALSE
      /\ ghost'.execs = 0 /\ ghost'.exact = FALSE /\ UNCHANGED <<pc, op>>
  BY DEF Crash, IndInv, TypeOK, Ghost
<1>2. Once!Wipe
  BY <1>1 DEF Once!Wipe
<1> QED
  BY <1>2 DEF Once!Next

LEMMA RestartStep == IndInv /\ Restart => Once!Next \/ UNCHANGED Once!onceVars
<1> SUFFICES ASSUME IndInv, Restart PROVE Once!Next \/ UNCHANGED Once!onceVars
  OBVIOUS
<1>1. (server.input)' = server.input /\ UNCHANGED <<pc, op, ghost>>
  BY DEF Restart, IndInv, TypeOK
<1>2. CASE pc = "send"
  <2>1. Once!Reassess
    BY <1>1, <1>2 DEF Once!Reassess
  <2> QED
    BY <2>1 DEF Once!Next
<1>3. CASE pc # "send"
  BY <1>1, <1>3 DEF Once!onceVars
<1> QED
  BY <1>2, <1>3

\* The first attempt applies the offer, or changes nothing.
LEMMA AttemptStep ==
  ASSUME pc = "send", pc' \in AfterSend, op' = op, op.kind \in {"append", "remove", "shrink"},
         (server.input)' \in {server.input, Apply(op, server.input)},
         ghost'.execs = Changes,
         ghost'.exact = (server.up /\ op.prev.text = server.input),
         Changes = IF (server.input)' = server.input THEN 0 ELSE 1
  PROVE  Once!Next \/ UNCHANGED Once!onceVars
<1>1. CASE (server.input)' = server.input
  <2>1. ghost'.execs = 0
    BY <1>1
  <2> QED
    BY <1>1, <2>1 DEF Once!onceVars, AfterSend
<1>2. CASE (server.input)' # server.input
  <2>1. ghost'.execs # 0 /\ (server.input)' = Once!Apply(Offered, server.input)
    BY <1>2, SameEdit
  <2>2. Once!ApplyOnce
    BY <2>1 DEF Once!ApplyOnce, AfterSend, Offered
  <2> QED
    BY <2>2 DEF Once!Next
<1> QED
  BY <1>1, <1>2

\* A replay applies an offer that was not, or repeats one whose picture was wrong.
LEMMA ReplayStep ==
  ASSUME IndInv, pc = "resend", pc' \in AfterSend, op' = op,
         (server.input)' \in {server.input, Apply(op, server.input)},
         ghost' = [ghost EXCEPT !.execs = ghost.execs + Changes],
         Changes = IF (server.input)' = server.input THEN 0 ELSE 1
  PROVE  Once!Next \/ UNCHANGED Once!onceVars
<1>1. /\ op.kind \in {"append", "remove", "shrink"}
      /\ ghost.execs \in 0..2 /\ ghost.exact \in BOOLEAN
      /\ ghost.exact => ghost.execs = 0
      /\ ghost'.execs = ghost.execs + Changes /\ ghost'.exact = ghost.exact
  BY DEF IndInv, KindInv, OnceInv, TypeOK, Ghost, Editing
<1>2. CASE (server.input)' = server.input
  <2>1. ghost'.execs = ghost.execs
    BY <1>1, <1>2
  <2> QED
    BY <1>1, <1>2, <2>1, SameStep DEF AfterSend
<1>3. CASE (server.input)' # server.input
  <2>1. ghost'.execs # 0 /\ (server.input)' = Once!Apply(Offered, server.input)
    BY <1>1, <1>3, SameEdit
  <2>2. CASE ghost.execs = 0
    <3>1. Once!ApplyOnce
      BY <1>1, <2>1, <2>2 DEF Once!ApplyOnce, AfterSend, Offered
    <3> QED
      BY <3>1 DEF Once!Next
  <2>3. CASE ghost.execs # 0
    <3>1. Once!Repeat
      BY <1>1, <2>1, <2>3 DEF Once!Repeat, AfterSend, Offered
    <3> QED
      BY <3>1 DEF Once!Next
  <2> QED
    BY <2>2, <2>3
<1> QED
  BY <1>2, <1>3

\* The executions a step counts are changes of the composition.
LEMMA ChangesLemma ==
  ASSUME TypeOK, TypeOK', NEW s,
         server' = server \/ server' = [server EXCEPT !.input = s]
  PROVE  /\ (server.input)' \in {server.input, s}
         /\ Changes = IF (server.input)' = server.input THEN 0 ELSE 1
BY DEF TypeOK, Changes

LEMMA SendSteps ==
  IndInv /\ IndInv' /\ (Send \/ SendFails \/ Resend \/ ResendFails)
    => Once!Next \/ UNCHANGED Once!onceVars
<1> SUFFICES ASSUME IndInv, IndInv', Send \/ SendFails \/ Resend \/ ResendFails
             PROVE  Once!Next \/ UNCHANGED Once!onceVars
  OBVIOUS
<1> DEFINE s == Apply(op, server.input)
<1>1. server' = server \/ server' = [server EXCEPT !.input = s]
  BY DEF Send, SendFails, Resend, ResendFails, LostCall, Execute
<1>2. /\ (server.input)' \in {server.input, s}
      /\ Changes = IF (server.input)' = server.input THEN 0 ELSE 1
  BY <1>1, ChangesLemma DEF IndInv
<1> HIDE DEF s
<1>3. op' = op /\ pc' \in AfterSend /\ ghost \in Ghost
  BY DEF Send, SendFails, Resend, ResendFails, AfterSend, IndInv, TypeOK
<1>4. CASE Send \/ SendFails
  <2>1. pc = "send" /\ op.kind \in {"append", "remove", "shrink"}
    BY <1>4 DEF Send, SendFails, IndInv, KindInv, Editing
  <2>2. FirstSent = [ghost EXCEPT !.execs = Changes,
                                  !.exact = server.up /\ op.prev.text = server.input]
    BY Zenon DEF FirstSent
  <2>3. FirstSent.execs = Changes /\ FirstSent.exact = (server.up /\ op.prev.text = server.input)
    BY <1>3, <2>2 DEF Ghost
  <2>4. ghost'.execs = FirstSent.execs /\ ghost'.exact = FirstSent.exact
    BY <1>3, <1>4, <2>2 DEF Send, SendFails, Ghost
  <2>5. ghost'.execs = Changes /\ ghost'.exact = (server.up /\ op.prev.text = server.input)
    BY <2>3, <2>4, Zenon
  <2> QED
    BY <1>2, <1>3, <2>1, <2>5, AttemptStep DEF s
<1>5. CASE Resend \/ ResendFails
  <2>1. pc = "resend" /\ ghost' = [ghost EXCEPT !.execs = ghost.execs + Changes]
    BY <1>5 DEF Resend, ResendFails
  <2> QED
    BY <1>2, <1>3, <2>1, ReplayStep DEF s
<1> QED
  BY <1>4, <1>5

LEMMA BeginSteps == IndInv /\ Begin => Once!Next
<1> SUFFICES ASSUME IndInv, Begin PROVE Once!Next
  OBVIOUS
<1>1. pc = "idle" /\ UNCHANGED <<server, ghost>>
  BY DEF Begin, BeginAppend, BeginShrink, BeginRemove, BeginEnd
<1>2. pc' = "send" \/ pc' \in {"context", "clear"}
  BY DEF Begin, BeginAppend, BeginShrink, BeginRemove, BeginEnd
<1>3. CASE pc' = "send"
  BY <1>1, <1>3, OfferStep
<1>4. CASE pc' \in {"context", "clear"}
  BY <1>1, <1>4, WithdrawStep DEF Withdrawn, AfterSend
<1> QED
  BY <1>2, <1>3, <1>4

\* The handler goes on with the answer: the edit is no longer on offer, or the
\* append that follows a shrink is.
LEMMA FinishSteps ==
  IndInv /\ (FinishAppend \/ FinishRemove \/ FinishShrink \/ FinishShrinkAppend) => Once!Next
<1> SUFFICES ASSUME IndInv, FinishAppend \/ FinishRemove \/ FinishShrink \/ FinishShrinkAppend
             PROVE  Once!Next
  OBVIOUS
<1>1. pc = "answered" /\ server' = server /\ ghost \in Ghost
  BY DEF FinishAppend, FinishRemove, FinishShrink, FinishShrinkAppend, IndInv, TypeOK
<1>2. CASE FinishShrink
  BY <1>1, <1>2, OfferStep DEF FinishShrink
<1>3. CASE Abandon
  BY <1>1, <1>3, WithdrawStep DEF Abandon, Withdrawn, AfterSend
<1>4. ASSUME NEW raw, NEW kept, Commit(raw, kept) PROVE Once!Next
  <2>1. pc' = "idle" /\ ghost'.exact = ghost.exact
    BY <1>1, <1>4 DEF Commit, Ghost
  <2> QED
    BY <1>1, <2>1, WithdrawStep DEF Withdrawn, AfterSend
<1> QED
  BY <1>2, <1>3, <1>4 DEF FinishAppend, FinishRemove, FinishShrinkAppend

LEMMA ClearSteps ==
  IndInv /\ IndInv' /\ RequestInv /\ (Clear \/ ClearFails \/ Reclear \/ ReclearFails) => Once!Next
<1> SUFFICES ASSUME IndInv, IndInv', RequestInv, Clear \/ ClearFails \/ Reclear \/ ReclearFails
             PROVE  Once!Next
  OBVIOUS
<1>1. /\ pc \in {"clear", "reclear"} /\ op.kind = "clear" /\ op' = op
      /\ pc' \in {"reclear", "idle", "failed"}
  BY DEF Clear, ClearFails, Reclear, ReclearFails, ClearDone, ClearGivenUp, RequestInv
<1>2. Withdrawn /\ Withdrawn'
  BY <1>1 DEF Withdrawn, AfterSend
<1>3. ghost'.exact = ghost.exact
  BY DEF Clear, ClearFails, Reclear, ReclearFails, ClearDone, ClearGivenUp, IndInv, TypeOK, Ghost
<1>4. server' = server \/ server' = [server EXCEPT !.input = <<>>]
  BY DEF Clear, ClearFails, Reclear, ReclearFails, ClearDone, LostCall, Execute
<1>5. (server.input)' \in {server.input, <<>>}
  BY <1>4, ChangesLemma DEF IndInv
<1> QED
  BY <1>1, <1>2, <1>3, <1>5, WipeStep, WithdrawStep

LEMMA HandleSteps ==
  IndInv /\ IndInv' /\ RequestInv /\ Handle => Once!Next \/ UNCHANGED Once!onceVars
<1> SUFFICES ASSUME IndInv, IndInv', RequestInv, Handle
             PROVE  Once!Next \/ UNCHANGED Once!onceVars
  OBVIOUS
<1>1. CASE UpdateContext
  BY <1>1, OfferStep DEF UpdateContext
<1>2. CASE Reconnect \/ Refresh
  <2>1. pc \in AfterSend /\ pc' \in AfterSend /\ op' = op /\ server' = server /\ ghost' = ghost
    BY <1>2 DEF Reconnect, Refresh, AfterSend
  <2> QED
    BY <2>1, SameStep
<1>3. CASE RefreshFails
  <2>1. pc \in AfterSend /\ pc' \in AfterSend /\ op' = op /\ ghost' = ghost
    BY <1>3 DEF RefreshFails, AfterSend
  <2>2. (server.input)' = server.input
    BY <1>3 DEF RefreshFails, LostCall, Execute, IndInv, TypeOK
  <2> QED
    BY <2>1, <2>2, SameStep
<1>4. CASE Recover
  BY <1>4, WithdrawStep DEF Recover, Withdrawn, AfterSend
<1> QED
  BY <1>1, <1>2, <1>3, <1>4, SendSteps, FinishSteps, ClearSteps DEF Handle

LEMMA StepsAreOnce == IndInv /\ IndInv' /\ RequestInv /\ [Next]_vars => [Once!Next]_(Once!onceVars)
<1> SUFFICES ASSUME IndInv, IndInv', RequestInv, [Next]_vars
             PROVE  Once!Next \/ UNCHANGED Once!onceVars
  OBVIOUS
<1>1. CASE UNCHANGED vars
  BY <1>1 DEF vars, Once!onceVars
<1> QED
  BY <1>1, CrashStep, RestartStep, BeginSteps, HandleSteps DEF Next

-----------------------------------------------------------------------------
(* Agreement.                                                              *)

\* Nothing happened that makes the client's text doubtful, and there is a server.
Sure == ghost.trusted /\ server.up

\* The client's text as the handler goes on from it, and what the server must
\* hold before the request: nothing, if its composition does not go back to
\* what the client knows.
Kept == IF op.key = "shrink" /\ op.kind = "append" THEN DropFirst(op.n, comp.raw) ELSE comp.raw
Base(svc) ==
  IF svc.session = server.session /\ ~svc.reset /\ ~op.fresh THEN Kept ELSE <<>>

\* After a failed attempt: another server, or the request was lost, or it was executed.
Sent ==
  \/ ipc.session # server.session /\ server.input = <<>>
  \/ op.prev = PrefixView(server.input) /\ server.input = Base(ipc)
  \/ op.prev.text = Base(ipc) /\ server.input = Apply(op, Base(ipc))

\* A server that is down holds nothing, and nobody knows a session to come.
DownInv ==
  /\ ~server.up => server.input = <<>>
  /\ ipc.session <= server.session /\ stored.session <= server.session

\* A change of session that was noticed has cost the raw input.
ResetInv ==
  /\ pc = "idle" => (stored.reset => comp.raw = <<>>)
  /\ pc \in {"clear", "reclear"} /\ (op.after = "recover" \/ op.key = "sink")
       => (stored.reset => comp.raw = <<>>)

IdleInv ==
  (pc = "idle" /\ Sure) =>
     IF stored.session = server.session
       THEN comp.raw = server.input /\ (comp.composing => comp.cands.text = server.input)
       ELSE server.input = <<>>

AskedInv    == (pc \in {"context", "send", "resend"} /\ Sure) => server.input = Base(ipc)
SentInv     == (pc \in {"reconnect", "refresh"} /\ Sure) => Sent
AnsweredInv ==
  (pc = "answered" /\ Sure) =>
     IF ipc.session = server.session
       THEN server.input = Apply(op, Base(ipc)) /\ answer.text = server.input
       ELSE server.input = <<>>

AgreeInv == ResetInv /\ IdleInv /\ AskedInv /\ SentInv /\ AnsweredInv

LEMMA DownInd == IndInv /\ DownInv /\ [Next]_vars => DownInv'
<1> SUFFICES ASSUME IndInv, DownInv, [Next]_vars PROVE DownInv'
  OBVIOUS
<1>1. /\ server \in [up : BOOLEAN, session : Nat \ {0}, input : Seq(Tokens)]
      /\ ipc \in Service /\ stored \in Service
  BY DEF IndInv, TypeOK
<1>2. CASE Crash
  BY <1>1, <1>2 DEF Crash, DownInv
<1>3. CASE Restart
  BY <1>1, <1>3 DEF Restart, DownInv, Service
<1>4. ASSUME UNCHANGED server \/ (server.up /\ \E s : server' = [server EXCEPT !.input = s]),
             \/ UNCHANGED <<ipc, stored>>
             \/ /\ (ipc').session \in {ipc.session, stored.session, server.session}
                /\ (stored').session \in {ipc.session, stored.session, server.session}
      PROVE  DownInv'
  BY <1>1, <1>4 DEF DownInv, Service
<1>5. CASE Begin
  BY <1>1, <1>4, <1>5 DEF Begin, BeginAppend, BeginShrink, BeginRemove, BeginEnd, Service
<1>6. CASE UpdateContext
  <2>1. PICK svc \in {ipc} \union (IF server.up THEN {Observe(ipc, server.session)} ELSE {}) :
           stored' = svc /\ (ipc' = svc \/ ipc' = [svc EXCEPT !.reset = FALSE])
    BY <1>6 DEF UpdateContext
  <2>2. svc \in Service /\ svc.session \in {ipc.session, server.session}
    BY <1>1, <2>1 DEF Observe, Service
  <2>3. stored'.session = svc.session /\ ipc'.session = svc.session
    BY <2>1, <2>2 DEF Service
  <2> QED
    BY <1>4, <1>6, <2>2, <2>3 DEF UpdateContext
<1>7. CASE Send \/ Resend \/ Clear \/ Reclear
  <2>1. (ipc').session = server.session /\ (stored' = stored \/ stored' = ipc')
    BY <1>7 DEF Send, Resend, Clear, Reclear, ClearDone, Answered, Observe
  <2> QED
    BY <1>4, <1>7, <2>1 DEF Send, Resend, Clear, Reclear, ClearDone, Answered, Execute
<1>8. CASE Refresh
  <2>1. ipc'.session = server.session /\ UNCHANGED <<server, stored>>
    BY <1>8 DEF Refresh, Observe
  <2> QED
    BY <1>4, <2>1
<1>9. CASE SendFails \/ RefreshFails \/ ResendFails \/ ClearFails \/ ReclearFails \/ Reconnect
  BY <1>4, <1>9 DEF SendFails, RefreshFails, ResendFails, ClearFails, ReclearFails, ClearGivenUp,
     Reconnect, LostCall, Execute
<1>10. CASE FinishAppend \/ FinishRemove \/ FinishShrink \/ FinishShrinkAppend \/ Recover
  <2>1. /\ server' = server
        /\ (ipc').session \in {ipc.session, stored.session}
        /\ (stored').session \in {ipc.session, stored.session}
    BY <1>1, <1>10 DEF FinishAppend, FinishRemove, FinishShrink, FinishShrinkAppend, Commit, Abandon,
       Recover, Service
  <2> QED
    BY <1>4, <2>1
<1>11. CASE UNCHANGED vars
  BY <1>4, <1>11 DEF vars
<1> QED
  BY <1>2, <1>3, <1>5, <1>6, <1>7, <1>8, <1>9, <1>10, <1>11 DEF Next, Handle

-----------------------------------------------------------------------------
(* What the client and the server start from.                              *)

LEMMA EmptyEdits ==
  ASSUME IndInv, pc \in Editing
  PROVE  /\ op.kind = "append" => Apply(op, <<>>) = op.text
         /\ op.kind # "append" => Apply(op, <<>>) = <<>>
<1>1. op.kind \in {"append", "remove", "shrink"} /\ op.text \in Seq(Tokens) /\ op.n \in Nat
  BY EditFacts
<1>2. <<>> \in Seq(Tokens) /\ Len(<<>>) = 0
  BY EmptySeq
<1>3. DropFirst(op.n, <<>>) \in Seq(Tokens) /\ Len(DropFirst(op.n, <<>>)) <= 0
  BY <1>1, <1>2, DropLemma
<1>4. DropFirst(op.n, <<>>) = <<>>
  BY <1>3, EmptySeq, LenProperties
<1>5. <<>> \o op.text = op.text
  BY <1>1
<1> QED
  BY <1>1, <1>4, <1>5 DEF Apply, DropLast

\* The base of the handler is a composition.
LEMMA BaseTyped ==
  ASSUME IndInv, NEW svc
  PROVE  Kept \in Seq(Tokens) /\ Base(svc) \in Seq(Tokens) /\ (comp.raw = <<>> => Kept = <<>>)
<1>1. comp.raw \in Seq(Tokens) /\ op.n \in Nat /\ <<>> \in Seq(Tokens) /\ Len(<<>>) = 0
  BY EmptySeq DEF IndInv, TypeOK, Ops
<1>2. DropFirst(op.n, comp.raw) \in Seq(Tokens) /\ Len(DropFirst(op.n, comp.raw)) <= Len(comp.raw)
  BY <1>1, DropLemma
<1>3. comp.raw = <<>> => DropFirst(op.n, comp.raw) = <<>>
  BY <1>1, <1>2, EmptySeq, LenProperties
<1> QED
  BY <1>1, <1>2, <1>3 DEF Kept, Base

\* An answer does not change what the handler starts from.
LEMMA BaseMeets ==
  ASSUME IndInv, Tied(ipc) \/ op.fresh
  PROVE  Base(Observe(ipc, server.session)) = Base(ipc)
<1>1. ipc \in Service /\ server.session \in Nat \ {0}
  BY DEF IndInv, TypeOK
<1>2. CASE ipc.session = server.session
  BY <1>1, <1>2 DEF Base, Observe, Service
<1>3. CASE ipc.session # server.session
  <2>1. Base(ipc) = <<>>
    BY <1>3 DEF Base
  <2>2. CASE Observe(ipc, server.session).reset \/ op.fresh
    BY <2>1, <2>2 DEF Base
  <2>3. CASE ~Observe(ipc, server.session).reset /\ ~op.fresh
    <3>1. ~ipc.reset /\ ipc.session = 0
      BY <1>1, <1>3, <2>3 DEF Observe
    <3>2. comp.raw = <<>>
      BY <2>3, <3>1 DEF Tied
    <3> QED
      BY <2>1, <3>2, BaseTyped DEF Base
  <2> QED
    BY <2>2, <2>3
<1> QED
  BY <1>2, <1>3

\* The ties of a handler that has sent or is about to send a request.
LEMMA HandlerTied ==
  ASSUME SessionInv, pc \in Editing
  PROVE  Tied(ipc) \/ op.fresh
BY DEF SessionInv, Editing, Requesting

-----------------------------------------------------------------------------
(* Every step keeps the agreement.                                         *)

AllInv == IndInv /\ SessionInv /\ RequestInv /\ DownInv /\ AgreeInv

LEMMA FaultAgrees == AllInv /\ (Crash \/ Restart) => AgreeInv'
<1> SUFFICES ASSUME AllInv, Crash \/ Restart PROVE AgreeInv'
  OBVIOUS
<1>0. server \in [up : BOOLEAN, session : Nat \ {0}, input : Seq(Tokens)] /\ ghost \in Ghost
  BY DEF AllInv, IndInv, TypeOK
<1>1. UNCHANGED <<stored, ipc, comp, pc, op, answer>>
  BY DEF Crash, Restart
<1>2. ResetInv'
  BY <1>1 DEF AllInv, AgreeInv, ResetInv
<1>3. CASE Crash
  <2>1. ~Sure'
    BY <1>0, <1>3 DEF Crash, Sure
  <2> QED
    BY <1>2, <2>1 DEF AgreeInv, IdleInv, AskedInv, SentInv, AnsweredInv
<1>4. CASE Restart
  <2>1. (server.input)' = <<>> /\ (server.session)' = server.session + 1
    BY <1>0, <1>4 DEF Restart, AllInv, DownInv
  <2>2. ipc.session \in Nat /\ stored.session \in Nat
    BY DEF AllInv, IndInv, TypeOK, Service
  <2>3. (ipc.session # server.session)' /\ (stored.session # server.session)'
    BY <1>0, <1>1, <2>1, <2>2 DEF AllInv, DownInv
  <2>4. Base(ipc)' = <<>>
    BY <2>3 DEF Base
  <2> QED
    BY <1>2, <2>1, <2>3, <2>4 DEF AgreeInv, IdleInv, AskedInv, SentInv, AnsweredInv, Sent
<1> QED
  BY <1>3, <1>4

LEMMA BeginAgrees == AllInv /\ Begin => AgreeInv'
<1> SUFFICES ASSUME AllInv, Begin PROVE AgreeInv'
  OBVIOUS
<1>1. /\ pc = "idle" /\ UNCHANGED <<server, stored, comp, answer, ghost>>
      /\ stored \in Service
  BY DEF Begin, BeginAppend, BeginShrink, BeginRemove, BeginEnd, AllInv, IndInv, TypeOK
<1>2. CASE pc' \in {"context", "send"} /\ ipc' = stored /\ ~(op'.fresh)
           /\ ~(op'.key = "shrink" /\ op'.kind = "append")
  <2>1. Base(ipc)' = IF stored.session = server.session /\ ~stored.reset THEN comp.raw ELSE <<>>
    BY <1>1, <1>2 DEF Base, Kept
  <2>2. Sure => (server.input = IF stored.session = server.session /\ ~stored.reset
                                  THEN comp.raw ELSE <<>>)
    BY <1>1 DEF AllInv, AgreeInv, IdleInv, ResetInv
  <2> QED
    BY <1>1, <1>2, <2>1, <2>2
    DEF AgreeInv, ResetInv, IdleInv, AskedInv, SentInv, AnsweredInv, Sure
<1>3. CASE pc' = "clear" /\ op'.after # "recover"
  <2>1. stored.reset => comp.raw = <<>>
    BY <1>1 DEF AllInv, AgreeInv, ResetInv
  <2> QED
    BY <1>1, <1>3, <2>1 DEF AgreeInv, ResetInv, IdleInv, AskedInv, SentInv, AnsweredInv
<1>4. ASSUME NEW t \in Tokens, BeginAppend(t) PROVE AgreeInv'
  BY <1>2, <1>4 DEF BeginAppend, NewOp
<1>5. ASSUME NEW n \in 1..MaxLen, NEW text, BeginShrink(n, text) PROVE AgreeInv'
  BY <1>2, <1>5 DEF BeginShrink, NewOp
<1>6. ASSUME BeginRemove PROVE AgreeInv'
  <2>1. CASE stored.reset
    BY <1>3, <1>6, <2>1 DEF BeginRemove, NewOp
  <2>2. CASE ~stored.reset
    <3>1. ipc' = stored /\ op' = NewOp("remove", "remove", <<>>, 0) /\ pc' = "send"
      BY <1>1, <1>6, <2>2 DEF BeginRemove, Service
    <3> QED
      BY <1>2, <3>1 DEF NewOp
  <2> QED
    BY <2>1, <2>2
<1>7. ASSUME NEW key, BeginEnd(key) PROVE AgreeInv'
  BY <1>3, <1>7 DEF BeginEnd, NewOp
<1> QED
  BY <1>4, <1>5, <1>6, <1>7 DEF Begin

LEMMA UpdateContextAgrees == AllInv /\ UpdateContext => AgreeInv'
<1> SUFFICES ASSUME AllInv, UpdateContext PROVE AgreeInv'
  OBVIOUS
<1>1. PICK svc \in {ipc} \union (IF server.up THEN {Observe(ipc, server.session)} ELSE {}) :
         IF op.key = "shrink" /\ svc.reset
           THEN /\ ipc' = [svc EXCEPT !.reset = FALSE]
                /\ op' = [op EXCEPT !.kind = "append", !.prev = NoView, !.fresh = TRUE]
           ELSE /\ ipc' = svc
                /\ op' = op
  BY DEF UpdateContext
<1>2. /\ pc = "context" /\ pc \in Editing /\ pc' = "send" /\ UNCHANGED <<server, comp, ghost>>
      /\ op \in Ops
  BY DEF UpdateContext, Editing, AllInv, IndInv, TypeOK
<1>3. Base(svc) = Base(ipc)
  BY <1>1, <1>2, BaseMeets, HandlerTied DEF AllInv
<1>4. Sure => server.input = Base(svc)
  BY <1>2, <1>3 DEF AllInv, AgreeInv, AskedInv
<1>5. Base(ipc)' = Base(svc)
  <2>1. CASE op.key = "shrink" /\ svc.reset
    <3>1. op'.fresh
      BY <1>1, <1>2, <2>1 DEF Ops
    <3> QED
      BY <2>1, <3>1 DEF Base
  <2>2. CASE ~(op.key = "shrink" /\ svc.reset)
    BY <1>1, <1>2, <2>2 DEF Base, Kept
  <2> QED
    BY <2>1, <2>2
<1> QED
  BY <1>2, <1>4, <1>5 DEF AgreeInv, ResetInv, IdleInv, AskedInv, SentInv, AnsweredInv, Sure

\* A request that is answered: the server has what it makes of the base.
LEMMA AnswerAgrees == AllInv /\ (Send \/ Resend) => AgreeInv'
<1> SUFFICES ASSUME AllInv, Send \/ Resend PROVE AgreeInv'
  OBVIOUS
<1> DEFINE s == Apply(op, server.input)
<1>1. /\ pc \in {"send", "resend"} /\ pc \in Editing /\ pc' = "answered"
      /\ server.up /\ UNCHANGED <<comp, op>>
      /\ server' = [server EXCEPT !.input = s] /\ answer' = FullView(s)
      /\ ipc' = Observe(ipc, server.session)
  BY DEF Send, Resend, Answered, Execute, Editing
<1>2. server \in [up : BOOLEAN, session : Nat \ {0}, input : Seq(Tokens)] /\ ghost \in Ghost
  BY DEF AllInv, IndInv, TypeOK
<1>3. (server.input)' = s /\ UNCHANGED <<server.session, server.up>>
  BY <1>1, <1>2
<1>4. s \in Seq(Tokens) /\ answer'.text = s
  <2>1. s \in Seq(Tokens)
    BY <1>1, EditFacts, ApplyLemma DEF AllInv
  <2> QED
    BY <1>1, <2>1 DEF FullView, NoView
<1>5. ghost'.trusted = ghost.trusted
  BY <1>2 DEF Send, Resend, FirstSent, Ghost
<1>6. Sure => server.input = Base(ipc)
  BY <1>1 DEF AllInv, AgreeInv, AskedInv
<1>7. Base(ipc)' = Base(ipc)
  <2>1. Base(Observe(ipc, server.session)) = Base(ipc)
    BY <1>1, BaseMeets, HandlerTied DEF AllInv
  <2>2. Base(ipc)' = Base(Observe(ipc, server.session))
    BY <1>1, <1>3 DEF Base, Kept
  <2> QED
    BY <2>1, <2>2
<1>8. Sure' => Apply(op, Base(ipc))' = s
  BY <1>1, <1>3, <1>5, <1>6, <1>7 DEF Sure, Apply
<1>9. pc' = "answered" /\ (server.input)' = s /\ answer'.text = s
  BY <1>1, <1>3, <1>4
<1> HIDE DEF s
<1>10. AnsweredInv'
  <2> SUFFICES ASSUME Sure' PROVE (server.input = Apply(op, Base(ipc)) /\ answer.text = server.input)'
    BY <1>1, <1>2 DEF AnsweredInv, Observe
  <2> QED
    BY <1>8, <1>9
<1> QED
  BY <1>9, <1>10 DEF AgreeInv, ResetInv, IdleInv, AskedInv, SentInv

\* A first attempt that fails: trusted only if the client can judge.
LEMMA SendFailsAgrees == AllInv /\ SendFails => AgreeInv'
<1> SUFFICES ASSUME AllInv, SendFails PROVE AgreeInv'
  OBVIOUS
<1> DEFINE s == Apply(op, server.input)
<1>1. /\ pc = "send" /\ pc \in Editing /\ pc' = "reconnect"
      /\ UNCHANGED <<stored, ipc, comp, op, answer>> /\ LostCall(s)
  BY DEF SendFails, Editing
<1>2. server \in [up : BOOLEAN, session : Nat \ {0}, input : Seq(Tokens)] /\ ghost \in Ghost
  BY DEF AllInv, IndInv, TypeOK
<1>3. ghost'.trusted = (ghost.trusted /\ CanJudge)
  BY <1>2, Zenon DEF SendFails, FirstSent, Ghost
<1>4. /\ (server.input)' \in {server.input, s} /\ UNCHANGED <<server.session, server.up>>
  BY <1>1, <1>2 DEF LostCall, Execute
<1>5. Base(ipc)' = Base(ipc)
  BY <1>1, <1>4 DEF Base, Kept
<1>6. ASSUME Sure' PROVE Sent'
  <2>1. Sure /\ CanJudge /\ server.up
    BY <1>3, <1>4, <1>6 DEF Sure
  <2>2. server.input = Base(ipc)
    BY <1>1, <2>1 DEF AllInv, AgreeInv, AskedInv
  <2>3. op.prev = PrefixView(server.input)
    BY <2>1 DEF CanJudge
  <2>4. op.prev.text = server.input
    BY <2>3 DEF PrefixView, NoView
  <2>5. CASE (server.input)' = server.input
    <3>1. PrefixView(server.input)' = PrefixView(server.input)
      BY <2>5 DEF PrefixView
    <3> QED
      BY <1>1, <1>5, <2>2, <2>3, <2>5, <3>1 DEF Sent
  <2>6. CASE (server.input)' = s
    <3>1. Apply(op, Base(ipc))' = s
      BY <1>1, <1>5, <2>2 DEF Apply
    <3> HIDE DEF s
    <3> QED
      BY <1>1, <1>5, <2>2, <2>4, <2>6, <3>1 DEF Sent
  <2> QED
    BY <1>4, <2>5, <2>6
<1> QED
  BY <1>1, <1>6 DEF AgreeInv, ResetInv, IdleInv, AskedInv, SentInv, AnsweredInv

\* What the refresh tells: it leads to a replay exactly if the request was lost,
\* as far as the client's text is sure.
LEMMA RefreshAgrees == AllInv /\ Refresh => AgreeInv'
<1> SUFFICES ASSUME AllInv, Refresh PROVE AgreeInv'
  OBVIOUS
<1> DEFINE svc == Observe(ipc, server.session)
           view == PrefixView(server.input)
           wiped == op.kind = "append" /\ IsEmptyComposition(view)
           b == Base(ipc)
<1>1. /\ pc = "refresh" /\ pc \in Editing /\ server.up
      /\ UNCHANGED <<server, stored, comp, op, ghost>>
      /\ answer' = view
      /\ ipc' = [svc EXCEPT !.reset = svc.reset \/ wiped]
      /\ pc' = IF ShouldRetry(op.kind, op.prev, view) THEN "resend" ELSE "answered"
  BY DEF Refresh, Editing
<1>2. /\ server.input \in Seq(Tokens) /\ op.kind \in {"append", "remove", "shrink"}
      /\ view.text = server.input
      /\ IsEmptyComposition(view) <=> server.input = <<>>
  BY <1>1, EditFacts, ViewLemma DEF AllInv, PrefixView, IsEmptyComposition
<1>3. svc \in Service /\ svc.session = server.session
  BY ObserveLemma DEF AllInv, IndInv, TypeOK, Observe
<1>4. Base(svc) = b
  BY <1>1, BaseMeets, HandlerTied DEF AllInv
<1>5. ipc'.session = server.session /\ ipc'.reset = (svc.reset \/ wiped)
  BY <1>1, <1>3 DEF Service
<1>6. Base(ipc)' = IF wiped THEN <<>> ELSE b
  <2>1. Base(svc) = IF ~svc.reset /\ ~op.fresh THEN Kept ELSE <<>>
    BY <1>3 DEF Base
  <2>2. Base(ipc)' = IF ~(svc.reset \/ wiped) /\ ~op.fresh THEN Kept ELSE <<>>
    BY <1>1, <1>5 DEF Base, Kept
  <2> HIDE DEF svc, wiped, b
  <2> QED
    BY <1>4, <2>1, <2>2
<1>7. wiped => server.input = <<>> /\ op.kind = "append"
  BY <1>2
<1>8. Sure => Sent
  BY <1>1 DEF AllInv, AgreeInv, SentInv
<1>9. ipc.session # server.session => b = <<>>
  BY DEF Base
<1>10. (op.kind = "append" => Apply(op, <<>>) = op.text) /\ (op.kind # "append" => Apply(op, <<>>) = <<>>)
  BY <1>1, EmptyEdits DEF AllInv
<1>11. op.kind = "append" /\ server.input = <<>> /\ server.input = Apply(op, b) => b = <<>>
  <2> SUFFICES ASSUME op.kind = "append", <<>> = Apply(op, b) PROVE b = <<>>
    OBVIOUS
  <2>1. b \in Seq(Tokens) /\ op.text \in Seq(Tokens)
    BY <1>1, BaseTyped, EditFacts DEF AllInv
  <2>2. <<>> = b \o op.text
    BY DEF Apply
  <2> HIDE DEF b
  <2>3. Len(b) + Len(op.text) = 0
    BY <2>1, <2>2
  <2> QED
    BY <2>1, <2>3, EmptySeq, LenProperties
<1>12. CASE ShouldRetry(op.kind, op.prev, view)
  <2>1. op.prev = view \/ (op.kind = "append" /\ server.input = <<>>)
    BY <1>2, <1>12 DEF ShouldRetry, ShouldRetryAppend, ShouldRetryEdit
  <2>2. Sure => server.input = b
    <3> SUFFICES ASSUME Sure PROVE server.input = b
      OBVIOUS
    <3>1. CASE ipc.session # server.session /\ server.input = <<>>
      BY <1>9, <3>1
    <3>2. CASE server.input = b
      BY <3>2
    <3>3. CASE op.prev.text = b /\ server.input = Apply(op, b)
      BY <1>2, <1>11, <2>1, <3>3
    <3> QED
      BY <1>8, <3>1, <3>2, <3>3 DEF Sent
  <2>3. Sure => server.input = Base(ipc)'
    BY <1>6, <1>7, <2>2
  <2>4. pc' = "resend"
    BY <1>1, <1>12
  <2> HIDE DEF b, svc, view, wiped
  <2> QED
    BY <1>1, <2>3, <2>4 DEF AgreeInv, ResetInv, IdleInv, AskedInv, SentInv, AnsweredInv, Sure
<1>13. CASE ~ShouldRetry(op.kind, op.prev, view)
  <2>1. /\ op.kind = "append" => op.prev # view /\ server.input # <<>>
        /\ op.prev = view => server.input = <<>>
    BY <1>2, <1>13 DEF ShouldRetry, ShouldRetryAppend, ShouldRetryEdit
  <2>2. ~wiped
    BY <1>7, <2>1
  <2>3. Sure => server.input = Apply(op, b)
    <3> SUFFICES ASSUME Sure PROVE server.input = Apply(op, b)
      OBVIOUS
    <3>1. CASE ipc.session # server.session /\ server.input = <<>>
      BY <1>2, <1>9, <1>10, <2>1, <3>1
    <3>2. CASE op.prev = view /\ server.input = b
      BY <1>2, <1>10, <2>1, <3>2
    <3>3. CASE server.input = Apply(op, b)
      BY <3>3
    <3> QED
      BY <1>8, <3>1, <3>2, <3>3 DEF Sent
  <2>4. Base(ipc)' = b
    BY <1>6, <2>2
  <2>5. Apply(op, Base(ipc))' = Apply(op, b)
    BY <1>1, <2>4 DEF Apply
  <2>6. pc' = "answered" /\ answer'.text = server.input
    BY <1>1, <1>2, <1>13
  <2> HIDE DEF b, svc, view, wiped
  <2>7. AnsweredInv'
    BY <1>1, <1>5, <2>3, <2>5, <2>6 DEF AnsweredInv, Sure
  <2> QED
    BY <2>6, <2>7 DEF AgreeInv, ResetInv, IdleInv, AskedInv, SentInv
<1> QED
  BY <1>12, <1>13

\* What a handler may store: what the server holds, unless that is doubtful.
Holding(raw, kept) ==
  (Sure /\ (kept \/ ipc.reset \/ server.input = raw) /\ ipc.session = server.session)
    => raw = server.input

LEMMA CommitAgrees ==
  ASSUME AllInv, pc = "answered", NEW raw, NEW kept, Commit(raw, kept), server' = server,
         Holding(raw, kept)
  PROVE  AgreeInv'
<1>1. ipc \in Service /\ ghost \in Ghost /\ answer \in Views
  BY DEF AllInv, IndInv, TypeOK
<1>2. /\ pc' = "idle" /\ comp'.raw = raw /\ comp'.cands = answer
      /\ stored'.session = ipc.session /\ ~(stored'.reset)
  BY <1>1 DEF Commit, Service
<1>3. ghost'.trusted => ghost.trusted /\ (kept \/ ipc.reset \/ server.input = raw)
  BY <1>1 DEF Commit, Ghost
<1>4. Sure => IF ipc.session = server.session THEN answer.text = server.input
                                              ELSE server.input = <<>>
  BY DEF AllInv, AgreeInv, AnsweredInv
<1>5. IdleInv'
  BY <1>2, <1>3, <1>4 DEF IdleInv, Sure, Holding
<1> QED
  BY <1>2, <1>5 DEF AgreeInv, ResetInv, AskedInv, SentInv, AnsweredInv

LEMMA AbandonAgrees ==
  ASSUME AllInv, pc = "answered", Abandon, op.key # "sink"
  PROVE  AgreeInv'
<1>1. pc' = "clear" /\ op'.key # "sink" /\ op'.after = "abandon"
  BY DEF Abandon, AllInv, IndInv, TypeOK, Ops
<1> QED
  BY <1>1 DEF AgreeInv, ResetInv, IdleInv, AskedInv, SentInv, AnsweredInv

LEMMA FinishAgrees ==
  AllInv /\ (FinishAppend \/ FinishRemove \/ FinishShrink \/ FinishShrinkAppend) => AgreeInv'
<1> SUFFICES ASSUME AllInv, FinishAppend \/ FinishRemove \/ FinishShrink \/ FinishShrinkAppend
             PROVE  AgreeInv'
  OBVIOUS
<1>1. /\ pc = "answered" /\ pc \in Editing /\ UNCHANGED <<server, answer>>
      /\ op.text \in Seq(Tokens) /\ comp.raw \in Seq(Tokens)
      /\ op.fresh => op.key = "shrink" /\ op.kind = "append"
  BY DEF FinishAppend, FinishRemove, FinishShrink, FinishShrinkAppend, Editing,
     AllInv, IndInv, TypeOK, Ops, SessionInv
<1>2. Sure /\ ipc.session = server.session => server.input = Apply(op, Base(ipc))
  BY <1>1 DEF AllInv, AgreeInv, AnsweredInv
<1>3. ipc.reset \/ op.fresh => Base(ipc) = <<>>
  BY DEF Base
<1>4. ipc.session = server.session /\ ~ipc.reset /\ ~op.fresh => Base(ipc) = Kept
  BY DEF Base
<1>5. /\ op.kind = "append" => Apply(op, <<>>) = op.text
      /\ op.kind # "append" => Apply(op, <<>>) = <<>>
  BY <1>1, EmptyEdits DEF AllInv
<1>6. CASE FinishAppend
  <2>1. op.key = "append" /\ op.kind = "append" /\ ~op.fresh /\ Kept = comp.raw
    BY <1>1, <1>6 DEF FinishAppend, AllInv, RequestInv, Kept
  <2>2. Apply(op, comp.raw) = comp.raw \o op.text
    BY <2>1 DEF Apply
  <2>3. CASE Abandon
    BY <1>1, <2>1, <2>3, AbandonAgrees
  <2>4. CASE Commit(op.text, FALSE)
    <3>1. Sure /\ ipc.session = server.session /\ ipc.reset => op.text = server.input
      BY <1>2, <1>3, <1>5, <2>1
    <3>2. Holding(op.text, FALSE)
      BY <3>1 DEF Holding
    <3> QED
      BY <1>1, <2>4, <3>2, CommitAgrees
  <2>5. CASE Commit(comp.raw \o op.text, TRUE) /\ ~(ipc.reset /\ HasClientState)
    <3>1. ipc.reset => comp.raw = <<>>
      BY <2>5 DEF HasClientState
    <3>2. ipc.session = server.session => Base(ipc) = comp.raw
      BY <1>3, <1>4, <2>1, <3>1
    <3>3. Sure /\ ipc.session = server.session => comp.raw \o op.text = server.input
      BY <1>2, <2>2, <3>2
    <3>4. Holding(comp.raw \o op.text, TRUE)
      BY <3>3 DEF Holding
    <3> QED
      BY <1>1, <2>5, <3>4, CommitAgrees
  <2> QED
    BY <1>6, <2>3, <2>4, <2>5 DEF FinishAppend
<1>7. CASE FinishRemove
  <2>1. op.key = "remove" /\ op.kind = "remove" /\ ~op.fresh /\ Kept = comp.raw
    BY <1>1, <1>7 DEF FinishRemove, AllInv, RequestInv, Kept
  <2>2. Apply(op, comp.raw) = DropLast(comp.raw)
    BY <2>1 DEF Apply
  <2>3. CASE Abandon
    BY <1>1, <2>1, <2>3, AbandonAgrees
  <2>4. CASE Commit(DropLast(comp.raw), TRUE) /\ ~ipc.reset
    <3>1. Sure /\ ipc.session = server.session => DropLast(comp.raw) = server.input
      BY <1>2, <1>4, <2>1, <2>2, <2>4
    <3>2. Holding(DropLast(comp.raw), TRUE)
      BY <3>1 DEF Holding
    <3> QED
      BY <1>1, <2>4, <3>2, CommitAgrees
  <2> QED
    BY <1>7, <2>3, <2>4 DEF FinishRemove
<1>8. CASE FinishShrink
  <2>1. /\ pc' = "send" /\ op.kind = "shrink" /\ op.key = "shrink"
        /\ op' = [op EXCEPT !.kind = "append", !.prev = answer, !.fresh = IsEmptyComposition(answer)]
        /\ UNCHANGED <<server, ipc, comp, ghost>>
    BY <1>8 DEF FinishShrink
  <2>2. /\ op'.key = "shrink" /\ op'.kind = "append" /\ op'.n = op.n
        /\ op'.fresh = IsEmptyComposition(answer)
    BY <2>1 DEF AllInv, IndInv, TypeOK, Ops
  <2>3. Base(ipc)' = IF ipc.session = server.session /\ ~ipc.reset /\ ~IsEmptyComposition(answer)
                       THEN DropFirst(op.n, comp.raw) ELSE <<>>
    BY <2>1, <2>2 DEF Base, Kept
  <2>4. Sure => server.input = Base(ipc)'
    <3> SUFFICES ASSUME Sure PROVE server.input = Base(ipc)'
      OBVIOUS
    <3>1. CASE ipc.session # server.session
      BY <1>1, <2>3, <3>1 DEF AllInv, AgreeInv, AnsweredInv
    <3>2. CASE ipc.session = server.session /\ ipc.reset
      BY <1>2, <1>3, <1>5, <2>1, <2>3, <3>2
    <3>3. CASE ipc.session = server.session /\ IsEmptyComposition(answer)
      <4>1. answer.text = server.input
        BY <1>1, <3>3 DEF AllInv, AgreeInv, AnsweredInv
      <4> QED
        BY <2>3, <3>3, <4>1 DEF IsEmptyComposition, NoView
    <3>4. CASE ipc.session = server.session /\ ~ipc.reset /\ ~IsEmptyComposition(answer)
      <4>1. ~op.fresh /\ Kept = comp.raw
        BY <1>1, <2>1 DEF Kept
      <4>2. Apply(op, comp.raw) = DropFirst(op.n, comp.raw)
        BY <2>1 DEF Apply
      <4> QED
        BY <1>2, <1>4, <2>3, <3>4, <4>1, <4>2
    <3> QED
      BY <3>1, <3>2, <3>3, <3>4
  <2> QED
    BY <2>1, <2>4 DEF AgreeInv, ResetInv, IdleInv, AskedInv, SentInv, AnsweredInv, Sure
<1>9. CASE FinishShrinkAppend
  <2>1. op.key = "shrink" /\ op.kind = "append" /\ Kept = DropFirst(op.n, comp.raw)
    BY <1>9 DEF FinishShrinkAppend, Kept
  <2>2. Apply(op, Kept) = Kept \o op.text
    BY <2>1 DEF Apply
  <2>3. CASE Abandon
    BY <1>1, <2>1, <2>3, AbandonAgrees
  <2>4. CASE Commit(op.text, FALSE)
    <3>1. Sure /\ ipc.session = server.session /\ ipc.reset => op.text = server.input
      BY <1>2, <1>3, <1>5, <2>1
    <3>2. Holding(op.text, FALSE)
      BY <3>1 DEF Holding
    <3> QED
      BY <1>1, <2>4, <3>2, CommitAgrees
  <2>5. CASE Commit(DropFirst(op.n, comp.raw) \o op.text, TRUE) /\ ~op.fresh /\ ~ipc.reset
    <3>1. Sure /\ ipc.session = server.session
            => DropFirst(op.n, comp.raw) \o op.text = server.input
      BY <1>2, <1>4, <2>1, <2>2, <2>5
    <3>2. Holding(DropFirst(op.n, comp.raw) \o op.text, TRUE)
      BY <3>1 DEF Holding
    <3> QED
      BY <1>1, <2>5, <3>2, CommitAgrees
  <2> QED
    BY <1>9, <2>3, <2>4, <2>5 DEF FinishShrinkAppend
<1> QED
  BY <1>6, <1>7, <1>8, <1>9

LEMMA ClearAgrees == AllInv /\ (Clear \/ ClearFails \/ Reclear \/ ReclearFails \/ Recover) => AgreeInv'
<1> SUFFICES ASSUME AllInv, Clear \/ ClearFails \/ Reclear \/ ReclearFails \/ Recover
             PROVE  AgreeInv'
  OBVIOUS
<1>0. /\ server \in [up : BOOLEAN, session : Nat \ {0}, input : Seq(Tokens)]
      /\ ghost \in Ghost /\ comp \in [raw : Seq(Tokens), cands : Views, composing : BOOLEAN]
  BY DEF AllInv, IndInv, TypeOK
<1>1. CASE Clear \/ Reclear
  <2>0. ClearDone
    BY <1>1 DEF Clear, Reclear
  <2>1. /\ pc' = "idle" /\ comp'.raw = <<>> /\ ~(comp'.composing)
        /\ (server.input)' = <<>>
    <3>1. server' = [server EXCEPT !.input = <<>>] /\ pc' = "idle"
      BY <2>0 DEF ClearDone, Execute
    <3>2. (server.input)' = <<>>
      BY <1>0, <3>1
    <3>3. comp'.raw = <<>>
      BY <2>0 DEF ClearDone, EmptyComposition, AllInv, IndInv, TypeOK
    <3>4. ~(comp'.composing)
      BY <2>0 DEF ClearDone, EmptyComposition, AllInv, IndInv, TypeOK
    <3> QED
      BY <3>1, <3>2, <3>3, <3>4
  <2> QED
    BY <2>1 DEF AgreeInv, ResetInv, IdleInv, AskedInv, SentInv, AnsweredInv
<1>2. CASE ClearFails
  BY <1>2 DEF ClearFails, AllInv, AgreeInv, ResetInv, IdleInv, AskedInv, SentInv, AnsweredInv
<1>3. CASE ReclearFails
  <2>1. ~(ghost'.trusted) /\ pc = "reclear" /\ UNCHANGED <<stored, comp, op>>
    BY <1>0, <1>3 DEF ReclearFails, ClearGivenUp, Ghost
  <2>2. pc' = IF op.after = "recover" \/ op.key = "sink" THEN "idle" ELSE "failed"
    BY <1>3 DEF ReclearFails, ClearGivenUp
  <2>3. ResetInv'
    BY <2>1, <2>2 DEF AllInv, AgreeInv, ResetInv
  <2> QED
    BY <2>1, <2>2, <2>3 DEF AgreeInv, IdleInv, AskedInv, SentInv, AnsweredInv, Sure
<1>4. CASE Recover
  <2>1. pc' = "clear" /\ comp'.raw = <<>>
    BY <1>4 DEF Recover, EmptyComposition
  <2> QED
    BY <2>1 DEF AgreeInv, ResetInv, IdleInv, AskedInv, SentInv, AnsweredInv
<1> QED
  BY <1>1, <1>2, <1>3, <1>4

\* Where the handler goes without learning anything.
LEMMA OtherAgrees == AllInv /\ (Reconnect \/ RefreshFails \/ ResendFails) => AgreeInv'
<1> SUFFICES ASSUME AllInv, Reconnect \/ RefreshFails \/ ResendFails PROVE AgreeInv'
  OBVIOUS
<1>1. CASE pc' = "failed"
  BY <1>1 DEF AgreeInv, ResetInv, IdleInv, AskedInv, SentInv, AnsweredInv
<1>2. CASE Reconnect /\ pc' # "failed"
  <2>1. /\ pc = "reconnect" /\ pc' = "refresh"
        /\ UNCHANGED <<server, stored, ipc, comp, op, answer, ghost>>
    BY <1>2 DEF Reconnect
  <2>2. Sent => Sent'
    BY <2>1 DEF Sent, Base, Kept, PrefixView, Apply
  <2>3. Sure' => Sent'
    BY <2>1, <2>2 DEF AllInv, AgreeInv, SentInv, Sure
  <2> QED
    BY <2>1, <2>3 DEF AgreeInv, ResetInv, IdleInv, AskedInv, SentInv, AnsweredInv
<1> QED
  BY <1>1, <1>2 DEF Reconnect, RefreshFails, ResendFails

LEMMA AgreeInd == AllInv /\ [Next]_vars => AllInv'
<1> SUFFICES ASSUME AllInv, [Next]_vars PROVE AllInv'
  OBVIOUS
<1>1. AgreeInv'
  <2>1. CASE UNCHANGED vars
    <3>1. UNCHANGED <<Base(ipc), Sent, Sure, Apply(op, Base(ipc))>>
      BY <2>1 DEF vars, Base, Kept, Sent, Sure, PrefixView, Apply
    <3> QED
      BY <2>1, <3>1 DEF vars, AllInv, AgreeInv, ResetInv, IdleInv, AskedInv, SentInv, AnsweredInv
  <2> QED
    BY <2>1, FaultAgrees, BeginAgrees, UpdateContextAgrees, AnswerAgrees, SendFailsAgrees,
       RefreshAgrees, FinishAgrees, ClearAgrees, OtherAgrees
    DEF Next, Handle
<1> QED
  BY <1>1, NextInd, SessionInd, RequestInd, DownInd DEF AllInv

-----------------------------------------------------------------------------
(* Theorems.                                                               *)

\* The invariant holds in every reachable state.
LEMMA Invariance == Spec => []IndInv
BY InitInd, NextInd, PTL DEF Spec

\* Every variable keeps its type, whatever fails and in whatever order: in
\* particular the recovery never executes an edit more than twice.
THEOREM TypeCorrect == Spec => []TypeOK
<1>1. IndInv => TypeOK
  BY DEF IndInv
<1> QED
  BY <1>1, Invariance, PTL

\* append_text, remove_text and shrink_text are executed at most once by a
\* server whose composition the client's candidates showed when the key arrived.
THEOREM ExecutedAtMostOnce == Spec => []AtMostOnce
<1>1. IndInv => AtMostOnce
  BY DEF IndInv, OnceInv
<1> QED
  BY <1>1, Invariance, PTL

\* Between keys, raw input typed into an earlier server is not kept next to a
\* newer session (observe_server_session and every handler that looks at it).
THEOREM SessionsAreApart == Spec => []NoMixedSessions
<1>1. Init => SessionInv
  BY DEF Init, SessionInv, Tied, EmptyComposition, Requesting, Editing
<1>2. IndInv /\ SessionInv /\ [Next]_vars => SessionInv'
  BY SessionInd
<1>3. SessionInv => NoMixedSessions
  BY DEF SessionInv, Tied, NoMixedSessions
<1> QED
  BY <1>1, <1>2, <1>3, Invariance, PTL DEF Spec

\* The recovery implements EditOnce: over a transport that loses calls, an edit
\* changes the composition once or not at all, and may repeat only if it was
\* sent with a wrong picture of it.
THEOREM RefinesEditOnce == Spec => ImplementsEditOnce
<1>1. Init => RequestInv
  BY DEF Init, RequestInv, Editing
<1>2. IndInv /\ RequestInv /\ [Next]_vars => RequestInv'
  BY RequestInd
<1>3. Init => Once!Init
  BY DEF Init, Once!Init
<1>4. IndInv /\ IndInv' /\ RequestInv /\ [Next]_vars => [Once!Next]_(Once!onceVars)
  BY StepsAreOnce
<1> QED
  BY <1>1, <1>2, <1>3, <1>4, Invariance, PTL DEF Spec, ImplementsEditOnce, Once!Spec

\* Between keys the client's text is what the server holds, unless an edit
\* failed that could not be judged, a reset was wrongly inferred or a
\* clear_text was given up.
THEOREM ClientAgrees == Spec => []Agreement
<1>1. Init => AllInv
  <2>1. Init => IndInv
    BY InitInd
  <2>2. Init => SessionInv
    BY DEF Init, SessionInv, Tied, EmptyComposition, Requesting, Editing
  <2>3. Init => RequestInv /\ DownInv
    BY DEF Init, RequestInv, Editing, DownInv
  <2>4. Init => AgreeInv
    BY DEF Init, AgreeInv, ResetInv, IdleInv, AskedInv, SentInv, AnsweredInv, EmptyComposition
  <2> QED
    BY <2>1, <2>2, <2>3, <2>4 DEF AllInv
<1>2. AllInv /\ [Next]_vars => AllInv'
  BY AgreeInd
<1>3. AllInv => Agreement
  BY DEF AllInv, AgreeInv, IdleInv, Sure, Agreement
<1> QED
  BY <1>1, <1>2, <1>3, PTL DEF Spec
=============================================================================
