------------------------ MODULE InputSession_proofs ------------------------
(***************************************************************************)
(* Proofs about InputSession, for any applications, keys, budgets and        *)
(* converter.  What a handler still has to do is told from the actions that  *)
(* are left of its plan, so that a resting text service is one whose plan is  *)
(* empty.                                                                  *)
(***************************************************************************)
EXTENDS InputSession, TLAPS

Editing  == {"append", "remove", "shrink", "shrinkAppend"}
Starters == {"start", "commit", "toKana", "toLatin"}
Clearing == {"end", "toKana", "toLatin"}
Choosing == {"up", "down"}
Settling == Editing \union Choosing \union {"end"}
Staying  == Choosing \union {"shrink", "shrinkAppend"}

Has(p, acts) == \E i \in 1..Len(p) : p[i] \in acts

\* The order of the actions in a plan: only "end" comes after an edit, nothing
\* is started twice, and a window that is shown gets a selection.
Orderly(p) ==
  /\ p \in Seq(Actions)
  /\ \A i, j \in 1..Len(p) : i < j /\ p[i] \in Editing => p[j] = "end"
  /\ \A i, j \in 1..Len(p) : i < j /\ p[j] \in Starters => p[i] # "start"
  /\ \A i \in 1..Len(p) : p[i] = "show" => \E j \in 1..Len(p) : i < j /\ p[j] \in Choosing

\* What starts a composition finds none open, and the plan leaves one open
\* exactly if there is something composed then; not so for `late` plans, which
\* may meet a server that is dead or new.
TipFits(p, to, open, late) ==
  /\ \A i \in 1..Len(p) :
       p[i] \in Starters => ~open \/ \E j \in 1..Len(p) : j < i /\ p[j] = "end"
  /\ to = "none" =>
       /\ open => Has(p, {"end"})
       /\ \A i \in 1..Len(p) :
            p[i] \in Editing \union {"start"} => \E j \in 1..Len(p) : i < j /\ p[j] = "end"
  /\ to # "none" =>
       \/ late
       \/ /\ open \/ Has(p, {"start"})
          /\ \A i \in 1..Len(p) : p[i] = "end" => \E j \in 1..Len(p) : i < j /\ p[j] = "start"

\* A plan that leaves nothing composed leaves no raw input.
RawFits(p, to, raw, late) ==
  to = "none" => late \/ raw = <<>> \/ (Has(p, {"end"}) /\ ~Has(p, {"append"}))

\* A plan that leaves something composed leaves candidates.
CandsFit(p, to, cands) ==
  /\ Has(p, Staying) => to # "none"
  /\ Has(p, Choosing) => cands # <<>>
  /\ to # "none" => cands # <<>> \/ Has(p, {"append"})

\* What the window shows, if `seen`, is right or will be set right.
WindowFits(p, to, cands, seen, items) ==
  seen => (items = cands /\ to # "none") \/ Has(p, Settling)

Fits(p, to, raw, cands, open, late, seen, items) ==
  /\ Orderly(p)
  /\ TipFits(p, to, open, late)
  /\ RawFits(p, to, raw, late)
  /\ CandsFit(p, to, cands)
  /\ WindowFits(p, to, cands, seen, items)

\* The plan empties the server and does not fill it again.
Clears(p) ==
  \E i \in 1..Len(p) :
    p[i] \in Clearing /\ \A j \in 1..Len(p) : i < j => p[j] \notin Editing

-----------------------------------------------------------------------------
PlanOf(c) == IF Idle(c) THEN <<>> ELSE run[c].plan
ToOf(c)   == IF Idle(c) THEN comp[c].state ELSE run[c].to
WorkOf(c) == IF Idle(c) THEN comp[c] ELSE run[c].work
SvcOf(c)  == IF Idle(c) THEN svc[c] ELSE run[c].svc

Late    == ~server.up \/ server.session > 1
Seen(c) == shown = c /\ window.visible

ClientFits(c) ==
  /\ ~Idle(c) => run[c].plan # <<>>
  /\ ToOf(c) \in States
  /\ Fits(PlanOf(c), ToOf(c), WorkOf(c).raw, WorkOf(c).cands, tip[c].open, Late, Seen(c),
          window.items)
  /\ comp[c].state # "none" => comp[c].cands # <<>>
  /\ ~Late => /\ svc[c] = [session |-> 1, reset |-> FALSE]
              /\ SvcOf(c) = [session |-> 1, reset |-> FALSE]

\* Whoever has text at the server is composing it or about to clear it.
Holds(c) == ToOf(c) # "none" \/ Clears(PlanOf(c))

Held ==
  /\ ~server.up => server.input = <<>>
  /\ server.input # <<>> => \E c \in Clients : Holds(c)

SInv == Held /\ \A c \in Clients : ClientFits(c)

-----------------------------------------------------------------------------
(* Plans.                                                                  *)

\* p is q with the action a before it.
First(p, a, q) ==
  /\ p \in Seq(Actions) /\ q \in Seq(Actions)
  /\ Len(q) \in Nat /\ Len(p) = Len(q) + 1
  /\ p[1] = a
  /\ \A i \in 1..Len(q) : q[i] = p[i + 1]
  /\ \A i \in 2..Len(p) : p[i] = q[i - 1]

LEMMA FirstOfPlan ==
  ASSUME NEW p \in Seq(Actions), p # <<>>
  PROVE  First(p, Head(p), Tail(p))
BY DEF First

LEMMA FirstBefore ==
  ASSUME NEW q \in Seq(Actions), NEW a \in Actions
  PROVE  First(<<a>> \o q, a, q)
BY DEF First

LEMMA FirstHas ==
  ASSUME NEW p, NEW q, NEW a, First(p, a, q), NEW acts
  PROVE  Has(p, acts) <=> a \in acts \/ Has(q, acts)
<1>1. ASSUME Has(p, acts) PROVE a \in acts \/ Has(q, acts)
  <2>1. PICK i \in 1..Len(p) : p[i] \in acts
    BY <1>1 DEF Has
  <2>2. CASE i = 1
    BY <2>1, <2>2 DEF First
  <2>3. CASE i # 1
    BY <2>1, <2>3 DEF First, Has
  <2> QED
    BY <2>2, <2>3
<1>2. ASSUME a \in acts PROVE Has(p, acts)
  BY <1>2 DEF First, Has
<1>3. ASSUME Has(q, acts) PROVE Has(p, acts)
  <2>1. PICK i \in 1..Len(q) : q[i] \in acts
    BY <1>3 DEF Has
  <2>2. i + 1 \in 1..Len(p) /\ p[i + 1] \in acts
    BY <2>1 DEF First
  <2> QED
    BY <2>2 DEF Has
<1> QED
  BY <1>1, <1>2, <1>3

LEMMA FirstHasAll ==
  ASSUME NEW p, NEW q, NEW a, First(p, a, q)
  PROVE  /\ Has(p, {"start"})  <=> a = "start" \/ Has(q, {"start"})
         /\ Has(p, {"end"})    <=> a = "end" \/ Has(q, {"end"})
         /\ Has(p, {"append"}) <=> a = "append" \/ Has(q, {"append"})
         /\ Has(p, Choosing)   <=> a \in Choosing \/ Has(q, Choosing)
         /\ Has(p, Staying)    <=> a \in Staying \/ Has(q, Staying)
         /\ Has(p, Settling)   <=> a \in Settling \/ Has(q, Settling)
<1>1. \A acts : Has(p, acts) <=> a \in acts \/ Has(q, acts)
  BY FirstHas
<1> QED
  BY <1>1

LEMMA RestIsOrderly ==
  ASSUME NEW p, NEW q, NEW a, First(p, a, q), Orderly(p)
  PROVE  Orderly(q)
<1>1. ASSUME NEW i \in 1..Len(q), q[i] = "show"
      PROVE \E j \in 1..Len(q) : i < j /\ q[j] \in Choosing
  <2>1. i + 1 \in 1..Len(p) /\ p[i + 1] = "show"
    BY <1>1 DEF First
  <2>2. PICK j \in 1..Len(p) : i + 1 < j /\ p[j] \in Choosing
    BY <2>1 DEF Orderly
  <2>3. j - 1 \in 1..Len(q) /\ i < j - 1 /\ q[j - 1] \in Choosing
    BY <2>2 DEF First
  <2> QED
    BY <2>3
<1>2. ASSUME NEW i \in 1..Len(q), NEW j \in 1..Len(q), i < j
      PROVE  (q[i] \in Editing => q[j] = "end") /\ (q[j] \in Starters => q[i] # "start")
  <2>1. i + 1 \in 1..Len(p) /\ j + 1 \in 1..Len(p) /\ i + 1 < j + 1
          /\ q[i] = p[i + 1] /\ q[j] = p[j + 1]
    BY <1>2 DEF First
  <2> QED
    BY <2>1 DEF Orderly
<1>3. q \in Seq(Actions)
  BY DEF First
<1> QED
  BY <1>1, <1>2, <1>3 DEF Orderly

\* After an edit nothing is left but to end.
LEMMA AfterEdit ==
  ASSUME NEW p, NEW q, NEW a \in Editing, First(p, a, q), Orderly(p)
  PROVE  \A i \in 1..Len(q) : q[i] = "end"
BY DEF First, Orderly

LEMMA RestFitsTip ==
  ASSUME NEW p, NEW q, NEW a, First(p, a, q), Orderly(p), NEW to, NEW open,
         NEW late, TipFits(p, to, open, late)
  PROVE  /\ a = "end" => TipFits(q, to, FALSE, late)
         /\ a = "start" => TipFits(q, to, TRUE, late)
         /\ a \notin {"start", "end"} => TipFits(q, to, open, late)
<1> DEFINE after == a # "end" /\ (a = "start" \/ open)
<1>1. ASSUME NEW i \in 1..Len(q), q[i] \in Starters
      PROVE  ~after \/ \E j \in 1..Len(q) : j < i /\ q[j] = "end"
  <2>1. i + 1 \in 1..Len(p) /\ p[i + 1] \in Starters /\ 1 < i + 1 /\ 1 \in 1..Len(p)
    BY <1>1 DEF First
  <2>2. a # "start"
    BY <2>1 DEF Orderly, First
  <2>3. CASE a # "end" /\ open
    <3>1. PICK j \in 1..Len(p) : j < i + 1 /\ p[j] = "end"
      BY <2>1, <2>3 DEF TipFits
    <3>2. j # 1
      BY <3>1, <2>3 DEF First
    <3>3. j - 1 \in 1..Len(q) /\ j - 1 < i /\ q[j - 1] = "end"
      BY <3>1, <3>2 DEF First
    <3> QED
      BY <3>3
  <2> QED
    BY <2>2, <2>3
<1>2. ASSUME NEW i \in 1..Len(p), NEW act \in {"start", "end"},
             \E j \in 1..Len(p) : i < j /\ p[j] = act
      PROVE  \E j \in 1..Len(q) : i - 1 < j /\ q[j] = act
  <2>1. PICK j \in 1..Len(p) : i < j /\ p[j] = act
    BY <1>2
  <2>2. j - 1 \in 1..Len(q) /\ i - 1 < j - 1 /\ q[j - 1] = act
    BY <2>1 DEF First
  <2> QED
    BY <2>2
<1>3. ASSUME to = "none"
      PROVE  /\ after => Has(q, {"end"})
             /\ \A i \in 1..Len(q) :
                  q[i] \in Editing \union {"start"} => \E j \in 1..Len(q) : i < j /\ q[j] = "end"
  <2>1. ASSUME after PROVE Has(q, {"end"})
    <3>1. CASE a = "start"
      <4>1. \E j \in 1..Len(p) : 1 < j /\ p[j] = "end"
        BY <3>1, <1>3 DEF TipFits, First
      <4>2. \E j \in 1..Len(q) : q[j] = "end"
        BY <4>1, <1>2 DEF First
      <4> QED
        BY <4>2 DEF Has
    <3>2. CASE a # "start"
      BY <3>2, <2>1, <1>3, FirstHas DEF TipFits
    <3> QED
      BY <3>1, <3>2
  <2>2. ASSUME NEW i \in 1..Len(q), q[i] \in Editing \union {"start"}
        PROVE  \E j \in 1..Len(q) : i < j /\ q[j] = "end"
    <3>1. i + 1 \in 1..Len(p) /\ p[i + 1] \in Editing \union {"start"}
      BY <2>2 DEF First
    <3>2. \E j \in 1..Len(p) : i + 1 < j /\ p[j] = "end"
      BY <3>1, <1>3 DEF TipFits
    <3> QED
      BY <3>1, <3>2, <1>2
  <2> QED
    BY <2>1, <2>2
<1>4. ASSUME to # "none", ~late
      PROVE  /\ after \/ Has(q, {"start"})
             /\ \A i \in 1..Len(q) : q[i] = "end" => \E j \in 1..Len(q) : i < j /\ q[j] = "start"
  <2>1. ASSUME ~after PROVE Has(q, {"start"})
    <3>1. CASE a = "end"
      <4>1. \E j \in 1..Len(p) : 1 < j /\ p[j] = "start"
        BY <3>1, <1>4 DEF TipFits, First
      <4>2. \E j \in 1..Len(q) : q[j] = "start"
        BY <4>1, <1>2 DEF First
      <4> QED
        BY <4>2 DEF Has
    <3>2. CASE a # "end"
      BY <3>2, <2>1, <1>4, FirstHas DEF TipFits
    <3> QED
      BY <3>1, <3>2
  <2>2. ASSUME NEW i \in 1..Len(q), q[i] = "end"
        PROVE  \E j \in 1..Len(q) : i < j /\ q[j] = "start"
    <3>1. i + 1 \in 1..Len(p) /\ p[i + 1] = "end"
      BY <2>2 DEF First
    <3>2. \E j \in 1..Len(p) : i + 1 < j /\ p[j] = "start"
      BY <3>1, <1>4 DEF TipFits
    <3> QED
      BY <3>1, <3>2, <1>2
  <2> QED
    BY <2>1, <2>2
<1> HIDE DEF after
<1>5. /\ to = "none" =>
           /\ after => Has(q, {"end"})
           /\ \A i \in 1..Len(q) :
                q[i] \in Editing \union {"start"} => \E j \in 1..Len(q) : i < j /\ q[j] = "end"
      /\ to # "none" =>
           \/ late
           \/ /\ after \/ Has(q, {"start"})
              /\ \A i \in 1..Len(q) : q[i] = "end" => \E j \in 1..Len(q) : i < j /\ q[j] = "start"
  BY <1>3, <1>4
<1>6. CASE a = "end"
  <2>1. ~after
    BY <1>6 DEF after
  <2> QED
    BY <1>1, <1>5, <1>6, <2>1 DEF TipFits
<1>7. CASE a = "start"
  <2>1. after
    BY <1>7 DEF after
  <2> QED
    BY <1>1, <1>5, <1>7, <2>1 DEF TipFits
<1>8. CASE a \notin {"start", "end"}
  <2>1. after <=> open
    BY <1>8 DEF after
  <2> QED
    BY <1>1, <1>5, <1>8, <2>1 DEF TipFits
<1> QED
  BY <1>6, <1>7, <1>8

LEMMA Members ==
  /\ \A a : a \in Settling <=> a \in Editing \/ a \in Choosing \/ a = "end"
  /\ \A a : a \in Staying <=> a \in Choosing \/ a = "shrink" \/ a = "shrinkAppend"
  /\ \A a : a \in Editing <=> a = "append" \/ a = "remove" \/ a = "shrink" \/ a = "shrinkAppend"
  /\ \A a : a \in Choosing <=> a = "up" \/ a = "down"
BY DEF Settling, Staying, Editing, Choosing

\* A window that was right, or nobody's, still is.
Narrower(after, new, seen, items) == after => seen /\ new = items

\* A window that is seen shows these candidates.
Shows(seen, items, cands) == seen => items = cands

\* An action that changes neither the copies nor what is shown.
LEMMA NeutralFits ==
  ASSUME NEW p, NEW q, NEW a \in Actions, First(p, a, q), NEW to, NEW raw, NEW cands,
         NEW open, NEW late, NEW seen, NEW items,
         Fits(p, to, raw, cands, open, late, seen, items),
         a \notin Settling \union {"start", "show"},
         NEW after, NEW new, Narrower(after, new, seen, items)
  PROVE  Fits(q, to, raw, cands, open, late, after, new)
<1>a. Orderly(p) /\ TipFits(p, to, open, late)
  BY DEF Fits
<1>b. Orderly(q)
  BY <1>a, RestIsOrderly
<1>c. TipFits(q, to, open, late)
  BY <1>a, Members, RestFitsTip
<1>1. Orderly(q) /\ TipFits(q, to, open, late)
  BY <1>b, <1>c
<1>2. RawFits(q, to, raw, late) /\ CandsFit(q, to, cands) /\ WindowFits(q, to, cands, after, new)
  BY FirstHasAll, Members DEF Narrower, Fits, RawFits, CandsFit, WindowFits
<1> QED
  BY <1>1, <1>2 DEF Fits

LEMMA StartFits ==
  ASSUME NEW p, NEW q, First(p, "start", q), NEW to, NEW raw, NEW cands,
         NEW open, NEW late, NEW seen, NEW items,
         Fits(p, to, raw, cands, open, late, seen, items),
         NEW after, NEW new, Narrower(after, new, seen, items)
  PROVE  Fits(q, to, raw, cands, TRUE, late, after, new)
<1>a. Orderly(p) /\ TipFits(p, to, open, late)
  BY DEF Fits
<1>b. Orderly(q)
  BY <1>a, RestIsOrderly
<1>c. TipFits(q, to, TRUE, late)
  BY <1>a, Members, RestFitsTip
<1>1. Orderly(q) /\ TipFits(q, to, TRUE, late)
  BY <1>b, <1>c
<1>2. RawFits(q, to, raw, late) /\ CandsFit(q, to, cands) /\ WindowFits(q, to, cands, after, new)
  BY FirstHasAll, Members DEF Narrower, Fits, RawFits, CandsFit, WindowFits
<1> QED
  BY <1>1, <1>2 DEF Fits

LEMMA ShowFits ==
  ASSUME NEW p, NEW q, First(p, "show", q), NEW to, NEW raw, NEW cands,
         NEW open, NEW late, NEW seen, NEW items,
         Fits(p, to, raw, cands, open, late, seen, items),
         NEW after, NEW new
  PROVE  Fits(q, to, raw, cands, open, late, after, new)
<1>a. Orderly(p) /\ TipFits(p, to, open, late)
  BY DEF Fits
<1>b. Orderly(q)
  BY <1>a, RestIsOrderly
<1>c. TipFits(q, to, open, late)
  BY <1>a, Members, RestFitsTip
<1>1. Orderly(q) /\ TipFits(q, to, open, late)
  BY <1>b, <1>c
<1>2. PICK j \in 1..Len(p) : 1 < j /\ p[j] \in Choosing
  BY DEF Fits, Orderly, First
<1>3. j - 1 \in 1..Len(q) /\ q[j - 1] \in Choosing
  BY <1>2 DEF First
<1>4. Has(q, Settling)
  BY <1>3, Members DEF Has
<1>5. RawFits(q, to, raw, late) /\ CandsFit(q, to, cands) /\ WindowFits(q, to, cands, after, new)
  BY <1>4, FirstHasAll, Members DEF Fits, RawFits, CandsFit, WindowFits
<1> QED
  BY <1>1, <1>5 DEF Fits

\* A candidate is chosen: the list is shown anew.
LEMMA ChooseFits ==
  ASSUME NEW p, NEW q, NEW a \in Choosing, First(p, a, q), NEW to, NEW raw, NEW cands,
         NEW open, NEW late, NEW seen, NEW items,
         Fits(p, to, raw, cands, open, late, seen, items),
         NEW after, NEW new, Shows(after, new, cands)
  PROVE  cands # <<>> /\ Fits(q, to, raw, cands, open, late, after, new)
<1>a. Orderly(p) /\ TipFits(p, to, open, late)
  BY DEF Fits
<1>b. Orderly(q)
  BY <1>a, RestIsOrderly
<1>c. TipFits(q, to, open, late)
  BY <1>a, Members, RestFitsTip
<1>1. Orderly(q) /\ TipFits(q, to, open, late)
  BY <1>b, <1>c
<1>2. cands # <<>> /\ to # "none"
  BY FirstHasAll, Members DEF Fits, CandsFit
<1>3. RawFits(q, to, raw, late) /\ CandsFit(q, to, cands) /\ WindowFits(q, to, cands, after, new)
  BY <1>2, FirstHasAll, Members DEF Shows, Fits, RawFits, CandsFit, WindowFits
<1> QED
  BY <1>1, <1>2, <1>3 DEF Fits

LEMMA EndFits ==
  ASSUME NEW p, NEW q, First(p, "end", q), NEW to, NEW raw, NEW cands,
         NEW open, NEW late, NEW seen, NEW items,
         Fits(p, to, raw, cands, open, late, seen, items), NEW new
  PROVE  Fits(q, to, <<>>, cands, FALSE, late, FALSE, new)
<1>a. Orderly(p) /\ TipFits(p, to, open, late)
  BY DEF Fits
<1>b. Orderly(q)
  BY <1>a, RestIsOrderly
<1>c. TipFits(q, to, FALSE, late)
  BY <1>a, Members, RestFitsTip
<1>1. Orderly(q) /\ TipFits(q, to, FALSE, late)
  BY <1>b, <1>c
<1>2. RawFits(q, to, <<>>, late) /\ CandsFit(q, to, cands) /\ WindowFits(q, to, cands, FALSE, new)
  BY FirstHasAll, Members DEF Fits, RawFits, CandsFit, WindowFits
<1> QED
  BY <1>1, <1>2 DEF Fits

\* The mode changes: the text at the server is given up.
LEMMA ModeFits ==
  ASSUME NEW p, NEW q, NEW a \in {"toKana", "toLatin"}, First(p, a, q), NEW to, NEW raw, NEW cands,
         NEW open, NEW late, NEW seen, NEW items,
         Fits(p, to, raw, cands, open, late, seen, items)
  PROVE  Fits(q, to, <<>>, cands, open, late, seen, items)
<1>a. Orderly(p) /\ TipFits(p, to, open, late)
  BY DEF Fits
<1>b. Orderly(q)
  BY <1>a, RestIsOrderly
<1>c. TipFits(q, to, open, late)
  BY <1>a, Members, RestFitsTip
<1>1. Orderly(q) /\ TipFits(q, to, open, late)
  BY <1>b, <1>c
<1>2. RawFits(q, to, <<>>, late) /\ CandsFit(q, to, cands) /\ WindowFits(q, to, cands, seen, items)
  BY FirstHasAll, Members DEF Fits, RawFits, CandsFit, WindowFits
<1> QED
  BY <1>1, <1>2 DEF Fits

\* What is left after an edit: nothing, or to end.
LEMMA OnlyEnds ==
  ASSUME NEW q \in Seq(Actions), \A i \in 1..Len(q) : q[i] = "end", NEW open,
         NEW late, NEW to, NEW raw, NEW cands, NEW seen, NEW items,
         to = "none" => (Has(q, {"end"}) \/ (~open /\ ~seen /\ (late \/ raw = <<>>))),
         to # "none" => (late \/ (open /\ ~Has(q, {"end"}))) /\ cands # <<>>
                          /\ (seen => items = cands)
  PROVE  Fits(q, to, raw, cands, open, late, seen, items)
<1>1. Orderly(q)
  BY DEF Orderly, Starters, Choosing
<1>2. ASSUME NEW acts, "end" \notin acts PROVE ~Has(q, acts)
  BY <1>2 DEF Has
<1>3. Len(q) \in Nat /\ (~Has(q, {"end"}) => Len(q) = 0)
  BY DEF Has
<1>4. TipFits(q, to, open, late)
  <2>1. ~late /\ to # "none" => open /\ Len(q) = 0
    BY <1>3
  <2> QED
    BY <1>3, <2>1 DEF TipFits, Starters, Editing
<1>5. RawFits(q, to, raw, late)
  BY <1>2 DEF RawFits
<1>6. CandsFit(q, to, cands)
  <2>1. ~Has(q, Staying) /\ ~Has(q, Choosing)
    BY <1>2, Members
  <2> QED
    BY <2>1 DEF CandsFit
<1>7. WindowFits(q, to, cands, seen, items)
  <2>1. Has(q, {"end"}) => Has(q, Settling)
    BY Members DEF Has
  <2> QED
    BY <2>1 DEF WindowFits
<1> QED
  BY <1>1, <1>4, <1>5, <1>6, <1>7 DEF Fits

\* The server answered an edit; `to` is what the plan leaves after it.
\* The composition in the document stays open; what was to be over may go on
\* if a new server is noticed.
StaysOpen(open, newOpen, to, newTo, late) ==
  /\ open => newOpen
  /\ newTo = to \/ (newTo # "none" /\ (to # "none" \/ late))

LEMMA EditFits ==
  ASSUME NEW p, NEW q, NEW a \in Editing, First(p, a, q), NEW to, NEW raw, NEW cands,
         NEW open, NEW late, NEW seen, NEW items,
         Fits(p, to, raw, cands, open, late, seen, items),
         NEW newRaw, NEW result, result # <<>>, NEW newTo, NEW newOpen,
         NEW newSeen, NEW newItems, Shows(newSeen, newItems, result),
         StaysOpen(open, newOpen, to, newTo, late)
  PROVE  Fits(q, newTo, newRaw, result, newOpen, late, newSeen, newItems)
<1>0. /\ newSeen => newItems = result
      /\ open => newOpen
      /\ newTo = to \/ (newTo # "none" /\ (to # "none" \/ late))
  BY DEF Shows, StaysOpen
<1>1. q \in Seq(Actions) /\ \A i \in 1..Len(q) : q[i] = "end"
  BY AfterEdit DEF Fits, First
<1>2. 1 \in 1..Len(p) /\ p[1] \in Editing
  BY DEF First
<1>3. ASSUME NEW act, \E j \in 1..Len(p) : 1 < j /\ p[j] = act PROVE Has(q, {act})
  <2>1. PICK j \in 1..Len(p) : 1 < j /\ p[j] = act
    BY <1>3
  <2>2. j - 1 \in 1..Len(q) /\ q[j - 1] = act
    BY <2>1 DEF First
  <2> QED
    BY <2>2 DEF Has
<1>4. to = "none" => Has(q, {"end"})
  BY <1>2, <1>3 DEF Fits, TipFits
<1>5. ~Has(q, {"start"})
  BY <1>1 DEF Has
<1>6. a # "start" /\ a # "end"
  BY DEF Editing
<1>7. to # "none" /\ ~late => open /\ ~Has(q, {"end"})
  <2> SUFFICES ASSUME to # "none", ~late PROVE open /\ ~Has(q, {"end"})
    OBVIOUS
  <2>1. TipFits(q, to, open, late)
    BY <1>6, RestFitsTip DEF Fits
  <2>2. open
    BY <2>1, <1>5 DEF TipFits
  <2>3. ASSUME Has(q, {"end"}) PROVE FALSE
    <3>1. PICK i \in 1..Len(q) : q[i] = "end"
      BY <2>3 DEF Has
    <3>2. PICK j \in 1..Len(q) : i < j /\ q[j] = "start"
      BY <2>1, <3>1 DEF TipFits
    <3> QED
      BY <3>2, <1>1
  <2> QED
    BY <2>2, <2>3
<1>8. newTo = "none" => Has(q, {"end"})
  <2>1. newTo = "none" => to = "none"
    BY <1>0
  <2> QED
    BY <2>1, <1>4
<1>9. newTo # "none" => late \/ (newOpen /\ ~Has(q, {"end"}))
  <2>1. newTo # "none" /\ ~late => to # "none"
    BY <1>0
  <2> QED
    BY <1>0, <2>1, <1>7
<1>10. newTo # "none" => (late \/ (newOpen /\ ~Has(q, {"end"}))) /\ result # <<>>
                           /\ (newSeen => newItems = result)
  BY <1>0, <1>9
<1>11. newTo = "none" =>
         (Has(q, {"end"}) \/ (~newOpen /\ ~newSeen /\ (late \/ newRaw = <<>>)))
  BY <1>8
<1> QED
  BY <1>1, <1>10, <1>11, OnlyEnds

\* The text is given up in an edit: the plan leaves nothing composed.
LEMMA ResetFits ==
  ASSUME NEW p, NEW q, NEW a \in Editing, First(p, a, q), Orderly(p), NEW cands,
         NEW late, NEW items
  PROVE  Fits(q, "none", <<>>, cands, FALSE, late, FALSE, items)
<1>1. q \in Seq(Actions) /\ \A i \in 1..Len(q) : q[i] = "end"
  BY AfterEdit DEF First
<1> QED
  BY <1>1, OnlyEnds

-----------------------------------------------------------------------------
(* What KeyPlanner plans fits a text service at rest.                        *)

FlagActs == {"latinOn", "latinOff", "pendingOn", "pendingOff"}

\* Flags may come before any plan.
LEMMA FlagBefore ==
  ASSUME NEW p, NEW q, NEW a \in FlagActs, First(p, a, q), NEW to, NEW raw, NEW cands,
         NEW open, NEW late, NEW seen, NEW items,
         Fits(q, to, raw, cands, open, late, seen, items)
  PROVE  Fits(p, to, raw, cands, open, late, seen, items) /\ (Clears(q) => Clears(p))
<1>2. a \notin Editing /\ a # "start" /\ a # "end" /\ a # "append" /\ a \notin Choosing
        /\ a \notin Staying /\ a \notin Starters /\ a # "show" /\ a \notin Settling
  BY DEF FlagActs, Settling, Staying, Editing, Choosing, Starters
<1>a. ASSUME NEW i \in 1..Len(p), i # 1 PROVE i - 1 \in 1..Len(q) /\ p[i] = q[i - 1]
  BY <1>a DEF First
<1>b. ASSUME NEW i \in 1..Len(q) PROVE i + 1 \in 1..Len(p) /\ p[i + 1] = q[i]
  BY <1>b DEF First
<1>4. Orderly(p)
  <2>0. Orderly(q) /\ p \in Seq(Actions) /\ p[1] = a
    BY DEF Fits, First
  <2>1. ASSUME NEW i \in 1..Len(p), NEW j \in 1..Len(p), i < j
        PROVE  (p[i] \in Editing => p[j] = "end") /\ (p[j] \in Starters => p[i] # "start")
    <3>1. j # 1
      BY <2>1
    <3>2. CASE i = 1
      BY <3>2, <2>0, <1>2
    <3>3. CASE i # 1
      <4>1. i - 1 \in 1..Len(q) /\ j - 1 \in 1..Len(q) /\ i - 1 < j - 1
              /\ p[i] = q[i - 1] /\ p[j] = q[j - 1]
        BY <3>1, <3>3, <1>a, <2>1
      <4> QED
        BY <4>1, <2>0 DEF Orderly
    <3> QED
      BY <3>2, <3>3
  <2>2. ASSUME NEW i \in 1..Len(p), p[i] = "show"
        PROVE  \E j \in 1..Len(p) : i < j /\ p[j] \in Choosing
    <3>1. i # 1
      BY <2>2, <2>0, <1>2
    <3>2. PICK j \in 1..Len(q) : i - 1 < j /\ q[j] \in Choosing
      BY <3>1, <2>2, <1>a, <2>0 DEF Orderly
    <3> QED
      BY <3>2, <1>b
  <2> QED
    BY <2>0, <2>1, <2>2 DEF Orderly
<1>5. TipFits(p, to, open, late)
  <2>0. TipFits(q, to, open, late) /\ p[1] = a
    BY DEF Fits, First
  <2>1. ASSUME NEW i \in 1..Len(p), p[i] \in Starters
        PROVE  ~open \/ \E j \in 1..Len(p) : j < i /\ p[j] = "end"
    <3>1. i - 1 \in 1..Len(q) /\ p[i] = q[i - 1]
      BY <2>0, <2>1, <1>2, <1>a
    <3>2. CASE open
      <4>1. PICK j \in 1..Len(q) : j < i - 1 /\ q[j] = "end"
        BY <3>1, <3>2, <2>0, <2>1 DEF TipFits
      <4> QED
        BY <4>1, <1>b
    <3> QED
      BY <3>2
  <2>2. ASSUME NEW i \in 1..Len(p), NEW act, i # 1,
               \E j \in 1..Len(q) : i - 1 < j /\ q[j] = act
        PROVE  \E j \in 1..Len(p) : i < j /\ p[j] = act
    BY <2>2, <1>b
  <2>3. ASSUME to = "none"
        PROVE  /\ open => Has(p, {"end"})
               /\ \A i \in 1..Len(p) :
                    p[i] \in Editing \union {"start"} => \E j \in 1..Len(p) : i < j /\ p[j] = "end"
    <3>1. open => Has(p, {"end"})
      BY <2>3, <2>0, FirstHasAll DEF TipFits
    <3>2. ASSUME NEW i \in 1..Len(p), p[i] \in Editing \union {"start"}
          PROVE  \E j \in 1..Len(p) : i < j /\ p[j] = "end"
      <4>1. i # 1
        BY <3>2, <2>0, <1>2
      <4>2. i - 1 \in 1..Len(q) /\ q[i - 1] \in Editing \union {"start"}
        BY <3>2, <4>1, <1>a
      <4> QED
        BY <4>1, <4>2, <2>0, <2>2, <2>3 DEF TipFits
    <3> QED
      BY <3>1, <3>2
  <2>4. ASSUME to # "none", ~late
        PROVE  /\ open \/ Has(p, {"start"})
               /\ \A i \in 1..Len(p) : p[i] = "end" => \E j \in 1..Len(p) : i < j /\ p[j] = "start"
    <3>1. open \/ Has(p, {"start"})
      BY <2>4, <2>0, FirstHasAll DEF TipFits
    <3>2. ASSUME NEW i \in 1..Len(p), p[i] = "end"
          PROVE  \E j \in 1..Len(p) : i < j /\ p[j] = "start"
      <4>1. i # 1
        BY <3>2, <2>0, <1>2
      <4>2. i - 1 \in 1..Len(q) /\ q[i - 1] = "end"
        BY <3>2, <4>1, <1>a
      <4> QED
        BY <4>1, <4>2, <2>0, <2>2, <2>4 DEF TipFits
    <3> QED
      BY <3>1, <3>2
  <2> QED
    BY <2>1, <2>3, <2>4 DEF TipFits
<1>6. RawFits(p, to, raw, late) /\ CandsFit(p, to, cands) /\ WindowFits(p, to, cands, seen, items)
  BY <1>2, FirstHasAll DEF Fits, RawFits, CandsFit, WindowFits
<1>7. ASSUME Clears(q) PROVE Clears(p)
  <2>1. PICK i \in 1..Len(q) :
          q[i] \in Clearing /\ \A j \in 1..Len(q) : i < j => q[j] \notin Editing
    BY <1>7 DEF Clears
  <2>2. ASSUME NEW j \in 1..Len(p), i + 1 < j PROVE p[j] \notin Editing
    BY <2>2, <2>1, <1>a
  <2> QED
    BY <2>1, <2>2, <1>b DEF Clears
<1> QED
  BY <1>4, <1>5, <1>6, <1>7 DEF Fits

\* The plans for a text service that composes nothing.
LEMMA IdlePlansFit ==
  ASSUME NEW raw, NEW cands, NEW open, NEW late, NEW seen, NEW items,
         ~open, ~seen, late \/ raw = <<>>
  PROVE  /\ Fits(<<"start", "append">>, "composing", raw, cands, open, late, seen, items)
         /\ Fits(<<"start", "latinOn", "append">>, "composing", raw, cands, open, late, seen, items)
         /\ \A act \in {"toKana", "toLatin"} :
              Fits(<<act>>, "none", raw, cands, open, late, seen, items)
         /\ Fits(<<"start", "append", "end">>, "none", raw, cands, open, late, seen, items)
<1> USE DEF Fits, Orderly, TipFits, CandsFit, WindowFits, Has, Actions, Editing,
            Starters, Choosing, Settling, Staying, RawFits
<1>1. Fits(<<"start", "append">>, "composing", raw, cands, open, late, seen, items)
  OBVIOUS
<1>2. Fits(<<"start", "latinOn", "append">>, "composing", raw, cands, open, late, seen, items)
  OBVIOUS
<1>3. ASSUME NEW act \in {"toKana", "toLatin"}
      PROVE  Fits(<<act>>, "none", raw, cands, open, late, seen, items)
  OBVIOUS
<1>4. Fits(<<"start", "append", "end">>, "none", raw, cands, open, late, seen, items)
  OBVIOUS
<1> QED
  BY <1>1, <1>2, <1>3, <1>4

\* The plans for a text service that composes: the composition goes on.
LEMMA OpenPlansFit ==
  ASSUME NEW raw, NEW cands, NEW open, NEW late, NEW seen, NEW items,
         late \/ open, cands # <<>>, seen => items = cands
  PROVE  /\ \A act \in {"append", "shrinkAppend", "remove", "shrink"} :
              Fits(<<act>>, "composing", raw, cands, open, late, seen, items)
         /\ \A act \in {"up", "down", "convert"} :
              Fits(<<act>>, "previewing", raw, cands, open, late, seen, items)
         /\ Fits(<<"show", "down">>, "previewing", raw, cands, open, late, seen, items)
         /\ Fits(<<"end", "start", "append">>, "composing", raw, cands, open, late, seen, items)
         /\ Fits(<<"end", "start", "latinOn", "append">>, "composing", raw, cands, open, late,
                 seen, items)
         /\ \A act \in {"append", "shrinkAppend"} :
              Fits(<<"latinOn", act>>, "composing", raw, cands, open, late, seen, items)
<1> USE DEF Fits, Orderly, TipFits, CandsFit, WindowFits, Has, Actions, Editing,
            Starters, Choosing, Settling, Staying, RawFits
<1>1. ASSUME NEW act \in {"append", "shrinkAppend", "remove", "shrink"}
      PROVE  Fits(<<act>>, "composing", raw, cands, open, late, seen, items)
  OBVIOUS
<1>2. ASSUME NEW act \in {"up", "down", "convert"}
      PROVE  Fits(<<act>>, "previewing", raw, cands, open, late, seen, items)
  OBVIOUS
<1>3. Fits(<<"show", "down">>, "previewing", raw, cands, open, late, seen, items)
  OBVIOUS
<1>4. Fits(<<"end", "start", "append">>, "composing", raw, cands, open, late, seen, items)
  OBVIOUS
<1>5. Fits(<<"end", "start", "latinOn", "append">>, "composing", raw, cands, open, late,
           seen, items)
  OBVIOUS
<1>6. ASSUME NEW act \in {"append", "shrinkAppend"}
      PROVE  Fits(<<"latinOn", act>>, "composing", raw, cands, open, late, seen, items)
  OBVIOUS
<1> QED
  BY <1>1, <1>2, <1>3, <1>4, <1>5, <1>6

\* The same, and the composition is over.
LEMMA EndPlansFit ==
  ASSUME NEW raw, NEW cands, NEW open, NEW late, NEW seen, NEW items
  PROVE  /\ Fits(<<"end">>, "none", raw, cands, open, late, seen, items)
         /\ Fits(<<"remove", "end">>, "none", raw, cands, open, late, seen, items)
         /\ \A act \in {"commit", "toKana", "toLatin"} :
              Fits(<<"end", act>>, "none", raw, cands, open, late, seen, items)
         /\ Clears(<<"end">>) /\ Clears(<<"remove", "end">>)
         /\ \A act \in {"commit", "toKana", "toLatin"} : Clears(<<"end", act>>)
<1> USE DEF Fits, Orderly, TipFits, CandsFit, WindowFits, Has, Actions, Editing,
            Starters, Choosing, Settling, Staying, RawFits
<1>1. Fits(<<"end">>, "none", raw, cands, open, late, seen, items)
  OBVIOUS
<1>2. Fits(<<"remove", "end">>, "none", raw, cands, open, late, seen, items)
  OBVIOUS
<1>3. ASSUME NEW act \in {"commit", "toKana", "toLatin"}
      PROVE  Fits(<<"end", act>>, "none", raw, cands, open, late, seen, items)
  OBVIOUS
<1>4. Clears(<<"end">>) /\ Clears(<<"remove", "end">>)
  BY DEF Clears, Clearing
<1>5. ASSUME NEW act \in {"commit", "toKana", "toLatin"} PROVE Clears(<<"end", act>>)
  BY DEF Clears, Clearing
<1> QED
  BY <1>1, <1>2, <1>3, <1>4, <1>5

-----------------------------------------------------------------------------
\* A plan that fits a text service at rest with the composition w.
PlanFits(plan, w, open, late, seen, items) ==
  /\ plan.acts # <<>> /\ plan.to \in States
  /\ Fits(plan.acts, plan.to, w.raw, w.cands, open, late, seen, items)
  /\ w.state # "none" => plan.to # "none" \/ Clears(plan.acts)

LEMMA RestFits ==
  ASSUME NEW to, NEW raw, NEW cands, NEW open, NEW late, NEW seen, NEW items,
         Fits(<<>>, to, raw, cands, open, late, seen, items)
  PROVE  /\ to = "none" => ~open /\ ~seen /\ (late \/ raw = <<>>)
         /\ to # "none" => (late \/ open) /\ cands # <<>> /\ (seen => items = cands)
<1>1. ASSUME NEW acts PROVE ~Has(<<>>, acts)
  BY DEF Has
<1>2. TipFits(<<>>, to, open, late) /\ RawFits(<<>>, to, raw, late)
        /\ CandsFit(<<>>, to, cands) /\ WindowFits(<<>>, to, cands, seen, items)
  BY DEF Fits
<1> QED
  BY <1>1, <1>2 DEF TipFits, RawFits, CandsFit, WindowFits

LEMMA BeforeFits ==
  ASSUME NEW plan, NEW w, NEW open, NEW late, NEW seen, NEW items,
         PlanFits(plan, w, open, late, seen, items), NEW condition, NEW a \in FlagActs
  PROVE  PlanFits(Before(plan, condition, a), w, open, late, seen, items)
<1>1. CASE condition
  <2> DEFINE p == <<a>> \o plan.acts
  <2>1. plan.acts \in Seq(Actions)
    BY DEF PlanFits, Fits, Orderly
  <2>2. First(p, a, plan.acts)
    BY <2>1, FirstBefore DEF FlagActs, Actions
  <2>3. p # <<>>
    BY <2>1
  <2> HIDE DEF p
  <2>4. Fits(p, plan.to, w.raw, w.cands, open, late, seen, items)
          /\ (Clears(plan.acts) => Clears(p))
    BY <2>2, FlagBefore DEF PlanFits
  <2>5. Before(plan, condition, a) = Plan(plan.to, p)
    BY <1>1 DEF Before, p
  <2> QED
    BY <2>3, <2>4, <2>5 DEF PlanFits, Plan
<1>2. CASE ~condition
  BY <1>2 DEF Before
<1> QED
  BY <1>1, <1>2

\* Nothing but flags.
LEMMA FlagPlansFit ==
  ASSUME NEW w, w.state \in States, NEW open, NEW late, NEW seen, NEW items,
         Fits(<<>>, w.state, w.raw, w.cands, open, late, seen, items), NEW a \in FlagActs
  PROVE  PlanFits(Plan(w.state, <<a>>), w, open, late, seen, items)
<1>1. First(<<a>>, a, <<>>)
  BY DEF First, FlagActs, Actions
<1>2. Fits(<<a>>, w.state, w.raw, w.cands, open, late, seen, items)
  BY <1>1, FlagBefore
<1> QED
  BY <1>2 DEF PlanFits, Plan

LEMMA SameSequence ==
  ASSUME NEW S, NEW s \in Seq(S), NEW t \in Seq(S), Len(s) = Len(t),
         \A i \in 1..Len(s) : s[i] = t[i]
  PROVE  s = t
OBVIOUS

LEMMA PairOf == ASSUME NEW x, NEW y PROVE <<x>> \o <<y>> = <<x, y>>
<1> DEFINE S == {x, y}
           s == <<x>> \o <<y>>
           t == <<x, y>>
<1>1. /\ s \in Seq(S) /\ Len(s) = 2 /\ s[1] = x /\ s[2] = y
      /\ t \in Seq(S) /\ Len(t) = 2 /\ t[1] = x /\ t[2] = y
  OBVIOUS
<1> HIDE DEF S, s, t
<1>2. s = t
  BY <1>1, SameSequence
<1> QED
  BY <1>2 DEF s, t

LEMMA TripleOf == ASSUME NEW x, NEW y, NEW z PROVE <<x>> \o <<y>> \o <<z>> = <<x, y, z>>
<1> DEFINE S == {x, y, z}
           s == <<x, y>> \o <<z>>
           t == <<x, y, z>>
<1>1. /\ s \in Seq(S) /\ Len(s) = 3 /\ s[1] = x /\ s[2] = y /\ s[3] = z
      /\ t \in Seq(S) /\ Len(t) = 3 /\ t[1] = x /\ t[2] = y /\ t[3] = z
  OBVIOUS
<1> HIDE DEF S, s, t
<1>2. s = t
  BY <1>1, SameSequence
<1> QED
  BY <1>2, PairOf DEF s, t

LEMMA Concatenations ==
  /\ <<"start">> \o <<"latinOn">> \o <<"append">> = <<"start", "latinOn", "append">>
  /\ <<"start">> \o <<>> \o <<"append">> = <<"start", "append">>
  /\ \A act : <<"latinOn">> \o <<act>> = <<"latinOn", act>> /\ <<>> \o <<act>> = <<act>>
  /\ <<"show">> \o <<"down">> = <<"show", "down">>
  /\ <<"latinOff">> \o <<"pendingOff">> = <<"latinOff", "pendingOff">>
<1>1. <<"start">> \o <<>> = <<"start">>
  OBVIOUS
<1>2. <<"start">> \o <<>> \o <<"append">> = <<"start", "append">>
  BY <1>1, PairOf
<1>3. <<"start">> \o <<"latinOn">> \o <<"append">> = <<"start", "latinOn", "append">>
  BY TripleOf
<1>4. ASSUME NEW act PROVE <<>> \o <<act>> = <<act>>
  OBVIOUS
<1> QED
  BY <1>2, <1>3, <1>4, PairOf

LEMMA NonePlansFit ==
  ASSUME NEW w, w.state = "none", NEW open, NEW late, NEW seen, NEW items,
         Fits(<<>>, w.state, w.raw, w.cands, open, late, seen, items),
         NEW key \in Keys, NEW m, NEW starts,
         PlanNone(w, key, m, starts) # Unhandled
  PROVE  PlanFits(PlanNone(w, key, m, starts), w, open, late, seen, items)
<1> DEFINE plan == PlanNone(w, key, m, starts)
<1>1. ~open /\ ~seen /\ (late \/ w.raw = <<>>)
  BY RestFits
<1>2. \/ plan = Plan("composing", <<"start", "latinOn", "append">>)
      \/ plan = Plan("composing", <<"start", "append">>)
      \/ plan = Plan("none", <<"start", "append", "end">>)
      \/ plan = Plan("none", <<"toKana">>)
      \/ plan = Plan("none", <<"toLatin">>)
  BY Concatenations DEF PlanNone, LatinOn, ModeAction
<1> HIDE DEF plan
<1>3. ASSUME plan \in {Plan("composing", <<"start", "latinOn", "append">>),
                       Plan("composing", <<"start", "append">>),
                       Plan("none", <<"start", "append", "end">>),
                       Plan("none", <<"toKana">>), Plan("none", <<"toLatin">>)}
      PROVE  /\ plan.acts # <<>> /\ plan.to \in States
             /\ Fits(plan.acts, plan.to, w.raw, w.cands, open, late, seen, items)
  BY <1>1, <1>3, IdlePlansFit DEF Plan, States
<1> QED
  BY <1>2, <1>3 DEF PlanFits, plan

\* What composing and previewing have in common.
OpenPlans ==
  {Plan("none", <<"remove", "end">>), Plan("composing", <<"remove">>), Plan("none", <<"end">>),
   Plan("composing", <<"shrink">>), Plan("previewing", <<"up">>), Plan("previewing", <<"down">>),
   Plan("previewing", <<"show", "down">>), Plan("previewing", <<"convert">>),
   Plan("none", <<"end", "toKana">>), Plan("none", <<"end", "toLatin">>)}

ComposingPlans ==
  {Plan("none", <<"end", "commit">>),
   Plan("composing", <<"append">>), Plan("composing", <<"shrinkAppend">>),
   Plan("composing", <<"latinOn", "append">>), Plan("composing", <<"latinOn", "shrinkAppend">>),
   Plan("composing", <<"end", "start", "append">>),
   Plan("composing", <<"end", "start", "latinOn", "append">>)}

LEMMA AnyOpenPlanFits ==
  ASSUME NEW w, w.state \in States, w.state # "none",
         NEW open, NEW late, NEW seen, NEW items,
         Fits(<<>>, w.state, w.raw, w.cands, open, late, seen, items),
         NEW plan \in OpenPlans \union ComposingPlans
  PROVE  PlanFits(plan, w, open, late, seen, items)
<1>1. (late \/ open) /\ w.cands # <<>> /\ (seen => items = w.cands)
  BY RestFits
<1>2. plan.to = "none" =>
        \/ plan.acts = <<"remove", "end">> \/ plan.acts = <<"end">>
        \/ \E act \in {"commit", "toKana", "toLatin"} : plan.acts = <<"end", act>>
  BY DEF OpenPlans, ComposingPlans, Plan
<1>3. plan.to = "none" =>
        Fits(plan.acts, plan.to, w.raw, w.cands, open, late, seen, items) /\ Clears(plan.acts)
  BY <1>2, EndPlansFit
<1>4. plan.to # "none" => Fits(plan.acts, plan.to, w.raw, w.cands, open, late, seen, items)
  BY <1>1, OpenPlansFit DEF OpenPlans, ComposingPlans, Plan
<1>5. plan.acts # <<>> /\ plan.to \in States
  BY DEF OpenPlans, ComposingPlans, Plan, States
<1> QED
  BY <1>3, <1>4, <1>5 DEF PlanFits

LEMMA OpenPlan ==
  ASSUME NEW w, NEW key \in Keys
  PROVE  PlanOpen(w, key) \in OpenPlans \union {Unhandled}
<1>1. Preview = <<"show", "down">> \/ Preview = <<"down">>
  BY Concatenations DEF Preview
<1> QED
  BY <1>1 DEF PlanOpen, OpenPlans, RemoveLast, CommitClause, ModeActionComposing, Plan

LEMMA ComposingPlan ==
  ASSUME NEW w, NEW key \in Keys, NEW m, NEW starts, NEW afterN
  PROVE  PlanComposing(w, key, m, starts, afterN) \in OpenPlans \union ComposingPlans \union {Unhandled}
<1>1. LatinOn(starts) \o <<"append">> = <<"latinOn", "append">>
        \/ LatinOn(starts) \o <<"append">> = <<"append">>
  BY Concatenations DEF LatinOn
<1>2. LatinOn(starts) \o <<"shrinkAppend">> = <<"latinOn", "shrinkAppend">>
        \/ LatinOn(starts) \o <<"shrinkAppend">> = <<"shrinkAppend">>
  BY Concatenations DEF LatinOn
<1> QED
  BY <1>1, <1>2, OpenPlan DEF PlanComposing, ComposingPlans, Plan

LEMMA PreviewingPlan ==
  ASSUME NEW w, NEW key \in Keys, NEW m, NEW starts
  PROVE  PlanPreviewing(w, key, m, starts) \in OpenPlans \union ComposingPlans \union {Unhandled}
BY OpenPlan DEF PlanPreviewing, ComposingPlans, Plan

LEMMA PlanForFits ==
  ASSUME NEW w, w.state \in States, NEW open, NEW late, NEW seen, NEW items,
         Fits(<<>>, w.state, w.raw, w.cands, open, late, seen, items),
         NEW key \in Keys, NEW m, NEW starts, NEW afterN,
         PlanFor(w, key, m, starts, afterN) # Unhandled
  PROVE  PlanFits(PlanFor(w, key, m, starts, afterN), w, open, late, seen, items)
<1>1. CASE w.state = "none"
  BY <1>1, NonePlansFit DEF PlanFor
<1>2. CASE w.state # "none"
  <2>1. PlanFor(w, key, m, starts, afterN) \in OpenPlans \union ComposingPlans
    BY <1>2, ComposingPlan, PreviewingPlan DEF PlanFor
  <2> QED
    BY <1>2, <2>1, AnyOpenPlanFits
<1> QED
  BY <1>1, <1>2

LEMMA KeyPlanFits ==
  ASSUME NEW w, w.state \in States, NEW open, NEW late, NEW seen, NEW items,
         Fits(<<>>, w.state, w.raw, w.cands, open, late, seen, items),
         NEW key \in Keys, NEW m, NEW afterN,
         KeyPlan(w, key, m, afterN) # Unhandled
  PROVE  PlanFits(KeyPlan(w, key, m, afterN), w, open, late, seen, items)
<1> DEFINE starts == key = "latin" /\ m = "kana" /\ ~w.tl
           plan   == PlanFor(w, key, m, starts, afterN)
<1>1. CASE key = "shift" /\ w.tl
  BY <1>1, FlagPlansFit DEF KeyPlan, FlagActs
<1>2. CASE ~(key = "shift" /\ w.tl)
  <2>1. plan # Unhandled
    BY <1>2 DEF KeyPlan
  <2>2. PlanFits(plan, w, open, late, seen, items)
    BY <2>1, PlanForFits
  <2> HIDE DEF starts
  <2> DEFINE first == Before(plan, EndsLatin(w, key, plan), "latinOff")
  <2>3. PlanFits(first, w, open, late, seen, items)
    BY <2>2, BeforeFits DEF FlagActs
  <2> HIDE DEF plan, first
  <2>4. PlanFits(Before(first, w.pending /\ key # "shift", "pendingOff"), w, open, late, seen, items)
    BY <2>3, BeforeFits DEF FlagActs
  <2> QED
    BY <1>2, <2>1, <2>4 DEF KeyPlan, first, plan, starts
<1> QED
  BY <1>1, <1>2

LEMMA EisuPlanFits ==
  ASSUME NEW w, w.state \in States, NEW open, NEW late, NEW seen, NEW items,
         Fits(<<>>, w.state, w.raw, w.cands, open, late, seen, items), NEW m,
         EisuPlan(w, m) # Unhandled
  PROVE  PlanFits(EisuPlan(w, m), w, open, late, seen, items)
<1>1. "toggle" \in Keys
  BY DEF Keys, ModeKeys
<1>2. PlanFor(w, "toggle", m, FALSE, FALSE) # Unhandled
  BY DEF EisuPlan
<1>3. PlanFits(PlanFor(w, "toggle", m, FALSE, FALSE), w, open, late, seen, items)
  BY <1>1, <1>2, PlanForFits
<1> QED
  BY <1>2, <1>3, BeforeFits DEF EisuPlan, FlagActs

LEMMA ShiftUpPlanFits ==
  ASSUME NEW w, w.state \in States, NEW open, NEW late, NEW seen, NEW items,
         Fits(<<>>, w.state, w.raw, w.cands, open, late, seen, items),
         ShiftUpPlan(w) # Unhandled
  PROVE  PlanFits(ShiftUpPlan(w), w, open, late, seen, items)
<1> DEFINE plan == Plan(w.state, <<"pendingOff">>)
<1>1. PlanFits(plan, w, open, late, seen, items)
  BY FlagPlansFit DEF FlagActs
<1>2. PlanFits(Before(plan, w.tl, "latinOff"), w, open, late, seen, items)
  BY <1>1, BeforeFits DEF FlagActs
<1>3. ShiftUpPlan(w) = Before(plan, w.tl, "latinOff")
  BY Concatenations DEF ShiftUpPlan, Before, Plan
<1> QED
  BY <1>2, <1>3

LEMMA EndPlanFits ==
  ASSUME NEW w, NEW open, NEW late, NEW seen, NEW items
  PROVE  PlanFits(EndPlan, w, open, late, seen, items)
BY EndPlansFit DEF PlanFits, EndPlan, Plan, States

-----------------------------------------------------------------------------
(* Types.                                                                  *)

\* The converter counts tokens, also for compositions longer than MaxLen.
CountsTokens == \A s \in Seq(Tokens) : FirstClause(s) \in Nat

Windows == [visible : BOOLEAN, items : Seq(Tokens)]
Tips    == [open : BOOLEAN, text : Seq(Tokens)]

\* The types of what the code reads; doc, bounds and ghost do not matter here.
Shape ==
  /\ server \in [up : BOOLEAN, session : Nat \ {0}, input : Seq(Tokens)]
  /\ window \in Windows
  /\ comp \in [Clients -> Comps]
  /\ svc \in [Clients -> Service]
  /\ tip \in [Clients -> Tips]
  /\ run \in [Clients -> Runs]

IInv == Shape /\ SInv

LEMMA SelectTyped ==
  ASSUME CountsTokens, NEW w \in Comps, NEW s \in Seq(Tokens), s # <<>>, NEW i \in Int
  PROVE  /\ Select(w, s, i) \in Comps
         /\ Select(w, s, i).raw = w.raw /\ Select(w, s, i).cands = s
         /\ Select(w, s, i).text = s
<1>1. Items(s) \in {1, 2}
  BY DEF Items
<1>2. Clamp(s, i) \in 0..1
  BY <1>1 DEF Clamp
<1>3. Count(s, Clamp(s, i)) \in Nat
  BY DEF Count, CountsTokens
<1> QED
  BY <1>2, <1>3 DEF Select, Comps

LEMMA EndedTyped ==
  ASSUME NEW w \in Comps
  PROVE  /\ NoComp \in Comps /\ [NoComp EXCEPT !.state = w.state] \in Comps
         /\ [NoComp EXCEPT !.state = w.state].raw = <<>>
         /\ NoComp.state = "none" /\ NoComp.cands = <<>>
         /\ Ended(w) \in Comps /\ Ended(w).raw = <<>> /\ Ended(w).cands = w.cands
         /\ Ended(w).sel \in Int
<1>1. <<>> \in Seq(Tokens)
  OBVIOUS
<1>2. NoComp \in Comps
  BY <1>1 DEF NoComp, Comps, States
<1>3. w.state \in States /\ w.cands \in Seq(Tokens)
  BY DEF Comps
<1>4. [NoComp EXCEPT !.state = w.state] \in Comps /\ Ended(w) \in Comps
  BY <1>2, <1>3 DEF Comps, Ended
<1>5. NoComp.state = "none" /\ NoComp.cands = <<>> /\ NoComp.raw = <<>>
  BY DEF NoComp
<1>6. [NoComp EXCEPT !.state = w.state].raw = <<>>
        /\ Ended(w).raw = <<>> /\ Ended(w).cands = w.cands
  BY <1>2, <1>5 DEF Ended, Comps
<1>7. Ended(w).sel \in Int
  BY <1>4 DEF Comps
<1> QED
  BY <1>2, <1>4, <1>5, <1>6, <1>7

LEMMA CutTyped ==
  ASSUME NEW s \in Seq(Tokens), NEW t \in Seq(Tokens), NEW n \in Nat
  PROVE  DropFirst(n, s) \o t \in Seq(Tokens)
<1>1. DropFirst(n, s) \in Seq(Tokens)
  BY DEF DropFirst
<1> QED
  BY <1>1

LEMMA ServiceTyped ==
  ASSUME NEW s \in Service, NEW session \in Nat
  PROVE  /\ Observe(s, session) \in Service
         /\ [s EXCEPT !.reset = FALSE] \in Service
         /\ session = 1 /\ s = [session |-> 1, reset |-> FALSE] =>
              Observe(s, session) = s /\ [s EXCEPT !.reset = FALSE] = s
<1>1. s.session \in Nat /\ s.reset \in BOOLEAN /\ s = [session |-> s.session, reset |-> s.reset]
  BY DEF Service
<1>2. Observe(s, session) \in Service
  BY <1>1 DEF Observe, Service
<1>3. [s EXCEPT !.reset = FALSE] \in Service
        /\ (~s.reset => [s EXCEPT !.reset = FALSE] = s)
  BY <1>1 DEF Service
<1>4. ASSUME session = 1, s = [session |-> 1, reset |-> FALSE]
      PROVE  Observe(s, session) = s /\ [s EXCEPT !.reset = FALSE] = s
  <2>1. s.session = 1 /\ s.reset = FALSE
    BY <1>4
  <2>2. (s.reset \/ (s.session # 0 /\ s.session # session)) = FALSE
    BY <1>4, <2>1
  <2> QED
    BY <1>3, <1>4, <2>1, <2>2 DEF Observe
<1> QED
  BY <1>1, <1>2, <1>3, <1>4 DEF Service

\* What the documents of an application may become.
LEMMA TipTyped ==
  ASSUME Shape, NEW c \in Clients, NEW text \in Seq(Tokens), NEW new,
         new = Close(c) \/ new = SetText(c, text) \/ new = [tip EXCEPT ![c] = Tip(text)]
  PROVE  /\ new \in [Clients -> Tips]
         /\ \A d \in Clients \ {c} : new[d] = tip[d]
         /\ new = Close(c) => ~new[c].open
         /\ new = SetText(c, text) => (new[c].open <=> tip[c].open)
         /\ new = [tip EXCEPT ![c] = Tip(text)] => new[c].open
<1> tip \in [Clients -> Tips]
  BY DEF Shape
<1>1. Tip(text) \in Tips /\ NoTip \in Tips /\ Tip(text).open /\ ~NoTip.open
  BY DEF Tip, NoTip, Tips
<1> QED
  BY <1>1 DEF Close, SetText

LEMMA Delivery ==
  ASSUME Shape, NEW c \in Clients, NEW new \in Windows, Deliver(c, new)
  PROVE  /\ window' \in Windows
         /\ shown' = c \/ shown' = "nobody"
         /\ Seen(c)' => window' = new
<1>1. CASE Delivered(c, new)
  BY <1>1 DEF Delivered
<1>2. CASE Dropped
  <2>1. shown' = "nobody" /\ window' = window
    BY <1>2 DEF Dropped
  <2> QED
    BY <2>1, SessionAssumption DEF Shape, Seen
<1> QED
  BY <1>1, <1>2 DEF Deliver

LEMMA WindowsTyped ==
  ASSUME Shape, NEW items \in Seq(Tokens), NEW to, NEW b \in BOOLEAN
  PROVE  /\ Hidden \in Windows /\ ~Hidden.visible
         /\ Relisted(items) \in Windows /\ Relisted(items).items = items
         /\ Listing(items, to) \in Windows /\ Listing(items, to).items = items
         /\ [window EXCEPT !.visible = b] \in Windows
         /\ [window EXCEPT !.visible = b].items = window.items
         /\ [window EXCEPT !.visible = b].visible = b
<1>1. window.visible \in BOOLEAN /\ window.items \in Seq(Tokens)
        /\ window = [visible |-> window.visible, items |-> window.items]
  BY DEF Shape, Windows
<1>2. Hidden \in Windows /\ ~Hidden.visible
  BY DEF Windows, Hidden
<1>3. Relisted(items) = [visible |-> window.visible, items |-> items]
  BY <1>1 DEF Relisted
<1>4. [window EXCEPT !.visible = b] = [visible |-> b, items |-> window.items]
  BY <1>1
<1>5. (to # "none" /\ ~AfterSpace) \in BOOLEAN
  OBVIOUS
<1>6. Listing(items, to) \in Windows /\ Listing(items, to).items = items
  BY <1>5 DEF Windows, Listing
<1> QED
  BY <1>1, <1>2, <1>3, <1>4, <1>6 DEF Windows

-----------------------------------------------------------------------------
(* Steps of one application.                                                *)

\* The server has not changed but for its composition, nothing of other
\* applications has, and the window shows what c made it show, if anything.
OnlyOf(c) ==
  /\ server'.up = server.up /\ server'.session = server.session
  /\ \A d \in Clients \ {c} : run'[d] = run[d] /\ comp'[d] = comp[d] /\ svc'[d] = svc[d]
                                /\ tip'[d] = tip[d]
  /\ (shown' = shown /\ window' = window) \/ shown' = c \/ shown' = "nobody"

\* An application keeps to the invariant through the steps of others, and
\* through the death of a server and the start of the next one.
LEMMA OthersFit ==
  ASSUME NEW d \in Clients, ClientFits(d), Late => Late',
         run'[d] = run[d], comp'[d] = comp[d], svc'[d] = svc[d], tip'[d] = tip[d],
         Seen(d)' => Seen(d) /\ window' = window
  PROVE  ClientFits(d)' /\ (Holds(d)' <=> Holds(d))
<1>1. (Idle(d))' <=> Idle(d)
  BY DEF Idle
<1>2. PlanOf(d)' = PlanOf(d) /\ ToOf(d)' = ToOf(d) /\ WorkOf(d)' = WorkOf(d) /\ SvcOf(d)' = SvcOf(d)
  BY <1>1 DEF PlanOf, ToOf, WorkOf, SvcOf
<1>3. Holds(d)' <=> Holds(d)
  BY <1>2 DEF Holds
<1>4. Fits(PlanOf(d), ToOf(d), WorkOf(d).raw, WorkOf(d).cands, tip[d].open, Late, Seen(d),
           window.items)
  BY DEF ClientFits
<1>5. Fits(PlanOf(d), ToOf(d), WorkOf(d).raw, WorkOf(d).cands, tip[d].open, Late', Seen(d)',
           window'.items)
  <2>1. Seen(d)' => Seen(d) /\ window'.items = window.items
    OBVIOUS
  <2>2. TipFits(PlanOf(d), ToOf(d), tip[d].open, Late')
    BY <1>4 DEF Fits, TipFits
  <2>3. RawFits(PlanOf(d), ToOf(d), WorkOf(d).raw, Late')
    BY <1>4 DEF Fits, RawFits
  <2>4. WindowFits(PlanOf(d), ToOf(d), WorkOf(d).cands, Seen(d)', window'.items)
    BY <1>4, <2>1 DEF Fits, WindowFits
  <2> QED
    BY <1>4, <2>2, <2>3, <2>4 DEF Fits
<1>6. ToOf(d)' \in States /\ ((~Idle(d))' => run'[d].plan # <<>>)
        /\ (comp'[d].state # "none" => comp'[d].cands # <<>>)
        /\ (~(Late') => /\ svc'[d] = [session |-> 1, reset |-> FALSE]
                        /\ SvcOf(d)' = [session |-> 1, reset |-> FALSE])
  BY <1>1, <1>2 DEF ClientFits
<1> QED
  BY <1>2, <1>3, <1>5, <1>6 DEF ClientFits

LEMMA LateDepends ==
  ASSUME server'.up = server.up, server'.session = server.session
  PROVE  Late' <=> Late
BY DEF Late

LEMMA StepOfOne ==
  ASSUME SInv, NEW c \in Clients, OnlyOf(c), ClientFits(c)',
         \/ (server.up => (server.input)' = <<>>) /\ (~server.up => server' = server)
         \/ server.up /\ Holds(c)'
         \/ server' = server /\ (Holds(c) => Holds(c)')
  PROVE  SInv'
<1>1. Late' <=> Late
  BY LateDepends DEF OnlyOf
<1>2. ASSUME NEW d \in Clients \ {c} PROVE ClientFits(d)' /\ (Holds(d)' <=> Holds(d))
  <2>1. run'[d] = run[d] /\ comp'[d] = comp[d] /\ svc'[d] = svc[d] /\ tip'[d] = tip[d]
    BY <1>2 DEF OnlyOf
  <2>2. Seen(d)' => Seen(d) /\ window' = window
    <3>1. d # c /\ d # "nobody"
      BY <1>2, SessionAssumption
    <3> QED
      BY <3>1 DEF OnlyOf, Seen
  <2>3. ClientFits(d)
    BY DEF SInv
  <2> QED
    BY <1>1, <2>1, <2>2, <2>3, OthersFit
<1>3. \A d \in Clients : ClientFits(d)'
  BY <1>2
<1>4. Held'
  <2>1. CASE (server.up => (server.input)' = <<>>) /\ (~server.up => server' = server)
    BY <2>1 DEF Held, SInv, OnlyOf
  <2>2. CASE server.up /\ Holds(c)'
    BY <2>2 DEF Held, OnlyOf
  <2>3. CASE server' = server /\ (Holds(c) => Holds(c)')
    BY <2>3, <1>2 DEF Held, SInv
  <2> QED
    BY <2>1, <2>2, <2>3
<1> QED
  BY <1>3, <1>4 DEF SInv

\* The handler goes on with the copies w.
LEMMA GoesOn ==
  ASSUME Shape, NEW c \in Clients, ClientFits(c), ~Idle(c), Late' <=> Late,
         NEW w \in Comps, NEW to \in States, NEW s \in Service, NEW g, Continue(c, w, to, s, g),
         Fits(Tail(run[c].plan), to, w.raw, w.cands, tip'[c].open, Late, Seen(c)', window'.items),
         ~Late => s = [session |-> 1, reset |-> FALSE]
  PROVE  /\ ClientFits(c)'
         /\ Holds(c)' <=> to # "none" \/ Clears(Tail(run[c].plan))
         /\ comp' \in [Clients -> Comps] /\ svc' \in [Clients -> Service]
         /\ run' \in [Clients -> Runs]
         /\ \A d \in Clients \ {c} : run'[d] = run[d] /\ comp'[d] = comp[d] /\ svc'[d] = svc[d]
<1> DEFINE q == Tail(run[c].plan)
<1>0. /\ run \in [Clients -> Runs] /\ comp \in [Clients -> Comps] /\ svc \in [Clients -> Service]
      /\ run[c].why \in {"key", "sink"} /\ run[c].plan \in Seq(Actions) /\ run[c].plan # <<>>
      /\ Resting \in Runs
  <2>1. Resting \in Runs
    BY EndedTyped DEF Resting, Runs, Service, States, Comps, NoComp
  <2> QED
    BY <2>1 DEF Shape, Runs, Idle, ClientFits
<1>f. q \in Seq(Actions) /\ Len(run[c].plan) = Len(q) + 1 /\ Len(q) \in Nat
  BY <1>0, FirstOfPlan DEF First
<1>1. CASE ~Last(c)
  <2> DEFINE r == [plan |-> q, to |-> to, why |-> run[c].why, work |-> w, svc |-> s]
  <2>1. run' = [run EXCEPT ![c] = r] /\ comp' = comp /\ svc' = svc
    BY <1>1 DEF Continue
  <2>2. q \in Seq(Actions) /\ q # <<>>
    <3>1. Len(q) # 0
      BY <1>f, <1>1 DEF Last
    <3> HIDE DEF q
    <3> QED
      BY <1>f, <3>1
  <2>3. r \in Runs
    BY <1>0, <2>2 DEF Runs
  <2>4. run'[c] = r /\ run' \in [Clients -> Runs]
    BY <1>0, <2>1, <2>3
  <2>5. ~(Idle(c))'
    BY <1>0, <2>4 DEF Idle
  <2>6. PlanOf(c)' = q /\ ToOf(c)' = to /\ WorkOf(c)' = w /\ SvcOf(c)' = s
    BY <2>4, <2>5 DEF PlanOf, ToOf, WorkOf, SvcOf
  <2>7. comp'[c].state # "none" => comp'[c].cands # <<>>
    BY <2>1 DEF ClientFits
  <2>8. ~Late => svc'[c] = [session |-> 1, reset |-> FALSE]
    BY <2>1 DEF ClientFits
  <2>9. run'[c].plan # <<>>
    BY <2>2, <2>4
  <2>10. ClientFits(c)'
    BY <2>5, <2>6, <2>7, <2>8, <2>9 DEF ClientFits
  <2>11. Holds(c)' <=> to # "none" \/ Clears(q)
    BY <2>6 DEF Holds
  <2> QED
    BY <1>0, <2>1, <2>4, <2>10, <2>11
<1>2. CASE Last(c)
  <2> DEFINE k == [w EXCEPT !.state = to]
  <2>1. run' = [run EXCEPT ![c] = Resting] /\ comp' = [comp EXCEPT ![c] = k]
          /\ svc' = [svc EXCEPT ![c] = s]
    BY <1>2 DEF Continue
  <2>2. q = <<>>
    <3>1. Len(q) = 0
      BY <1>f, <1>2 DEF Last
    <3> HIDE DEF q
    <3> QED
      BY <1>f, <3>1
  <2>3. k \in Comps /\ k.state = to /\ k.raw = w.raw /\ k.cands = w.cands
    BY DEF Comps
  <2> HIDE DEF k
  <2>4. run'[c] = Resting /\ comp'[c] = k /\ svc'[c] = s
    BY <1>0, <2>1
  <2>5. (Idle(c))'
    BY <2>4 DEF Idle, Resting
  <2>6. PlanOf(c)' = q /\ ToOf(c)' = to /\ WorkOf(c)' = k /\ SvcOf(c)' = s
    BY <2>2, <2>3, <2>4, <2>5 DEF PlanOf, ToOf, WorkOf, SvcOf
  <2>7. to # "none" => w.cands # <<>>
    <3>1. Fits(<<>>, to, w.raw, w.cands, tip'[c].open, Late, Seen(c)', window'.items)
      BY <2>2
    <3> QED
      BY <3>1, RestFits
  <2>8. ClientFits(c)'
    BY <2>3, <2>4, <2>5, <2>6, <2>7 DEF ClientFits
  <2>9. Holds(c)' <=> to # "none" \/ Clears(q)
    BY <2>6 DEF Holds
  <2>10. run' \in [Clients -> Runs] /\ comp' \in [Clients -> Comps] /\ svc' \in [Clients -> Service]
    BY <1>0, <2>1, <2>3
  <2> QED
    BY <1>0, <2>1, <2>8, <2>9, <2>10
<1> QED
  BY <1>1, <1>2

LEMMA ClearsRest ==
  ASSUME NEW p, NEW q, NEW a, First(p, a, q), a \notin Clearing, Clears(p)
  PROVE  Clears(q)
<1>1. PICK i \in 1..Len(p) : p[i] \in Clearing /\ \A j \in 1..Len(p) : i < j => p[j] \notin Editing
  BY DEF Clears
<1>2. i - 1 \in 1..Len(q) /\ q[i - 1] \in Clearing
  BY <1>1 DEF First
<1>3. ASSUME NEW j \in 1..Len(q), i - 1 < j PROVE q[j] \notin Editing
  <2>1. j + 1 \in 1..Len(p) /\ i < j + 1 /\ q[j] = p[j + 1]
    BY <1>3 DEF First
  <2> QED
    BY <2>1, <1>1
<1> QED
  BY <1>2, <1>3 DEF Clears

\* An edit of a plan that leaves nothing composed is followed by an "end".
LEMMA EditClears ==
  ASSUME NEW p, NEW q, NEW a \in Editing, First(p, a, q), NEW open, NEW late,
         Orderly(p), TipFits(p, "none", open, late)
  PROVE  Clears(q)
<1>1. 1 \in 1..Len(p) /\ p[1] \in Editing
  BY DEF First
<1>2. PICK j \in 1..Len(p) : 1 < j /\ p[j] = "end"
  BY <1>1 DEF TipFits
<1>3. j - 1 \in 1..Len(q) /\ q[j - 1] \in Clearing
  BY <1>2 DEF First, Clearing
<1>4. \A i \in 1..Len(q) : q[i] \notin Editing
  BY AfterEdit DEF Editing
<1> QED
  BY <1>3, <1>4 DEF Clears

\* What is known when the handler of c comes to an action.
LEMMA Running ==
  ASSUME IInv, NEW c \in Clients, NEW a \in Actions, Acting(c, a)
  PROVE  /\ ~Idle(c) /\ run[c].plan # <<>> /\ ClientFits(c)
         /\ First(run[c].plan, a, Tail(run[c].plan))
         /\ Fits(run[c].plan, run[c].to, run[c].work.raw, run[c].work.cands, tip[c].open, Late,
                 Seen(c), window.items)
         /\ run[c].work \in Comps /\ run[c].to \in States /\ run[c].svc \in Service
         /\ ~Late => run[c].svc = [session |-> 1, reset |-> FALSE]
         /\ Holds(c) <=> run[c].to # "none" \/ Clears(run[c].plan)
<1>1. ~Idle(c) /\ Head(run[c].plan) = a
  BY DEF Acting
<1>2. ClientFits(c) /\ run[c] \in Runs
  BY DEF IInv, SInv, Shape
<1>3. PlanOf(c) = run[c].plan /\ ToOf(c) = run[c].to /\ WorkOf(c) = run[c].work
        /\ SvcOf(c) = run[c].svc
  BY <1>1 DEF PlanOf, ToOf, WorkOf, SvcOf
<1>4. run[c].plan # <<>> /\ run[c].plan \in Seq(Actions)
  BY <1>1, <1>2 DEF ClientFits, Runs
<1>5. First(run[c].plan, a, Tail(run[c].plan))
  BY <1>1, <1>4, FirstOfPlan
<1>6. Fits(run[c].plan, run[c].to, run[c].work.raw, run[c].work.cands, tip[c].open, Late,
           Seen(c), window.items)
  BY <1>2, <1>3 DEF ClientFits
<1>7. run[c].work \in Comps /\ run[c].to \in States /\ run[c].svc \in Service
  BY <1>2, <1>3 DEF ClientFits, Runs
<1>8. ~Late => run[c].svc = [session |-> 1, reset |-> FALSE]
  BY <1>2, <1>3 DEF ClientFits
<1>9. Holds(c) <=> run[c].to # "none" \/ Clears(run[c].plan)
  BY <1>3 DEF Holds
<1> QED
  BY <1>1, <1>2, <1>4, <1>5, <1>6, <1>7, <1>8, <1>9

Servers == [up : BOOLEAN, session : Nat \ {0}, input : Seq(Tokens)]

LEMMA HandlerStep ==
  ASSUME IInv, NEW c \in Clients, ~Idle(c),
         server' \in Servers, server'.up = server.up, server'.session = server.session,
         window' \in Windows, tip' \in [Clients -> Tips],
         \A d \in Clients \ {c} : tip'[d] = tip[d],
         (shown' = shown /\ window' = window) \/ shown' = c \/ shown' = "nobody",
         NEW w \in Comps, NEW to \in States, NEW s \in Service, NEW g, Continue(c, w, to, s, g),
         NEW q, q = Tail(run[c].plan),
         Fits(q, to, w.raw, w.cands, tip'[c].open, Late, Seen(c)', window'.items),
         ~Late => s = [session |-> 1, reset |-> FALSE],
         \/ server.up /\ (server.input)' = <<>>
         \/ server.up /\ (to # "none" \/ Clears(q))
         \/ server' = server /\ (Holds(c) => to # "none" \/ Clears(q))
  PROVE  IInv'
<1>1. Late' <=> Late
  BY LateDepends
<1>2. ClientFits(c) /\ Shape /\ SInv
  BY DEF IInv, SInv
<1>3. /\ ClientFits(c)'
      /\ Holds(c)' <=> to # "none" \/ Clears(Tail(run[c].plan))
      /\ comp' \in [Clients -> Comps] /\ svc' \in [Clients -> Service]
      /\ run' \in [Clients -> Runs]
      /\ \A d \in Clients \ {c} : run'[d] = run[d] /\ comp'[d] = comp[d] /\ svc'[d] = svc[d]
  BY <1>1, <1>2, GoesOn
<1>4. OnlyOf(c)
  BY <1>3 DEF OnlyOf
<1>5. SInv'
  BY <1>2, <1>3, <1>4, StepOfOne
<1>6. Shape'
  BY <1>3 DEF Shape, Servers
<1> QED
  BY <1>5, <1>6 DEF IInv

-----------------------------------------------------------------------------
(* The ClientActions keep the invariant.                                    *)

LEMMA StartKeeps ==
  ASSUME IInv, NEW c \in Clients, StartComposition(c)
  PROVE  IInv'
<1> DEFINE p  == run[c].plan
           q  == Tail(p)
           to == run[c].to
           w  == run[c].work
           s  == run[c].svc
<1>0. Shape /\ Acting(c, "start")
  BY DEF IInv, StartComposition, Starting
<1>1. /\ ~Idle(c) /\ First(p, "start", q)
      /\ Fits(p, to, w.raw, w.cands, tip[c].open, Late, Seen(c), window.items)
      /\ w \in Comps /\ to \in States /\ s \in Service
      /\ ~Late => s = [session |-> 1, reset |-> FALSE]
      /\ Holds(c) <=> to # "none" \/ Clears(p)
  BY <1>0, Running DEF Actions
<1>2. server' = server /\ Continue(c, w, to, s, ghost)
  BY DEF StartComposition, Work
<1>q. q = Tail(run[c].plan)
  OBVIOUS
<1> HIDE DEF p, q, to, w, s
<1>3. tip' \in [Clients -> Tips] /\ tip'[c].open = TRUE
        /\ \A d \in Clients \ {c} : tip'[d] = tip[d]
  <2>1. <<>> \in Seq(Tokens)
    OBVIOUS
  <2>2. tip' = [tip EXCEPT ![c] = Tip(<<>>)]
    BY DEF StartComposition
  <2> QED
    BY <1>0, <2>1, <2>2, TipTyped DEF Tips
<1>4. /\ window' \in Windows
      /\ (shown' = shown /\ window' = window) \/ shown' = c \/ shown' = "nobody"
      /\ Seen(c)' => Seen(c) /\ window'.items = window.items
  <2>1. CASE AfterSpace
    <3>1. Deliver(c, [window EXCEPT !.visible = FALSE])
      BY <2>1 DEF StartComposition
    <3>2. [window EXCEPT !.visible = FALSE] \in Windows /\ ~[window EXCEPT !.visible = FALSE].visible
      <4>1. <<>> \in Seq(Tokens) /\ FALSE \in BOOLEAN
        OBVIOUS
      <4> QED
        BY <1>0, <4>1, WindowsTyped
    <3>3. window' \in Windows /\ (shown' = c \/ shown' = "nobody")
            /\ (Seen(c)' => window' = [window EXCEPT !.visible = FALSE])
      BY <1>0, <3>1, <3>2, Delivery
    <3> QED
      BY <3>2, <3>3 DEF Seen
  <2>2. CASE ~AfterSpace
    BY <1>0, <2>2 DEF StartComposition, NoUpdate, Shape, Seen
  <2> QED
    BY <2>1, <2>2
<1>5. Fits(q, to, w.raw, w.cands, tip'[c].open, Late, Seen(c)', window'.items)
  <2>1. Narrower(Seen(c)', window'.items, Seen(c), window.items)
    BY <1>4 DEF Narrower
  <2>2. Fits(q, to, w.raw, w.cands, TRUE, Late, Seen(c)', window'.items)
    BY <1>1, <2>1, StartFits
  <2> QED
    BY <1>3, <2>2
<1>6. Holds(c) => to # "none" \/ Clears(q)
  BY <1>1, ClearsRest DEF Clearing
<1>7. server \in Servers
  BY <1>0 DEF Shape, Servers
<1> QED
  BY <1>1, <1>q, <1>2, <1>3, <1>4, <1>5, <1>6, <1>7, HandlerStep

LEMMA Quiet ==
  ASSUME Shape, NEW c \in Clients, NoUpdate
  PROVE  /\ window' \in Windows /\ shown' = shown /\ window' = window
         /\ Narrower(Seen(c)', window'.items, Seen(c), window.items)
BY DEF Shape, NoUpdate, Narrower, Seen

LEMMA ShowKeeps ==
  ASSUME IInv, NEW c \in Clients, ShowCandidateWindow(c)
  PROVE  IInv'
<1> DEFINE p  == run[c].plan
           q  == Tail(p)
           to == run[c].to
           w  == run[c].work
           s  == run[c].svc
<1>0. Shape /\ Acting(c, "show")
  BY DEF IInv, ShowCandidateWindow
<1>1. /\ ~Idle(c) /\ First(p, "show", q)
      /\ Fits(p, to, w.raw, w.cands, tip[c].open, Late, Seen(c), window.items)
      /\ w \in Comps /\ to \in States /\ s \in Service
      /\ ~Late => s = [session |-> 1, reset |-> FALSE]
      /\ Holds(c) <=> to # "none" \/ Clears(p)
  BY <1>0, Running DEF Actions
<1>2. server' = server /\ tip' = tip /\ Continue(c, w, to, s, ghost)
  BY DEF ShowCandidateWindow, Work
<1>q. q = Tail(run[c].plan)
  OBVIOUS
<1> HIDE DEF p, q, to, w, s
<1>3. window' \in Windows /\ (shown' = c \/ shown' = "nobody")
  <2>1. <<>> \in Seq(Tokens) /\ TRUE \in BOOLEAN
    OBVIOUS
  <2>2. [window EXCEPT !.visible = TRUE] \in Windows
    BY <1>0, <2>1, WindowsTyped
  <2>3. Deliver(c, [window EXCEPT !.visible = TRUE])
    BY DEF ShowCandidateWindow
  <2> QED
    BY <1>0, <2>2, <2>3, Delivery
<1>4. Fits(q, to, w.raw, w.cands, tip'[c].open, Late, Seen(c)', window'.items)
  <2>1. Fits(q, to, w.raw, w.cands, tip[c].open, Late, Seen(c)', window'.items)
    BY <1>1, ShowFits
  <2> QED
    BY <1>2, <2>1
<1>5. Holds(c) => to # "none" \/ Clears(q)
  BY <1>1, ClearsRest DEF Clearing
<1>6. server \in Servers /\ tip \in [Clients -> Tips]
  BY <1>0 DEF Shape, Servers
<1> QED
  BY <1>1, <1>q, <1>2, <1>3, <1>4, <1>5, <1>6, HandlerStep

\* An action that leaves the server, the window and the copies' raw input and
\* candidates alone.
LEMMA NeutralKeeps ==
  ASSUME IInv, NEW c \in Clients,
         NEW a \in Actions, Acting(c, a), a \notin Settling \union {"start", "show"} \union Clearing,
         server' = server, NoUpdate,
         tip' \in [Clients -> Tips], tip'[c].open = tip[c].open,
         \A d \in Clients \ {c} : tip'[d] = tip[d],
         NEW k \in Comps, k.raw = run[c].work.raw, k.cands = run[c].work.cands,
         NEW g, Continue(c, k, run[c].to, run[c].svc, g)
  PROVE  IInv'
<1> DEFINE p  == run[c].plan
           q  == Tail(p)
           to == run[c].to
           w  == run[c].work
           s  == run[c].svc
<1>0. Shape
  BY DEF IInv
<1>1. /\ ~Idle(c) /\ First(p, a, q)
      /\ Fits(p, to, w.raw, w.cands, tip[c].open, Late, Seen(c), window.items)
      /\ w \in Comps /\ to \in States /\ s \in Service
      /\ ~Late => s = [session |-> 1, reset |-> FALSE]
      /\ Holds(c) <=> to # "none" \/ Clears(p)
  BY <1>0, Running DEF Actions
<1>2. Continue(c, k, to, s, g) /\ k.raw = w.raw /\ k.cands = w.cands
  OBVIOUS
<1>q. q = Tail(run[c].plan)
  OBVIOUS
<1> HIDE DEF p, q, to, w, s
<1>3. /\ window' \in Windows /\ shown' = shown /\ window' = window
      /\ Narrower(Seen(c)', window'.items, Seen(c), window.items)
  BY <1>0, Quiet
<1>4. Fits(q, to, k.raw, k.cands, tip'[c].open, Late, Seen(c)', window'.items)
  <2>1. Fits(q, to, w.raw, w.cands, tip[c].open, Late, Seen(c)', window'.items)
    BY <1>1, <1>3, NeutralFits
  <2> QED
    BY <1>2, <2>1
<1>5. Holds(c) => to # "none" \/ Clears(q)
  BY <1>1, ClearsRest
<1>6. server \in Servers
  BY <1>0 DEF Shape, Servers
<1> QED
  BY <1>1, <1>q, <1>2, <1>3, <1>4, <1>5, <1>6, HandlerStep

LEMMA CommitKeeps ==
  ASSUME IInv, NEW c \in Clients, CommitTextDirect(c)
  PROVE  IInv'
<1>1. Acting(c, "commit") /\ "commit" \in Actions
        /\ "commit" \notin Settling \union {"start", "show"} \union Clearing
  BY Members DEF CommitTextDirect, Starting, Actions, Clearing
<1>2. /\ server' = server /\ NoUpdate /\ tip' = tip
      /\ Continue(c, run[c].work, run[c].to, run[c].svc, ghost)
  BY DEF CommitTextDirect, Work
<1>3. run[c].work \in Comps /\ tip \in [Clients -> Tips]
  BY <1>1, Running DEF IInv, Shape
<1> QED
  BY <1>1, <1>2, <1>3, NeutralKeeps

LEMMA FlagKeeps ==
  ASSUME IInv, NEW c \in Clients, SetFlag(c)
  PROVE  IInv'
<1> DEFINE w == run[c].work
<1>1. PICK a \in {"latinOn", "latinOff", "pendingOn", "pendingOff"} : Acting(c, a)
  BY DEF SetFlag
<1>2. a \in Actions /\ a \notin Settling \union {"start", "show"} \union Clearing
  BY Members DEF Actions, Clearing
<1>3. w \in Comps /\ tip \in [Clients -> Tips]
  BY <1>1, <1>2, Running DEF IInv, Shape
<1>4. \E k \in Comps : k.raw = w.raw /\ k.cands = w.cands
                         /\ Continue(c, k, run[c].to, run[c].svc, ghost)
  <2> DEFINE h == Head(run[c].plan)
             k == IF h = "latinOn" THEN [w EXCEPT !.tl = TRUE]
                  ELSE IF h = "latinOff" THEN [w EXCEPT !.tl = FALSE, !.pending = FALSE]
                  ELSE [w EXCEPT !.pending = (h = "pendingOn")]
  <2>1. Continue(c, k, run[c].to, run[c].svc, ghost)
    BY DEF SetFlag, Work
  <2>2. k \in Comps /\ k.raw = w.raw /\ k.cands = w.cands
    <3> HIDE DEF w, h
    <3>1. (h = "pendingOn") \in BOOLEAN
      OBVIOUS
    <3> QED
      BY <1>3, <3>1 DEF Comps
  <2> QED
    BY <2>1, <2>2
<1>5. PICK k \in Comps : k.raw = w.raw /\ k.cands = w.cands
                           /\ Continue(c, k, run[c].to, run[c].svc, ghost)
  BY <1>4
<1>6. server' = server /\ NoUpdate /\ tip' = tip
  BY DEF SetFlag
<1> QED
  BY <1>1, <1>2, <1>3, <1>5, <1>6, NeutralKeeps

LEMMA ConvertKeeps ==
  ASSUME CountsTokens, IInv, NEW c \in Clients, SetTextWithType(c)
  PROVE  IInv'
<1> DEFINE w    == run[c].work
           text == SubSeq(w.raw, 1, IF w.n < Len(w.raw) THEN w.n ELSE Len(w.raw)) \o Suffix(w)
           k    == [w EXCEPT !.text = text]
<1>1. Acting(c, "convert") /\ "convert" \in Actions
        /\ "convert" \notin Settling \union {"start", "show"} \union Clearing
  BY Members DEF SetTextWithType, Actions, Clearing
<1>2. w \in Comps /\ Shape
  BY <1>1, Running DEF IInv
<1>3. /\ server' = server /\ NoUpdate /\ tip' = SetText(c, text)
      /\ Continue(c, k, run[c].to, run[c].svc, ghost)
  BY DEF SetTextWithType, Work
<1>4. text \in Seq(Tokens)
  <2> HIDE DEF w
  <2>1. w.raw \in Seq(Tokens) /\ w.text \in Seq(Tokens) /\ w.n \in Nat
    BY <1>2 DEF Comps
  <2> DEFINE m == IF w.n < Len(w.raw) THEN w.n ELSE Len(w.raw)
  <2>2. m \in 0..Len(w.raw)
    BY <2>1
  <2>3. SubSeq(w.raw, 1, m) \in Seq(Tokens)
    <3> HIDE DEF m
    <3> QED
      BY <2>1, <2>2
  <2>4. Suffix(w) \in Seq(Tokens)
    BY <2>1 DEF Suffix
  <2> QED
    BY <2>3, <2>4
<1> HIDE DEF text
<1>5. k \in Comps /\ k.raw = w.raw /\ k.cands = w.cands
  <2> HIDE DEF w
  <2> QED
    BY <1>2, <1>4 DEF Comps
<1>6. tip' \in [Clients -> Tips] /\ tip'[c].open = tip[c].open
        /\ \A d \in Clients \ {c} : tip'[d] = tip[d]
  <2>1. tip' \in [Clients -> Tips] /\ (tip'[c].open <=> tip[c].open)
          /\ \A d \in Clients \ {c} : tip'[d] = tip[d]
    <3> HIDE DEF w
    <3> QED
      BY <1>2, <1>3, <1>4, TipTyped
  <2> QED
    BY <1>2, <2>1 DEF Shape, Tips
<1> HIDE DEF k
<1> QED
  BY <1>1, <1>3, <1>5, <1>6, NeutralKeeps

LEMMA ChoiceKeeps ==
  ASSUME CountsTokens, IInv, NEW c \in Clients, SetSelection(c)
  PROVE  IInv'
<1> DEFINE p  == run[c].plan
           q  == Tail(p)
           to == run[c].to
           w  == run[c].work
           s  == run[c].svc
           i  == IF Acting(c, "up") THEN w.sel - 1 ELSE w.sel + 1
           k  == Select(w, w.cands, i)
<1>0. Shape
  BY DEF IInv
<1>a. PICK a \in Choosing : Acting(c, a)
  BY DEF SetSelection, Choosing
<1>1. /\ ~Idle(c) /\ First(p, a, q)
      /\ Fits(p, to, w.raw, w.cands, tip[c].open, Late, Seen(c), window.items)
      /\ w \in Comps /\ to \in States /\ s \in Service
      /\ ~Late => s = [session |-> 1, reset |-> FALSE]
      /\ Holds(c) <=> to # "none" \/ Clears(p)
  <2>1. a \in Actions
    BY DEF Choosing, Actions
  <2> QED
    BY <1>a, <2>1, Running
<1>2. \/ w.cands = <<>>
      \/ /\ tip' = SetText(c, k.text)
         /\ Deliver(c, Relisted(w.cands))
         /\ Continue(c, k, to, s, ghost)
  BY DEF SetSelection, Work
<1>3. server' = server
  BY DEF SetSelection
<1>q. q = Tail(run[c].plan)
  OBVIOUS
<1> HIDE DEF p, q, to, w, s
<1>4. w.cands # <<>>
  <2>1. Shows(FALSE, window.items, w.cands)
    BY DEF Shows
  <2> QED
    BY <1>1, <2>1, ChooseFits
<1>5. /\ k \in Comps /\ k.raw = w.raw /\ k.cands = w.cands /\ k.text = w.cands
      /\ w.cands \in Seq(Tokens)
  <2>1. w.cands \in Seq(Tokens) /\ w.sel \in Int
    BY <1>1 DEF Comps
  <2>2. i \in Int
    BY <2>1
  <2> HIDE DEF i
  <2> QED
    BY <1>1, <1>4, <2>1, <2>2, SelectTyped
<1> HIDE DEF i, k
<1>6. tip' \in [Clients -> Tips] /\ tip'[c].open = tip[c].open
        /\ \A d \in Clients \ {c} : tip'[d] = tip[d]
  <2>1. tip' \in [Clients -> Tips] /\ (tip'[c].open <=> tip[c].open)
          /\ \A d \in Clients \ {c} : tip'[d] = tip[d]
    BY <1>0, <1>2, <1>4, <1>5, TipTyped
  <2> QED
    BY <1>0, <2>1 DEF Shape, Tips
<1>7. window' \in Windows /\ (shown' = c \/ shown' = "nobody")
        /\ Shows(Seen(c)', window'.items, w.cands)
  <2>1. Relisted(w.cands) \in Windows /\ Relisted(w.cands).items = w.cands
    BY <1>0, <1>5, WindowsTyped
  <2>2. window' \in Windows /\ (shown' = c \/ shown' = "nobody")
          /\ (Seen(c)' => window' = Relisted(w.cands))
    BY <1>0, <1>2, <1>4, <2>1, Delivery
  <2> QED
    BY <2>1, <2>2 DEF Shows
<1>8. Fits(q, to, k.raw, k.cands, tip'[c].open, Late, Seen(c)', window'.items)
  <2>1. Fits(q, to, w.raw, w.cands, tip[c].open, Late, Seen(c)', window'.items)
    BY <1>1, <1>7, ChooseFits
  <2> QED
    BY <1>5, <1>6, <2>1
<1>9. Holds(c) => to # "none" \/ Clears(q)
  BY <1>1, ClearsRest DEF Clearing, Choosing
<1>10. server \in Servers
  BY <1>0 DEF Shape, Servers
<1> QED
  BY <1>1, <1>q, <1>2, <1>3, <1>4, <1>5, <1>6, <1>7, <1>8, <1>9, <1>10, HandlerStep

\* The server is dead and the handler stops: what it leaves fits a late service.
LEMMA StopKeeps ==
  ASSUME IInv, NEW c \in Clients, ~server.up, server' = server,
         run' = [run EXCEPT ![c] = Resting],
         comp' = comp \/ comp' = [comp EXCEPT ![c] = NoComp],
         NEW s \in Service, svc' = [svc EXCEPT ![c] = s],
         tip' \in [Clients -> Tips], ~tip'[c].open,
         \A d \in Clients \ {c} : tip'[d] = tip[d],
         Deliver(c, Hidden)
  PROVE  IInv'
<1>1. Shape /\ SInv /\ ClientFits(c)
  BY DEF IInv, SInv
<1>2. window' \in Windows /\ (shown' = c \/ shown' = "nobody") /\ ~Seen(c)'
  <2>1. <<>> \in Seq(Tokens) /\ FALSE \in BOOLEAN
    OBVIOUS
  <2>2. Hidden \in Windows /\ ~Hidden.visible
    BY <1>1, <2>1, WindowsTyped
  <2>3. window' \in Windows /\ (shown' = c \/ shown' = "nobody") /\ (Seen(c)' => window' = Hidden)
    BY <1>1, <2>2, Delivery
  <2> QED
    BY <2>2, <2>3 DEF Seen
<1>3. run'[c] = Resting /\ run' \in [Clients -> Runs] /\ svc' \in [Clients -> Service]
        /\ comp' \in [Clients -> Comps]
        /\ \A d \in Clients \ {c} : run'[d] = run[d] /\ comp'[d] = comp[d] /\ svc'[d] = svc[d]
  <2>1. Resting \in Runs /\ NoComp \in Comps
    BY EndedTyped DEF Resting, Runs, Service, States, Comps, NoComp
  <2>2. run' \in [Clients -> Runs] /\ run'[c] = Resting
          /\ \A d \in Clients \ {c} : run'[d] = run[d]
    BY <1>1, <2>1 DEF Shape
  <2>3. comp' \in [Clients -> Comps] /\ \A d \in Clients \ {c} : comp'[d] = comp[d]
    BY <1>1, <2>1 DEF Shape
  <2>4. svc' \in [Clients -> Service] /\ \A d \in Clients \ {c} : svc'[d] = svc[d]
    BY <1>1 DEF Shape
  <2> QED
    BY <2>2, <2>3, <2>4
<1>4. comp'[c] \in Comps /\ (comp'[c].state # "none" => comp'[c].cands # <<>>)
  <2>1. comp'[c] = comp[c] \/ comp'[c] = NoComp
    BY <1>1 DEF Shape
  <2> QED
    BY <1>1, <1>3, <2>1, EndedTyped DEF ClientFits
<1>5. (Idle(c))' /\ (PlanOf(c))' = <<>> /\ (ToOf(c))' = comp'[c].state /\ (WorkOf(c))' = comp'[c]
  BY <1>3 DEF Idle, Resting, PlanOf, ToOf, WorkOf
<1>6. Late'
  BY DEF Late
<1>7. Fits(<<>>, comp'[c].state, comp'[c].raw, comp'[c].cands, tip'[c].open, Late', Seen(c)',
           window'.items)
  <2>1. <<>> \in Seq(Actions) /\ Len(<<>>) = 0 /\ \A acts : ~Has(<<>>, acts)
    BY DEF Has
  <2>2. Orderly(<<>>)
    BY DEF Orderly
  <2>3. TipFits(<<>>, comp'[c].state, tip'[c].open, Late')
    BY <1>6, <2>1 DEF TipFits
  <2>4. RawFits(<<>>, comp'[c].state, comp'[c].raw, Late')
    BY <1>6 DEF RawFits
  <2>5. CandsFit(<<>>, comp'[c].state, comp'[c].cands)
    BY <1>4, <2>1 DEF CandsFit
  <2>6. WindowFits(<<>>, comp'[c].state, comp'[c].cands, Seen(c)', window'.items)
    BY <1>2 DEF WindowFits
  <2> QED
    BY <2>2, <2>3, <2>4, <2>5, <2>6 DEF Fits
<1>8. ClientFits(c)'
  <2>1. comp'[c].state \in States
    BY <1>4 DEF Comps
  <2> QED
    BY <1>4, <1>5, <1>6, <1>7, <2>1 DEF ClientFits
<1>9. SInv'
  <2>1. OnlyOf(c)
    BY <1>2, <1>3 DEF OnlyOf
  <2> QED
    BY <1>1, <1>8, <2>1, StepOfOne
<1>10. Shape'
  BY <1>1, <1>2, <1>3 DEF Shape
<1> QED
  BY <1>9, <1>10 DEF IInv

LEMMA EmptiedTyped ==
  ASSUME Shape
  PROVE  /\ Emptied \in Servers /\ Emptied.up = server.up /\ Emptied.session = server.session
         /\ Emptied.input = <<>>
         /\ \A result \in Seq(Tokens) :
              LET new == [server EXCEPT !.input = result]
              IN new \in Servers /\ new.up = server.up /\ new.session = server.session
                   /\ new.input = result
<1>1. server \in Servers /\ <<>> \in Seq(Tokens)
  BY DEF Shape, Servers
<1> QED
  BY <1>1 DEF Servers, Emptied

\* The service after a request: unchanged as long as there was one server only.
LEMMA Observed ==
  ASSUME Shape, NEW s \in Service, ~Late => s = [session |-> 1, reset |-> FALSE]
  PROVE  /\ Observe(s, server.session) \in Service /\ [s EXCEPT !.reset = FALSE] \in Service
         /\ ~Late => /\ Observe(s, server.session) = [session |-> 1, reset |-> FALSE]
                     /\ [s EXCEPT !.reset = FALSE] = [session |-> 1, reset |-> FALSE]
<1>1. server.session \in Nat \ {0}
  BY DEF Shape
<1>2. ~Late => server.session = 1
  BY <1>1 DEF Late
<1> QED
  BY <1>1, <1>2, ServiceTyped

LEMMA HiddenWindow ==
  ASSUME Shape, NEW c \in Clients, Deliver(c, Hidden)
  PROVE  window' \in Windows /\ (shown' = c \/ shown' = "nobody") /\ (Seen(c)' = FALSE)
<1>1. <<>> \in Seq(Tokens) /\ FALSE \in BOOLEAN
  OBVIOUS
<1>2. Hidden \in Windows /\ ~Hidden.visible
  BY <1>1, WindowsTyped
<1>3. window' \in Windows /\ (shown' = c \/ shown' = "nobody") /\ (Seen(c)' => window' = Hidden)
  BY <1>2, Delivery
<1> QED
  BY <1>2, <1>3 DEF Seen

LEMMA ClosedTip ==
  ASSUME Shape, NEW c \in Clients, tip' = Close(c)
  PROVE  tip' \in [Clients -> Tips] /\ tip'[c].open = FALSE
           /\ \A d \in Clients \ {c} : tip'[d] = tip[d]
<1>1. NoTip \in Tips /\ NoTip.open = FALSE
  BY DEF NoTip, Tips
<1> QED
  BY <1>1 DEF Close, Shape

\* clear_text fails.
LEMMA FailKeeps ==
  ASSUME IInv, NEW c \in Clients, ~server.up, FailToClear(c),
         tip' \in [Clients -> Tips], ~tip'[c].open,
         \A d \in Clients \ {c} : tip'[d] = tip[d],
         Deliver(c, Hidden)
  PROVE  IInv'
<1>1. svc \in [Clients -> Service]
  BY DEF IInv, Shape
<1>2. svc[c] \in Service /\ svc' = [svc EXCEPT ![c] = svc[c]]
  BY <1>1 DEF FailToClear
<1>3. /\ server' = server /\ run' = [run EXCEPT ![c] = Resting]
      /\ comp' = comp \/ comp' = [comp EXCEPT ![c] = NoComp]
  BY DEF FailToClear
<1> QED
  BY <1>2, <1>3, StopKeeps

LEMMA EndKeeps ==
  ASSUME IInv, NEW c \in Clients, EndComposition(c)
  PROVE  IInv'
<1> DEFINE p  == run[c].plan
           q  == Tail(p)
           to == run[c].to
           w  == run[c].work
           s  == run[c].svc
<1>0. Shape /\ Acting(c, "end")
  BY DEF IInv, EndComposition
<1>1. /\ ~Idle(c) /\ First(p, "end", q)
      /\ Fits(p, to, w.raw, w.cands, tip[c].open, Late, Seen(c), window.items)
      /\ w \in Comps /\ to \in States /\ s \in Service
      /\ ~Late => s = [session |-> 1, reset |-> FALSE]
  BY <1>0, Running DEF Actions
<1>2. tip' = Close(c) /\ Deliver(c, Hidden)
  BY DEF EndComposition
<1>3. tip' \in [Clients -> Tips] /\ tip'[c].open = FALSE
        /\ \A d \in Clients \ {c} : tip'[d] = tip[d]
  BY <1>0, <1>2, ClosedTip
<1>4. CASE ~server.up
  <2>1. FailToClear(c)
    BY <1>4 DEF EndComposition
  <2> QED
    BY <1>2, <1>3, <1>4, <2>1, FailKeeps
<1>5. CASE server.up
  <2> DEFINE k == Ended(w)
             t == Observe(s, server.session)
  <2>1. server' = Emptied /\ Continue(c, k, to, t, Uses(ghost, c))
    BY <1>5 DEF EndComposition, Work
  <2>q. q = Tail(run[c].plan)
    OBVIOUS
  <2> HIDE DEF p, q, to, w, s
  <2>2. k \in Comps /\ k.raw = <<>> /\ k.cands = w.cands
    BY <1>1, EndedTyped
  <2>3. t \in Service /\ (~Late => t = [session |-> 1, reset |-> FALSE])
    BY <1>0, <1>1, Observed
  <2> HIDE DEF k, t
  <2>4. window' \in Windows /\ (shown' = c \/ shown' = "nobody") /\ (Seen(c)' = FALSE)
    BY <1>0, <1>2, HiddenWindow
  <2>5. Fits(q, to, k.raw, k.cands, tip'[c].open, Late, Seen(c)', window'.items)
    <3>1. Fits(q, to, <<>>, w.cands, FALSE, Late, FALSE, window'.items)
      BY <1>1, EndFits
    <3> QED
      BY <1>3, <2>2, <2>4, <3>1
  <2>6. server' \in Servers /\ server'.up = server.up /\ server'.session = server.session
          /\ (server.input)' = <<>>
    BY <1>0, <2>1, EmptiedTyped
  <2> QED
    BY <1>1, <1>3, <1>5, <2>1, <2>2, <2>3, <2>4, <2>5, <2>6, <2>q, HandlerStep
<1> QED
  BY <1>4, <1>5

LEMMA ModeKeeps ==
  ASSUME IInv, NEW c \in Clients, SetIMEMode(c)
  PROVE  IInv'
<1> DEFINE p  == run[c].plan
           q  == Tail(p)
           to == run[c].to
           w  == run[c].work
           s  == run[c].svc
<1>0. Shape
  BY DEF IInv
<1>a. PICK a \in {"toKana", "toLatin"} : Acting(c, a)
  BY DEF SetIMEMode, Starting
<1>1. /\ ~Idle(c) /\ First(p, a, q)
      /\ Fits(p, to, w.raw, w.cands, tip[c].open, Late, Seen(c), window.items)
      /\ w \in Comps /\ to \in States /\ s \in Service
      /\ ~Late => s = [session |-> 1, reset |-> FALSE]
  BY <1>a, Running DEF Actions
<1>2. tip' = tip /\ ~tip[c].open /\ tip \in [Clients -> Tips]
  BY <1>0 DEF SetIMEMode, Starting, Shape
<1>4. CASE ~server.up
  <2>1. Deliver(c, Hidden) /\ FailToClear(c)
    BY <1>4 DEF SetIMEMode
  <2> QED
    BY <1>2, <1>4, <2>1, FailKeeps
<1>5. CASE server.up
  <2> DEFINE k == Ended(w)
             t == Observe(s, server.session)
  <2>1. server' = Emptied /\ NoUpdate /\ Continue(c, k, to, t, Uses(ghost, c))
    BY <1>5 DEF SetIMEMode, Work
  <2>q. q = Tail(run[c].plan)
    OBVIOUS
  <2> HIDE DEF p, q, to, w, s
  <2>2. k \in Comps /\ k.raw = <<>> /\ k.cands = w.cands
    BY <1>1, EndedTyped
  <2>3. t \in Service /\ (~Late => t = [session |-> 1, reset |-> FALSE])
    BY <1>0, <1>1, Observed
  <2> HIDE DEF k, t
  <2>4. window' \in Windows /\ shown' = shown /\ window' = window /\ (Seen(c)' = Seen(c))
    BY <1>0, <2>1, Quiet DEF Seen
  <2>5. Fits(q, to, k.raw, k.cands, tip'[c].open, Late, Seen(c)', window'.items)
    <3>1. Fits(q, to, <<>>, w.cands, tip[c].open, Late, Seen(c), window.items)
      BY <1>1, ModeFits
    <3> QED
      BY <1>2, <2>2, <2>4, <3>1
  <2>6. server' \in Servers /\ server'.up = server.up /\ server'.session = server.session
          /\ (server.input)' = <<>>
    BY <1>0, <2>1, EmptiedTyped
  <2> QED
    BY <1>1, <1>2, <1>5, <2>1, <2>2, <2>3, <2>4, <2>5, <2>6, <2>q, HandlerStep
<1> QED
  BY <1>4, <1>5

\* The server answered an edit.
LEMMA EditStep ==
  ASSUME IInv, NEW c \in Clients, NEW a \in Editing, Acting(c, a), server.up,
         NEW result \in Seq(Tokens), result # <<>>, server' = [server EXCEPT !.input = result],
         NEW k \in Comps, k.cands = result,
         NEW newTo \in States,
         newTo = run[c].to \/ (newTo # "none" /\ (run[c].to # "none" \/ Late)),
         NEW t \in Service, ~Late => t = [session |-> 1, reset |-> FALSE],
         NEW g, Continue(c, k, newTo, t, g),
         NEW text \in Seq(Tokens),
         tip' = SetText(c, text) \/ tip' = [tip EXCEPT ![c] = Tip(text)],
         Deliver(c, Listing(result, newTo)) \/ Deliver(c, Relisted(result))
  PROVE  IInv'
<1> DEFINE p  == run[c].plan
           q  == Tail(p)
           to == run[c].to
           w  == run[c].work
           s  == run[c].svc
<1>0. Shape
  BY DEF IInv
<1>1. /\ ~Idle(c) /\ First(p, a, q)
      /\ Fits(p, to, w.raw, w.cands, tip[c].open, Late, Seen(c), window.items)
      /\ w \in Comps /\ to \in States /\ s \in Service
      /\ ~Late => s = [session |-> 1, reset |-> FALSE]
  BY Running DEF Actions, Editing
<1>2. newTo = to \/ (newTo # "none" /\ (to # "none" \/ Late))
  OBVIOUS
<1>q. q = Tail(run[c].plan)
  OBVIOUS
<1> HIDE DEF p, q, to, w, s
<1>3. tip' \in [Clients -> Tips] /\ (tip[c].open => tip'[c].open)
        /\ \A d \in Clients \ {c} : tip'[d] = tip[d]
  BY <1>0, TipTyped
<1>4. window' \in Windows /\ (shown' = c \/ shown' = "nobody")
        /\ Shows(Seen(c)', window'.items, result)
  <2>1. PICK new \in {Listing(result, newTo), Relisted(result)} : Deliver(c, new)
    OBVIOUS
  <2>2. new \in Windows /\ new.items = result
    <3>1. Listing(result, newTo) \in Windows /\ Listing(result, newTo).items = result
      BY <1>0, WindowsTyped
    <3>2. Relisted(result) \in Windows /\ Relisted(result).items = result
      BY <1>0, WindowsTyped
    <3> QED
      BY <3>1, <3>2
  <2>3. window' \in Windows /\ (shown' = c \/ shown' = "nobody") /\ (Seen(c)' => window' = new)
    BY <1>0, <2>1, <2>2, Delivery
  <2> QED
    BY <2>2, <2>3 DEF Shows
<1>5. Fits(q, newTo, k.raw, k.cands, tip'[c].open, Late, Seen(c)', window'.items)
  <2>1. StaysOpen(tip[c].open, tip'[c].open, to, newTo, Late)
    BY <1>2, <1>3 DEF StaysOpen
  <2>2. Fits(q, newTo, k.raw, result, tip'[c].open, Late, Seen(c)', window'.items)
    BY <1>1, <1>4, <2>1, EditFits
  <2> QED
    BY <2>2
<1>6. newTo # "none" \/ Clears(q)
  <2>1. CASE newTo # "none"
    BY <2>1
  <2>2. CASE newTo = "none"
    <3>1. to = "none"
      BY <1>2, <2>2
    <3>2. Orderly(p) /\ TipFits(p, "none", tip[c].open, Late)
      BY <1>1, <3>1 DEF Fits
    <3> QED
      BY <1>1, <3>2, EditClears
  <2> QED
    BY <2>1, <2>2
<1>7. server' \in Servers /\ server'.up = server.up /\ server'.session = server.session
  BY <1>0, EmptiedTyped
<1> QED
  BY <1>1, <1>q, <1>3, <1>4, <1>5, <1>6, <1>7, HandlerStep

\* An edit ends with nothing composed: reset_after_empty_server_composition, or
\* the last character was removed.
LEMMA ResetStep ==
  ASSUME IInv, NEW c \in Clients, NEW a \in Editing, Acting(c, a), server.up,
         server' = Emptied, tip' = Close(c), Deliver(c, Hidden),
         NEW t \in Service, ~Late => t = [session |-> 1, reset |-> FALSE],
         NEW g, Continue(c, [NoComp EXCEPT !.state = run[c].work.state], "none", t, g)
  PROVE  IInv'
<1> DEFINE p  == run[c].plan
           q  == Tail(p)
           to == run[c].to
           w  == run[c].work
           s  == run[c].svc
<1> DEFINE k == [NoComp EXCEPT !.state = w.state]
<1>0. Shape
  BY DEF IInv
<1>1. /\ ~Idle(c) /\ First(p, a, q)
      /\ Fits(p, to, w.raw, w.cands, tip[c].open, Late, Seen(c), window.items)
      /\ w \in Comps /\ to \in States /\ s \in Service
      /\ ~Late => s = [session |-> 1, reset |-> FALSE]
  BY Running DEF Actions, Editing
<1>2. Continue(c, k, "none", t, g)
  OBVIOUS
<1>q. q = Tail(run[c].plan)
  OBVIOUS
<1> HIDE DEF p, q, to, w, s
<1>3. k \in Comps /\ k.raw = <<>>
  BY <1>1, EndedTyped
<1> HIDE DEF k
<1>4. tip' \in [Clients -> Tips] /\ tip'[c].open = FALSE
        /\ \A d \in Clients \ {c} : tip'[d] = tip[d]
  BY <1>0, ClosedTip
<1>5. window' \in Windows /\ (shown' = c \/ shown' = "nobody") /\ (Seen(c)' = FALSE)
  BY <1>0, HiddenWindow
<1>6. Fits(q, "none", k.raw, k.cands, tip'[c].open, Late, Seen(c)', window'.items)
  <2>1. Orderly(p)
    BY <1>1 DEF Fits
  <2>2. Fits(q, "none", <<>>, k.cands, FALSE, Late, FALSE, window'.items)
    BY <1>1, <2>1, ResetFits
  <2> QED
    BY <1>3, <1>4, <1>5, <2>2
<1>7. server' \in Servers /\ server'.up = server.up /\ server'.session = server.session
        /\ (server.input)' = <<>>
  BY <1>0, EmptiedTyped
<1>8. "none" \in States
  BY DEF States
<1> QED
  BY <1>1, <1>2, <1>q, <1>3, <1>4, <1>5, <1>6, <1>7, <1>8, HandlerStep

\* An edit fails: recover_after_key_error.
LEMMA AbandonKeeps ==
  ASSUME IInv, NEW c \in Clients, ~server.up, NEW s \in Service, Abandon(c, s)
  PROVE  IInv'
<1>1. tip' = Close(c) /\ Deliver(c, Hidden) /\ server' = server
        /\ run' = [run EXCEPT ![c] = Resting] /\ comp' = [comp EXCEPT ![c] = NoComp]
        /\ svc' = [svc EXCEPT ![c] = s]
  BY DEF Abandon, Close
<1>2. tip' \in [Clients -> Tips] /\ ~tip'[c].open /\ \A d \in Clients \ {c} : tip'[d] = tip[d]
  BY <1>1, ClosedTip DEF IInv
<1> QED
  BY <1>1, <1>2, StopKeeps

LEMMA AppendTyped ==
  ASSUME NEW s, NEW before \in Seq(Tokens), NEW text \in Seq(Tokens),
         NEW result \in Appending(s, before, text)
  PROVE  result \in Seq(Tokens) /\ (Len(text) = 1 => result # <<>>)
<1>1. before \o text \in Seq(Tokens) /\ Len(before \o text) = Len(before) + Len(text)
  OBVIOUS
<1>2. CASE before = <<>>
  BY <1>2 DEF Appending
<1>3. CASE before # <<>>
  <2>1. result = before \/ result = before \o text
    BY <1>3 DEF Appending, Outcomes
  <2>2. Len(before) > 0
    BY <1>3
  <2>3. before \o text # <<>>
    BY <1>1, <2>2
  <2> QED
    BY <1>1, <1>3, <2>1, <2>3
<1> QED
  BY <1>2, <1>3

LEMMA AppendKeeps ==
  ASSUME CountsTokens, IInv, NEW c \in Clients, AppendText(c)
  PROVE  IInv'
<1> DEFINE p  == run[c].plan
           q  == Tail(p)
           to == run[c].to
           w  == run[c].work
           s  == run[c].svc
<1> DEFINE a == "append"
<1>0. Shape /\ Acting(c, a) /\ a \in Editing
  BY DEF IInv, AppendText, Editing
<1>1. /\ ~Idle(c) /\ First(p, a, q)
      /\ Fits(p, to, w.raw, w.cands, tip[c].open, Late, Seen(c), window.items)
      /\ w \in Comps /\ to \in States /\ s \in Service
      /\ ~Late => s = [session |-> 1, reset |-> FALSE]
  BY <1>0, Running DEF Actions, Editing
<1>2. CASE ~server.up
  <2>1. Abandon(c, s)
    BY <1>2 DEF AppendText
  <2> QED
    BY <1>1, <1>2, <2>1, AbandonKeeps
<1>3. CASE server.up
  <2> DEFINE t == Observe(s, server.session)
             u == [t EXCEPT !.reset = FALSE]
             Stale(result) == \/ t.reset /\ HasState(w)
                              \/ LooksReset(w.raw, FullView(w.cands), <<c>>, FullView(result))
             To(result) == IF Stale(result) THEN "composing" ELSE to
  <2>1. PICK result \in Appending(s, server.input, <<c>>) :
           /\ server' = [server EXCEPT !.input = result]
           /\ Appended(c, w, To(result), result, Stale(result), u)
    BY <1>3 DEF AppendText, Work
  <2>2. Stale(result) /\ ~Late => w.raw # <<>>
    <3>1. ~Late => ~t.reset
      BY <1>0, <1>1, Observed
    <3> QED
      BY <3>1 DEF LooksReset
  <2> DEFINE stale == Stale(result)
             newTo == To(result)
             base  == IF stale THEN Ended(w) ELSE w
             k     == Select([base EXCEPT !.raw = Append(@, c)], result, base.sel)
  <2>3. /\ tip' = [tip EXCEPT ![c] = Tip(k.text)] \/ tip' = SetText(c, k.text)
        /\ Deliver(c, Listing(result, newTo))
        /\ \E g : Continue(c, k, newTo, u, g)
    BY <2>1 DEF Appended
  <2>4. newTo = to \/ (newTo = "composing" /\ stale)
    OBVIOUS
  <2>5. stale /\ ~Late => w.raw # <<>>
    BY <2>2
  <2>q. q = Tail(run[c].plan) /\ to = run[c].to
    OBVIOUS
  <2> HIDE DEF Stale, To, stale, newTo
  <2> HIDE DEF p, q, to, w, s
  <2>6. result \in Seq(Tokens) /\ result # <<>>
    <3>1. server.input \in Seq(Tokens) /\ <<c>> \in Seq(Tokens) /\ Len(<<c>>) = 1
      BY <1>0 DEF Shape, Clients
    <3> QED
      BY <3>1, AppendTyped
  <2>7. k \in Comps /\ k.cands = result /\ k.text = result
    <3>1. base \in Comps
      BY <1>1, EndedTyped
    <3> HIDE DEF base
    <3>2. base.raw \in Seq(Tokens) /\ base.sel \in Int
      BY <3>1 DEF Comps
    <3>3. Append(base.raw, c) \in Seq(Tokens)
      BY <3>2 DEF Clients
    <3>4. [base EXCEPT !.raw = Append(@, c)] \in Comps
      BY <3>1, <3>3 DEF Comps
    <3> QED
      BY <2>6, <3>2, <3>4, SelectTyped
  <2> HIDE DEF base, k
  <2>8. u \in Service /\ (~Late => u = [session |-> 1, reset |-> FALSE])
    <3>1. t \in Service /\ (~Late => t = [session |-> 1, reset |-> FALSE])
      BY <1>0, <1>1, Observed
    <3> HIDE DEF t
    <3> QED
      BY <1>0, <3>1, Observed
  <2> HIDE DEF t, u
  <2>9. newTo \in States /\ (newTo = to \/ (newTo # "none" /\ (to # "none" \/ Late)))
    <3>1. stale /\ to = "none" => Late
      <4>1. Has(p, {"append"})
        BY <1>1, FirstHasAll
      <4>2. to = "none" => Late \/ w.raw = <<>>
        BY <1>1, <4>1 DEF Fits, RawFits
      <4> QED
        BY <2>5, <4>2
    <3> QED
      BY <1>1, <2>4, <3>1 DEF States
  <2> HIDE DEF a
  <2>10. PICK g : Continue(c, k, newTo, u, g)
    BY <2>3
  <2> QED
    BY <1>0, <1>3, <2>1, <2>3, <2>6, <2>7, <2>8, <2>9, <2>10, <2>q, EditStep
<1> QED
  BY <1>2, <1>3

\* What reset_after_empty_server_composition does.
LEMMA ResetAfterEmptyKeeps ==
  ASSUME IInv, NEW c \in Clients, NEW a \in Editing, Acting(c, a), server.up,
         NEW s \in Service, ~Late => s = [session |-> 1, reset |-> FALSE],
         ResetAfterEmpty(c, run[c].work, s)
  PROVE  IInv'
<1> DEFINE t == Observe(s, server.session)
           k == [NoComp EXCEPT !.state = run[c].work.state]
<1>1. t \in Service /\ (~Late => t = [session |-> 1, reset |-> FALSE])
  BY Observed DEF IInv
<1>2. server' = Emptied /\ tip' = Close(c) /\ Deliver(c, Hidden)
  BY DEF ResetAfterEmpty
<1>3. \E g : Continue(c, k, "none", t, g)
  BY DEF ResetAfterEmpty
<1>4. PICK g : Continue(c, k, "none", t, g)
  BY <1>3
<1> HIDE DEF t
<1> QED
  BY <1>1, <1>2, <1>4, ResetStep

LEMMA RemoveKeeps ==
  ASSUME CountsTokens, IInv, NEW c \in Clients, RemoveText(c)
  PROVE  IInv'
<1> DEFINE p  == run[c].plan
           q  == Tail(p)
           to == run[c].to
           w  == run[c].work
           s  == run[c].svc
<1> DEFINE a     == "remove"
           known == [s EXCEPT !.reset = FALSE]
           t     == Observe(known, server.session)
           u     == [t EXCEPT !.reset = FALSE]
<1>0. Shape /\ Acting(c, a) /\ a \in Editing
  BY DEF IInv, RemoveText, Editing
<1>1. /\ ~Idle(c) /\ First(p, a, q)
      /\ Fits(p, to, w.raw, w.cands, tip[c].open, Late, Seen(c), window.items)
      /\ w \in Comps /\ to \in States /\ s \in Service
      /\ ~Late => s = [session |-> 1, reset |-> FALSE]
  BY <1>0, Running DEF Actions, Editing
<1>2. \/ ~server.up /\ Abandon(c, svc[c])
      \/ server.up /\ ResetAfterEmpty(c, w, known)
      \/ server.up /\ ResetAfterEmpty(c, w, u)
      \/ server.up /\ \E result \in Outcomes(s, server.input, DropLast(server.input)) :
                        Removed(c, w, result, u)
  BY DEF RemoveText, Work
<1>3. /\ known \in Service /\ (~Late => known = [session |-> 1, reset |-> FALSE])
      /\ u \in Service /\ (~Late => u = [session |-> 1, reset |-> FALSE])
  <2>1. known \in Service /\ (~Late => known = [session |-> 1, reset |-> FALSE])
    BY <1>0, <1>1, Observed
  <2> HIDE DEF known
  <2>2. t \in Service /\ (~Late => t = [session |-> 1, reset |-> FALSE])
    BY <1>0, <2>1, Observed
  <2> HIDE DEF t
  <2>3. u \in Service /\ (~Late => u = [session |-> 1, reset |-> FALSE])
    BY <1>0, <2>2, Observed
  <2> QED
    BY <2>1, <2>3
<1> HIDE DEF known, t, u
<1>4. CASE ~server.up /\ Abandon(c, svc[c])
  BY <1>0, <1>4, AbandonKeeps DEF Shape
<1>5. CASE server.up /\ ResetAfterEmpty(c, w, known)
  BY <1>0, <1>3, <1>5, ResetAfterEmptyKeeps
<1>6. CASE server.up /\ ResetAfterEmpty(c, w, u)
  BY <1>0, <1>3, <1>6, ResetAfterEmptyKeeps
<1>7. ASSUME server.up, NEW result \in Outcomes(s, server.input, DropLast(server.input)),
             Removed(c, w, result, u)
      PROVE  IInv'
  <2>1. result \in Seq(Tokens)
    <3>1. server.input \in Seq(Tokens)
      BY <1>0 DEF Shape
    <3>2. DropLast(server.input) \in Seq(Tokens)
      BY <3>1 DEF DropLast
    <3> QED
      BY <1>7, <3>1, <3>2 DEF Outcomes
  <2>2. server' = [server EXCEPT !.input = result]
    BY <1>7 DEF Removed
  <2>3. CASE result # <<>>
    <3> DEFINE base == [w EXCEPT !.raw = DropLast(@)]
               k    == Select(base, result, w.sel)
    <3>1. /\ tip' = SetText(c, k.text) /\ Deliver(c, Relisted(result))
          /\ \E g : Continue(c, k, to, u, g)
      BY <1>7, <2>3 DEF Removed
    <3>2. PICK g : Continue(c, k, run[c].to, u, g)
      BY <3>1
    <3>3. run[c].to \in States
      BY <1>1
    <3> HIDE DEF p, q, to, w, s
    <3>4. k \in Comps /\ k.cands = result /\ k.text = result
      <4>1. w.raw \in Seq(Tokens) /\ w.sel \in Int
        BY <1>1 DEF Comps
      <4>2. DropLast(w.raw) \in Seq(Tokens)
        BY <4>1 DEF DropLast
      <4>3. base \in Comps
        BY <1>1, <4>2 DEF Comps
      <4> HIDE DEF base
      <4> QED
        BY <2>1, <2>3, <4>1, <4>3, SelectTyped
    <3> HIDE DEF base, k, a
    <3> QED
      BY <1>0, <1>3, <1>7, <2>1, <2>2, <2>3, <3>1, <3>2, <3>3, <3>4, EditStep
  <2>4. CASE result = <<>>
    <3>1. tip' = Close(c) /\ Deliver(c, Hidden) /\ server' = Emptied
      BY <1>7, <2>2, <2>4 DEF Removed, Emptied
    <3>2. \E g : Continue(c, [NoComp EXCEPT !.state = w.state], "none", u, g)
      BY <1>7, <2>4 DEF Removed
    <3>3. PICK g : Continue(c, [NoComp EXCEPT !.state = run[c].work.state], "none", u, g)
      BY <3>2
    <3> HIDE DEF a
    <3> QED
      BY <1>0, <1>3, <1>7, <3>1, <3>3, ResetStep
  <2> QED
    BY <2>3, <2>4
<1> QED
  BY <1>2, <1>4, <1>5, <1>6, <1>7

\* What a shrink that was answered does.
LEMMA ShrunkKeeps ==
  ASSUME CountsTokens, IInv, NEW c \in Clients, NEW a \in {"shrink", "shrinkAppend"}, Acting(c, a),
         server.up, NEW text \in Seq(Tokens), NEW result \in Seq(Tokens), NEW fresh,
         NEW s \in Service, ~Late => s = [session |-> 1, reset |-> FALSE],
         NEW g, Shrunk(c, run[c].work, text, result, fresh, s, g)
  PROVE  IInv'
<1> DEFINE p == run[c].plan
           w == run[c].work
<1>0. Shape /\ a \in Editing /\ a \in Staying
  BY Members DEF IInv
<1>1. /\ First(p, a, Tail(p)) /\ w \in Comps /\ run[c].to \in States
      /\ Fits(p, run[c].to, w.raw, w.cands, tip[c].open, Late, Seen(c), window.items)
  BY <1>0, Running DEF Actions
<1>2. CASE result = <<>>
  <2>1. ResetAfterEmpty(c, w, s)
    BY <1>2 DEF Shrunk
  <2> QED
    BY <1>0, <2>1, ResetAfterEmptyKeeps
<1>3. CASE result # <<>>
  <2> DEFINE base == IF fresh THEN [Ended(w) EXCEPT !.raw = text]
                     ELSE [w EXCEPT !.raw = DropFirst(w.n, @) \o text]
             k    == Select(base, result, 0)
  <2>1. /\ server' = [server EXCEPT !.input = result]
        /\ tip' = [tip EXCEPT ![c] = Tip(k.text)] \/ tip' = SetText(c, k.text)
        /\ Deliver(c, Relisted(result))
        /\ \E h : Continue(c, k, "composing", s, h)
    BY <1>3 DEF Shrunk
  <2>2. PICK h : Continue(c, k, "composing", s, h)
    BY <2>1
  <2>3. run[c].to # "none"
    <3>1. CandsFit(p, run[c].to, w.cands)
      BY <1>1 DEF Fits
    <3> HIDE DEF p, w
    <3>2. Has(p, Staying)
      BY <1>0, <1>1, FirstHasAll
    <3> QED
      BY <3>1, <3>2 DEF CandsFit
  <2> HIDE DEF p, w
  <2>4. k \in Comps /\ k.cands = result /\ k.text = result
    <3>1. w.raw \in Seq(Tokens) /\ w.n \in Nat
      BY <1>1 DEF Comps
    <3>2. DropFirst(w.n, w.raw) \o text \in Seq(Tokens)
      BY <3>1, CutTyped
    <3>3. [Ended(w) EXCEPT !.raw = text] \in Comps
      <4>1. Ended(w) \in Comps
        BY <1>1, EndedTyped
      <4> QED
        BY <4>1 DEF Comps
    <3>4. [w EXCEPT !.raw = DropFirst(w.n, @) \o text] \in Comps
      BY <1>1, <3>2 DEF Comps
    <3>5. base \in Comps /\ 0 \in Int
      BY <3>3, <3>4
    <3> HIDE DEF base
    <3> QED
      BY <1>3, <3>5, SelectTyped
  <2> HIDE DEF base, k
  <2>5. "composing" \in States
    BY DEF States
  <2> QED
    BY <1>0, <1>3, <2>1, <2>2, <2>3, <2>4, <2>5, EditStep
<1> QED
  BY <1>2, <1>3

LEMMA ShrinkKeeps ==
  ASSUME CountsTokens, IInv, NEW c \in Clients, ShrinkText(c)
  PROVE  IInv'
<1> DEFINE p  == run[c].plan
           q  == Tail(p)
           to == run[c].to
           w  == run[c].work
           s  == run[c].svc
<1> DEFINE text == IF Acting(c, "shrink") THEN <<>> ELSE <<c>>
<1>0. Shape
  BY DEF IInv
<1>a. PICK a \in {"shrink", "shrinkAppend"} : Acting(c, a)
  BY DEF ShrinkText
<1>1. /\ ~Idle(c) /\ First(p, a, q)
      /\ Fits(p, to, w.raw, w.cands, tip[c].open, Late, Seen(c), window.items)
      /\ w \in Comps /\ to \in States /\ s \in Service
      /\ ~Late => s = [session |-> 1, reset |-> FALSE]
  BY <1>a, Running DEF Actions, Editing
<1>2. text \in Seq(Tokens)
  BY DEF Clients
<1>3. PICK seen \in {s} \union (IF server.up THEN {Observe(s, server.session)} ELSE {}) :
        \/ ~server.up /\ Abandon(c, seen)
        \/ /\ server.up
           /\ LET changed == seen.reset /\ HasState(w)
                  known   == [seen EXCEPT !.reset = FALSE]
                  after   == IF changed THEN known ELSE Observe(known, server.session)
              IN \E left \in IF changed THEN {server.input}
                             ELSE Outcomes(known, server.input, DropFirst(w.n, server.input)) :
                 \E result \in Appending(after, left, text) : \E fresh, g :
                   Shrunk(c, w, text, result, fresh, [session |-> server.session, reset |-> FALSE], g)
  BY DEF ShrinkText, Work
<1>4. CASE ~server.up
  <2>1. seen \in Service /\ Abandon(c, seen)
    BY <1>1, <1>3, <1>4
  <2> QED
    BY <1>4, <2>1, AbandonKeeps
<1>5. CASE server.up
  <2> DEFINE u == [session |-> server.session, reset |-> FALSE]
  <2>1. u \in Service /\ (~Late => u = [session |-> 1, reset |-> FALSE])
    <3>1. server.session \in Nat \ {0} /\ (~Late => server.session = 1)
      BY <1>0 DEF Shape, Late
    <3> QED
      BY <3>1 DEF Service
  <2>2. server.input \in Seq(Tokens) /\ DropFirst(w.n, server.input) \in Seq(Tokens)
    <3>1. server.input \in Seq(Tokens) /\ w.n \in Nat
      BY <1>0, <1>1 DEF Shape, Comps
    <3> HIDE DEF w
    <3> QED
      BY <3>1 DEF DropFirst
  <2>3. \E left \in Seq(Tokens) : \E after, fresh, g : \E result \in Appending(after, left, text) :
          Shrunk(c, w, text, result, fresh, u, g)
    BY <1>3, <1>5, <2>2 DEF Outcomes
  <2> HIDE DEF text, u
  <2>4. \E result \in Seq(Tokens) : \E fresh, g : Shrunk(c, w, text, result, fresh, u, g)
    BY <1>2, <2>3, AppendTyped
  <2>5. PICK result \in Seq(Tokens) : \E fresh, g : Shrunk(c, w, text, result, fresh, u, g)
    BY <2>4
  <2>6. PICK fresh, g : Shrunk(c, run[c].work, text, result, fresh, u, g)
    BY <2>5
  <2> QED
    BY <1>a, <1>2, <1>5, <2>1, <2>5, <2>6, ShrunkKeeps
<1> QED
  BY <1>4, <1>5

LEMMA HandleKeeps ==
  ASSUME CountsTokens, IInv, NEW c \in Clients, Handle(c)
  PROVE  IInv'
BY StartKeeps, ShowKeeps, CommitKeeps, FlagKeeps, ChoiceKeeps, ConvertKeeps, EndKeeps, ModeKeeps,
   AppendKeeps, RemoveKeeps, ShrinkKeeps DEF Handle

-----------------------------------------------------------------------------
(* Users, applications and TSF.                                             *)

\* A text service at rest.
LEMMA AtRest ==
  ASSUME IInv, NEW c \in Clients, Idle(c)
  PROVE  /\ Shape /\ SInv /\ ClientFits(c)
         /\ comp[c] \in Comps /\ comp[c].state \in States /\ svc[c] \in Service
         /\ Fits(<<>>, comp[c].state, comp[c].raw, comp[c].cands, tip[c].open, Late, Seen(c),
                 window.items)
         /\ Holds(c) <=> comp[c].state # "none"
<1>1. Shape /\ SInv /\ ClientFits(c)
  BY DEF IInv, SInv
<1>2. PlanOf(c) = <<>> /\ ToOf(c) = comp[c].state /\ WorkOf(c) = comp[c]
  BY DEF PlanOf, ToOf, WorkOf
<1>3. ~Clears(<<>>)
  BY DEF Clears
<1> QED
  BY <1>1, <1>2, <1>3 DEF ClientFits, Holds, Shape, Comps

LEMMA BeginKeeps ==
  ASSUME IInv, NEW c \in Clients, Idle(c), NEW plan, NEW why \in {"key", "sink"},
         PlanFits(plan, comp[c], tip[c].open, Late, Seen(c), window.items),
         run' = [run EXCEPT ![c] = [plan |-> plan.acts, to |-> plan.to, why |-> why,
                                    work |-> comp[c], svc |-> svc[c]]],
         UNCHANGED <<server, window, comp, svc, tip, shown>>
  PROVE  IInv'
<1> DEFINE r == [plan |-> plan.acts, to |-> plan.to, why |-> why, work |-> comp[c], svc |-> svc[c]]
<1>1. /\ Shape /\ SInv /\ ClientFits(c) /\ comp[c] \in Comps /\ svc[c] \in Service
      /\ Holds(c) <=> comp[c].state # "none"
  BY AtRest
<1>2. /\ plan.acts # <<>> /\ plan.to \in States /\ plan.acts \in Seq(Actions)
      /\ Fits(plan.acts, plan.to, comp[c].raw, comp[c].cands, tip[c].open, Late, Seen(c),
              window.items)
      /\ comp[c].state # "none" => plan.to # "none" \/ Clears(plan.acts)
  BY DEF PlanFits, Fits, Orderly
<1>3. r \in Runs
  BY <1>1, <1>2 DEF Runs
<1>4. run' \in [Clients -> Runs] /\ run'[c] = r /\ \A d \in Clients \ {c} : run'[d] = run[d]
  BY <1>1, <1>3 DEF Shape
<1>5. ~(Idle(c))' /\ (PlanOf(c))' = plan.acts /\ (ToOf(c))' = plan.to /\ (WorkOf(c))' = comp[c]
        /\ (SvcOf(c))' = svc[c] /\ run'[c].plan = plan.acts
  BY <1>4 DEF Idle, PlanOf, ToOf, WorkOf, SvcOf
<1>6. Late' = Late /\ Seen(c)' = Seen(c)
  BY DEF Late, Seen
<1>7. ClientFits(c)'
  BY <1>1, <1>2, <1>5, <1>6 DEF ClientFits
<1>8. Holds(c) => Holds(c)'
  BY <1>1, <1>2, <1>5 DEF Holds
<1>9. OnlyOf(c)
  BY <1>4 DEF OnlyOf
<1>10. SInv'
  BY <1>1, <1>7, <1>8, <1>9, StepOfOne
<1>11. Shape'
  BY <1>1, <1>4 DEF Shape
<1> QED
  BY <1>10, <1>11 DEF IInv

LEMMA PressKeeps ==
  ASSUME IInv, NEW c \in Clients, NEW key \in KeysOf(c), Press(c, key)
  PROVE  IInv'
<1>1. key \in Keys /\ Idle(c)
  BY SessionAssumption DEF Press, Ready
<1>2. PICK afterN \in BOOLEAN :
        LET plan == KeyPlan(comp[c], key, mode[c], afterN)
        IN plan # Unhandled /\ Begin(c, plan, "key", Pressed(c, key, plan))
  BY DEF Press
<1> DEFINE plan == KeyPlan(comp[c], key, mode[c], afterN)
<1>3. PlanFits(plan, comp[c], tip[c].open, Late, Seen(c), window.items)
  <2> DEFINE w == comp[c]
  <2>1. /\ w.state \in States
        /\ Fits(<<>>, w.state, w.raw, w.cands, tip[c].open, Late, Seen(c), window.items)
    BY <1>1, AtRest
  <2>2. KeyPlan(w, key, mode[c], afterN) # Unhandled
    BY <1>2
  <2> HIDE DEF w
  <2>3. PlanFits(KeyPlan(w, key, mode[c], afterN), w, tip[c].open, Late, Seen(c), window.items)
    BY <1>1, <2>1, <2>2, KeyPlanFits
  <2> QED
    BY <2>3 DEF w
<1> QED
  BY <1>1, <1>2, <1>3, BeginKeeps DEF Begin

LEMMA ReleaseKeeps ==
  ASSUME IInv, NEW c \in Clients, ReleaseShift(c)
  PROVE  IInv'
<1>1. Idle(c) /\ ShiftUpPlan(comp[c]) # Unhandled /\ Begin(c, ShiftUpPlan(comp[c]), "key", ghost)
  BY DEF ReleaseShift, Ready
<1>2. PlanFits(ShiftUpPlan(comp[c]), comp[c], tip[c].open, Late, Seen(c), window.items)
  BY <1>1, AtRest, ShiftUpPlanFits
<1> QED
  BY <1>1, <1>2, BeginKeeps DEF Begin

LEMMA EisuKeeps ==
  ASSUME IInv, NEW c \in Clients, PressEisu(c)
  PROVE  IInv'
<1>1. /\ Idle(c) /\ EisuPlan(comp[c], mode[c]) # Unhandled
      /\ Begin(c, EisuPlan(comp[c], mode[c]), "key", [ghost EXCEPT !.alone = @ \ {c}])
  BY DEF PressEisu, Ready
<1>2. PlanFits(EisuPlan(comp[c], mode[c]), comp[c], tip[c].open, Late, Seen(c), window.items)
  BY <1>1, AtRest, EisuPlanFits
<1> QED
  BY <1>1, <1>2, BeginKeeps DEF Begin

LEMMA CallbackEndKeeps ==
  ASSUME IInv, NEW c \in Clients, OnSetFocus(c) \/ OnCompositionTerminated(c)
  PROVE  IInv'
<1>1. PlanFits(EndPlan, comp[c], tip[c].open, Late, Seen(c), window.items)
  BY EndPlanFits
<1>2. /\ Idle(c)
      /\ run' = [run EXCEPT ![c] = [plan |-> EndPlan.acts, to |-> EndPlan.to, why |-> "sink",
                                    work |-> comp[c], svc |-> svc[c]]]
      /\ UNCHANGED <<server, window, comp, svc, tip, shown>>
  BY DEF OnSetFocus, OnCompositionTerminated, Begin
<1> QED
  BY <1>1, <1>2, BeginKeeps

LEMMA UnhandledKeeps ==
  ASSUME IInv, NEW c \in Clients, NEW key, PressUnhandled(c, key)
  PROVE  IInv'
<1>1. Idle(c)
  BY DEF PressUnhandled, Ready
<1>2. /\ Shape /\ SInv /\ ClientFits(c) /\ comp[c] \in Comps
      /\ Fits(<<>>, comp[c].state, comp[c].raw, comp[c].cands, tip[c].open, Late, Seen(c),
              window.items)
  BY <1>1, AtRest
<1> DEFINE k == [comp[c] EXCEPT !.pending = @ /\ key = "shift"]
<1>3. comp' = [comp EXCEPT ![c] = k] /\ UNCHANGED <<server, window, svc, tip, run, shown>>
  BY DEF PressUnhandled
<1>4. k \in Comps /\ k.state = comp[c].state /\ k.raw = comp[c].raw /\ k.cands = comp[c].cands
  <2> DEFINE w == comp[c]
  <2> HIDE DEF w
  <2>1. w \in Comps
    BY <1>2 DEF w
  <2>2. (w.pending /\ key = "shift") \in BOOLEAN
    OBVIOUS
  <2>3. [w EXCEPT !.pending = @ /\ key = "shift"] \in Comps
          /\ [w EXCEPT !.pending = @ /\ key = "shift"].state = w.state
          /\ [w EXCEPT !.pending = @ /\ key = "shift"].raw = w.raw
          /\ [w EXCEPT !.pending = @ /\ key = "shift"].cands = w.cands
    BY <2>1, <2>2 DEF Comps
  <2> QED
    BY <2>3 DEF w
<1> HIDE DEF k
<1>5. comp' \in [Clients -> Comps] /\ comp'[c] = k /\ \A d \in Clients \ {c} : comp'[d] = comp[d]
  BY <1>2, <1>3, <1>4 DEF Shape
<1>6. (Idle(c))' /\ (PlanOf(c))' = <<>> /\ (ToOf(c))' = k.state /\ (WorkOf(c))' = k
        /\ (SvcOf(c))' = SvcOf(c)
  BY <1>1, <1>3, <1>5 DEF Idle, PlanOf, ToOf, WorkOf, SvcOf
<1>7. Late' = Late /\ Seen(c)' = Seen(c)
  BY <1>3 DEF Late, Seen
<1>8. ClientFits(c)'
  <2>1. ToOf(c) = comp[c].state
    BY <1>1 DEF ToOf
  <2>2. Fits(<<>>, k.state, k.raw, k.cands, tip[c].open, Late, Seen(c), window.items)
    BY <1>2, <1>4
  <2> QED
    BY <1>2, <1>3, <1>4, <1>5, <1>6, <1>7, <2>1, <2>2 DEF ClientFits
<1>9. Holds(c) => Holds(c)'
  <2>1. Holds(c) => comp[c].state # "none"
    BY <1>1, AtRest
  <2> QED
    BY <1>4, <1>6, <2>1 DEF Holds
<1>10. OnlyOf(c)
  BY <1>3, <1>5 DEF OnlyOf
<1>11. SInv'
  BY <1>2, <1>3, <1>8, <1>9, <1>10, StepOfOne
<1>12. Shape'
  BY <1>2, <1>3, <1>5 DEF Shape
<1> QED
  BY <1>11, <1>12 DEF IInv

LEMMA KillFocusKeeps ==
  ASSUME IInv, NEW c \in Clients, OnKillThreadFocus(c)
  PROVE  IInv'
<1>1. Idle(c) /\ Deliver(c, Hidden) /\ UNCHANGED <<server, comp, svc, tip, run>>
  BY DEF OnKillThreadFocus
<1>2. /\ Shape /\ SInv /\ ClientFits(c)
      /\ Fits(<<>>, comp[c].state, comp[c].raw, comp[c].cands, tip[c].open, Late, Seen(c),
              window.items)
  BY <1>1, AtRest
<1>3. window' \in Windows /\ (shown' = c \/ shown' = "nobody") /\ (Seen(c)' = FALSE)
  BY <1>1, <1>2, HiddenWindow
<1>4. (Idle(c))' /\ (PlanOf(c))' = <<>> /\ (ToOf(c))' = comp[c].state /\ (WorkOf(c))' = comp[c]
        /\ (SvcOf(c))' = SvcOf(c) /\ (Holds(c)' <=> Holds(c))
  BY <1>1 DEF Idle, PlanOf, ToOf, WorkOf, SvcOf, Holds
<1>5. Late' = Late
  BY <1>1 DEF Late
<1>6. ClientFits(c)'
  <2>1. ToOf(c) = comp[c].state
    BY <1>1 DEF ToOf
  <2>2. Fits(<<>>, comp[c].state, comp[c].raw, comp[c].cands, tip[c].open, Late, FALSE,
             window'.items)
    BY <1>2 DEF Fits, WindowFits
  <2> QED
    BY <1>1, <1>2, <1>3, <1>4, <1>5, <2>1, <2>2 DEF ClientFits
<1>7. OnlyOf(c)
  BY <1>1, <1>3 DEF OnlyOf
<1>8. SInv'
  BY <1>1, <1>2, <1>4, <1>6, <1>7, StepOfOne
<1>9. Shape'
  BY <1>1, <1>2, <1>3 DEF Shape
<1> QED
  BY <1>8, <1>9 DEF IInv

LEMMA DisabledKeeps ==
  ASSUME IInv, NEW c \in Clients, KeyInDisabledContext(c)
  PROVE  IInv'
<1>1. /\ Idle(c) /\ Deliver(c, Hidden) /\ tip' = Close(c) /\ comp' = [comp EXCEPT ![c] = NoComp]
      /\ server.up => server' = Emptied /\ svc' = [svc EXCEPT ![c] = Observe(@, server.session)]
      /\ ~server.up => server' = server /\ svc' = svc
      /\ run' = run
  BY DEF KeyInDisabledContext, Ready
<1>2. Shape /\ SInv /\ ClientFits(c) /\ svc[c] \in Service
  BY <1>1, AtRest
<1>3. window' \in Windows /\ (shown' = c \/ shown' = "nobody") /\ (Seen(c)' = FALSE)
  BY <1>1, <1>2, HiddenWindow
<1>4. tip' \in [Clients -> Tips] /\ tip'[c].open = FALSE
        /\ \A d \in Clients \ {c} : tip'[d] = tip[d]
  BY <1>1, <1>2, ClosedTip
<1>5. /\ server' \in Servers /\ server'.up = server.up /\ server'.session = server.session
      /\ server.up => (server.input)' = <<>>
  BY <1>1, <1>2, EmptiedTyped DEF Shape, Servers
<1>6. /\ svc' \in [Clients -> Service] /\ \A d \in Clients \ {c} : svc'[d] = svc[d]
      /\ ~Late => svc'[c] = [session |-> 1, reset |-> FALSE]
  <2>1. ~Late => svc[c] = [session |-> 1, reset |-> FALSE]
    BY <1>2 DEF ClientFits
  <2>2. /\ Observe(svc[c], server.session) \in Service
        /\ ~Late => Observe(svc[c], server.session) = [session |-> 1, reset |-> FALSE]
    BY <1>2, <2>1, Observed
  <2>3. svc \in [Clients -> Service]
    BY <1>2 DEF Shape
  <2>4. CASE server.up
    BY <1>1, <2>2, <2>3, <2>4
  <2>5. CASE ~server.up
    BY <1>1, <2>1, <2>3, <2>5
  <2> QED
    BY <2>4, <2>5
<1>7. comp' \in [Clients -> Comps] /\ comp'[c] = NoComp /\ \A d \in Clients \ {c} : comp'[d] = comp[d]
  BY <1>1, <1>2, EndedTyped DEF Shape
<1>8. (Idle(c))' /\ (PlanOf(c))' = <<>> /\ (ToOf(c))' = "none" /\ (WorkOf(c))' = NoComp
        /\ (SvcOf(c))' = svc'[c]
  BY <1>1, <1>7, EndedTyped DEF Idle, PlanOf, ToOf, WorkOf, SvcOf
<1>9. Late' = Late
  BY <1>5 DEF Late
<1>10. ClientFits(c)'
  <2>1. <<>> \in Seq(Actions) /\ \A i \in 1..Len(<<>>) : <<>>[i] = "end"
    OBVIOUS
  <2>2. NoComp.raw = <<>> /\ NoComp.state = "none" /\ "none" \in States
    BY DEF NoComp, States
  <2>3. Fits(<<>>, "none", NoComp.raw, NoComp.cands, FALSE, Late, FALSE, window'.items)
    BY <2>1, <2>2, OnlyEnds
  <2> QED
    BY <1>3, <1>4, <1>6, <1>7, <1>8, <1>9, <2>2, <2>3 DEF ClientFits
<1>11. OnlyOf(c)
  BY <1>1, <1>3, <1>4, <1>5, <1>6, <1>7 DEF OnlyOf
<1>12. SInv'
  BY <1>1, <1>2, <1>5, <1>10, <1>11, StepOfOne
<1>13. Shape'
  BY <1>1, <1>2, <1>3, <1>4, <1>5, <1>6, <1>7 DEF Shape, Servers
<1> QED
  BY <1>12, <1>13 DEF IInv

\* Nothing but the server's life changes, or nothing at all.
LEMMA ServerKeeps ==
  ASSUME IInv, server' \in Servers, Late => Late', UNCHANGED <<window, comp, svc, tip, run, shown>>,
         \/ (server.input)' = <<>>
         \/ server'.up /\ (server.input)' = server.input
         \/ server' = server
  PROVE  IInv'
<1>1. Shape /\ SInv
  BY DEF IInv
<1>2. ASSUME NEW d \in Clients PROVE ClientFits(d)' /\ (Holds(d)' <=> Holds(d))
  <2>1. ClientFits(d)
    BY <1>1 DEF SInv
  <2>2. Seen(d)' => Seen(d) /\ window' = window
    BY DEF Seen
  <2> QED
    BY <2>1, <2>2, OthersFit
<1>3. Held'
  <2>1. CASE (server.input)' = <<>>
    BY <2>1 DEF Held
  <2>2. CASE server'.up /\ (server.input)' = server.input
    BY <1>1, <1>2, <2>2 DEF Held, SInv
  <2>3. CASE server' = server
    BY <1>1, <1>2, <2>3 DEF Held, SInv
  <2> QED
    BY <2>1, <2>2, <2>3
<1>4. Shape'
  BY <1>1 DEF Shape, Servers
<1> QED
  BY <1>2, <1>3, <1>4 DEF IInv, SInv

LEMMA CrashKeeps == IInv /\ Crash => IInv'
<1> SUFFICES ASSUME IInv, Crash PROVE IInv'
  OBVIOUS
<1>1. server' = [server EXCEPT !.up = FALSE, !.input = <<>>]
        /\ UNCHANGED <<window, comp, svc, tip, run, shown>>
  BY DEF Crash
<1>2. server \in Servers /\ <<>> \in Seq(Tokens)
  BY DEF IInv, Shape, Servers
<1>3. server' \in Servers /\ ~server'.up /\ (server.input)' = <<>>
  BY <1>1, <1>2 DEF Servers
<1> QED
  BY <1>1, <1>3, ServerKeeps DEF Late

LEMMA RestartKeeps == IInv /\ Restart => IInv'
<1> SUFFICES ASSUME IInv, Restart PROVE IInv'
  OBVIOUS
<1>1. server' = [server EXCEPT !.up = TRUE, !.session = @ + 1]
        /\ UNCHANGED <<window, comp, svc, tip, run, shown>>
  BY DEF Restart
<1>2. server \in Servers
  BY DEF IInv, Shape, Servers
<1>3. server' \in Servers /\ server'.up /\ (server.input)' = server.input /\ server'.session > 1
  <2>1. server.session + 1 \in Nat \ {0} /\ server.session + 1 > 1
    BY <1>2 DEF Servers
  <2>2. server'.session = server.session + 1 /\ server'.up /\ (server.input)' = server.input
          /\ server' \in Servers
    BY <1>1, <1>2, <2>1 DEF Servers
  <2> QED
    BY <2>1, <2>2
<1> QED
  BY <1>1, <1>3, ServerKeeps DEF Late

LEMMA StutterKeeps ==
  ASSUME IInv, UNCHANGED <<server, window, comp, svc, tip, run, shown>>
  PROVE  IInv'
<1>1. server' \in Servers
  BY DEF IInv, Shape, Servers
<1>2. Late' = Late
  BY DEF Late
<1> QED
  BY <1>1, <1>2, ServerKeeps

-----------------------------------------------------------------------------
(* The invariant.                                                           *)

LEMMA InitHolds == Init => IInv
<1> SUFFICES ASSUME Init PROVE IInv
  OBVIOUS
<1>0. <<>> \in Seq(Tokens) /\ <<>> \in Seq(Actions) /\ NoComp \in Comps /\ NoComp.state = "none"
        /\ NoComp.raw = <<>> /\ "none" \in States
  BY EndedTyped DEF NoComp, Comps, States
<1>1. Shape
  <2>1. Resting \in Runs
    BY <1>0 DEF Resting, Runs, Service
  <2>2. NoTip \in Tips /\ [session |-> 1, reset |-> FALSE] \in Service
    BY <1>0 DEF NoTip, Tips, Service
  <2> QED
    BY <1>0, <2>1, <2>2 DEF Init, Shape, Windows
<1>2. ASSUME NEW c \in Clients PROVE ClientFits(c)
  <2>1. comp[c] = NoComp /\ run[c] = Resting /\ tip[c].open = FALSE
          /\ svc[c] = [session |-> 1, reset |-> FALSE]
    BY DEF Init, NoTip
  <2>2. Idle(c)
    BY <2>1 DEF Idle, Resting
  <2>3. PlanOf(c) = <<>> /\ ToOf(c) = "none" /\ WorkOf(c) = NoComp /\ SvcOf(c) = svc[c]
    BY <1>0, <2>1, <2>2 DEF PlanOf, ToOf, WorkOf, SvcOf
  <2>4. Seen(c) = FALSE
    BY DEF Init, Seen
  <2>5. \A i \in 1..Len(<<>>) : <<>>[i] = "end"
    OBVIOUS
  <2>6. Fits(<<>>, "none", NoComp.raw, NoComp.cands, FALSE, Late, FALSE, window.items)
    BY <1>0, <2>5, OnlyEnds
  <2> QED
    BY <1>0, <2>1, <2>2, <2>3, <2>4, <2>6 DEF ClientFits
<1>3. Held
  BY DEF Init, Held
<1> QED
  BY <1>1, <1>2, <1>3 DEF IInv, SInv

LEMMA NextKeeps ==
  ASSUME CountsTokens, IInv, [Next]_vars
  PROVE  IInv'
<1>1. ASSUME NEW c \in Clients, NEW key \in KeysOf(c), Press(c, key) \/ PressUnhandled(c, key)
      PROVE  IInv'
  BY <1>1, PressKeeps, UnhandledKeeps
<1>2. ASSUME NEW c \in Clients, ReleaseShift(c) \/ PressEisu(c) \/ KeyInDisabledContext(c)
      PROVE  IInv'
  BY <1>2, ReleaseKeeps, EisuKeeps, DisabledKeeps
<1>3. ASSUME NEW c \in Clients, SwitchTo(c) PROVE IInv'
  BY <1>3, StutterKeeps DEF SwitchTo
<1>4. ASSUME NEW c \in Clients, Callback(c) PROVE IInv'
  BY <1>4, CallbackEndKeeps, KillFocusKeeps DEF Callback
<1>5. ASSUME NEW c \in Clients, Handle(c) PROVE IInv'
  BY <1>5, HandleKeeps
<1>6. CASE UNCHANGED vars
  BY <1>6, StutterKeeps DEF vars
<1> QED
  BY <1>1, <1>2, <1>3, <1>4, <1>5, <1>6, CrashKeeps, RestartKeeps DEF Next

-----------------------------------------------------------------------------
(* Theorems.                                                                *)

\* The part of the invariant each property needs.
LEMMA InvariantImplies == IInv => ComposingHasTip /\ NothingLeftBehind /\ WindowFollows
<1> SUFFICES ASSUME IInv PROVE ComposingHasTip /\ NothingLeftBehind /\ WindowFollows
  OBVIOUS
<1>1. ASSUME NEW c \in Clients, Idle(c)
      PROVE  /\ comp[c].state = "none" => ~tip[c].open /\ ~Seen(c)
             /\ comp[c].state # "none" => Late \/ tip[c].open
             /\ Seen(c) => window.items = comp[c].cands
             /\ Holds(c) <=> comp[c].state # "none"
  BY <1>1, AtRest, RestFits
<1>2. ASSUME NEW c \in Clients, ~Idle(c),
             Head(run[c].plan) \in {"start", "commit", "toKana", "toLatin"}
      PROVE  ~tip[c].open
  <2> DEFINE p == run[c].plan
             a == Head(p)
  <2>1. Acting(c, a) /\ a \in Actions
    BY <1>2 DEF Acting, Actions
  <2>2. First(p, a, Tail(p)) /\ TipFits(p, run[c].to, tip[c].open, Late)
    BY <2>1, Running DEF Fits
  <2>3. 1 \in 1..Len(p) /\ p[1] \in Starters
    BY <1>2, <2>2 DEF First, Starters
  <2> QED
    BY <2>2, <2>3 DEF TipFits
<1>3. ComposingHasTip
  BY <1>1, <1>2 DEF ComposingHasTip, Late
<1>4. NothingLeftBehind
  BY <1>1 DEF NothingLeftBehind, IInv, SInv, Held
<1>5. WindowFollows
  BY <1>1 DEF WindowFollows, Seen
<1> QED
  BY <1>3, <1>4, <1>5

\* A composition a text service has is in the document too, nothing is started
\* while one is open, and none is left open by a service that has none.
THEOREM TipFollows == ASSUME CountsTokens PROVE Spec => []ComposingHasTip
<1>1. Init => IInv
  BY InitHolds
<1>2. IInv /\ [Next]_vars => IInv'
  BY NextKeeps
<1>3. IInv => ComposingHasTip
  BY InvariantImplies
<1> QED
  BY <1>1, <1>2, <1>3, PTL DEF Spec

\* When nobody composes, no text is left in the server that could turn up in the
\* next application.
THEOREM ServerLeftEmpty == ASSUME CountsTokens PROVE Spec => []NothingLeftBehind
<1>1. Init => IInv
  BY InitHolds
<1>2. IInv /\ [Next]_vars => IInv'
  BY NextKeeps
<1>3. IInv => NothingLeftBehind
  BY InvariantImplies
<1> QED
  BY <1>1, <1>2, <1>3, PTL DEF Spec

\* A window that is seen lists the candidates of whoever updated it last, and
\* that application composes something.
THEOREM WindowIsRight == ASSUME CountsTokens PROVE Spec => []WindowFollows
<1>1. Init => IInv
  BY InitHolds
<1>2. IInv /\ [Next]_vars => IInv'
  BY NextKeeps
<1>3. IInv => WindowFollows
  BY InvariantImplies
<1> QED
  BY <1>1, <1>2, <1>3, PTL DEF Spec
=============================================================================
