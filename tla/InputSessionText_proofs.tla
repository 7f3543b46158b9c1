------------------------ MODULE InputSessionText_proofs ------------------------
(***************************************************************************)
(* Proofs about the text in InputSession: the types of all variables, that   *)
(* nothing typed is lost or doubled, and that the server holds what the      *)
(* document shows.  The invariant says for each application how the plan      *)
(* that is left, the handler's copies, the composition in the document, the  *)
(* server and the history belong together (Text, TextFits, TInv).            *)
(*                                                                         *)
(* The last part is about temporary Latin input, which lasts until it has a   *)
(* reason to end.  The reason is in the plan: it is in what is left of it, or  *)
(* what is left turns Latin input on again (Confirmed, LatinFits, LInv).     *)
(***************************************************************************)
EXTENDS InputSession_proofs

Typing == {"append", "commit", "shrinkAppend"}
Taking == {"remove", "shrink", "shrinkAppend"}

\* The order of the actions in a plan, as far as it matters to the text.
Placed(p) ==
  /\ \A i \in 1..Len(p) : p[i] \in Editing \union {"commit"} => Len(p) <= i + 1
  /\ \A i, j \in 1..Len(p) : i < j /\ p[i] = "commit" => p[j] = "end"
  /\ \A i, j \in 1..Len(p) : i < j /\ p[j] \in Taking => p[i] \in FlagActs
  /\ \A i, j \in 1..Len(p) :
       i < j /\ p[i] = "end" /\ p[j] = "append" => \E k \in 1..Len(p) : i < k /\ p[k] = "start"

\* Whatever the server does: a plan that leaves nothing composed leaves no text,
\* what gets ended on the way is typed anew, and where a clause is cut off, or
\* may be by the next key, the clause is within the text.
Leaves(p, to, w) ==
  /\ to = "none" => (w.raw = <<>> /\ w.text = <<>>) \/ (Has(p, {"end"}) /\ ~Has(p, {"append"}))
  /\ \A i \in 1..Len(p) :
       to # "none" /\ p[i] = "end" => i = Len(p) \/ \E j \in 1..Len(p) : i < j /\ p[j] = "append"
  /\ Has(p, {"toKana", "toLatin"}) => to = "none"
  /\ Has(p, Choosing \union {"convert"}) => to = "previewing" /\ ~Has(p, {"start", "append"})
  /\ Has(p, {"shrink", "shrinkAppend"}) => w.n <= Len(w.text)
  /\ to = "composing" /\ ~Has(p, Editing) => w.n <= Len(w.text)

\* The document shows the text of the copies, from the start of the composition on.
Displays(p, w, t) ==
  /\ t.open => t.text = w.text
  /\ ~t.open => t.text = <<>>
  /\ \A i \in 1..Len(p) :
       p[i] = "start" => w.text = <<>> \/ \E j \in 1..Len(p) : j < i /\ p[j] = "end"

\* What holds of an application that is not excused: it has what it took down as
\* typed for its candidates and in the document.
Agrees(p, to, w, t) ==
  /\ to # "none" => w.raw # <<>> \/ Has(p, {"append"})
  /\ Has(p, {"append"}) => t.open \/ Has(p, {"start"})
  /\ w.raw = <<>> => t.text = <<>>
  /\ w.raw # <<>> => t.open /\ w.cands = w.raw /\ w.text = w.raw /\ w.n <= Len(w.raw)

\* What the plan will still type, less what it will take back.
ToCome(p, raw) ==
  (IF Has(p, Typing) THEN 1 ELSE 0) - (IF Has(p, {"remove"}) /\ raw # <<>> THEN 1 ELSE 0)

\* owed: what the user is owed in the composition.
Text(p, to, w, t, excused, owed) ==
  /\ Placed(p) /\ Leaves(p, to, w) /\ Displays(p, w, t)
  /\ ~excused => Agrees(p, to, w, t) /\ owed = Len(t.text) + ToCome(p, w.raw)

-----------------------------------------------------------------------------
(* Going through a plan.                                                    *)

\* The order of what is left of a plan.
LEMMA RestIsPlaced ==
  ASSUME NEW p, NEW q, NEW a, First(p, a, q), Placed(p)
  PROVE  /\ Placed(q)
         /\ a \in Editing \union {"commit"} => Len(q) <= 1
         /\ a = "commit" => \A i \in 1..Len(q) : q[i] = "end"
         /\ a \notin FlagActs => ~Has(q, Taking)
         /\ a = "end" /\ Has(q, {"append"}) => Has(q, {"start"})
<1>1. \A i \in 1..Len(q) : i + 1 \in 1..Len(p) /\ p[i + 1] = q[i]
  BY DEF First
<1>2. Len(q) \in Nat /\ Len(p) = Len(q) + 1 /\ 1 \in 1..Len(p) /\ p[1] = a
  BY DEF First
<1>3. ASSUME NEW i \in 1..Len(q), q[i] \in Editing \union {"commit"} PROVE Len(q) <= i + 1
  <2>1. Len(p) <= (i + 1) + 1
    BY <1>1, <1>3 DEF Placed
  <2> QED
    BY <2>1, <1>2
<1>4. ASSUME NEW i \in 1..Len(q), NEW j \in 1..Len(q), i < j
      PROVE  /\ q[i] = "commit" => q[j] = "end"
             /\ q[j] \in Taking => q[i] \in FlagActs
             /\ q[i] = "end" /\ q[j] = "append" => \E k \in 1..Len(q) : i < k /\ q[k] = "start"
  <2>1. i + 1 \in 1..Len(p) /\ j + 1 \in 1..Len(p) /\ i + 1 < j + 1
          /\ p[i + 1] = q[i] /\ p[j + 1] = q[j]
    BY <1>1, <1>4
  <2>2. (q[i] = "commit" => q[j] = "end") /\ (q[j] \in Taking => q[i] \in FlagActs)
    BY <2>1 DEF Placed
  <2>3. ASSUME q[i] = "end", q[j] = "append"
        PROVE  \E k \in 1..Len(q) : i < k /\ q[k] = "start"
    <3>1. PICK k \in 1..Len(p) : i + 1 < k /\ p[k] = "start"
      BY <2>1, <2>3 DEF Placed
    <3>2. k - 1 \in 1..Len(q) /\ i < k - 1 /\ q[k - 1] = "start"
      BY <3>1 DEF First
    <3> QED
      BY <3>2
  <2> QED
    BY <2>2, <2>3
<1>5. a \in Editing \union {"commit"} => Len(q) <= 1
  <2> SUFFICES ASSUME a \in Editing \union {"commit"} PROVE Len(q) <= 1
    OBVIOUS
  <2>1. Len(p) <= 1 + 1
    BY <1>2 DEF Placed
  <2> QED
    BY <2>1, <1>2
<1>6. ASSUME NEW i \in 1..Len(q)
      PROVE  /\ a = "commit" => q[i] = "end"
             /\ q[i] \in Taking => a \in FlagActs
             /\ a = "end" /\ q[i] = "append" => Has(q, {"start"})
  <2>1. i + 1 \in 1..Len(p) /\ 1 < i + 1 /\ p[i + 1] = q[i]
    BY <1>1
  <2>2. (a = "commit" => q[i] = "end") /\ (q[i] \in Taking => a \in FlagActs)
    BY <2>1, <1>2 DEF Placed
  <2>3. ASSUME a = "end", q[i] = "append" PROVE Has(q, {"start"})
    <3>1. PICK k \in 1..Len(p) : 1 < k /\ p[k] = "start"
      BY <2>1, <2>3, <1>2 DEF Placed
    <3>2. k - 1 \in 1..Len(q) /\ q[k - 1] = "start"
      BY <3>1 DEF First
    <3> QED
      BY <3>2 DEF Has
  <2> QED
    BY <2>2, <2>3
<1>7. Placed(q)
  BY <1>3, <1>4 DEF Placed
<1>8. (a \notin FlagActs => ~Has(q, Taking)) /\ (a = "end" /\ Has(q, {"append"}) => Has(q, {"start"}))
  BY <1>6 DEF Has
<1> QED
  BY <1>5, <1>6, <1>7, <1>8

\* Which actions of a plan are still to come.
LEMMA RestHas ==
  ASSUME NEW p, NEW q, NEW a, First(p, a, q)
  PROVE  /\ Has(p, Typing) <=> a \in Typing \/ Has(q, Typing)
         /\ Has(p, {"remove"}) <=> a = "remove" \/ Has(q, {"remove"})
         /\ Has(p, {"toKana", "toLatin"}) <=>
              a \in {"toKana", "toLatin"} \/ Has(q, {"toKana", "toLatin"})
         /\ Has(p, Choosing \union {"convert"}) <=>
              a \in Choosing \union {"convert"} \/ Has(q, Choosing \union {"convert"})
         /\ Has(p, {"start", "append"}) <=> a \in {"start", "append"} \/ Has(q, {"start", "append"})
         /\ Has(p, {"shrink", "shrinkAppend"}) <=>
              a \in {"shrink", "shrinkAppend"} \/ Has(q, {"shrink", "shrinkAppend"})
         /\ Has(p, Editing) <=> a \in Editing \/ Has(q, Editing)
<1>1. \A acts : Has(p, acts) <=> a \in acts \/ Has(q, acts)
  BY FirstHas
<1>2. \A acts : Has(p, acts) <=> a \in acts \/ Has(q, acts)
  BY <1>1
<1> QED
  BY <1>1, Zenon

\* Who has none of many actions has none of fewer.
LEMMA HasFewer ==
  ASSUME NEW p, NEW acts, NEW few, few \subseteq acts, ~Has(p, acts)
  PROVE  ~Has(p, few)
BY DEF Has

\* An action that is no edit: what the plan leaves of the copies v, which replace w.
LEMMA LeavesRest ==
  ASSUME NEW p, NEW q, NEW a, First(p, a, q), NEW to, NEW w, NEW v, Leaves(p, to, w),
         a \notin Editing,
         (v.raw = <<>> /\ v.text = <<>>) \/ (v.raw = w.raw /\ v.text = w.text /\ a # "end")
           \/ to # "none",
         (v.n = w.n /\ v.text = w.text) \/ v.n <= Len(v.text)
           \/ (to # "composing" /\ ~Has(q, {"shrink", "shrinkAppend"}))
  PROVE  Leaves(q, to, v)
<1>1. to = "none" => (v.raw = <<>> /\ v.text = <<>>) \/ (Has(q, {"end"}) /\ ~Has(q, {"append"}))
  BY FirstHasAll DEF Leaves
<1>2. ASSUME NEW i \in 1..Len(q), to # "none", q[i] = "end"
      PROVE  i = Len(q) \/ \E j \in 1..Len(q) : i < j /\ q[j] = "append"
  <2>1. i + 1 \in 1..Len(p) /\ p[i + 1] = "end" /\ Len(p) = Len(q) + 1 /\ Len(q) \in Nat
    BY <1>2 DEF First
  <2>2. i + 1 = Len(p) \/ \E j \in 1..Len(p) : i + 1 < j /\ p[j] = "append"
    BY <1>2, <2>1 DEF Leaves
  <2>3. ASSUME NEW j \in 1..Len(p), i + 1 < j, p[j] = "append"
        PROVE  j - 1 \in 1..Len(q) /\ i < j - 1 /\ q[j - 1] = "append"
    BY <2>3 DEF First
  <2> QED
    BY <2>1, <2>2, <2>3
<1>3. /\ Has(q, {"toKana", "toLatin"}) => to = "none"
      /\ Has(q, Choosing \union {"convert"}) => to = "previewing" /\ ~Has(q, {"start", "append"})
  BY RestHas DEF Leaves
<1>4. /\ Has(q, {"shrink", "shrinkAppend"}) => v.n <= Len(v.text)
      /\ to = "composing" /\ ~Has(q, Editing) => v.n <= Len(v.text)
  BY RestHas DEF Leaves
<1> QED
  BY <1>1, <1>2, <1>3, <1>4 DEF Leaves

\* After an edit there is at most the end of the composition to come.
LEMMA AfterEdits ==
  ASSUME NEW p, NEW q, NEW a \in Editing, First(p, a, q), Orderly(p), Placed(p)
  PROVE  /\ Placed(q) /\ Len(q) \in {0, 1} /\ \A i \in 1..Len(q) : q[i] = "end"
         /\ ~Has(q, {"append"}) /\ ~Has(q, {"start"}) /\ ~Has(q, {"remove"}) /\ ~Has(q, Typing)
         /\ Len(q) = 1 => Has(q, {"end"})
         /\ Has(p, Typing) <=> a \in Typing
         /\ Has(p, {"remove"}) <=> a = "remove"
<1>1. Placed(q) /\ Len(q) <= 1
  BY RestIsPlaced
<1>2. \A i \in 1..Len(q) : q[i] = "end"
  BY AfterEdit
<1>3. Len(q) \in {0, 1}
  <2>1. Len(q) \in Nat
    BY DEF First
  <2> QED
    BY <1>1, <2>1
<1>4. ~Has(q, {"append"}) /\ ~Has(q, {"start"}) /\ ~Has(q, {"remove"}) /\ ~Has(q, Typing)
  BY <1>2 DEF Has, Typing
<1>5. Len(q) = 1 => Has(q, {"end"})
  BY <1>2 DEF Has
<1>6. Has(p, Typing) <=> a \in Typing
  BY <1>4, RestHas
<1>7. Has(p, {"remove"}) <=> a = "remove"
  BY <1>4, RestHas
<1> QED
  BY <1>1, <1>2, <1>3, <1>4, <1>5, <1>6, <1>7, Zenon

\* After an edit, with at most the end of the composition to come.
LEMMA EditLeaves ==
  ASSUME NEW q, Len(q) \in {0, 1}, \A i \in 1..Len(q) : q[i] = "end", NEW to, NEW v,
         v.n <= Len(v.text), to = "none" => (v.raw = <<>> /\ v.text = <<>>) \/ Len(q) = 1
  PROVE  Leaves(q, to, v)
<1>1. ~Has(q, {"append"}) /\ ~Has(q, {"toKana", "toLatin"}) /\ ~Has(q, Choosing \union {"convert"})
        /\ ~Has(q, {"shrink", "shrinkAppend"})
  BY DEF Has, Choosing
<1>2. Len(q) = 1 => Has(q, {"end"})
  BY DEF Has
<1>3. \A i \in 1..Len(q) : i = Len(q)
  OBVIOUS
<1> QED
  BY <1>1, <1>2, <1>3 DEF Leaves

\* The document shows the copies v of what is left of the plan.
LEMMA DisplaysRest ==
  ASSUME NEW p, NEW q, NEW a, First(p, a, q), NEW w, NEW v, NEW t, NEW u, Displays(p, w, t),
         u.open => u.text = v.text, ~u.open => u.text = <<>>,
         v.text = <<>> \/ (v.text = w.text /\ a # "end") \/ ~Has(q, {"start"})
  PROVE  Displays(q, v, u)
<1>1. ASSUME NEW i \in 1..Len(q), q[i] = "start"
      PROVE  v.text = <<>> \/ \E j \in 1..Len(q) : j < i /\ q[j] = "end"
  <2>1. i + 1 \in 1..Len(p) /\ p[i + 1] = "start" /\ Has(q, {"start"})
    BY <1>1 DEF First, Has
  <2>2. ASSUME v.text = w.text, a # "end", w.text # <<>>
        PROVE  \E j \in 1..Len(q) : j < i /\ q[j] = "end"
    <3>1. PICK j \in 1..Len(p) : j < i + 1 /\ p[j] = "end"
      BY <2>1, <2>2 DEF Displays
    <3>2. j # 1
      BY <3>1, <2>2 DEF First
    <3>3. j - 1 \in 1..Len(q) /\ j - 1 < i /\ q[j - 1] = "end"
      BY <3>1, <3>2 DEF First
    <3> QED
      BY <3>3
  <2> QED
    BY <2>1, <2>2
<1> QED
  BY <1>1 DEF Displays

\* What is still to be typed, after an action that types and removes nothing.
LEMMA ComeRest ==
  ASSUME NEW p, NEW q, NEW a, First(p, a, q), a \notin Typing, a # "remove", NEW raw
  PROVE  ToCome(q, raw) = ToCome(p, raw)
BY RestHas DEF ToCome

\* An action that leaves the copies and the document alone.
LEMMA NeutralText ==
  ASSUME NEW p, NEW q, NEW a \in FlagActs \union {"show"}, First(p, a, q), NEW to, NEW w, NEW v,
         NEW t, NEW excused, NEW owed, Text(p, to, w, t, excused, owed),
         v.raw = w.raw, v.text = w.text, v.cands = w.cands, v.n = w.n
  PROVE  Text(q, to, v, t, excused, owed)
<1>1. a \notin Editing /\ a # "end" /\ a # "start" /\ a # "append" /\ a # "remove" /\ a \notin Typing
  BY DEF FlagActs, Editing, Typing
<1>2. Placed(p) /\ Leaves(p, to, w) /\ Displays(p, w, t)
  BY DEF Text
<1>3. Placed(q)
  BY <1>2, RestIsPlaced
<1>4. Leaves(q, to, v)
  BY <1>1, <1>2, LeavesRest
<1>5. Displays(q, v, t)
  <2>1. (t.open => t.text = v.text) /\ (~t.open => t.text = <<>>)
    BY <1>2 DEF Displays
  <2> QED
    BY <1>1, <1>2, <2>1, DisplaysRest
<1>6. ToCome(q, v.raw) = ToCome(p, w.raw)
  BY <1>1, ComeRest
<1>7. ~excused => Agrees(q, to, v, t)
  BY <1>1, FirstHasAll DEF Agrees, Text
<1> QED
  BY <1>3, <1>4, <1>5, <1>6, <1>7 DEF Text

\* Starting a composition keeps the text.
LEMMA StartText ==
  ASSUME NEW p, NEW q, First(p, "start", q), NEW to, NEW w, NEW t, ~t.open,
         NEW excused, NEW owed, Text(p, to, w, t, excused, owed),
         NEW u, u.open, u.text = <<>>
  PROVE  Text(q, to, w, u, excused, owed)
<1>0. "start" \notin Editing /\ "start" \notin Typing
  BY DEF Editing, Typing
<1>1. Placed(p) /\ Leaves(p, to, w) /\ Displays(p, w, t) /\ t.text = <<>>
  BY DEF Text, Displays
<1>2. w.text = <<>>
  <2>1. 1 \in 1..Len(p) /\ p[1] = "start"
    BY DEF First
  <2> QED
    BY <1>1, <2>1 DEF Displays
<1>3. Placed(q)
  BY <1>1, RestIsPlaced
<1>4. Leaves(q, to, w)
  BY <1>0, <1>1, LeavesRest
<1>5. Displays(q, w, u)
  BY <1>1, <1>2, DisplaysRest
<1>6. ToCome(q, w.raw) = ToCome(p, w.raw)
  BY <1>0, ComeRest
<1>7. ~excused => Agrees(q, to, w, u)
  BY FirstHasAll DEF Agrees, Text
<1> QED
  BY <1>1, <1>3, <1>4, <1>5, <1>6, <1>7 DEF Text

\* One character goes into the document directly.
LEMMA CommitText ==
  ASSUME NEW p, NEW q, First(p, "commit", q), NEW to, NEW w, NEW t, Len(t.text) \in Nat,
         NEW excused, NEW owed \in Int, Text(p, to, w, t, excused, owed)
  PROVE  Text(q, to, w, t, excused, owed - 1)
<1>0. "commit" \notin Editing /\ "commit" \in Typing
  BY DEF Editing, Typing
<1>1. Placed(p) /\ Leaves(p, to, w) /\ Displays(p, w, t)
  BY DEF Text
<1>2. Placed(q) /\ \A i \in 1..Len(q) : q[i] = "end"
  BY <1>1, RestIsPlaced
<1>3. Leaves(q, to, w)
  BY <1>0, <1>1, LeavesRest
<1>4. Displays(q, w, t)
  <2>1. (t.open => t.text = w.text) /\ (~t.open => t.text = <<>>)
    BY <1>1 DEF Displays
  <2> QED
    BY <1>1, <2>1, DisplaysRest
<1>5. ~Has(q, Typing) /\ ~Has(q, {"remove"})
  BY <1>2 DEF Has, Typing
<1>6. ToCome(q, w.raw) = 0 /\ ToCome(p, w.raw) = 1
  BY <1>0, <1>5, RestHas DEF ToCome
<1>7. ~excused => Agrees(q, to, w, t)
  BY FirstHasAll DEF Agrees, Text
<1>8. ~excused => owed = Len(t.text) + 1
  BY <1>6 DEF Text
<1> QED
  BY <1>2, <1>3, <1>4, <1>6, <1>7, <1>8 DEF Text

\* The document takes over the text of the copies, if a composition is open there.
Follows(u, t, text) ==
  (u.open <=> t.open) /\ (u.open => u.text = text) /\ (~u.open => u.text = <<>>)

\* A candidate is selected, or the clause gets another script.
LEMMA ShownText ==
  ASSUME NEW p, NEW q, NEW a \in Choosing \union {"convert"}, First(p, a, q), NEW to, NEW w, NEW v,
         NEW t, NEW excused, NEW owed, Text(p, to, w, t, excused, owed),
         v.raw = w.raw, v.cands = w.cands,
         w.raw # <<>> /\ w.cands = w.raw /\ w.text = w.raw /\ w.n <= Len(w.raw)
           => v.text = w.raw /\ v.n <= Len(w.raw),
         NEW u, Follows(u, t, v.text)
  PROVE  Text(q, to, v, u, excused, owed)
<1>1. a \notin Editing /\ a # "end" /\ a # "start" /\ a # "append" /\ a # "remove" /\ a \notin Typing
        /\ a \notin FlagActs
  BY DEF FlagActs, Editing, Typing, Choosing
<1>2. Placed(p) /\ Leaves(p, to, w) /\ Displays(p, w, t)
  BY DEF Text
<1>3. Has(p, Choosing \union {"convert"})
  BY RestHas
<1>4. to = "previewing" /\ ~Has(p, {"start", "append"})
  BY <1>2, <1>3 DEF Leaves
<1>5. Placed(q) /\ ~Has(q, Taking)
  BY <1>1, <1>2, RestIsPlaced
<1>6. ~Has(q, {"shrink", "shrinkAppend"}) /\ ~Has(q, {"start"}) /\ ~Has(p, {"append"})
        /\ ~Has(q, {"append"})
  <2>1. ~Has(q, {"shrink", "shrinkAppend"})
    BY <1>5, HasFewer DEF Taking
  <2>2. ~Has(q, {"start", "append"})
    BY <1>4, RestHas
  <2>3. ~Has(q, {"start"}) /\ ~Has(q, {"append"})
    BY <2>2, HasFewer
  <2>4. ~Has(p, {"append"})
    BY <1>4, HasFewer
  <2> QED
    BY <2>1, <2>3, <2>4
<1>7. Leaves(q, to, v)
  BY <1>1, <1>2, <1>4, <1>6, LeavesRest
<1>8. Displays(q, v, u)
  BY <1>1, <1>2, <1>6, DisplaysRest DEF Follows
<1>9. ToCome(q, v.raw) = ToCome(p, w.raw)
  BY <1>1, ComeRest
<1>10. ASSUME ~excused PROVE Agrees(q, to, v, u) /\ u.text = t.text
  <2>1. Agrees(p, to, w, t)
    BY <1>10 DEF Text
  <2>2. w.raw # <<>>
    BY <1>4, <1>6, <2>1 DEF Agrees
  <2>3. t.open /\ w.cands = w.raw /\ w.text = w.raw /\ w.n <= Len(w.raw)
    BY <2>1, <2>2 DEF Agrees
  <2>4. v.text = w.raw /\ v.n <= Len(w.raw)
    BY <2>2, <2>3
  <2>5. u.open /\ u.text = w.raw /\ t.text = w.raw
    BY <1>2, <2>3, <2>4 DEF Follows, Displays
  <2> QED
    BY <2>2, <2>3, <2>4, <2>5 DEF Agrees
<1> QED
  BY <1>5, <1>7, <1>8, <1>9, <1>10 DEF Text

\* The composition ends; at the end of a plan that should leave one, the
\* application gets excused.
LEMMA EndText ==
  ASSUME NEW p, NEW q, First(p, "end", q), NEW to, NEW w, NEW t, Len(t.text) \in Nat,
         NEW excused, NEW owed \in Int, Text(p, to, w, t, excused, owed),
         NEW v, v.raw = <<>>, v.text = <<>>, v.n = 0,
         NEW u, ~u.open, u.text = <<>>,
         NEW over, over <=> excused \/ (to # "none" /\ Len(q) = 0)
  PROVE  Text(q, to, v, u, over, owed - Len(t.text))
<1>1. "end" \notin Editing /\ "end" \notin FlagActs /\ "end" \notin Typing
  BY DEF FlagActs, Editing, Typing
<1>2. Placed(p) /\ Leaves(p, to, w) /\ Displays(p, w, t)
  BY DEF Text
<1>3. Placed(q) /\ ~Has(q, Taking) /\ (Has(q, {"append"}) => Has(q, {"start"}))
  BY <1>1, <1>2, RestIsPlaced
<1>4. ~Has(q, {"remove"})
  BY <1>3, HasFewer DEF Taking
<1>5. Leaves(q, to, v)
  BY <1>1, <1>2, LeavesRest
<1>6. Displays(q, v, u)
  BY <1>2, DisplaysRest
<1>7. ToCome(q, v.raw) = ToCome(p, w.raw) /\ Len(u.text) = 0 /\ ToCome(p, w.raw) \in Int
  BY <1>1, <1>4, RestHas DEF ToCome
<1>8. ASSUME ~excused, ~(to # "none" /\ Len(q) = 0) PROVE Agrees(q, to, v, u)
  <2>1. ASSUME to # "none" PROVE Has(q, {"append"})
    <3>1. 1 \in 1..Len(p) /\ p[1] = "end" /\ Len(q) \in Nat /\ Len(p) = Len(q) + 1
      BY DEF First
    <3>2. 1 # Len(p)
      BY <1>8, <2>1, <3>1
    <3>3. PICK j \in 1..Len(p) : 1 < j /\ p[j] = "append"
      BY <1>2, <2>1, <3>1, <3>2 DEF Leaves
    <3>4. j - 1 \in 1..Len(q) /\ q[j - 1] = "append"
      BY <3>3 DEF First
    <3> QED
      BY <3>4 DEF Has
  <2> QED
    BY <1>3, <2>1 DEF Agrees
<1>9. ~excused => owed - Len(t.text) = ToCome(p, w.raw)
  BY <1>7 DEF Text
<1> QED
  BY <1>3, <1>5, <1>6, <1>7, <1>8, <1>9 DEF Text

\* The input mode changes: the text of the copies is given up.
LEMMA ModeText ==
  ASSUME NEW p, NEW q, NEW a \in {"toKana", "toLatin"}, First(p, a, q), NEW to, NEW w,
         NEW t, ~t.open, NEW excused, NEW owed, Text(p, to, w, t, excused, owed),
         NEW v, v.raw = <<>>, v.text = <<>>, v.n = 0
  PROVE  Text(q, to, v, t, excused, owed)
<1>1. a \notin Editing /\ a # "end" /\ a # "start" /\ a # "append" /\ a # "remove" /\ a \notin Typing
        /\ a \notin FlagActs
  BY DEF FlagActs, Editing, Typing
<1>2. Placed(p) /\ Leaves(p, to, w) /\ Displays(p, w, t)
  BY DEF Text
<1>3. Placed(q) /\ ~Has(q, Taking)
  BY <1>1, <1>2, RestIsPlaced
<1>4. ~Has(q, {"remove"}) /\ ~Has(p, {"remove"})
  BY <1>1, <1>3, HasFewer, RestHas DEF Taking
<1>5. Leaves(q, to, v)
  BY <1>1, <1>2, LeavesRest
<1>6. t.text = <<>>
  BY <1>2 DEF Displays
<1>7. Displays(q, v, t)
  BY <1>2, <1>6, DisplaysRest
<1>8. ToCome(q, v.raw) = ToCome(p, w.raw)
  BY <1>1, <1>4, RestHas DEF ToCome
<1>9. to = "none"
  BY <1>2, RestHas DEF Leaves
<1>10. ~excused => Agrees(q, to, v, t)
  BY <1>1, <1>6, <1>9, FirstHasAll DEF Agrees, Text
<1> QED
  BY <1>3, <1>5, <1>7, <1>8, <1>10 DEF Text

\* An edit: what is left of the plan, and what the application then has.
LEMMA EditText ==
  ASSUME NEW p, NEW q, NEW a \in Editing, First(p, a, q), Orderly(p), Placed(p),
         NEW to, NEW v, v.n <= Len(v.text),
         to = "none" => (v.raw = <<>> /\ v.text = <<>>) \/ Len(q) = 1,
         NEW u, u.open => u.text = v.text, ~u.open => u.text = <<>>,
         NEW excused, NEW owed \in Int, Len(u.text) \in Nat,
         ~excused => /\ to # "none" => v.raw # <<>>
                     /\ v.raw = <<>> => u.text = <<>>
                     /\ v.raw # <<>> => u.open /\ v.cands = v.raw /\ v.text = v.raw
                                          /\ v.n <= Len(v.raw)
                     /\ owed = Len(u.text)
  PROVE  Text(q, to, v, u, excused, owed)
<1>1. /\ Placed(q) /\ Len(q) \in {0, 1} /\ \A i \in 1..Len(q) : q[i] = "end"
      /\ ~Has(q, {"append"}) /\ ~Has(q, {"start"}) /\ ~Has(q, {"remove"}) /\ ~Has(q, Typing)
  BY AfterEdits
<1>2. Leaves(q, to, v)
  BY <1>1, EditLeaves
<1>3. Displays(q, v, u)
  <2>1. \A i \in 1..Len(q) : q[i] # "start"
    BY <1>1
  <2> QED
    BY <2>1 DEF Displays
<1>4. ToCome(q, v.raw) = 0
  BY <1>1 DEF ToCome
<1>5. ~excused => Agrees(q, to, v, u)
  BY <1>1 DEF Agrees
<1> QED
  BY <1>1, <1>2, <1>3, <1>4, <1>5 DEF Text

-----------------------------------------------------------------------------
(* The invariant.                                                           *)

\* What a text service stores when it composes nothing, and when its clauses
\* may be cut off.
Stored(w) ==
  /\ w.state = "none" => w.raw = <<>> /\ w.text = <<>>
  /\ w.state = "composing" => w.n <= Len(w.text)

\* As long as nobody else has changed it, the server holds what was typed, and the
\* text service knows this server.
Untouched(c) ==
  c \notin ghost.touched =>
    /\ server.up
    /\ SvcOf(c) = [session |-> server.session, reset |-> FALSE]
    /\ server.input = WorkOf(c).raw

TextFits(c) ==
  /\ Text(PlanOf(c), ToOf(c), WorkOf(c), tip[c], c \in ghost.excused,
          ghost.owed[c] - Len(doc[c]))
  /\ Stored(comp[c])
  /\ Untouched(c)

\* The types that the text service does not look at.
Rest ==
  /\ mode \in [Clients -> Modes]
  /\ doc \in [Clients -> Seq(Tokens)]
  /\ due \in [Clients -> SUBSET {"focus", "kill"}]
  /\ focus \in Clients
  /\ bounds \in Budget
  /\ shown \in Clients \union {"nobody"}
  /\ ghost \in Ghost

TInv == IInv /\ Rest /\ \A c \in Clients : TextFits(c)

-----------------------------------------------------------------------------
(* History.                                                                 *)

\* The history g differs from the present one in c alone, unless c changes the server.
Beside(c, g) ==
  /\ g \in Ghost
  /\ \A d \in Clients \ {c} :
       /\ g.owed[d] = ghost.owed[d]
       /\ d \in g.excused <=> d \in ghost.excused
       /\ d \notin g.touched => d \notin ghost.touched /\ server' = server

\* A step that changes neither server nor history.
LEMMA SameHistory ==
  ASSUME ghost \in Ghost, server' = server, NEW c \in Clients
  PROVE  Beside(c, ghost)
BY DEF Beside

\* A history that differs from the present one in c alone, before c acts.
Near(c, g) ==
  /\ g \in Ghost /\ g.touched = ghost.touched
  /\ \A d \in Clients \ {c} : g.owed[d] = ghost.owed[d] /\ (d \in g.excused <=> d \in ghost.excused)

\* What Uses changes of the history: who must not count on the server.
LEMMA UsesHistory ==
  ASSUME ghost \in Ghost, NEW c \in Clients, NEW g, Near(c, g) \/ g = ghost
  PROVE  /\ Beside(c, Uses(g, c))
         /\ Uses(g, c).owed = g.owed /\ Uses(g, c).excused = g.excused
         /\ c \in Uses(g, c).touched <=> c \in ghost.touched
<1>1. Near(c, g)
  BY DEF Near
<1>2. CASE server' = server
  BY <1>1, <1>2 DEF Uses, Beside, Near
<1>3. CASE server' # server
  <2> DEFINE u == [g EXCEPT !.touched = @ \union (Clients \ {c})]
  <2>1. Uses(g, c) = u
    BY <1>3 DEF Uses
  <2>2. u.touched = g.touched \union (Clients \ {c}) /\ u.owed = g.owed /\ u.excused = g.excused
          /\ u \in Ghost
    BY <1>1 DEF Ghost, Near
  <2> HIDE DEF u
  <2> QED
    BY <1>1, <2>1, <2>2 DEF Beside, Near
<1> QED
  BY <1>2, <1>3

\* What Excuse changes of it.
LEMMA ExcuseHistory ==
  ASSUME NEW c \in Clients, NEW g \in Ghost
  PROVE  /\ Beside(c, g) => Beside(c, Excuse(g, c))
         /\ Excuse(g, c) \in Ghost /\ c \in Excuse(g, c).excused
         /\ Excuse(g, c).owed = g.owed /\ Excuse(g, c).touched = g.touched
         /\ \A d \in Clients \ {c} : d \in Excuse(g, c).excused <=> d \in g.excused
<1> DEFINE u == Excuse(g, c)
<1>1. u.excused = g.excused \union {c} /\ u.owed = g.owed /\ u.touched = g.touched /\ u \in Ghost
  BY DEF Ghost, Excuse
<1> HIDE DEF u
<1>2. Beside(c, g) => Beside(c, u)
  BY <1>1 DEF Beside
<1> QED
  BY <1>1, <1>2 DEF u

\* What the end of a composition changes of it.
LEMMA OverHistory ==
  ASSUME NEW c \in Clients, NEW g \in Ghost, NEW written \in Seq(Tokens)
  PROVE  /\ Beside(c, g) => Beside(c, Over(g, c, written))
         /\ Over(g, c, written) \in Ghost /\ c \notin Over(g, c, written).excused
         /\ Over(g, c, written).touched = g.touched
         /\ Over(g, c, written).owed[c] = IF c \in g.excused THEN Len(written) ELSE g.owed[c]
         /\ \A d \in Clients \ {c} : /\ Over(g, c, written).owed[d] = g.owed[d]
                                     /\ d \in Over(g, c, written).excused <=> d \in g.excused
<1> DEFINE n == IF c \in g.excused THEN Len(written) ELSE g.owed[c]
           u == Over(g, c, written)
<1>1. n \in Int
  BY DEF Ghost
<1>2. u = [g EXCEPT !.excused = @ \ {c}, !.owed[c] = n]
  BY DEF Over, Ghost
<1> HIDE DEF n, u
<1>3. u.excused = g.excused \ {c} /\ u.touched = g.touched /\ u.owed = [g.owed EXCEPT ![c] = n]
        /\ u \in Ghost
  BY <1>1, <1>2 DEF Ghost
<1>4. u.owed[c] = n /\ \A d \in Clients \ {c} : u.owed[d] = g.owed[d]
  BY <1>3 DEF Ghost
<1>5. Beside(c, g) => Beside(c, u)
  BY <1>3, <1>4 DEF Beside
<1> QED
  BY <1>3, <1>4, <1>5 DEF u, n

\* An edit of c, which is excused for it unless it is alone with the server or
\* nothing is composed at all.
Alone(c, w) == c \notin ghost.touched \/ (w.raw = <<>> /\ server.input = <<>>)

\* What an edit changes of it.
LEMMA MeetsHistory ==
  ASSUME ghost \in Ghost, NEW c \in Clients, NEW g, Near(c, g) \/ g = ghost,
         NEW w, NEW m, m = Meets(Uses(g, c), c, w)
  PROVE  /\ Beside(c, m) /\ m.owed = g.owed
         /\ c \in m.excused <=> c \in g.excused \/ ~Alone(c, w)
         /\ c \notin m.touched => Alone(c, w)
<1> DEFINE k == Uses(g, c)
<1>0. k \in Ghost /\ Beside(c, k) /\ k.owed = g.owed /\ k.excused = g.excused
        /\ (c \in k.touched <=> c \in ghost.touched)
  BY UsesHistory DEF Beside
<1>k. m = Meets(k, c, w)
  OBVIOUS
<1> HIDE DEF k
<1>1. CASE c \notin k.touched
  BY <1>0, <1>1, <1>k DEF Meets, Alone
<1>2. CASE c \in k.touched /\ w.raw = <<>> /\ server.input = <<>>
  <2>1. m = [k EXCEPT !.touched = @ \ {c}]
    BY <1>2, <1>k DEF Meets
  <2>2. m \in Ghost /\ m.touched = k.touched \ {c} /\ m.owed = k.owed /\ m.excused = k.excused
    BY <1>0, <2>1 DEF Ghost
  <2> QED
    BY <1>0, <1>2, <2>2 DEF Beside, Alone
<1>3. CASE c \in k.touched /\ ~(w.raw = <<>> /\ server.input = <<>>)
  <2>1. m = Excuse(k, c)
    BY <1>3, <1>k DEF Meets
  <2> QED
    BY <1>0, <1>3, <2>1, ExcuseHistory DEF Alone
<1> QED
  BY <1>1, <1>2, <1>3

\* Excusing an application changes nothing for the others.
LEMMA ExcuseNear ==
  ASSUME ghost \in Ghost, NEW c \in Clients
  PROVE  Near(c, Excuse(ghost, c))
BY ExcuseHistory DEF Near

Known(s) == s = [session |-> server'.session, reset |-> FALSE]

\* The handler goes on with the copies w.
LEMMA TextGoesOn ==
  ASSUME Shape, NEW c \in Clients, ~Idle(c), run[c].plan # <<>>, TextFits(c),
         NEW w \in Comps, NEW to \in States, NEW s \in Service,
         NEW g \in Ghost, Beside(c, g), Continue(c, w, to, s, g),
         NEW q, q = Tail(run[c].plan), tip'[c] \in Tips, doc'[c] \in Seq(Tokens),
         NEW e, e = (c \in g.excused \/ (~tip'[c].open /\ to # "none" /\ Len(q) = 0)),
         Text(q, to, w, tip'[c], e, g.owed[c] - Len(doc'[c])),
         c \notin g.touched => server'.up /\ Known(s) /\ (server.input)' = w.raw
  PROVE  /\ TextFits(c)' /\ Beside(c, ghost')
         /\ \A d \in Clients \ {c} : run'[d] = run[d] /\ comp'[d] = comp[d] /\ svc'[d] = svc[d]
<1>0. /\ run \in [Clients -> Runs] /\ comp \in [Clients -> Comps] /\ svc \in [Clients -> Service]
      /\ run[c].plan \in Seq(Actions) /\ run[c].why # "none"
  BY DEF Shape, Runs, Idle
<1>f. q \in Seq(Actions) /\ Len(run[c].plan) = Len(q) + 1 /\ Len(q) \in Nat
  BY <1>0, FirstOfPlan DEF First
<1>1. CASE ~Last(c)
  <2> DEFINE r == [plan |-> q, to |-> to, why |-> run[c].why, work |-> w, svc |-> s]
  <2>1. run' = [run EXCEPT ![c] = r] /\ comp' = comp /\ svc' = svc /\ ghost' = g
    BY <1>1 DEF Continue
  <2>2. Len(q) # 0
    BY <1>f, <1>1 DEF Last
  <2>4. run'[c] = r /\ \A d \in Clients \ {c} : run'[d] = run[d]
    BY <1>0, <2>1
  <2>5. ~(Idle(c))'
    BY <1>0, <2>4 DEF Idle
  <2>6. PlanOf(c)' = q /\ ToOf(c)' = to /\ WorkOf(c)' = w /\ SvcOf(c)' = s
    BY <2>4, <2>5 DEF PlanOf, ToOf, WorkOf, SvcOf
  <2>7. Text(q, to, w, tip'[c], c \in g.excused, g.owed[c] - Len(doc'[c]))
    <3> DEFINE f == c \in g.excused
    <3>1. Text(q, to, w, tip'[c], e, g.owed[c] - Len(doc'[c])) /\ e = f
      BY <2>2
    <3> HIDE DEF f
    <3>2. Text(q, to, w, tip'[c], f, g.owed[c] - Len(doc'[c]))
      BY <3>1
    <3> QED
      BY <3>2 DEF f
  <2>8. Untouched(c)'
    BY <2>1, <2>6 DEF Untouched, Known
  <2>9. Stored(comp'[c])
    BY <2>1 DEF TextFits
  <2> HIDE DEF r
  <2>10. TextFits(c)'
    BY <2>1, <2>6, <2>7, <2>8, <2>9 DEF TextFits
  <2> QED
    BY <2>1, <2>4, <2>10
<1>2. CASE Last(c)
  <2> DEFINE k == [w EXCEPT !.state = to]
             h == IF tip'[c].open THEN g
                  ELSE IF to = "none" THEN Over(g, c, doc'[c]) ELSE Excuse(g, c)
  <2>1. run' = [run EXCEPT ![c] = Resting] /\ comp' = [comp EXCEPT ![c] = k]
          /\ svc' = [svc EXCEPT ![c] = s] /\ ghost' = h
    BY <1>2 DEF Continue
  <2>2. q = <<>> /\ Len(q) = 0
    BY <1>f, <1>2 DEF Last
  <2>3. k \in Comps /\ k.state = to /\ k.raw = w.raw /\ k.cands = w.cands /\ k.text = w.text
          /\ k.n = w.n
    BY DEF Comps
  <2>4. run'[c] = Resting /\ comp'[c] = k /\ svc'[c] = s
          /\ \A d \in Clients \ {c} : run'[d] = run[d] /\ comp'[d] = comp[d] /\ svc'[d] = svc[d]
    BY <1>0, <2>1
  <2>5. (Idle(c))'
    BY <2>4 DEF Idle, Resting
  <2> HIDE DEF k
  <2>6. PlanOf(c)' = q /\ ToOf(c)' = to /\ WorkOf(c)' = k /\ SvcOf(c)' = s
    BY <2>2, <2>3, <2>4, <2>5 DEF PlanOf, ToOf, WorkOf, SvcOf
  <2>7. \A acts : ~Has(q, acts)
    BY <2>2 DEF Has
  <2>8. /\ to = "none" => w.raw = <<>> /\ w.text = <<>>
        /\ to = "composing" => w.n <= Len(w.text)
    BY <2>7 DEF Text, Leaves
  <2>9. Stored(k)
    BY <2>3, <2>8 DEF Stored
  <2>10. Beside(c, h) /\ h.touched = g.touched
    BY ExcuseHistory, OverHistory
  <2>11. Untouched(c)'
    BY <2>1, <2>3, <2>6, <2>10 DEF Untouched, Known
  <2>12. /\ Placed(q) /\ Displays(q, k, tip'[c]) /\ Leaves(q, to, k)
         /\ \A t : Agrees(q, to, k, t) <=> Agrees(q, to, w, t)
    BY <2>3 DEF Text, Displays, Leaves, Agrees
  <2>13. ASSUME c \notin h.excused
         PROVE  Agrees(q, to, w, tip'[c])
                  /\ h.owed[c] - Len(doc'[c]) = Len((tip'[c]).text) + ToCome(q, w.raw)
    <3>1. CASE tip'[c].open
      BY <2>13, <3>1 DEF Text
    <3>2. CASE ~tip'[c].open /\ to # "none"
      BY <2>13, <3>2, ExcuseHistory
    <3>3. CASE ~tip'[c].open /\ to = "none"
      <4>1. h.owed[c] = IF c \in g.excused THEN Len(doc'[c]) ELSE g.owed[c]
        BY <3>3, OverHistory
      <4>2. CASE c \notin g.excused
        BY <3>3, <4>1, <4>2 DEF Text
      <4>3. CASE c \in g.excused
        <5>1. (tip'[c]).text = <<>> /\ w.raw = <<>>
          BY <2>8, <3>3 DEF Text, Displays
        <5>2. Agrees(q, to, w, tip'[c])
          BY <2>7, <3>3, <5>1 DEF Agrees
        <5>3. Len(doc'[c]) \in Nat
          OBVIOUS
        <5>4. ToCome(q, w.raw) = 0
          BY <2>7 DEF ToCome
        <5> QED
          BY <4>1, <4>3, <5>1, <5>2, <5>3, <5>4
      <4> QED
        BY <4>2, <4>3
    <3> QED
      BY <3>1, <3>2, <3>3
  <2> HIDE DEF h
  <2>14. Text(q, to, k, tip'[c], c \in h.excused, h.owed[c] - Len(doc'[c]))
    BY <2>3, <2>12, <2>13 DEF Text
  <2>15. TextFits(c)'
    BY <2>1, <2>4, <2>6, <2>9, <2>11, <2>14 DEF TextFits
  <2> QED
    BY <2>1, <2>4, <2>10, <2>15
<1> QED
  BY <1>1, <1>2

\* Other applications keep what they have.
LEMMA OthersText ==
  ASSUME NEW c \in Clients, NEW d \in Clients \ {c}, TextFits(d), Beside(c, ghost'),
         run'[d] = run[d], comp'[d] = comp[d], svc'[d] = svc[d], tip'[d] = tip[d],
         doc'[d] = doc[d]
  PROVE  TextFits(d)'
<1>1. (Idle(d))' <=> Idle(d)
  BY DEF Idle
<1>2. PlanOf(d)' = PlanOf(d) /\ ToOf(d)' = ToOf(d) /\ WorkOf(d)' = WorkOf(d) /\ SvcOf(d)' = SvcOf(d)
  BY <1>1 DEF PlanOf, ToOf, WorkOf, SvcOf
<1>3. ghost'.owed[d] = ghost.owed[d] /\ (d \in ghost'.excused <=> d \in ghost.excused)
        /\ (d \notin ghost'.touched => d \notin ghost.touched /\ server' = server)
  BY DEF Beside
<1>4. Untouched(d)'
  BY <1>2, <1>3 DEF TextFits, Untouched
<1> DEFINE e == d \in ghost.excused
           f == d \in ghost'.excused
<1>5. Text(PlanOf(d), ToOf(d), WorkOf(d), tip[d], e, ghost.owed[d] - Len(doc[d]))
  BY DEF TextFits
<1>6. e = f
  BY <1>3
<1> HIDE DEF e, f
<1>7. Text(PlanOf(d), ToOf(d), WorkOf(d), tip[d], f, ghost.owed[d] - Len(doc[d]))
  BY <1>5, <1>6
<1>8. Text(PlanOf(d)', ToOf(d)', WorkOf(d)', tip'[d], d \in ghost'.excused,
           ghost'.owed[d] - Len(doc'[d]))
  BY <1>2, <1>3, <1>7 DEF f
<1> QED
  BY <1>4, <1>8 DEF TextFits

\* A step of one application keeps the text of all.
LEMMA TextStep ==
  ASSUME TInv, IInv', Rest', NEW c \in Clients, TextFits(c)', Beside(c, ghost'),
         \A d \in Clients \ {c} : run'[d] = run[d] /\ comp'[d] = comp[d] /\ svc'[d] = svc[d]
                                    /\ tip'[d] = tip[d] /\ doc'[d] = doc[d]
  PROVE  TInv'
<1>1. \A d \in Clients \ {c} : TextFits(d)'
  BY OthersText DEF TInv
<1>2. \A d \in Clients : TextFits(d)'
  BY <1>1
<1> QED
  BY <1>2 DEF TInv

\* The window takes an update over or loses it.
LEMMA Bounded ==
  ASSUME Rest, NEW c \in Clients, NoUpdate \/ \E new : Deliver(c, new)
  PROVE  bounds' \in Budget /\ shown' \in Clients \union {"nobody"}
<1>1. CASE NoUpdate
  BY <1>1 DEF NoUpdate, Rest
<1>2. CASE \E new : Delivered(c, new)
  BY <1>2 DEF Delivered, Rest
<1>3. CASE Dropped
  <2>1. bounds \in Budget /\ bounds.faults > 0 /\ bounds' = [bounds EXCEPT !.faults = @ - 1]
          /\ shown' = "nobody"
    BY <1>3 DEF Dropped, Rest
  <2>2. bounds.faults - 1 \in Nat
    BY <2>1 DEF Budget
  <2> QED
    BY <2>1, <2>2 DEF Budget
<1> QED
  BY <1>1, <1>2, <1>3 DEF Deliver

\* Whoever is excused later has less to keep.
LEMMA TextWeakens ==
  ASSUME NEW p, NEW to, NEW w, NEW t, NEW e, NEW f, f => e, NEW owed, Text(p, to, w, t, f, owed)
  PROVE  Text(p, to, w, t, e, owed)
BY DEF Text

Excused(c) == c \in ghost.excused

\* What is known of the text when the handler of c comes to an action.
LEMMA TextRunning ==
  ASSUME TInv, NEW c \in Clients, NEW a \in Actions, Acting(c, a)
  PROVE  /\ IInv /\ Shape /\ Rest /\ TextFits(c) /\ ~Idle(c) /\ run[c].plan # <<>>
         /\ First(run[c].plan, a, Tail(run[c].plan)) /\ Orderly(run[c].plan)
         /\ Text(run[c].plan, run[c].to, run[c].work, tip[c], Excused(c),
                 ghost.owed[c] - Len(doc[c]))
         /\ run[c].work \in Comps /\ run[c].to \in States /\ run[c].svc \in Service
         /\ c \notin ghost.touched =>
              /\ server.up
              /\ run[c].svc = [session |-> server.session, reset |-> FALSE]
              /\ server.input = run[c].work.raw
         /\ ghost \in Ghost /\ tip[c] \in Tips /\ doc[c] \in Seq(Tokens)
         /\ ghost.owed[c] - Len(doc[c]) \in Int /\ Len(tip[c].text) \in Nat
<1>1. IInv /\ Shape /\ Rest /\ TextFits(c) /\ ~Idle(c)
  BY DEF TInv, IInv, Acting
<1>2. /\ run[c].plan # <<>> /\ First(run[c].plan, a, Tail(run[c].plan)) /\ Orderly(run[c].plan)
      /\ run[c].work \in Comps /\ run[c].to \in States /\ run[c].svc \in Service
  BY <1>1, Running DEF Fits
<1>3. PlanOf(c) = run[c].plan /\ ToOf(c) = run[c].to /\ WorkOf(c) = run[c].work
        /\ SvcOf(c) = run[c].svc
  BY <1>1 DEF PlanOf, ToOf, WorkOf, SvcOf
<1>4. /\ Text(run[c].plan, run[c].to, run[c].work, tip[c], Excused(c),
              ghost.owed[c] - Len(doc[c]))
      /\ c \notin ghost.touched =>
              /\ server.up
              /\ run[c].svc = [session |-> server.session, reset |-> FALSE]
              /\ server.input = run[c].work.raw
  BY <1>1, <1>3 DEF TextFits, Untouched, Excused
<1>5. ghost \in Ghost /\ tip[c] \in Tips /\ doc[c] \in Seq(Tokens)
  BY <1>1 DEF Rest, Shape
<1>6. ghost.owed[c] \in Int /\ Len(doc[c]) \in Nat /\ Len(tip[c].text) \in Nat
  BY <1>5 DEF Ghost, Tips
<1> QED
  BY <1>1, <1>2, <1>4, <1>5, <1>6

\* An action of the handler of c that lets it go on.
LEMMA TextHandler ==
  ASSUME TInv, IInv', NEW c \in Clients, ~Idle(c), run[c].plan # <<>>,
         mode' \in [Clients -> Modes], UNCHANGED <<due, focus>>,
         NoUpdate \/ \E new : Deliver(c, new),
         doc' \in [Clients -> Seq(Tokens)],
         \A d \in Clients \ {c} : tip'[d] = tip[d] /\ doc'[d] = doc[d],
         NEW w \in Comps, NEW to \in States, NEW s \in Service,
         NEW g, Beside(c, g), Continue(c, w, to, s, g), NEW q, q = Tail(run[c].plan),
         NEW f, f => c \in g.excused \/ (~tip'[c].open /\ to # "none" /\ Len(q) = 0),
         Text(q, to, w, tip'[c], f, g.owed[c] - Len(doc'[c])),
         c \notin g.touched => server'.up /\ Known(s) /\ (server.input)' = w.raw
  PROVE  TInv'
<1>1. Shape /\ TextFits(c) /\ Rest /\ g \in Ghost
  BY DEF TInv, IInv, Beside
<1>2. tip'[c] \in Tips /\ doc'[c] \in Seq(Tokens)
  BY DEF IInv, Shape
<1> DEFINE e == c \in g.excused \/ (~tip'[c].open /\ to # "none" /\ Len(q) = 0)
<1>e. f => e
  OBVIOUS
<1>f. e = (c \in g.excused \/ (~tip'[c].open /\ to # "none" /\ Len(q) = 0))
  OBVIOUS
<1> HIDE DEF e
<1>t. Text(q, to, w, tip'[c], e, g.owed[c] - Len(doc'[c]))
  BY <1>e, TextWeakens
<1>3. /\ TextFits(c)' /\ Beside(c, ghost')
      /\ \A d \in Clients \ {c} : run'[d] = run[d] /\ comp'[d] = comp[d] /\ svc'[d] = svc[d]
  BY <1>1, <1>2, <1>f, <1>t, TextGoesOn
<1>4. bounds' \in Budget /\ shown' \in Clients \union {"nobody"}
  BY <1>1, Bounded
<1>5. Rest'
  BY <1>1, <1>3, <1>4 DEF Rest, Beside
<1> QED
  BY <1>3, <1>5, TextStep

-----------------------------------------------------------------------------
(* The ClientActions keep the text.                                         *)

\* An action that leaves the server alone.
LEMMA QuietText ==
  ASSUME TInv, IInv', NEW c \in Clients, NEW a \in Actions, Acting(c, a),
         UNCHANGED <<server, mode, due, focus>>,
         NoUpdate \/ \E new : Deliver(c, new),
         doc' \in [Clients -> Seq(Tokens)],
         \A d \in Clients \ {c} : tip'[d] = tip[d] /\ doc'[d] = doc[d],
         NEW w \in Comps, w.raw = run[c].work.raw,
         Continue(c, w, run[c].to, run[c].svc, ghost),
         NEW q, q = Tail(run[c].plan),
         Text(q, run[c].to, w, tip'[c], Excused(c), ghost.owed[c] - Len(doc'[c]))
  PROVE  TInv'
<1>1. /\ Rest /\ ~Idle(c) /\ run[c].plan # <<>> /\ run[c].to \in States /\ run[c].svc \in Service
      /\ c \notin ghost.touched =>
              /\ server.up
              /\ run[c].svc = [session |-> server.session, reset |-> FALSE]
              /\ server.input = run[c].work.raw
  BY TextRunning
<1>2. Beside(c, ghost)
  BY <1>1, SameHistory DEF Rest
<1>3. Excused(c) => c \in ghost.excused \/ (~tip'[c].open /\ run[c].to # "none" /\ Len(q) = 0)
  BY DEF Excused
<1>4. c \notin ghost.touched => server'.up /\ Known(run[c].svc) /\ (server.input)' = w.raw
  BY <1>1 DEF Known
<1>5. mode' \in [Clients -> Modes]
  BY <1>1 DEF Rest
<1> DEFINE to == run[c].to
           s  == run[c].svc
<1>6. /\ to \in States /\ s \in Service /\ Continue(c, w, to, s, ghost)
      /\ Excused(c) => c \in ghost.excused \/ (~tip'[c].open /\ to # "none" /\ Len(q) = 0)
      /\ c \notin ghost.touched => server'.up /\ Known(s) /\ (server.input)' = w.raw
      /\ Text(q, to, w, tip'[c], Excused(c), ghost.owed[c] - Len(doc'[c]))
  BY <1>1, <1>3, <1>4
<1> HIDE DEF to, s
<1> QED
  BY <1>1, <1>2, <1>5, <1>6, TextHandler

\* StartComposition keeps the text.
LEMMA StartKeepsText ==
  ASSUME TInv, IInv', NEW c \in Clients, StartComposition(c)
  PROVE  TInv'
<1> DEFINE p  == run[c].plan
           q  == Tail(p)
           to == run[c].to
           w  == run[c].work
           o  == ghost.owed[c] - Len(doc[c])
           u  == tip'[c]
<1>0. "start" \in Actions /\ Acting(c, "start") /\ ~tip[c].open
  BY DEF StartComposition, Starting, Actions
<1>1. /\ Shape /\ Rest /\ First(p, "start", q) /\ Text(p, to, w, tip[c], Excused(c), o)
      /\ w \in Comps
  BY <1>0, TextRunning
<1>2. /\ tip' = [tip EXCEPT ![c] = Tip(<<>>)] /\ doc' = doc
      /\ NoUpdate \/ \E new : Deliver(c, new)
      /\ Continue(c, w, run[c].to, run[c].svc, ghost)
      /\ UNCHANGED <<server, mode, due, focus>>
  BY DEF StartComposition, Work
<1>3. u.open /\ u.text = <<>> /\ \A d \in Clients \ {c} : tip'[d] = tip[d]
  BY <1>1, <1>2 DEF Shape, Tip
<1>4. doc' \in [Clients -> Seq(Tokens)]
  BY <1>1, <1>2 DEF Rest
<1>5. Text(q, to, w, u, Excused(c), o)
  <2> HIDE DEF p, q, to, w, u, o
  <2> QED
    BY <1>0, <1>1, <1>3, StartText
<1> QED
  BY <1>0, <1>1, <1>2, <1>3, <1>4, <1>5, QuietText

\* ShowCandidateWindow keeps the text.
LEMMA ShowKeepsText ==
  ASSUME TInv, IInv', NEW c \in Clients, ShowCandidateWindow(c)
  PROVE  TInv'
<1> DEFINE p  == run[c].plan
           q  == Tail(p)
           to == run[c].to
           w  == run[c].work
           o  == ghost.owed[c] - Len(doc[c])
<1>0. "show" \in Actions /\ Acting(c, "show")
  BY DEF ShowCandidateWindow, Actions
<1>1. /\ Shape /\ Rest /\ First(p, "show", q) /\ Text(p, to, w, tip[c], Excused(c), o)
      /\ w \in Comps
  BY <1>0, TextRunning
<1>2. /\ tip' = tip /\ doc' = doc
      /\ \E new : Deliver(c, new)
      /\ Continue(c, w, run[c].to, run[c].svc, ghost)
      /\ UNCHANGED <<server, mode, due, focus>>
  BY DEF ShowCandidateWindow, Work
<1>4. doc' \in [Clients -> Seq(Tokens)]
  BY <1>1, <1>2 DEF Rest
<1>5. Text(q, to, w, tip'[c], Excused(c), o)
  <2>1. Text(q, to, w, tip[c], Excused(c), o)
    <3> HIDE DEF p, q, to, w, o
    <3> QED
      BY <1>1, NeutralText
  <2> QED
    BY <1>2, <2>1
<1> QED
  BY <1>0, <1>1, <1>2, <1>4, <1>5, QuietText

\* CommitTextDirect keeps the text: the character typed is in the document.
LEMMA CommitKeepsText ==
  ASSUME TInv, IInv', NEW c \in Clients, CommitTextDirect(c)
  PROVE  TInv'
<1> DEFINE p  == run[c].plan
           q  == Tail(p)
           to == run[c].to
           w  == run[c].work
           o  == ghost.owed[c] - Len(doc[c])
           t  == tip[c]
           o2 == ghost.owed[c] - Len(doc'[c])
<1>0. "commit" \in Actions /\ Acting(c, "commit")
  BY DEF CommitTextDirect, Starting, Actions
<1>1. /\ Shape /\ Rest /\ First(p, "commit", q) /\ Text(p, to, w, t, Excused(c), o)
      /\ w \in Comps /\ o \in Int /\ Len(t.text) \in Nat /\ doc[c] \in Seq(Tokens)
      /\ ghost \in Ghost
  BY <1>0, TextRunning
<1>2. /\ tip' = tip /\ doc' = [doc EXCEPT ![c] = Append(@, c)]
      /\ NoUpdate
      /\ Continue(c, w, run[c].to, run[c].svc, ghost)
      /\ UNCHANGED <<server, mode, due, focus>>
  BY DEF CommitTextDirect, Work
<1>3. doc \in [Clients -> Seq(Tokens)]
  BY <1>1 DEF Rest
<1>4. /\ doc' \in [Clients -> Seq(Tokens)] /\ \A d \in Clients \ {c} : doc'[d] = doc[d]
      /\ doc'[c] = Append(doc[c], c)
  BY <1>2, <1>3 DEF Clients
<1>5. o2 = o - 1
  <2>1. Len(Append(doc[c], c)) = Len(doc[c]) + 1 /\ Len(doc[c]) \in Nat
    BY <1>1 DEF Clients
  <2>2. ghost.owed[c] \in Int
    BY <1>1 DEF Ghost
  <2> QED
    BY <1>4, <2>1, <2>2
<1>6. Text(q, to, w, t, Excused(c), o2)
  <2> HIDE DEF p, q, to, w, t, o, o2
  <2>1. Text(q, to, w, t, Excused(c), o - 1)
    BY <1>1, CommitText
  <2> QED
    BY <1>5, <2>1
<1>7. Text(q, to, w, tip'[c], Excused(c), o2)
  BY <1>2, <1>6
<1> QED
  BY <1>0, <1>1, <1>2, <1>4, <1>7, QuietText

\* The flags of Latin input do not change the text.
LEMMA FlagKeepsText ==
  ASSUME TInv, IInv', NEW c \in Clients, SetFlag(c)
  PROVE  TInv'
<1> DEFINE p  == run[c].plan
           q  == Tail(p)
           to == run[c].to
           w  == run[c].work
           o  == ghost.owed[c] - Len(doc[c])
<1>0. PICK a \in FlagActs : Acting(c, a)
  BY DEF SetFlag, FlagActs
<1>a. a \in Actions
  BY DEF Actions, FlagActs
<1>1. /\ Shape /\ Rest /\ First(p, a, q) /\ Text(p, to, w, tip[c], Excused(c), o)
      /\ w \in Comps
  BY <1>0, <1>a, TextRunning
<1>2. /\ tip' = tip /\ doc' = doc /\ NoUpdate /\ UNCHANGED <<server, mode, due, focus>>
  BY DEF SetFlag
<1>3. PICK k \in Comps : /\ k.raw = w.raw /\ k.text = w.text /\ k.cands = w.cands /\ k.n = w.n
                         /\ Continue(c, k, run[c].to, run[c].svc, ghost)
  <2> DEFINE h == Head(p)
             k == IF h = "latinOn" THEN [w EXCEPT !.tl = TRUE]
                  ELSE IF h = "latinOff" THEN [w EXCEPT !.tl = FALSE, !.pending = FALSE]
                  ELSE [w EXCEPT !.pending = (h = "pendingOn")]
  <2>1. Continue(c, k, run[c].to, run[c].svc, ghost)
    BY DEF SetFlag, Work
  <2>2. k \in Comps /\ k.raw = w.raw /\ k.text = w.text /\ k.cands = w.cands /\ k.n = w.n
    <3> HIDE DEF w, h
    <3>1. (h = "pendingOn") \in BOOLEAN
      OBVIOUS
    <3> QED
      BY <1>1, <3>1 DEF Comps
  <2> QED
    BY <2>1, <2>2
<1>4. doc' \in [Clients -> Seq(Tokens)]
  BY <1>1, <1>2 DEF Rest
<1>5. Text(q, to, k, tip'[c], Excused(c), o)
  <2>1. Text(q, to, k, tip[c], Excused(c), o)
    <3> HIDE DEF p, q, to, w, o
    <3> QED
      BY <1>1, <1>3, NeutralText
  <2> QED
    BY <1>2, <2>1
<1> QED
  BY <1>0, <1>a, <1>2, <1>3, <1>4, <1>5, QuietText

\* What a document shows after set_text.
LEMMA SetTextFollows ==
  ASSUME Shape, NEW c \in Clients, NEW text, tip' = SetText(c, text),
         ~tip[c].open => tip[c].text = <<>>
  PROVE  Follows(tip'[c], tip[c], text) /\ \A d \in Clients \ {c} : tip'[d] = tip[d]
BY DEF Shape, SetText, Follows, Tip

\* A text cut at its own length.
LEMMA CutWhole ==
  ASSUME NEW r \in Seq(Tokens), NEW n \in Nat, n <= Len(r)
  PROVE  SubSeq(r, 1, n) \o SubSeq(r, n + 1, Len(r)) = r
<1> DEFINE x == SubSeq(r, 1, n)
           y == SubSeq(r, n + 1, Len(r))
<1>1. x \in Seq(Tokens) /\ Len(x) = n /\ \A i \in 1..n : x[i] = r[i]
  OBVIOUS
<1>2. y \in Seq(Tokens) /\ Len(y) = Len(r) - n /\ \A i \in 1..(Len(r) - n) : y[i] = r[n + i]
  OBVIOUS
<1> HIDE DEF x, y
<1>3. x \o y \in Seq(Tokens) /\ Len(x \o y) = Len(r)
  BY <1>1, <1>2
<1>4. ASSUME NEW i \in 1..Len(r) PROVE (x \o y)[i] = r[i]
  <2>1. CASE i <= n
    <3>1. i \in 1..n
      BY <2>1
    <3>2. (x \o y)[i] = x[i]
      BY <1>1, <1>2, <2>1
    <3> QED
      BY <1>1, <3>1, <3>2
  <2>2. CASE i > n
    <3>1. (x \o y)[i] = y[i - n]
      BY <1>1, <1>2, <2>2
    <3>2. i - n \in 1..(Len(r) - n) /\ n + (i - n) = i
      BY <2>2
    <3> QED
      BY <1>2, <3>1, <3>2
  <2>3. i <= n \/ i > n
    OBVIOUS
  <2> QED
    BY <2>1, <2>2, <2>3
<1>5. x \o y = r
  BY <1>3, <1>4, SameSequence
<1> QED
  BY <1>5 DEF x, y

\* SetTextWithType shows the whole composition in another script.
LEMMA ConvertKeepsText ==
  ASSUME TInv, IInv', NEW c \in Clients, SetTextWithType(c)
  PROVE  TInv'
<1> DEFINE p    == run[c].plan
           q    == Tail(p)
           to   == run[c].to
           w    == run[c].work
           o    == ghost.owed[c] - Len(doc[c])
           m    == IF w.n < Len(w.raw) THEN w.n ELSE Len(w.raw)
           text == SubSeq(w.raw, 1, m) \o Suffix(w)
           k    == [w EXCEPT !.text = text]
           t    == tip[c]
           u    == tip'[c]
<1>0. "convert" \in Actions /\ Acting(c, "convert")
  BY DEF SetTextWithType, Actions
<1>1. /\ Shape /\ Rest /\ First(p, "convert", q) /\ Text(p, to, w, t, Excused(c), o)
      /\ w \in Comps
  BY <1>0, TextRunning
<1>2. /\ tip' = SetText(c, text) /\ doc' = doc /\ NoUpdate /\ UNCHANGED <<server, mode, due, focus>>
      /\ Continue(c, k, run[c].to, run[c].svc, ghost)
  BY DEF SetTextWithType, Work
<1>3. Follows(u, t, text) /\ \A d \in Clients \ {c} : tip'[d] = tip[d]
  <2>1. ~t.open => t.text = <<>>
    BY <1>1 DEF Text, Displays
  <2> HIDE DEF text
  <2> QED
    BY <1>1, <1>2, <2>1, SetTextFollows
<1>4. text \in Seq(Tokens) /\ (w.text = w.raw /\ w.n <= Len(w.raw) => text = w.raw)
  <2> HIDE DEF w
  <2>1. w.raw \in Seq(Tokens) /\ w.text \in Seq(Tokens) /\ w.n \in Nat
    BY <1>1 DEF Comps
  <2>2. m \in 0..Len(w.raw) /\ (w.n <= Len(w.raw) => m = w.n)
    BY <2>1
  <2> HIDE DEF m
  <2>3. SubSeq(w.raw, 1, m) \in Seq(Tokens) /\ Suffix(w) \in Seq(Tokens)
    BY <2>1, <2>2 DEF Suffix
  <2>4. ASSUME w.text = w.raw, w.n <= Len(w.raw) PROVE text = w.raw
    BY <2>1, <2>2, <2>4, CutWhole DEF Suffix
  <2> QED
    BY <2>3, <2>4
<1> HIDE DEF text
<1>5. /\ k \in Comps /\ k.raw = w.raw /\ k.cands = w.cands /\ k.text = text /\ k.n = w.n
  <2> HIDE DEF w
  <2> QED
    BY <1>1, <1>4 DEF Comps
<1>6. doc' \in [Clients -> Seq(Tokens)]
  BY <1>1, <1>2 DEF Rest
<1>7. Text(q, to, k, u, Excused(c), o)
  <2> HIDE DEF p, q, to, w, o, k, t, u, m
  <2>1. "convert" \in Choosing \union {"convert"}
    OBVIOUS
  <2>2. w.raw # <<>> /\ w.cands = w.raw /\ w.text = w.raw /\ w.n <= Len(w.raw)
           => k.text = w.raw /\ k.n <= Len(w.raw)
    BY <1>4, <1>5
  <2>3. Follows(u, t, k.text)
    BY <1>3, <1>5
  <2> QED
    BY <1>1, <1>5, <2>1, <2>2, <2>3, ShownText
<1> HIDE DEF k
<1> QED
  BY <1>0, <1>1, <1>2, <1>3, <1>5, <1>6, <1>7, QuietText

\* The converter's first clause is within the composition, also for compositions
\* longer than MaxLen.
CountsClauses ==
  /\ CountsTokens
  /\ \A s \in Seq(Tokens) : s # <<>> => FirstClause(s) \in 1..Len(s)

\* What is selected is within the composition.
LEMMA SelectClause ==
  ASSUME CountsClauses, NEW w \in Comps, NEW s \in Seq(Tokens), s # <<>>, NEW i \in Int
  PROVE  Select(w, s, i).n \in Nat /\ Select(w, s, i).n <= Len(s)
<1>1. \A j : Count(s, j) \in Nat /\ Count(s, j) <= Len(s)
  BY DEF Count, CountsClauses
<1>2. Select(w, s, i).n = Count(s, Clamp(s, i))
  BY DEF Select, Comps
<1> QED
  BY <1>1, <1>2

\* SetSelection keeps the text.
LEMMA ChoiceKeepsText ==
  ASSUME CountsClauses, TInv, IInv', NEW c \in Clients, SetSelection(c)
  PROVE  TInv'
<1> DEFINE p  == run[c].plan
           q  == Tail(p)
           to == run[c].to
           w  == run[c].work
           o  == ghost.owed[c] - Len(doc[c])
           i  == IF Acting(c, "up") THEN w.sel - 1 ELSE w.sel + 1
           k  == Select(w, w.cands, i)
           t  == tip[c]
           u  == tip'[c]
<1>0. PICK a \in Choosing : Acting(c, a)
  BY DEF SetSelection, Choosing
<1>a. a \in Actions
  BY DEF Choosing, Actions
<1>1. /\ Shape /\ Rest /\ First(p, a, q) /\ Text(p, to, w, t, Excused(c), o)
      /\ w \in Comps
  BY <1>0, <1>a, TextRunning
<1>c. w.cands # <<>>
  <2>1. Fits(p, to, w.raw, w.cands, tip[c].open, Late, Seen(c), window.items)
    BY <1>0, <1>a, Running DEF TInv
  <2>2. Shows(FALSE, window.items, w.cands)
    BY DEF Shows
  <2> HIDE DEF p, to, w, q
  <2> QED
    BY <1>1, <2>1, <2>2, ChooseFits
<1>2. /\ doc' = doc /\ UNCHANGED <<server, mode, due, focus>>
      /\ tip' = SetText(c, k.text)
      /\ \E new : Deliver(c, new)
      /\ Continue(c, k, run[c].to, run[c].svc, ghost)
  BY <1>c DEF SetSelection, Work
<1>3. /\ k \in Comps /\ k.raw = w.raw /\ k.cands = w.cands /\ k.text = w.cands
      /\ k.n <= Len(w.cands)
  <2>1. w.cands \in Seq(Tokens) /\ w.sel \in Int
    BY <1>1 DEF Comps
  <2>2. i \in Int
    BY <2>1
  <2> HIDE DEF i, w
  <2> QED
    BY <1>1, <1>c, <2>1, <2>2, SelectTyped, SelectClause DEF CountsClauses
<1> HIDE DEF i, k
<1>4. Follows(u, t, k.text) /\ \A d \in Clients \ {c} : tip'[d] = tip[d]
  <2>1. ~t.open => t.text = <<>>
    BY <1>1 DEF Text, Displays
  <2> QED
    BY <1>1, <1>2, <2>1, SetTextFollows
<1>5. doc' \in [Clients -> Seq(Tokens)]
  BY <1>1, <1>2 DEF Rest
<1>6. Text(q, to, k, u, Excused(c), o)
  <2> HIDE DEF p, q, to, w, o, t, u
  <2>1. w.raw # <<>> /\ w.cands = w.raw /\ w.text = w.raw /\ w.n <= Len(w.raw)
           => k.text = w.raw /\ k.n <= Len(w.raw)
    BY <1>3
  <2> QED
    BY <1>1, <1>3, <1>4, <2>1, ShownText
<1> QED
  BY <1>0, <1>a, <1>2, <1>3, <1>4, <1>5, <1>6, QuietText

\* A text service that knows this server still does after a request.
LEMMA KnowsServer ==
  ASSUME Shape, NEW s, s = [session |-> server.session, reset |-> FALSE]
  PROVE  /\ Observe(s, server.session) = s
         /\ [s EXCEPT !.reset = FALSE] = s
<1>1. s.session = server.session /\ s.reset = FALSE
  OBVIOUS
<1>2. (s.reset \/ (s.session # 0 /\ s.session # server.session)) = FALSE
  BY <1>1
<1>3. Observe(s, server.session) = s
  BY <1>2 DEF Observe
<1>4. [s EXCEPT !.reset = FALSE] = s
  BY <1>1
<1> QED
  BY <1>3, <1>4

\* The handler stops, or nothing is composed any more: what c stores then.
LEMMA StopText ==
  ASSUME TInv, IInv', NEW c \in Clients, (Idle(c))',
         comp'[c] = comp[c] \/ comp'[c] = NoComp, ~tip'[c].open, (tip'[c]).text = <<>>,
         mode' \in [Clients -> Modes], UNCHANGED <<due, focus>>,
         NoUpdate \/ \E new : Deliver(c, new),
         doc' \in [Clients -> Seq(Tokens)],
         \A d \in Clients \ {c} : run'[d] = run[d] /\ comp'[d] = comp[d] /\ svc'[d] = svc[d]
                                    /\ tip'[d] = tip[d] /\ doc'[d] = doc[d],
         NEW g, ghost' = g, Beside(c, g),
         c \in g.excused \/ (comp'[c] = NoComp /\ g.owed[c] = Len(doc'[c])),
         c \notin g.touched => server'.up /\ Known(svc'[c]) /\ (server.input)' = comp'[c].raw
  PROVE  TInv'
<1> DEFINE k == comp'[c]
           u == tip'[c]
           o == g.owed[c] - Len(doc'[c])
<1>0. Rest /\ TextFits(c)
  BY DEF TInv
<1>1. Stored(k) /\ NoComp.raw = <<>>
  BY <1>0 DEF TextFits, Stored, NoComp
<1>2. \A acts : ~Has(<<>>, acts)
  BY DEF Has
<1>3. Placed(<<>>) /\ Leaves(<<>>, k.state, k) /\ Displays(<<>>, k, u)
  BY <1>1, <1>2 DEF Placed, Leaves, Displays, Stored
<1>4. ASSUME c \notin g.excused
      PROVE  Agrees(<<>>, k.state, k, u) /\ o = Len(u.text) + ToCome(<<>>, k.raw)
  <2>1. k.raw = <<>> /\ k.state = "none" /\ ToCome(<<>>, k.raw) = 0
    BY <1>2, <1>4 DEF NoComp, ToCome
  <2>2. Len(doc'[c]) \in Nat /\ g.owed[c] = Len(doc'[c])
    BY <1>4
  <2> QED
    BY <1>2, <2>1, <2>2 DEF Agrees
<1> DEFINE e == c \in g.excused
<1>5. ~e => c \notin g.excused
  OBVIOUS
<1> HIDE DEF k, u, o, e
<1>6. Text(<<>>, k.state, k, u, e, o)
  BY <1>3, <1>4, <1>5 DEF Text
<1>7. (PlanOf(c))' = <<>> /\ (ToOf(c))' = k.state /\ (WorkOf(c))' = k /\ (SvcOf(c))' = svc'[c]
  BY DEF PlanOf, ToOf, WorkOf, SvcOf, k
<1>8. (Untouched(c))'
  BY <1>7 DEF Untouched, Known, k
<1>9. (TextFits(c))'
  BY <1>1, <1>6, <1>7, <1>8 DEF TextFits, k, u, o, e
<1>10. bounds' \in Budget /\ shown' \in Clients \union {"nobody"}
  BY <1>0, Bounded
<1>11. Rest' /\ Beside(c, ghost')
  BY <1>0, <1>10 DEF Rest, Beside
<1> QED
  BY <1>9, <1>11, TextStep

\* The history of a composition that is given up.
LEMMA GivenUp ==
  ASSUME NEW c \in Clients, NEW g \in Ghost, Beside(c, g), NEW written \in Seq(Tokens),
         NEW h, h = Over(Excuse(g, c), c, written)
  PROVE  h \in Ghost /\ Beside(c, h) /\ h.owed[c] = Len(written) /\ h.touched = g.touched
BY ExcuseHistory, OverHistory

\* clear_text failed: the text is in the document or given up.
LEMMA FailKeepsText ==
  ASSUME TInv, IInv', NEW c \in Clients, NEW a \in Actions, Acting(c, a), ~server.up,
         FailToClear(c),
         ~tip'[c].open, (tip'[c]).text = <<>>,
         mode' \in [Clients -> Modes], UNCHANGED <<due, focus>>,
         \E new : Deliver(c, new),
         doc' \in [Clients -> Seq(Tokens)],
         \A d \in Clients \ {c} : tip'[d] = tip[d] /\ doc'[d] = doc[d]
  PROVE  TInv'
<1>1. Shape /\ Rest /\ ghost \in Ghost /\ c \in ghost.touched /\ Resting.why = "none"
        /\ doc'[c] \in Seq(Tokens)
  BY TextRunning DEF Resting
<1>2. server' = server /\ run' = [run EXCEPT ![c] = Resting] /\ svc' = svc
  BY DEF FailToClear
<1>3. (Idle(c))' /\ \A d \in Clients \ {c} : run'[d] = run[d] /\ svc'[d] = svc[d]
  BY <1>1, <1>2 DEF Idle, Shape
<1>4. Beside(c, ghost)
  BY <1>1, <1>2, SameHistory
<1>5. CASE run[c].why = "key"
  <2> DEFINE g == Over(Excuse(ghost, c), c, doc'[c])
  <2>1. comp' = [comp EXCEPT ![c] = NoComp] /\ ghost' = g
    BY <1>5 DEF FailToClear
  <2>2. comp'[c] = NoComp /\ \A d \in Clients \ {c} : comp'[d] = comp[d]
    BY <1>1, <2>1 DEF Shape
  <2> HIDE DEF g
  <2>3. Beside(c, g) /\ g.owed[c] = Len(doc'[c]) /\ g.touched = ghost.touched
    BY <1>1, <1>4, GivenUp DEF g
  <2> QED
    BY <1>1, <1>3, <2>1, <2>2, <2>3, StopText
<1>6. CASE run[c].why # "key"
  <2> DEFINE g == Excuse(ghost, c)
  <2>1. comp' = comp /\ ghost' = g
    BY <1>6 DEF FailToClear
  <2>2. comp'[c] = comp[c] /\ \A d \in Clients \ {c} : comp'[d] = comp[d]
    BY <2>1
  <2> HIDE DEF g
  <2>3. Beside(c, g) /\ c \in g.excused /\ g.touched = ghost.touched
    BY <1>1, <1>4, ExcuseHistory DEF g
  <2> QED
    BY <1>1, <1>3, <2>1, <2>2, <2>3, StopText
<1> QED
  BY <1>5, <1>6

\* A composition that is closed shows nothing.
LEMMA ClosedTipText ==
  ASSUME Shape, NEW c \in Clients, tip' = Close(c)
  PROVE  ~tip'[c].open /\ (tip'[c]).text = <<>> /\ \A d \in Clients \ {c} : tip'[d] = tip[d]
BY DEF Close, NoTip, Shape

\* An edit failed: the text is given up, and the history says so.
LEMMA AbandonKeepsText ==
  ASSUME TInv, IInv', NEW c \in Clients, NEW a \in Actions, Acting(c, a), ~server.up,
         NEW s, Abandon(c, s), UNCHANGED <<mode, due, focus>>
  PROVE  TInv'
<1> DEFINE g == Over(Excuse(ghost, c), c, doc[c])
<1>1. Shape /\ Rest /\ ghost \in Ghost /\ c \in ghost.touched /\ Resting.why = "none"
        /\ doc[c] \in Seq(Tokens)
  BY TextRunning DEF Resting
<1>2. /\ server' = server /\ run' = [run EXCEPT ![c] = Resting] /\ svc' = [svc EXCEPT ![c] = s]
      /\ comp' = [comp EXCEPT ![c] = NoComp] /\ tip' = Close(c) /\ doc' = doc
      /\ ghost' = g /\ \E new : Deliver(c, new)
  BY DEF Abandon, Close
<1> HIDE DEF g
<1>3. (Idle(c))' /\ \A d \in Clients \ {c} : run'[d] = run[d] /\ svc'[d] = svc[d]
  BY <1>1, <1>2 DEF Idle, Shape
<1>4. Beside(c, ghost)
  BY <1>1, <1>2, SameHistory
<1>5. comp'[c] = NoComp /\ \A d \in Clients \ {c} : comp'[d] = comp[d]
  BY <1>1, <1>2 DEF Shape
<1>6. Beside(c, g) /\ g.owed[c] = Len(doc'[c]) /\ g.touched = ghost.touched
  BY <1>1, <1>2, <1>4, GivenUp DEF g
<1>7. ~tip'[c].open /\ (tip'[c]).text = <<>> /\ \A d \in Clients \ {c} : tip'[d] = tip[d]
  BY <1>1, <1>2, ClosedTipText
<1>8. mode' \in [Clients -> Modes] /\ doc' \in [Clients -> Seq(Tokens)]
  BY <1>1, <1>2 DEF Rest
<1> QED
  BY <1>1, <1>2, <1>3, <1>5, <1>6, <1>7, <1>8, StopText

\* The copies after clear_text.
LEMMA EndedFields ==
  ASSUME NEW w \in Comps
  PROVE  Ended(w) \in Comps /\ Ended(w).raw = <<>> /\ Ended(w).text = <<>> /\ Ended(w).n = 0
<1>1. NoComp \in Comps /\ w.state \in States /\ w.cands \in Seq(Tokens)
  BY EndedTyped DEF Comps
<1>2. NoComp.raw = <<>> /\ NoComp.text = <<>> /\ NoComp.n = 0
  BY DEF NoComp
<1> QED
  BY <1>1, <1>2, EndedTyped DEF Ended, Comps

\* EndComposition moves the text into the document.
LEMMA EndKeepsText ==
  ASSUME TInv, IInv', NEW c \in Clients, EndComposition(c)
  PROVE  TInv'
<1> DEFINE p  == run[c].plan
           q  == Tail(p)
           to == run[c].to
           w  == run[c].work
           s  == run[c].svc
           t  == tip[c]
           u  == tip'[c]
           o  == ghost.owed[c] - Len(doc[c])
<1>0. "end" \in Actions /\ Acting(c, "end")
  BY DEF EndComposition, Actions
<1>1. /\ Shape /\ Rest /\ First(p, "end", q) /\ Text(p, to, w, t, Excused(c), o)
      /\ ~Idle(c) /\ p # <<>> /\ ghost \in Ghost
      /\ w \in Comps /\ to \in States /\ s \in Service /\ o \in Int
      /\ t.text \in Seq(Tokens) /\ Len(t.text) \in Nat /\ doc[c] \in Seq(Tokens)
      /\ c \notin ghost.touched => server.up /\ s = [session |-> server.session, reset |-> FALSE]
  BY <1>0, TextRunning DEF Tips
<1>2. /\ tip' = Close(c) /\ doc' = [doc EXCEPT ![c] = @ \o tip[c].text]
      /\ \E new : Deliver(c, new)
      /\ UNCHANGED <<mode, due, focus>>
  BY DEF EndComposition, Written
<1>3. ~u.open /\ u.text = <<>> /\ \A d \in Clients \ {c} : tip'[d] = tip[d]
  BY <1>1, <1>2, ClosedTipText
<1>4. /\ doc' \in [Clients -> Seq(Tokens)] /\ doc'[c] = doc[c] \o t.text
      /\ \A d \in Clients \ {c} : doc'[d] = doc[d]
  <2>1. doc[c] \o t.text \in Seq(Tokens) /\ doc \in [Clients -> Seq(Tokens)]
    BY <1>1 DEF Rest
  <2> QED
    BY <1>2, <2>1
<1>5. mode' \in [Clients -> Modes]
  BY <1>1, <1>2 DEF Rest
<1>6. CASE ~server.up
  <2>1. FailToClear(c)
    BY <1>6 DEF EndComposition
  <2> QED
    BY <1>0, <1>2, <1>3, <1>4, <1>5, <1>6, <2>1, FailKeepsText
<1>7. CASE server.up
  <2> DEFINE k == Ended(w)
             r == Observe(s, server.session)
             g == Uses(ghost, c)
             f == Excused(c) \/ (to # "none" /\ Len(q) = 0)
             n == g.owed[c] - Len(doc'[c])
  <2>1. server' = Emptied /\ Continue(c, k, to, r, g)
    BY <1>7 DEF EndComposition, Work
  <2>2. k \in Comps /\ k.raw = <<>> /\ k.text = <<>> /\ k.n = 0
    BY <1>1, EndedFields
  <2>3. /\ Beside(c, g) /\ g.owed = ghost.owed /\ g.excused = ghost.excused
        /\ c \in g.touched <=> c \in ghost.touched
    BY <1>1, UsesHistory
  <2>4. r \in Service /\ (c \notin g.touched => server'.up /\ Known(r) /\ (server.input)' = k.raw)
    <3>1. Emptied.up = server.up /\ Emptied.session = server.session /\ Emptied.input = <<>>
      BY <1>1, EmptiedTyped
    <3>2. r \in Service
      <4>1. server.session \in Nat
        BY <1>1 DEF Shape
      <4> QED
        BY <1>1, <4>1, ServiceTyped
    <3>3. c \notin g.touched => r = s
      BY <1>1, <2>3, KnowsServer
    <3> HIDE DEF r, k, s
    <3> QED
      BY <1>1, <1>7, <2>1, <2>2, <2>3, <3>1, <3>2, <3>3 DEF Known
  <2>5. n = o - Len(t.text)
    <3>1. Len(doc[c] \o t.text) = Len(doc[c]) + Len(t.text) /\ Len(doc[c]) \in Nat
      BY <1>1
    <3>2. ghost.owed[c] \in Int
      BY <1>1 DEF Ghost
    <3>3. n = ghost.owed[c] - Len(doc'[c])
      BY <2>3
    <3>4. Len(doc'[c]) = Len(doc[c]) + Len(t.text) /\ Len(t.text) \in Nat
      BY <1>1, <1>4, <3>1
    <3> DEFINE x == ghost.owed[c]
               y == Len(doc[c])
               z == Len(t.text)
               v == Len(doc'[c])
    <3>5. n = x - v /\ o = x - y /\ v = y + z /\ x \in Int /\ y \in Nat /\ z \in Nat
      BY <3>1, <3>2, <3>3, <3>4
    <3> HIDE DEF n, o, x, y, z, v
    <3>6. n = o - z
      BY <3>5
    <3> QED
      BY <3>6 DEF z
  <2>6. f => c \in g.excused \/ (~u.open /\ to # "none" /\ Len(q) = 0)
    BY <1>3, <2>3 DEF Excused
  <2>7. f <=> Excused(c) \/ (to # "none" /\ Len(q) = 0)
    OBVIOUS
  <2>q. q = Tail(run[c].plan)
    OBVIOUS
  <2>8. Text(q, to, k, u, f, n)
    <3> HIDE DEF p, q, to, w, o, t, u, k, f, n, g, r, s
    <3>1. Text(q, to, k, u, f, o - Len(t.text))
      BY <1>1, <1>3, <2>2, <2>7, EndText
    <3> QED
      BY <2>5, <3>1
  <2> HIDE DEF q, to, w, s, k, g, f, r
  <2> QED
    BY <1>1, <1>2, <1>3, <1>4, <1>5, <2>1, <2>2, <2>3, <2>4, <2>6, <2>8, <2>q, TextHandler
<1> QED
  BY <1>6, <1>7

\* SetIMEMode clears a server that holds nothing of the application.
LEMMA ModeKeepsText ==
  ASSUME TInv, IInv', NEW c \in Clients, SetIMEMode(c)
  PROVE  TInv'
<1> DEFINE p  == run[c].plan
           q  == Tail(p)
           to == run[c].to
           w  == run[c].work
           s  == run[c].svc
           t  == tip[c]
           o  == ghost.owed[c] - Len(doc[c])
<1>0. PICK a \in {"toKana", "toLatin"} : Acting(c, a) /\ ~t.open
  BY DEF SetIMEMode, Starting
<1>a. a \in Actions
  BY DEF Actions
<1>1. /\ Shape /\ Rest /\ First(p, a, q) /\ Text(p, to, w, t, Excused(c), o)
      /\ ~Idle(c) /\ p # <<>> /\ ghost \in Ghost
      /\ w \in Comps /\ to \in States /\ s \in Service
      /\ c \notin ghost.touched => server.up /\ s = [session |-> server.session, reset |-> FALSE]
  BY <1>0, <1>a, TextRunning
<1>2. tip' = tip /\ doc' = doc /\ UNCHANGED <<due, focus>>
      /\ \E m \in Modes : mode' = [mode EXCEPT ![c] = m]
  BY DEF SetIMEMode, Modes
<1>3. ~tip'[c].open /\ (tip'[c]).text = <<>>
  BY <1>0, <1>1, <1>2 DEF Text, Displays
<1>4. doc' \in [Clients -> Seq(Tokens)] /\ mode' \in [Clients -> Modes]
  BY <1>1, <1>2 DEF Rest
<1>6. CASE ~server.up
  <2>1. FailToClear(c) /\ \E new : Deliver(c, new)
    BY <1>6 DEF SetIMEMode
  <2> QED
    BY <1>0, <1>a, <1>2, <1>3, <1>4, <1>6, <2>1, FailKeepsText
<1>7. CASE server.up
  <2> DEFINE k == Ended(w)
             r == Observe(s, server.session)
             g == Uses(ghost, c)
             n == g.owed[c] - Len(doc'[c])
  <2>1. server' = Emptied /\ NoUpdate /\ Continue(c, k, to, r, g)
    BY <1>7 DEF SetIMEMode, Work
  <2>2. k \in Comps /\ k.raw = <<>> /\ k.text = <<>> /\ k.n = 0
    BY <1>1, EndedFields
  <2>3. /\ Beside(c, g) /\ g.owed = ghost.owed /\ g.excused = ghost.excused
        /\ c \in g.touched <=> c \in ghost.touched
    BY <1>1, UsesHistory
  <2>4. r \in Service /\ (c \notin g.touched => server'.up /\ Known(r) /\ (server.input)' = k.raw)
    <3>1. Emptied.up = server.up /\ Emptied.session = server.session /\ Emptied.input = <<>>
      BY <1>1, EmptiedTyped
    <3>2. r \in Service
      <4>1. server.session \in Nat
        BY <1>1 DEF Shape
      <4> QED
        BY <1>1, <4>1, ServiceTyped
    <3>3. c \notin g.touched => r = s
      BY <1>1, <2>3, KnowsServer
    <3> HIDE DEF r, k, s
    <3> QED
      BY <1>1, <1>7, <2>1, <2>2, <2>3, <3>1, <3>2, <3>3 DEF Known
  <2>5. n = o
    BY <1>2, <2>3
  <2>6. Excused(c) => c \in g.excused \/ (~tip'[c].open /\ to # "none" /\ Len(q) = 0)
    BY <2>3 DEF Excused
  <2>q. q = Tail(run[c].plan)
    OBVIOUS
  <2>8. Text(q, to, k, tip'[c], Excused(c), n)
    <3>1. Text(q, to, k, t, Excused(c), o)
      <4> HIDE DEF p, q, to, w, o, t, k, n, g, r, s
      <4> QED
        BY <1>0, <1>1, <2>2, ModeText
    <3>2. tip'[c] = t
      BY <1>2
    <3> HIDE DEF p, q, to, w, o, t, k, n, g, r, s
    <3> QED
      BY <2>5, <3>1, <3>2
  <2>9. \A d \in Clients \ {c} : tip'[d] = tip[d] /\ doc'[d] = doc[d]
    BY <1>2
  <2> HIDE DEF q, to, w, s, k, g, r
  <2> QED
    BY <1>1, <1>2, <1>4, <2>1, <2>2, <2>3, <2>4, <2>6, <2>8, <2>9, <2>q, TextHandler
<1> QED
  BY <1>6, <1>7

\* A key in a disabled context gives the text up.
LEMMA DisabledKeepsText ==
  ASSUME TInv, IInv', NEW c \in Clients, KeyInDisabledContext(c)
  PROVE  TInv'
<1> DEFINE k == Uses(ghost, c)
           g == Over(Excuse(k, c), c, doc[c])
<1>1. /\ Idle(c) /\ tip' = Close(c) /\ comp' = [comp EXCEPT ![c] = NoComp]
      /\ \E new : Deliver(c, new)
      /\ server.up => server' = Emptied /\ svc' = [svc EXCEPT ![c] = Observe(@, server.session)]
      /\ ~server.up => server' = server /\ svc' = svc
      /\ ghost' = g
      /\ UNCHANGED <<mode, doc, due, run, focus>>
  BY DEF KeyInDisabledContext, Ready
<1> HIDE DEF g
<1>2. Shape /\ Rest /\ ghost \in Ghost /\ TextFits(c) /\ doc[c] \in Seq(Tokens)
  BY DEF TInv, IInv, Rest
<1>3. Beside(c, k) /\ (c \in k.touched <=> c \in ghost.touched)
  BY <1>2, UsesHistory
<1> HIDE DEF k
<1>4. Beside(c, g) /\ g.owed[c] = Len(doc[c]) /\ g.touched = k.touched
  <2>1. k \in Ghost
    BY <1>3 DEF Beside
  <2> QED
    BY <1>2, <1>3, <2>1, GivenUp DEF g
<1>5. c \notin ghost.touched =>
        server.up /\ svc[c] = [session |-> server.session, reset |-> FALSE]
  BY <1>1, <1>2 DEF TextFits, Untouched, SvcOf
<1>6. c \notin g.touched => server'.up /\ Known(svc'[c]) /\ (server.input)' = comp'[c].raw
  <2> SUFFICES ASSUME c \notin g.touched
               PROVE  server'.up /\ Known(svc'[c]) /\ (server.input)' = comp'[c].raw
    OBVIOUS
  <2>1. server.up /\ svc[c] = [session |-> server.session, reset |-> FALSE]
    BY <1>3, <1>4, <1>5
  <2>2. Emptied.up = server.up /\ Emptied.session = server.session /\ Emptied.input = <<>>
    BY <1>2, EmptiedTyped
  <2>3. comp'[c].raw = <<>>
    BY <1>1, <1>2 DEF Shape, NoComp
  <2>4. svc'[c] = svc[c]
    <3>1. Observe(svc[c], server.session) = svc[c]
      BY <1>2, <2>1, KnowsServer
    <3> QED
      BY <1>1, <1>2, <2>1, <3>1 DEF Shape
  <2> QED
    BY <1>1, <2>1, <2>2, <2>3, <2>4 DEF Known
<1>7. (Idle(c))' /\ comp'[c] = NoComp
        /\ \A d \in Clients \ {c} : run'[d] = run[d] /\ comp'[d] = comp[d] /\ svc'[d] = svc[d]
  BY <1>1, <1>2 DEF Idle, Shape
<1>8. ~tip'[c].open /\ (tip'[c]).text = <<>> /\ \A d \in Clients \ {c} : tip'[d] = tip[d]
  BY <1>1, <1>2, ClosedTipText
<1>9. mode' \in [Clients -> Modes] /\ doc' \in [Clients -> Seq(Tokens)]
  BY <1>1, <1>2 DEF Rest
<1> QED
  BY <1>1, <1>4, <1>6, <1>7, <1>8, <1>9, StopText

\* An edit that the server answered.
LEMMA EditHandler ==
  ASSUME TInv, IInv', NEW c \in Clients, NEW a \in Editing, Acting(c, a),
         UNCHANGED <<mode, due, focus>>, \E new : Deliver(c, new),
         doc' \in [Clients -> Seq(Tokens)],
         \A d \in Clients \ {c} : tip'[d] = tip[d] /\ doc'[d] = doc[d],
         NEW k \in Comps, NEW to \in States, NEW s \in Service,
         NEW m, Beside(c, m), Continue(c, k, to, s, m),
         k.n <= Len(k.text),
         to = "none" => (k.raw = <<>> /\ k.text = <<>>) \/ Len(Tail(run[c].plan)) = 1,
         NEW u, u = tip'[c], u.open => u.text = k.text, ~u.open => u.text = <<>>,
         c \notin m.excused => /\ to # "none" => k.raw # <<>>
                               /\ k.raw = <<>> => u.text = <<>>
                               /\ k.raw # <<>> => u.open /\ k.cands = k.raw /\ k.text = k.raw
                                                    /\ k.n <= Len(k.raw)
                               /\ m.owed[c] - Len(doc'[c]) = Len(u.text),
         c \notin m.touched => server'.up /\ Known(s) /\ (server.input)' = k.raw
  PROVE  TInv'
<1> DEFINE p == run[c].plan
           q == Tail(p)
           n == m.owed[c] - Len(doc'[c])
           f == c \in m.excused
<1>0. a \in Actions
  BY DEF Actions, Editing
<1>1. /\ Rest /\ ~Idle(c) /\ p # <<>> /\ First(p, a, q) /\ Orderly(p) /\ Placed(p)
  BY <1>0, TextRunning DEF Text
<1>2. n \in Int /\ Len(u.text) \in Nat
  <2>1. m.owed[c] \in Int /\ Len(doc'[c]) \in Nat
    BY DEF Beside, Ghost
  <2>2. u.text \in Seq(Tokens)
    BY DEF IInv, Shape, Tips
  <2> QED
    BY <2>1, <2>2
<1>3. ~f => c \notin m.excused
  OBVIOUS
<1>4. f => c \in m.excused \/ (~tip'[c].open /\ to # "none" /\ Len(q) = 0)
  OBVIOUS
<1>5. to = "none" => (k.raw = <<>> /\ k.text = <<>>) \/ Len(q) = 1
  OBVIOUS
<1>6. ~f => /\ to # "none" => k.raw # <<>>
            /\ k.raw = <<>> => u.text = <<>>
            /\ k.raw # <<>> => u.open /\ k.cands = k.raw /\ k.text = k.raw
                                 /\ k.n <= Len(k.raw)
            /\ n = Len(u.text)
  OBVIOUS
<1>q. q = Tail(run[c].plan)
  OBVIOUS
<1>7. Text(q, to, k, u, f, n)
  <2> HIDE DEF f, n, q, p
  <2> QED
    BY <1>1, <1>2, <1>5, <1>6, EditText
<1>8. Text(q, to, k, tip'[c], f, m.owed[c] - Len(doc'[c]))
  BY <1>7
<1>9. mode' \in [Clients -> Modes] /\ UNCHANGED <<due, focus>>
  BY <1>1 DEF Rest
<1> HIDE DEF f, q, n
<1> QED
  BY <1>1, <1>4, <1>8, <1>9, <1>q, TextHandler

\* Before an edit that leaves nothing composed, the end is still to come.
LEMMA EditEnds ==
  ASSUME IInv, NEW c \in Clients, NEW a \in Editing, Acting(c, a), run[c].to = "none"
  PROVE  Len(Tail(run[c].plan)) \in Nat /\ Len(Tail(run[c].plan)) # 0
<1> DEFINE p  == run[c].plan
           q  == Tail(p)
<1>1. First(p, a, q) /\ Orderly(p) /\ TipFits(p, "none", tip[c].open, Late)
  BY Running DEF Actions, Editing, Fits
<1>2. Clears(q) /\ Len(q) \in Nat
  <2> HIDE DEF p, q
  <2> QED
    BY <1>1, EditClears DEF First
<1> HIDE DEF q
<1>3. Len(q) # 0
  BY <1>2 DEF Clears
<1> QED
  BY <1>2, <1>3 DEF q

\* What is known when the handler comes to an edit.
LEMMA EditRunning ==
  ASSUME TInv, NEW c \in Clients, NEW a \in Editing, Acting(c, a)
  PROVE  /\ IInv /\ Shape /\ Rest /\ ghost \in Ghost /\ ~Idle(c)
         /\ run[c].work \in Comps /\ run[c].to \in States /\ run[c].svc \in Service
         /\ tip[c] \in Tips /\ ghost.owed[c] - Len(doc[c]) \in Int
         /\ server.session \in Nat \ {0} /\ server.input \in Seq(Tokens)
         /\ run[c].to = "none" => Len(Tail(run[c].plan)) = 1
         /\ tip[c].open => tip[c].text = run[c].work.text
         /\ ~tip[c].open => tip[c].text = <<>>
         /\ a \in {"shrink", "shrinkAppend"} => run[c].work.n <= Len(run[c].work.text)
         /\ ~Excused(c) =>
              /\ a = "append" => tip[c].open
              /\ run[c].work.raw = <<>> => tip[c].text = <<>>
              /\ run[c].work.raw # <<>> =>
                   /\ tip[c].open /\ tip[c].text = run[c].work.raw
                   /\ run[c].work.cands = run[c].work.raw /\ run[c].work.text = run[c].work.raw
                   /\ run[c].work.n <= Len(run[c].work.raw)
              /\ a # "append" /\ run[c].to # "none" => run[c].work.raw # <<>>
              /\ ghost.owed[c] - Len(doc[c]) = Len(tip[c].text) + (IF a \in Typing THEN 1 ELSE 0)
                                 - (IF a = "remove" /\ run[c].work.raw # <<>> THEN 1 ELSE 0)
         /\ c \notin ghost.touched =>
              /\ server.up
              /\ run[c].svc = [session |-> server.session, reset |-> FALSE]
              /\ server.input = run[c].work.raw
<1> DEFINE p  == run[c].plan
           q  == Tail(p)
           to == run[c].to
           w  == run[c].work
           t  == tip[c]
           o  == ghost.owed[c] - Len(doc[c])
<1>0. a \in Actions
  BY DEF Actions, Editing
<1>1. /\ IInv /\ Shape /\ Rest /\ ghost \in Ghost /\ ~Idle(c)
      /\ First(p, a, q) /\ Orderly(p) /\ Text(p, to, w, t, Excused(c), o)
      /\ w \in Comps /\ to \in States /\ run[c].svc \in Service /\ t \in Tips /\ o \in Int
      /\ c \notin ghost.touched =>
              /\ server.up
              /\ run[c].svc = [session |-> server.session, reset |-> FALSE]
              /\ server.input = w.raw
  BY <1>0, TextRunning
<1>2. server.session \in Nat \ {0} /\ server.input \in Seq(Tokens)
  BY <1>1 DEF Shape
<1>3. to = "none" => Len(q) \in Nat /\ Len(q) # 0
  BY <1>1, EditEnds
<1> HIDE DEF p, q, to, w, t, o
<1>4. /\ Len(q) \in {0, 1} /\ ~Has(q, {"append"}) /\ ~Has(q, {"start"})
      /\ Has(p, Typing) <=> a \in Typing
      /\ Has(p, {"remove"}) <=> a = "remove"
  BY <1>1, AfterEdits DEF Text
<1>5. to = "none" => Len(q) = 1
  BY <1>3, <1>4
<1>6. (t.open => t.text = w.text) /\ (~t.open => t.text = <<>>)
  BY <1>1 DEF Text, Displays
<1>7. a \in {"shrink", "shrinkAppend"} => w.n <= Len(w.text)
  BY <1>1, RestHas DEF Text, Leaves
<1>8. ASSUME ~Excused(c)
      PROVE  /\ a = "append" => t.open
             /\ w.raw = <<>> => t.text = <<>>
             /\ w.raw # <<>> => t.open /\ t.text = w.raw /\ w.cands = w.raw /\ w.text = w.raw
                                  /\ w.n <= Len(w.raw)
             /\ a # "append" /\ to # "none" => w.raw # <<>>
             /\ o = Len(t.text) + (IF a \in Typing THEN 1 ELSE 0)
                                 - (IF a = "remove" /\ w.raw # <<>> THEN 1 ELSE 0)
  <2>1. Agrees(p, to, w, t) /\ o = Len(t.text) + ToCome(p, w.raw)
    BY <1>1, <1>8 DEF Text
  <2>2. Has(p, {"append"}) <=> a = "append"
    BY <1>1, <1>4, FirstHasAll
  <2>3. Has(p, {"start"}) => a = "start"
    BY <1>1, <1>4, FirstHasAll
  <2>4. a # "start"
    BY DEF Editing
  <2>5. o = Len(t.text) + ((IF a \in Typing THEN 1 ELSE 0)
                             - (IF a = "remove" /\ w.raw # <<>> THEN 1 ELSE 0))
    BY <2>1, <1>4 DEF ToCome
  <2>6. Len(t.text) \in Nat
    BY <1>1 DEF Tips
  <2> QED
    BY <1>6, <2>1, <2>2, <2>3, <2>4, <2>5, <2>6 DEF Agrees
<1> QED
  BY <1>1, <1>2, <1>5, <1>6, <1>7, <1>8 DEF p, q, to, w, t, o

\* A client that knows the server, or has nothing at it, takes an append for what
\* it is.
LEMMA AppendAlone ==
  ASSUME CountsTokens, Shape, NEW c \in Clients, NEW w \in Comps, NEW s \in Service,
         c \notin ghost.touched =>
           s = [session |-> server.session, reset |-> FALSE] /\ server.input = w.raw,
         Alone(c, w),
         NEW result \in Appending(s, server.input, <<c>>),
         NEW v, v = Observe(s, server.session).reset,
         NEW stale,
         stale <=> (v /\ HasState(w)) \/ LooksReset(w.raw, FullView(w.cands), <<c>>, FullView(result)),
         NEW base \in Comps, base = IF stale THEN Ended(w) ELSE w
  PROVE  /\ result = Append(base.raw, c) /\ Len(result) = Len(w.raw) + 1
<1>0. w.raw \in Seq(Tokens) /\ c \in Tokens /\ Ended(w).raw = <<>> /\ Len(w.raw) \in Nat
  BY EndedFields DEF Comps, Clients
<1>1. CASE w.raw = <<>>
  <2>1. server.input = <<>>
    BY <1>1 DEF Alone
  <2>2. result = <<c>>
    BY <2>1 DEF Appending
  <2>3. base.raw = <<>>
    BY <1>0, <1>1
  <2> QED
    BY <1>1, <2>2, <2>3
<1>2. CASE w.raw # <<>>
  <2>1. s = [session |-> server.session, reset |-> FALSE] /\ server.input = w.raw
    BY <1>2 DEF Alone
  <2>2. v = FALSE
    BY <2>1, KnowsServer
  <2>3. result = w.raw \o <<c>>
    BY <1>2, <2>1 DEF Appending, Outcomes
  <2>4. result \in Seq(Tokens) /\ Len(result) = Len(w.raw) + 1 /\ result = Append(w.raw, c)
    <3>1. result \in Seq(Tokens) /\ Len(result) = Len(w.raw) + 1
      BY <1>0, <2>3
    <3>2. Append(w.raw, c) \in Seq(Tokens) /\ Len(Append(w.raw, c)) = Len(w.raw) + 1
      BY <1>0
    <3>3. \A i \in 1..Len(result) : result[i] = Append(w.raw, c)[i]
      BY <1>0, <2>3, <3>1
    <3> QED
      BY <3>1, <3>2, <3>3, SameSequence
  <2>5. Len(w.raw) > 0
    BY <1>0, <1>2
  <2>6. result # <<>> /\ Len(result) \in FullView(result).counts
    <3>1. result # <<>>
      BY <2>4, <2>5
    <3> QED
      BY <3>1 DEF FullView
  <2>7. ~LooksReset(w.raw, FullView(w.cands), <<c>>, FullView(result))
    <3>1. ~(Len(result) <= Len(<<c>>))
      BY <2>4, <2>5
    <3> QED
      BY <2>6, <3>1 DEF LooksReset
  <2>8. base = w
    BY <2>2, <2>7
  <2> QED
    BY <2>4, <2>8
<1> QED
  BY <1>1, <1>2

\* What a client knows of the server after a request.
LEMMA Met ==
  ASSUME NEW s \in Service, NEW session \in Nat
  PROVE  [Observe(s, session) EXCEPT !.reset = FALSE] = [session |-> session, reset |-> FALSE]
<1> DEFINE r == Observe(s, session)
<1>1. r \in Service
  BY ServiceTyped
<1>2. r.session = session
  BY DEF Observe
<1> HIDE DEF r
<1> DEFINE k == [r EXCEPT !.reset = FALSE]
<1>3. k \in Service /\ k.session = session /\ k.reset = FALSE
  BY <1>1, <1>2 DEF Service
<1> HIDE DEF k
<1>4. k = [session |-> k.session, reset |-> k.reset]
  BY <1>3 DEF Service
<1> QED
  BY <1>3, <1>4 DEF r, k

\* AppendText adds one character, or meets a new server and is excused.
LEMMA AppendKeepsText ==
  ASSUME CountsClauses, TInv, IInv', NEW c \in Clients, AppendText(c)
  PROVE  TInv'
<1> DEFINE w == run[c].work
           t == tip[c]
           u == tip'[c]
           o == ghost.owed[c] - Len(doc[c])
           s == run[c].svc
           a == "append"
<1>0. Acting(c, a) /\ a \in Editing /\ a \in Actions /\ UNCHANGED <<mode, due, focus>>
        /\ a \in Typing /\ a # "remove" /\ CountsTokens
  BY DEF AppendText, Editing, Actions, Typing, CountsClauses
<1>a. /\ Shape /\ Rest /\ ghost \in Ghost
      /\ w \in Comps /\ run[c].to \in States /\ s \in Service
      /\ t \in Tips /\ o \in Int /\ server.session \in Nat \ {0} /\ server.input \in Seq(Tokens)
      /\ run[c].to = "none" => Len(Tail(run[c].plan)) = 1
      /\ t.open => t.text = w.text
      /\ ~t.open => t.text = <<>>
      /\ ~Excused(c) =>
           /\ a = "append" => t.open
           /\ w.raw = <<>> => t.text = <<>>
           /\ w.raw # <<>> => t.text = w.raw
           /\ o = Len(t.text) + (IF a \in Typing THEN 1 ELSE 0)
                              - (IF a = "remove" /\ w.raw # <<>> THEN 1 ELSE 0)
      /\ c \notin ghost.touched =>
           server.up /\ s = [session |-> server.session, reset |-> FALSE] /\ server.input = w.raw
  BY <1>0, EditRunning
<1>1. /\ Shape /\ Rest /\ ghost \in Ghost
      /\ w \in Comps /\ run[c].to \in States /\ s \in Service
      /\ t \in Tips /\ o \in Int /\ server.session \in Nat \ {0} /\ server.input \in Seq(Tokens)
      /\ run[c].to = "none" => Len(Tail(run[c].plan)) = 1
      /\ t.open => t.text = w.text
      /\ ~t.open => t.text = <<>>
      /\ ~Excused(c) =>
           /\ t.open
           /\ w.raw = <<>> => t.text = <<>>
           /\ w.raw # <<>> => t.text = w.raw
           /\ o = Len(t.text) + 1
      /\ c \notin ghost.touched =>
           server.up /\ s = [session |-> server.session, reset |-> FALSE] /\ server.input = w.raw
  <2>1. Len(t.text) \in Nat
    BY <1>a DEF Tips
  <2> HIDE DEF w, t, o, s
  <2>2. ~Excused(c) => o = Len(t.text) + 1
    BY <1>0, <1>a, <2>1
  <2> QED
    BY <1>0, <1>a, <2>2
<1>2. CASE ~server.up
  <2>1. Abandon(c, s)
    BY <1>2 DEF AppendText
  <2> HIDE DEF a
  <2> QED
    BY <1>0, <1>2, <2>1, AbandonKeepsText
<1>3. CASE server.up
  <2> DEFINE v == Observe(s, server.session)
             k0 == [v EXCEPT !.reset = FALSE]
             Stale(result) == \/ v.reset /\ HasState(w)
                              \/ LooksReset(w.raw, FullView(w.cands), <<c>>, FullView(result))
  <2>1. PICK result \in Appending(s, server.input, <<c>>) :
           /\ server' = [server EXCEPT !.input = result] /\ doc' = doc
           /\ Appended(c, w, IF Stale(result) THEN "composing" ELSE run[c].to, result,
                       Stale(result), k0)
    BY <1>3 DEF AppendText, Work
  <2> DEFINE stale == Stale(result)
             newTo == IF stale THEN "composing" ELSE run[c].to
             base  == IF stale THEN Ended(w) ELSE w
             new   == Select([base EXCEPT !.raw = Append(@, c)], result, base.sel)
             m     == Meets(Uses(ghost, c), c, w)
  <2>2. /\ tip' = (IF stale THEN [tip EXCEPT ![c] = Tip(new.text)] ELSE SetText(c, new.text))
        /\ \E upd : Deliver(c, upd)
        /\ Continue(c, new, newTo, k0, m)
    BY <2>1 DEF Appended
  <2>3. stale <=> (v.reset /\ HasState(w))
                    \/ LooksReset(w.raw, FullView(w.cands), <<c>>, FullView(result))
    OBVIOUS
  <2>t. newTo \in States /\ (newTo = "none" => Len(Tail(run[c].plan)) = 1)
    BY <1>1 DEF States
  <2> HIDE DEF stale, newTo
  <2>4. base \in Comps
    BY <1>1, EndedFields
  <2>5. result \in Seq(Tokens) /\ result # <<>>
    <3>1. <<c>> \in Seq(Tokens) /\ Len(<<c>>) = 1
      BY DEF Clients
    <3> QED
      BY <1>1, <3>1, AppendTyped
  <2>6. Alone(c, w) => result = Append(base.raw, c) /\ Len(result) = Len(w.raw) + 1
    <3> DEFINE vr == v.reset
    <3>1. stale <=> (vr /\ HasState(w))
                    \/ LooksReset(w.raw, FullView(w.cands), <<c>>, FullView(result))
      BY <2>3
    <3>2. vr = Observe(s, server.session).reset
      OBVIOUS
    <3>3. base = IF stale THEN Ended(w) ELSE w
      OBVIOUS
    <3> HIDE DEF vr, base, v, w, s
    <3> QED
      BY <1>0, <1>1, <2>4, <3>1, <3>2, <3>3, AppendAlone
  <2>7. /\ new \in Comps /\ new.raw = Append(base.raw, c) /\ new.cands = result
        /\ new.text = result /\ new.n <= Len(result) /\ new.raw # <<>>
    <3> HIDE DEF base
    <3>1. base.raw \in Seq(Tokens) /\ base.sel \in Int
      BY <2>4 DEF Comps
    <3>2. Append(base.raw, c) \in Seq(Tokens) /\ Append(base.raw, c) # <<>>
      BY <3>1 DEF Clients
    <3> DEFINE b == [base EXCEPT !.raw = Append(@, c)]
    <3>3. b \in Comps /\ b.raw = Append(base.raw, c)
      BY <2>4, <3>2 DEF Comps
    <3> HIDE DEF b
    <3>4. new = Select(b, result, base.sel)
      BY DEF b
    <3> HIDE DEF new
    <3> QED
      BY <1>0, <2>5, <3>1, <3>2, <3>3, <3>4, SelectTyped, SelectClause
  <2> HIDE DEF new
  <2>8. /\ Beside(c, m) /\ m.owed = ghost.owed
        /\ c \in m.excused <=> c \in ghost.excused \/ ~Alone(c, w)
        /\ c \notin m.touched => Alone(c, w)
    BY <1>1, MeetsHistory
  <2> HIDE DEF m
  <2>9. /\ u.open => u.text = new.text
        /\ ~u.open => u.text = <<>>
        /\ t.open => u.open
        /\ \A d \in Clients \ {c} : tip'[d] = tip[d]
    <3>1. CASE stale
      BY <1>1, <2>2, <3>1 DEF Shape, Tip
    <3>2. CASE ~stale
      <4>1. tip' = SetText(c, new.text)
        BY <2>2, <3>2
      <4>2. Follows(tip'[c], tip[c], new.text) /\ \A d \in Clients \ {c} : tip'[d] = tip[d]
        BY <1>1, <4>1, SetTextFollows
      <4> QED
        BY <4>2 DEF Follows
    <3> QED
      BY <3>1, <3>2
  <2>10. ASSUME c \notin m.excused
         PROVE  /\ u.open /\ new.cands = new.raw /\ new.text = new.raw /\ new.n <= Len(new.raw)
                /\ m.owed[c] - Len(doc'[c]) = Len(u.text)
    <3>1. ~Excused(c) /\ Alone(c, w)
      BY <2>8, <2>10 DEF Excused
    <3>2. u.open /\ new.raw = result
      BY <1>1, <2>6, <2>7, <2>9, <3>1
    <3>3. Len(t.text) = Len(w.raw)
      BY <1>1, <3>1
    <3>4. o = Len(w.raw) + 1 /\ Len(u.text) = Len(w.raw) + 1
      BY <1>1, <2>6, <2>7, <2>9, <3>1, <3>2, <3>3
    <3>5. m.owed[c] - Len(doc'[c]) = o
      BY <2>1, <2>8
    <3> QED
      BY <2>7, <3>2, <3>4, <3>5
  <2>11. k0 \in Service /\ (c \notin m.touched => server'.up /\ Known(k0) /\ (server.input)' = new.raw)
    <3>1. k0 = [session |-> server.session, reset |-> FALSE]
      <4> HIDE DEF s
      <4> QED
        BY <1>1, Met
    <3>2. server'.up = server.up /\ server'.session = server.session /\ (server.input)' = result
      BY <1>1, <2>1 DEF Shape
    <3>3. k0 \in Service
      BY <1>1, <3>1 DEF Service
    <3> HIDE DEF k0
    <3> QED
      BY <1>3, <2>6, <2>7, <2>8, <3>1, <3>2, <3>3 DEF Known
  <2>12. doc' \in [Clients -> Seq(Tokens)]
    BY <1>1, <2>1 DEF Rest
  <2>13. new.n <= Len(new.text)
    BY <2>7
  <2> HIDE DEF k0, a, base, w, t, o, v, s
  <2>14. \A d \in Clients \ {c} : tip'[d] = tip[d] /\ doc'[d] = doc[d]
    BY <2>1, <2>9
  <2>15. c \notin m.excused =>
           /\ newTo # "none" => new.raw # <<>>
           /\ new.raw = <<>> => u.text = <<>>
           /\ new.raw # <<>> => u.open /\ new.cands = new.raw /\ new.text = new.raw
                                  /\ new.n <= Len(new.raw)
           /\ m.owed[c] - Len(doc'[c]) = Len(u.text)
    BY <2>7, <2>10
  <2> QED
    BY <1>0, <2>2, <2>t, <2>7, <2>8, <2>9, <2>11, <2>12, <2>13, <2>14, <2>15, EditHandler
<1> QED
  BY <1>2, <1>3

\* A composition that is over, or turned out to be empty.
LEMMA StoppedFields ==
  ASSUME NEW w \in Comps, NEW k, k = [NoComp EXCEPT !.state = w.state]
  PROVE  k \in Comps /\ k.raw = <<>> /\ k.text = <<>> /\ k.n = 0
<1>1. NoComp \in Comps /\ w.state \in States
  BY EndedTyped DEF Comps
<1>2. NoComp.raw = <<>> /\ NoComp.text = <<>> /\ NoComp.n = 0
  BY DEF NoComp
<1> HIDE DEF NoComp
<1> QED
  BY <1>1, <1>2 DEF Comps

\* reset_after_empty_server_composition gives the text up.
LEMMA ResetKeepsText ==
  ASSUME TInv, IInv', NEW c \in Clients, NEW a \in Editing, Acting(c, a), server.up,
         UNCHANGED <<mode, due, focus>>, NEW s \in Service,
         c \notin ghost.touched => s = [session |-> server.session, reset |-> FALSE],
         ResetAfterEmpty(c, run[c].work, s)
  PROVE  TInv'
<1> DEFINE w == run[c].work
           k == [NoComp EXCEPT !.state = w.state]
           r == Observe(s, server.session)
           g == Uses(ghost, c)
           m == Excuse(g, c)
           u == tip'[c]
<1>1. Shape /\ Rest /\ ghost \in Ghost /\ w \in Comps /\ server.session \in Nat \ {0}
  BY EditRunning
<1>2. /\ tip' = Close(c) /\ doc' = doc /\ server' = Emptied /\ \E new : Deliver(c, new)
      /\ Continue(c, k, "none", r, m)
  BY DEF ResetAfterEmpty
<1>3. k \in Comps /\ k.raw = <<>> /\ k.text = <<>> /\ k.n = 0
  BY <1>1, StoppedFields
<1>4. Beside(c, g) /\ (c \in g.touched <=> c \in ghost.touched)
  BY <1>1, UsesHistory
<1> HIDE DEF w, k, g
<1>5. Beside(c, m) /\ c \in m.excused /\ m.touched = g.touched
  BY <1>4, ExcuseHistory DEF Beside
<1>6. ~u.open /\ u.text = <<>> /\ \A d \in Clients \ {c} : tip'[d] = tip[d]
  BY <1>1, <1>2, ClosedTipText
<1>7. doc' \in [Clients -> Seq(Tokens)]
  BY <1>1, <1>2 DEF Rest
<1>8. r \in Service /\ (c \notin ghost.touched => r = s)
  BY <1>1, KnowsServer, ServiceTyped
<1>9. Emptied.up = server.up /\ Emptied.session = server.session /\ Emptied.input = <<>>
  BY <1>1, EmptiedTyped
<1> HIDE DEF m, r
<1>10. c \notin m.touched => server'.up /\ Known(r) /\ (server.input)' = k.raw
  BY <1>2, <1>3, <1>4, <1>5, <1>8, <1>9 DEF Known
<1>11. "none" \in States /\ k.n <= Len(k.text)
  BY <1>3 DEF States
<1>12. \A d \in Clients \ {c} : tip'[d] = tip[d] /\ doc'[d] = doc[d]
  BY <1>2, <1>6
<1> QED
  BY <1>2, <1>3, <1>5, <1>6, <1>7, <1>8, <1>10, <1>11, <1>12, EditHandler

\* What is left without the last element.
LEMMA DropLastOf ==
  ASSUME NEW r \in Seq(Tokens)
  PROVE  /\ DropLast(r) \in Seq(Tokens)
         /\ r # <<>> => Len(DropLast(r)) = Len(r) - 1
         /\ r = <<>> => DropLast(r) = <<>>
         /\ DropLast(r) = <<>> => Len(r) <= 1
<1>1. CASE r = <<>>
  BY <1>1 DEF DropLast
<1>2. CASE r # <<>>
  <2>1. Len(r) \in Nat /\ Len(r) > 0
    BY <1>2
  <2> DEFINE n == Len(r) - 1
  <2>n. n \in Nat /\ n <= Len(r)
    BY <2>1
  <2> HIDE DEF n
  <2>s. SubSeq(r, 1, n) \in Seq(Tokens) /\ Len(SubSeq(r, 1, n)) = n
    BY <2>n
  <2>2. SubSeq(r, 1, Len(r) - 1) \in Seq(Tokens) /\ Len(SubSeq(r, 1, Len(r) - 1)) = Len(r) - 1
    BY <2>s DEF n
  <2>3. DropLast(r) = SubSeq(r, 1, Len(r) - 1)
    BY <1>2 DEF DropLast
  <2>4. DropLast(r) = <<>> => Len(DropLast(r)) = 0
    OBVIOUS
  <2> QED
    BY <1>2, <2>1, <2>2, <2>3, <2>4
<1> QED
  BY <1>1, <1>2

\* The server answered a removal.
LEMMA RemovedKeepsText ==
  ASSUME CountsClauses, TInv, IInv', NEW c \in Clients, Acting(c, "remove"), server.up,
         UNCHANGED <<mode, due, focus>>,
         NEW result \in Outcomes(run[c].svc, server.input, DropLast(server.input)),
         NEW s, s = [session |-> server.session, reset |-> FALSE],
         Removed(c, run[c].work, result, s)
  PROVE  TInv'
<1> DEFINE w    == run[c].work
           t    == tip[c]
           u    == tip'[c]
           o    == ghost.owed[c] - Len(doc[c])
           m    == Meets(Uses(ghost, c), c, w)
           a    == "remove"
<1>0. a \in Editing /\ Acting(c, a) /\ a # "append" /\ a \notin Typing /\ CountsTokens
  BY DEF Editing, Typing, CountsClauses
<1>1. /\ Shape /\ Rest /\ ghost \in Ghost
      /\ w \in Comps /\ run[c].to \in States
      /\ t \in Tips /\ o \in Int /\ server.session \in Nat \ {0} /\ server.input \in Seq(Tokens)
      /\ run[c].to = "none" => Len(Tail(run[c].plan)) = 1
      /\ t.open => t.text = w.text
      /\ ~t.open => t.text = <<>>
      /\ ~Excused(c) =>
           /\ w.raw = <<>> => t.text = <<>>
           /\ w.raw # <<>> => t.open /\ t.text = w.raw
           /\ a # "append" /\ run[c].to # "none" => w.raw # <<>>
           /\ o = Len(t.text) + (IF a \in Typing THEN 1 ELSE 0)
                              - (IF a = "remove" /\ w.raw # <<>> THEN 1 ELSE 0)
      /\ c \notin ghost.touched =>
           /\ server.up
           /\ run[c].svc = [session |-> server.session, reset |-> FALSE]
           /\ server.input = w.raw
  BY <1>0, EditRunning
<1>2. w.raw \in Seq(Tokens) /\ Len(w.raw) \in Nat /\ w.sel \in Int /\ t.text \in Seq(Tokens)
        /\ Len(t.text) \in Nat
  BY <1>1 DEF Comps, Tips
<1>3. server' = [server EXCEPT !.input = result] /\ doc' = doc
  BY DEF Removed
<1>4. result \in Seq(Tokens)
  BY <1>1, DropLastOf DEF Outcomes
<1>5. Alone(c, w) => result = DropLast(w.raw)
  BY <1>1, DropLastOf DEF Alone, Outcomes
<1>6. server'.up = server.up /\ server'.session = server.session /\ (server.input)' = result
  BY <1>1, <1>3 DEF Shape
<1>7. s \in Service
  BY <1>1 DEF Service
<1>8. doc' \in [Clients -> Seq(Tokens)]
  BY <1>1, <1>3 DEF Rest
<1>9. /\ Beside(c, m) /\ m.owed = ghost.owed
      /\ c \in m.excused <=> c \in ghost.excused \/ ~Alone(c, w)
      /\ c \notin m.touched => Alone(c, w)
  BY <1>1, MeetsHistory
<1>m. m = Meets(Uses(ghost, c), c, w)
  OBVIOUS
<1> HIDE DEF m
<1>10. ASSUME c \notin m.excused
       PROVE  /\ result = DropLast(w.raw)
              /\ m.owed[c] - Len(doc'[c]) = IF w.raw = <<>> THEN 0 ELSE Len(w.raw) - 1
              /\ run[c].to # "none" => w.raw # <<>>
              /\ w.raw # <<>> => t.open
  <2>1. ~Excused(c) /\ Alone(c, w)
    BY <1>9, <1>10 DEF Excused
  <2>2. m.owed[c] - Len(doc'[c]) = o
    BY <1>3, <1>9
  <2>3. o = IF w.raw = <<>> THEN 0 ELSE Len(w.raw) - 1
    <3> HIDE DEF o, t, w
    <3> QED
      BY <1>0, <1>1, <1>2, <2>1
  <2> QED
    BY <1>0, <1>1, <1>5, <2>1, <2>2, <2>3
<1>11. CASE result # <<>>
  <2> DEFINE b   == [w EXCEPT !.raw = DropLast(@)]
             k   == Select(b, result, w.sel)
             to  == run[c].to
  <2>1. /\ tip' = SetText(c, k.text) /\ \E upd : Deliver(c, upd)
        /\ Continue(c, k, to, s, m)
    BY <1>11, <1>m DEF Removed
  <2>2. /\ k \in Comps /\ k.raw = DropLast(w.raw) /\ k.cands = result /\ k.text = result
        /\ k.n <= Len(result)
    <3>1. DropLast(w.raw) \in Seq(Tokens)
      BY <1>2, DropLastOf
    <3>2. b \in Comps /\ b.raw = DropLast(w.raw)
      BY <1>1, <3>1 DEF Comps
    <3> HIDE DEF b, w
    <3> QED
      BY <1>0, <1>2, <1>4, <1>11, <3>2, SelectTyped, SelectClause
  <2> HIDE DEF k
  <2>3. Follows(u, t, k.text) /\ \A d \in Clients \ {c} : tip'[d] = tip[d]
    BY <1>1, <2>1, SetTextFollows
  <2>4. (u.open => u.text = k.text) /\ (~u.open => u.text = <<>>)
    BY <2>3 DEF Follows
  <2>5. ASSUME c \notin m.excused
        PROVE  /\ to # "none" => k.raw # <<>>
               /\ k.raw = <<>> => u.text = <<>>
               /\ k.raw # <<>> => u.open /\ k.cands = k.raw /\ k.text = k.raw
                                    /\ k.n <= Len(k.raw)
               /\ m.owed[c] - Len(doc'[c]) = Len(u.text)
    <3>1. k.raw = result /\ w.raw # <<>> /\ Len(result) = Len(w.raw) - 1
      BY <1>2, <1>10, <1>11, <2>2, <2>5, DropLastOf
    <3>2. u.open /\ u.text = result
      BY <1>10, <2>2, <2>3, <2>5, <3>1 DEF Follows
    <3>3. m.owed[c] - Len(doc'[c]) = Len(result)
      BY <1>10, <2>5, <3>1
    <3> QED
      BY <1>11, <2>2, <3>1, <3>2, <3>3
  <2>6. c \notin m.touched => server'.up /\ Known(s) /\ (server.input)' = k.raw
    BY <1>5, <1>6, <1>9, <2>2 DEF Known
  <2>7. k.n <= Len(k.text) /\ to \in States /\ (to = "none" => Len(Tail(run[c].plan)) = 1)
    BY <1>1, <2>2
  <2>8. \A d \in Clients \ {c} : tip'[d] = tip[d] /\ doc'[d] = doc[d]
    BY <1>3, <2>3
  <2> HIDE DEF to, a, w, t, o
  <2> QED
    BY <1>0, <1>7, <1>8, <1>9, <2>1, <2>2, <2>4, <2>5, <2>6, <2>7, <2>8, EditHandler
<1>12. CASE result = <<>>
  <2> DEFINE k == [NoComp EXCEPT !.state = w.state]
  <2>1. /\ tip' = Close(c) /\ \E upd : Deliver(c, upd)
        /\ Continue(c, k, "none", s, m)
    BY <1>12, <1>m DEF Removed
  <2>2. k \in Comps /\ k.raw = <<>> /\ k.text = <<>> /\ k.n = 0
    BY <1>1, StoppedFields
  <2> HIDE DEF k
  <2>3. ~u.open /\ u.text = <<>> /\ \A d \in Clients \ {c} : tip'[d] = tip[d]
    BY <1>1, <2>1, ClosedTipText
  <2>4. c \notin m.excused => m.owed[c] - Len(doc'[c]) = Len(u.text)
    <3> SUFFICES ASSUME c \notin m.excused PROVE m.owed[c] - Len(doc'[c]) = 0
      BY <2>3
    <3>1. DropLast(w.raw) = <<>> /\ Len(DropLast(w.raw)) = 0
      BY <1>10, <1>12
    <3>2. w.raw # <<>> => Len(w.raw) - 1 = 0
      BY <1>2, <3>1, DropLastOf
    <3>3. m.owed[c] - Len(doc'[c]) = IF w.raw = <<>> THEN 0 ELSE Len(w.raw) - 1
      BY <1>10
    <3> HIDE DEF w
    <3> QED
      BY <3>2, <3>3
  <2>6. c \notin m.touched => server'.up /\ Known(s) /\ (server.input)' = k.raw
    BY <1>6, <1>12, <2>2 DEF Known
  <2>7. "none" \in States /\ k.n <= Len(k.text)
    BY <2>2 DEF States
  <2>8. \A d \in Clients \ {c} : tip'[d] = tip[d] /\ doc'[d] = doc[d]
    BY <1>3, <2>3
  <2> HIDE DEF a, w, t, o
  <2> QED
    BY <1>0, <1>7, <1>8, <1>9, <2>1, <2>2, <2>3, <2>4, <2>6, <2>7, <2>8, EditHandler
<1> QED
  BY <1>11, <1>12

\* RemoveText takes one character back.
LEMMA RemoveKeepsText ==
  ASSUME CountsClauses, TInv, IInv', NEW c \in Clients, RemoveText(c)
  PROVE  TInv'
<1> DEFINE w     == run[c].work
           s     == run[c].svc
           a     == "remove"
           known == [s EXCEPT !.reset = FALSE]
           t     == Observe(known, server.session)
           u     == [t EXCEPT !.reset = FALSE]
<1>0. Acting(c, "remove") /\ a \in Editing /\ a \in Actions /\ UNCHANGED <<mode, due, focus>>
  BY DEF RemoveText, Editing, Actions
<1>1. /\ Shape /\ s \in Service /\ server.session \in Nat \ {0}
      /\ c \notin ghost.touched => s = [session |-> server.session, reset |-> FALSE]
  BY <1>0, EditRunning
<1>2. \/ ~server.up /\ Abandon(c, svc[c])
      \/ server.up /\ ResetAfterEmpty(c, w, known)
      \/ server.up /\ ResetAfterEmpty(c, w, u)
      \/ server.up /\ \E result \in Outcomes(s, server.input, DropLast(server.input)) :
                        Removed(c, w, result, u)
  BY DEF RemoveText, Work
<1>3. /\ known \in Service
      /\ c \notin ghost.touched => known = [session |-> server.session, reset |-> FALSE]
  <2> HIDE DEF s
  <2> QED
    BY <1>1, KnowsServer, ServiceTyped
<1> HIDE DEF known
<1>4. u = [session |-> server.session, reset |-> FALSE] /\ u \in Service
  <2>1. u = [session |-> server.session, reset |-> FALSE]
    BY <1>1, <1>3, Met
  <2> HIDE DEF u
  <2> QED
    BY <1>1, <2>1 DEF Service
<1> HIDE DEF u
<1>5. CASE ~server.up /\ Abandon(c, svc[c])
  BY <1>0, <1>5, AbandonKeepsText
<1>6. CASE server.up /\ ResetAfterEmpty(c, w, known)
  BY <1>0, <1>3, <1>6, ResetKeepsText
<1>7. CASE server.up /\ ResetAfterEmpty(c, w, u)
  BY <1>0, <1>4, <1>7, ResetKeepsText
<1>8. ASSUME server.up, NEW result \in Outcomes(s, server.input, DropLast(server.input)),
             Removed(c, w, result, u)
      PROVE  TInv'
  BY <1>0, <1>4, <1>8, RemovedKeepsText
<1> QED
  BY <1>2, <1>5, <1>6, <1>7, <1>8

\* What is left without the first n elements.
LEMMA DropFirstOf ==
  ASSUME NEW r \in Seq(Tokens), NEW n \in Nat
  PROVE  /\ DropFirst(n, r) \in Seq(Tokens)
         /\ n <= Len(r) => Len(DropFirst(n, r)) = Len(r) - n
         /\ r = <<>> => DropFirst(n, r) = <<>>
<1>1. SubSeq(r, n + 1, Len(r)) \in Seq(Tokens)
  OBVIOUS
<1>2. n <= Len(r) => Len(SubSeq(r, n + 1, Len(r))) = Len(r) - n
  OBVIOUS
<1>3. r = <<>> => SubSeq(r, n + 1, Len(r)) = <<>>
  OBVIOUS
<1> QED
  BY <1>1, <1>2, <1>3 DEF DropFirst

\* What ShrinkText does with the server, for a client whose service is `seen`.
Shrinking(w, s, seen, h, changed, known, after, left, text, result, e, fresh) ==
  /\ seen \in {s, Observe(s, server.session)} /\ h = seen.reset
  /\ changed <=> h /\ HasState(w)
  /\ known = [seen EXCEPT !.reset = FALSE]
  /\ changed => after = known /\ left = server.input
  /\ ~changed => /\ after = Observe(known, server.session)
                 /\ left \in Outcomes(known, server.input, DropFirst(w.n, server.input))
  /\ result \in Appending(after, left, text)
  /\ e = Observe(after, server.session).reset
  /\ fresh <=> changed \/ left = <<>> \/ e

\* A client that knows the server, or has nothing at it, shrinks what is there.
LEMMA ShrinkAlone ==
  ASSUME Shape, NEW c \in Clients, NEW w \in Comps, NEW s \in Service,
         c \notin ghost.touched =>
           s = [session |-> server.session, reset |-> FALSE] /\ server.input = w.raw,
         Alone(c, w), NEW text \in Seq(Tokens),
         NEW seen, NEW h, NEW changed, NEW known, NEW after, NEW left, NEW result, NEW e, NEW fresh,
         Shrinking(w, s, seen, h, changed, known, after, left, text, result, e, fresh)
  PROVE  /\ fresh <=> DropFirst(w.n, w.raw) = <<>>
         /\ result = DropFirst(w.n, w.raw) \o text
<1> USE DEF Shrinking
<1>0. w.raw \in Seq(Tokens) /\ w.n \in Nat
  BY DEF Comps
<1>1. CASE c \notin ghost.touched
  <2>1. s = [session |-> server.session, reset |-> FALSE] /\ server.input = w.raw
    BY <1>1
  <2>s. seen = s /\ seen.reset = FALSE
    BY <2>1, KnowsServer
  <2>2. seen = s /\ known = s /\ h = FALSE
    BY <2>1, <2>s, KnowsServer
  <2>3. ~changed
    BY <2>2
  <2>4. after = s /\ e = FALSE
    BY <2>1, <2>2, <2>3, KnowsServer
  <2>5. left = DropFirst(w.n, w.raw)
    BY <2>1, <2>2, <2>3 DEF Outcomes
  <2>6. fresh <=> left = <<>>
    BY <2>3, <2>4
  <2>7. left \in Seq(Tokens)
    BY <1>0, <2>5, DropFirstOf
  <2>8. result = left \o text
    <3>1. CASE left = <<>>
      <4>1. <<>> \o text = text
        OBVIOUS
      <4> QED
        BY <3>1, <4>1 DEF Appending
    <3>2. CASE left # <<>>
      BY <2>1, <2>4, <3>2 DEF Appending, Outcomes
    <3> QED
      BY <3>1, <3>2
  <2> QED
    BY <2>5, <2>6, <2>8
<1>2. CASE w.raw = <<>> /\ server.input = <<>>
  <2>1. DropFirst(w.n, w.raw) = <<>> /\ DropFirst(w.n, server.input) = <<>>
    BY <1>0, <1>2, DropFirstOf
  <2>2. left = <<>>
    BY <1>2, <2>1 DEF Outcomes
  <2>3. result = text /\ <<>> \o text = text
    BY <2>2 DEF Appending
  <2> QED
    BY <2>1, <2>2, <2>3
<1> QED
  BY <1>1, <1>2 DEF Alone

\* Two parts of the text are as long as the whole.
LEMMA Joined ==
  ASSUME NEW x \in Seq(Tokens), NEW y \in Seq(Tokens)
  PROVE  x \o y \in Seq(Tokens) /\ Len(x \o y) = Len(x) + Len(y)
OBVIOUS

\* The clause goes into the document.
LEMMA ShiftedText ==
  ASSUME doc \in [Clients -> Seq(Tokens)], NEW c \in Clients, tip[c].text \in Seq(Tokens),
         NEW n \in Nat, tip[c].open => n <= Len(tip[c].text)
  PROVE  /\ Shifted(c, n) \in [Clients -> Seq(Tokens)]
         /\ \A d \in Clients \ {c} : Shifted(c, n)[d] = doc[d]
         /\ tip[c].open => Len(Shifted(c, n)[c]) = Len(doc[c]) + n
<1>1. CASE ~tip[c].open
  BY <1>1 DEF Shifted
<1>2. CASE tip[c].open
  <2> DEFINE v == SubSeq(tip[c].text, 1, n)
  <2>1. v \in Seq(Tokens) /\ Len(v) = n
    BY <1>2
  <2>2. Shifted(c, n) = [doc EXCEPT ![c] = @ \o v]
    BY <1>2 DEF Shifted
  <2> HIDE DEF v
  <2>3. doc[c] \in Seq(Tokens)
    OBVIOUS
  <2>4. doc[c] \o v \in Seq(Tokens) /\ Len(doc[c] \o v) = Len(doc[c]) + n
    BY <2>1, <2>3, Joined
  <2> QED
    BY <2>2, <2>4
<1> QED
  BY <1>1, <1>2

\* The server answered a shrink.
LEMMA ShrunkKeepsText ==
  ASSUME CountsClauses, TInv, IInv', NEW c \in Clients, NEW a \in {"shrink", "shrinkAppend"},
         Acting(c, a), server.up, UNCHANGED <<mode, due, focus>>,
         NEW text \in Seq(Tokens), a = "shrink" => text = <<>>,
         NEW g, Near(c, g) \/ g = ghost, g.owed = ghost.owed,
         a = "shrinkAppend" => c \in g.excused, c \in ghost.excused => c \in g.excused,
         NEW result \in Seq(Tokens), NEW fresh,
         NEW s, s = [session |-> server.session, reset |-> FALSE],
         Alone(c, run[c].work) =>
           /\ fresh <=> DropFirst(run[c].work.n, run[c].work.raw) = <<>>
           /\ result = DropFirst(run[c].work.n, run[c].work.raw) \o text,
         Shrunk(c, run[c].work, text, result, fresh, s, g)
  PROVE  TInv'
<1> DEFINE w    == run[c].work
           t    == tip[c]
           u    == tip'[c]
           o    == ghost.owed[c] - Len(doc[c])
           m    == Meets(Uses(g, c), c, w)
<1>0. a \in Editing /\ a # "append" /\ a # "remove" /\ CountsTokens
        /\ (a = "shrink" => a \notin Typing)
  BY DEF Editing, Typing, CountsClauses
<1>1. /\ Shape /\ Rest /\ ghost \in Ghost
      /\ w \in Comps
      /\ t \in Tips /\ o \in Int /\ server.session \in Nat \ {0} /\ server.input \in Seq(Tokens)
      /\ t.open => t.text = w.text
      /\ ~t.open => t.text = <<>>
      /\ w.n <= Len(w.text)
      /\ ~Excused(c) =>
           /\ w.raw # <<>> => t.open /\ t.text = w.raw /\ w.n <= Len(w.raw)
           /\ o = Len(t.text) + (IF a \in Typing THEN 1 ELSE 0)
                              - (IF a = "remove" /\ w.raw # <<>> THEN 1 ELSE 0)
      /\ c \notin ghost.touched =>
           /\ server.up
           /\ run[c].svc = [session |-> server.session, reset |-> FALSE]
           /\ server.input = w.raw
  BY <1>0, EditRunning
<1>2. w.raw \in Seq(Tokens) /\ Len(w.raw) \in Nat /\ w.n \in Nat /\ t.text \in Seq(Tokens)
        /\ Len(t.text) \in Nat
  BY <1>1 DEF Comps, Tips
<1>s. s \in Service
  BY <1>1 DEF Service
<1>3. CASE result = <<>>
  <2>1. ResetAfterEmpty(c, w, s)
    BY <1>3 DEF Shrunk
  <2>2. c \notin ghost.touched => s = [session |-> server.session, reset |-> FALSE]
    OBVIOUS
  <2> QED
    BY <1>0, <1>s, <2>1, ResetKeepsText
<1>4. CASE result # <<>>
  <2> DEFINE base == IF fresh THEN [Ended(w) EXCEPT !.raw = text]
                     ELSE [w EXCEPT !.raw = DropFirst(w.n, @) \o text]
             k    == Select(base, result, 0)
  <2>1. /\ server' = [server EXCEPT !.input = result]
        /\ tip' = (IF fresh THEN [tip EXCEPT ![c] = Tip(k.text)] ELSE SetText(c, k.text))
        /\ doc' = (IF fresh THEN doc ELSE Shifted(c, w.n))
        /\ \E upd : Deliver(c, upd)
        /\ Continue(c, k, "composing", s, m)
    BY <1>4 DEF Shrunk
  <2>2. /\ Beside(c, m) /\ m.owed = g.owed
        /\ c \in m.excused <=> c \in g.excused \/ ~Alone(c, w)
        /\ c \notin m.touched => Alone(c, w)
    BY <1>1, MeetsHistory
  <2> HIDE DEF m
  <2>3. /\ k \in Comps /\ k.cands = result /\ k.text = result /\ k.n <= Len(result)
        /\ k.raw = IF fresh THEN text ELSE DropFirst(w.n, w.raw) \o text
    <3>1. DropFirst(w.n, w.raw) \o text \in Seq(Tokens)
      BY <1>2, CutTyped
    <3>2. Ended(w) \in Comps
      BY <1>1, EndedFields
    <3>3. base \in Comps /\ base.raw = IF fresh THEN text ELSE DropFirst(w.n, w.raw) \o text
      <4>1. CASE fresh
        <5> DEFINE e == Ended(w)
        <5>1. e \in Comps /\ base = [e EXCEPT !.raw = text]
          BY <3>2, <4>1
        <5> HIDE DEF e, base
        <5> QED
          BY <4>1, <5>1 DEF Comps
      <4>2. CASE ~fresh
        <5> DEFINE r == DropFirst(w.n, w.raw) \o text
        <5>1. r \in Seq(Tokens) /\ base = [w EXCEPT !.raw = r]
          BY <3>1, <4>2
        <5>2. base \in Comps /\ base.raw = r
          <6> HIDE DEF r, base, w
          <6> QED
            BY <1>1, <5>1 DEF Comps
        <5> QED
          BY <4>2, <5>2
      <4> QED
        BY <4>1, <4>2
    <3> HIDE DEF base
    <3>4. k \in Comps /\ k.raw = base.raw /\ k.cands = result /\ k.text = result
      BY <1>0, <1>4, <3>3, SelectTyped
    <3>5. k.n <= Len(result)
      BY <1>4, <3>3, SelectClause
    <3> HIDE DEF k
    <3> QED
      BY <3>3, <3>4, <3>5
  <2> HIDE DEF base, k
  <2>4. /\ u.open => u.text = k.text
        /\ ~u.open => u.text = <<>>
        /\ t.open => u.open
        /\ \A d \in Clients \ {c} : tip'[d] = tip[d]
    <3>1. CASE fresh
      BY <1>1, <2>1, <3>1 DEF Shape, Tip
    <3>2. CASE ~fresh
      <4>1. tip' = SetText(c, k.text)
        BY <2>1, <3>2
      <4>2. Follows(tip'[c], tip[c], k.text) /\ \A d \in Clients \ {c} : tip'[d] = tip[d]
        BY <1>1, <4>1, SetTextFollows
      <4> QED
        BY <4>2 DEF Follows
    <3> QED
      BY <3>1, <3>2
  <2>5. /\ doc' \in [Clients -> Seq(Tokens)] /\ \A d \in Clients \ {c} : doc'[d] = doc[d]
        /\ ~fresh /\ t.open => Len(doc'[c]) = Len(doc[c]) + w.n
    <3>1. doc \in [Clients -> Seq(Tokens)] /\ (t.open => w.n <= Len(t.text))
      BY <1>1 DEF Rest
    <3>2. /\ Shifted(c, w.n) \in [Clients -> Seq(Tokens)]
          /\ \A d \in Clients \ {c} : Shifted(c, w.n)[d] = doc[d]
          /\ t.open => Len(Shifted(c, w.n)[c]) = Len(doc[c]) + w.n
      BY <1>2, <3>1, ShiftedText
    <3> QED
      BY <2>1, <3>1, <3>2
  <2>6. Alone(c, w) => k.raw = result
    <3>1. <<>> \o text = text
      OBVIOUS
    <3> QED
      BY <2>3, <3>1
  <2>7. ASSUME c \notin m.excused
        PROVE  /\ u.open /\ u.text = result /\ k.raw = result
               /\ m.owed[c] - Len(doc'[c]) = Len(result)
    <3>1. a = "shrink" /\ text = <<>> /\ ~Excused(c) /\ Alone(c, w)
      BY <2>2, <2>7 DEF Excused
    <3>2. result = DropFirst(w.n, w.raw) /\ ~fresh /\ w.raw # <<>>
      <4>1. DropFirst(w.n, w.raw) \in Seq(Tokens) /\ (w.raw = <<>> => DropFirst(w.n, w.raw) = <<>>)
        BY <1>2, DropFirstOf
      <4>2. DropFirst(w.n, w.raw) \o <<>> = DropFirst(w.n, w.raw)
        BY <4>1
      <4> QED
        BY <1>4, <3>1, <4>1, <4>2
    <3>3. t.open /\ t.text = w.raw /\ w.n <= Len(w.raw)
      BY <1>1, <3>1, <3>2
    <3>4. u.open /\ u.text = result /\ k.raw = result
      BY <2>3, <2>4, <2>6, <3>1, <3>3
    <3>5. o = Len(w.raw)
      <4>1. o = Len(t.text) + (IF a \in Typing THEN 1 ELSE 0)
                              - (IF a = "remove" /\ w.raw # <<>> THEN 1 ELSE 0)
        BY <1>1, <3>1
      <4> HIDE DEF o, t, w
      <4> QED
        BY <1>0, <1>2, <3>1, <3>3, <4>1
    <3>6. Len(result) = Len(w.raw) - w.n
      BY <1>2, <3>2, <3>3, DropFirstOf
    <3>7. m.owed[c] - Len(doc'[c]) = Len(result)
      <4> DEFINE x == ghost.owed[c]
                 y == Len(doc[c])
                 z == Len(doc'[c])
                 n == w.n
                 l == Len(w.raw)
      <4>1. x \in Int /\ y \in Nat /\ z = y + n /\ n \in Nat /\ o = x - y /\ o = l
              /\ Len(result) = l - n /\ m.owed[c] = x
        BY <1>1, <1>2, <2>2, <2>5, <3>2, <3>3, <3>5, <3>6 DEF Ghost, Rest
      <4> HIDE DEF x, y, z, n, l, o
      <4>2. x - z = Len(result)
        BY <4>1
      <4> QED
        BY <4>1, <4>2 DEF z
    <3> QED
      BY <3>4, <3>7
  <2>8. server'.up = server.up /\ server'.session = server.session /\ (server.input)' = result
    BY <1>1, <2>1 DEF Shape
  <2>9. c \notin m.touched => server'.up /\ Known(s) /\ (server.input)' = k.raw
    BY <2>2, <2>6, <2>8 DEF Known
  <2> DEFINE to == "composing"
  <2>10. k.n <= Len(k.text) /\ to \in States /\ to # "none" /\ Continue(c, k, to, s, m)
    BY <2>1, <2>3 DEF States
  <2>11. c \notin m.excused =>
           /\ to # "none" => k.raw # <<>>
           /\ k.raw = <<>> => u.text = <<>>
           /\ k.raw # <<>> => u.open /\ k.cands = k.raw /\ k.text = k.raw /\ k.n <= Len(k.raw)
           /\ m.owed[c] - Len(doc'[c]) = Len(u.text)
    BY <1>4, <2>3, <2>7
  <2>12. \A d \in Clients \ {c} : tip'[d] = tip[d] /\ doc'[d] = doc[d]
    BY <2>4, <2>5
  <2> HIDE DEF w, t, o, to
  <2> QED
    BY <1>0, <1>s, <2>1, <2>2, <2>3, <2>4, <2>5, <2>9, <2>10, <2>11, <2>12, EditHandler
<1> QED
  BY <1>3, <1>4

\* ShrinkText moves the clause from the composition into the document.
LEMMA ShrinkKeepsText ==
  ASSUME CountsClauses, TInv, IInv', NEW c \in Clients, ShrinkText(c)
  PROVE  TInv'
<1> DEFINE w    == run[c].work
           s    == run[c].svc
           text == IF Acting(c, "shrink") THEN <<>> ELSE <<c>>
           g    == IF Acting(c, "shrink") THEN ghost ELSE Excuse(ghost, c)
<1>0. PICK a \in {"shrink", "shrinkAppend"} : Acting(c, a)
  BY DEF ShrinkText
<1>a. a \in Editing /\ a \in Actions /\ UNCHANGED <<mode, due, focus>>
        /\ (Acting(c, "shrink") <=> a = "shrink")
  BY <1>0 DEF ShrinkText, Editing, Actions, Acting
<1>1. /\ Shape /\ ghost \in Ghost /\ w \in Comps /\ s \in Service /\ server.session \in Nat \ {0}
      /\ server.input \in Seq(Tokens)
      /\ c \notin ghost.touched =>
           s = [session |-> server.session, reset |-> FALSE] /\ server.input = w.raw
  BY <1>0, <1>a, EditRunning
<1>2. text \in Seq(Tokens) /\ (a = "shrink" => text = <<>>)
  BY <1>a DEF Clients
<1>3. /\ Near(c, g) \/ g = ghost
      /\ g.owed = ghost.owed
      /\ a = "shrinkAppend" => c \in g.excused
      /\ c \in ghost.excused => c \in g.excused
  BY <1>1, <1>a, ExcuseNear, ExcuseHistory
<1>4. PICK seen \in {s} \union (IF server.up THEN {Observe(s, server.session)} ELSE {}) :
        \/ ~server.up /\ Abandon(c, seen)
        \/ /\ server.up
           /\ LET changed == seen.reset /\ HasState(w)
                  known   == [seen EXCEPT !.reset = FALSE]
                  after   == IF changed THEN known ELSE Observe(known, server.session)
              IN \E left \in IF changed THEN {server.input}
                             ELSE Outcomes(known, server.input, DropFirst(w.n, server.input)) :
                 \E result \in Appending(after, left, text) :
                   Shrunk(c, w, text, result,
                          changed \/ left = <<>> \/ Observe(after, server.session).reset,
                          [session |-> server.session, reset |-> FALSE], g)
  BY DEF ShrinkText, Work
<1>5. CASE ~server.up
  BY <1>0, <1>a, <1>4, <1>5, AbandonKeepsText
<1>6. CASE server.up
  <2> DEFINE changed == seen.reset /\ HasState(w)
             known   == [seen EXCEPT !.reset = FALSE]
             after   == IF changed THEN known ELSE Observe(known, server.session)
             k       == [session |-> server.session, reset |-> FALSE]
  <2>l. PICK left \in IF changed THEN {server.input}
                      ELSE Outcomes(known, server.input, DropFirst(w.n, server.input)) :
           \E result \in Appending(after, left, text) :
             Shrunk(c, w, text, result,
                    changed \/ left = <<>> \/ Observe(after, server.session).reset, k, g)
    BY <1>4, <1>6
  <2>1. PICK result \in Appending(after, left, text) :
               Shrunk(c, w, text, result,
                      changed \/ left = <<>> \/ Observe(after, server.session).reset, k, g)
    BY <2>l
  <2> DEFINE fresh == changed \/ left = <<>> \/ Observe(after, server.session).reset
  <2>2. Shrunk(c, w, text, result, fresh, k, g)
    BY <2>1
  <2>3. /\ seen \in {s, Observe(s, server.session)}
        /\ changed <=> seen.reset /\ HasState(w)
        /\ known = [seen EXCEPT !.reset = FALSE]
        /\ changed => after = known
        /\ ~changed => after = Observe(known, server.session)
        /\ changed => left = server.input
        /\ ~changed => left \in Outcomes(known, server.input, DropFirst(w.n, server.input))
        /\ fresh <=> changed \/ left = <<>> \/ Observe(after, server.session).reset
    BY <1>4, <1>6, <2>l
  <2> DEFINE h == seen.reset
             e == Observe(after, server.session).reset
  <2>h. /\ h = seen.reset /\ (changed <=> h /\ HasState(w))
        /\ e = Observe(after, server.session).reset
        /\ fresh <=> changed \/ left = <<>> \/ e
    BY <2>3
  <2>k. k = [session |-> server.session, reset |-> FALSE]
    OBVIOUS
  <2> HIDE DEF fresh, after, known, changed, text, g, k, h, e
  <2>4. left \in Seq(Tokens) /\ result \in Seq(Tokens)
    <3>1. DropFirst(w.n, server.input) \in Seq(Tokens)
      BY <1>1, DropFirstOf DEF Comps
    <3>2. left \in Seq(Tokens)
      BY <1>1, <2>l, <3>1 DEF Outcomes
    <3> QED
      BY <1>2, <2>1, <3>2, AppendTyped
  <2>s. Shrinking(w, s, seen, h, changed, known, after, left, text, result, e, fresh)
    BY <2>1, <2>3, <2>h DEF Shrinking
  <2>5. ASSUME Alone(c, w)
        PROVE  /\ fresh <=> DropFirst(w.n, w.raw) = <<>>
               /\ result = DropFirst(w.n, w.raw) \o text
    <3> HIDE DEF w, s
    <3> QED
      BY <1>1, <1>2, <2>s, <2>5, ShrinkAlone
  <2> QED
    BY <1>0, <1>a, <1>2, <1>3, <1>6, <2>2, <2>4, <2>5, <2>k, ShrunkKeepsText
<1> QED
  BY <1>5, <1>6

\* Every ClientAction keeps the text.
LEMMA HandleKeepsText ==
  ASSUME CountsClauses, TInv, IInv', NEW c \in Clients, Handle(c)
  PROVE  TInv'
BY StartKeepsText, ShowKeepsText, CommitKeepsText, FlagKeepsText, ChoiceKeepsText, ConvertKeepsText,
   EndKeepsText, ModeKeepsText, AppendKeepsText, RemoveKeepsText, ShrinkKeepsText DEF Handle

-----------------------------------------------------------------------------
(* What KeyPlanner plans keeps the text of a service at rest.                *)

\* Flags may come before any plan.
LEMMA FlagBeforeText ==
  ASSUME NEW p, NEW q, NEW a \in FlagActs, First(p, a, q), NEW to, NEW w, NEW t, NEW e, NEW o,
         Text(q, to, w, t, e, o)
  PROVE  Text(p, to, w, t, e, o) /\ ToCome(p, w.raw) = ToCome(q, w.raw)
<1>1. a \notin Editing /\ a \notin Typing /\ a \notin Taking /\ a # "start" /\ a # "end"
        /\ a # "append" /\ a # "commit" /\ a # "remove" /\ a \notin Choosing /\ a # "convert"
        /\ a \notin {"toKana", "toLatin"} /\ a \notin {"shrink", "shrinkAppend"}
  BY DEF FlagActs, Editing, Typing, Taking, Choosing
<1>a. ASSUME NEW i \in 1..Len(p), i # 1 PROVE i - 1 \in 1..Len(q) /\ p[i] = q[i - 1]
  BY <1>a DEF First
<1>b. ASSUME NEW i \in 1..Len(q) PROVE i + 1 \in 1..Len(p) /\ p[i + 1] = q[i]
  BY <1>b DEF First
<1>c. p[1] = a /\ Len(p) = Len(q) + 1 /\ Len(q) \in Nat
  BY DEF First
<1>2. Placed(q) /\ Leaves(q, to, w) /\ Displays(q, w, t)
  BY DEF Text
<1>3. Placed(p)
  <2>1. ASSUME NEW i \in 1..Len(p), p[i] \in Editing \union {"commit"} PROVE Len(p) <= i + 1
    <3>1. i # 1
      BY <1>1, <1>c, <2>1
    <3>2. i - 1 \in 1..Len(q) /\ q[i - 1] \in Editing \union {"commit"}
      BY <1>a, <2>1, <3>1
    <3>3. Len(q) <= (i - 1) + 1
      BY <1>2, <3>2 DEF Placed
    <3> QED
      BY <1>c, <3>3
  <2>2. ASSUME NEW i \in 1..Len(p), NEW j \in 1..Len(p), i < j
        PROVE  /\ p[i] = "commit" => p[j] = "end"
               /\ p[j] \in Taking => p[i] \in FlagActs
               /\ p[i] = "end" /\ p[j] = "append" => \E k \in 1..Len(p) : i < k /\ p[k] = "start"
    <3>1. CASE i = 1
      BY <1>1, <1>c, <3>1
    <3>2. CASE i # 1
      <4>1. j # 1
        BY <2>2
      <4>2. i - 1 \in 1..Len(q) /\ j - 1 \in 1..Len(q) /\ i - 1 < j - 1
              /\ p[i] = q[i - 1] /\ p[j] = q[j - 1]
        BY <1>a, <2>2, <3>2, <4>1
      <4>3. (p[i] = "commit" => p[j] = "end") /\ (p[j] \in Taking => p[i] \in FlagActs)
        BY <1>2, <4>2 DEF Placed
      <4>4. ASSUME p[i] = "end", p[j] = "append"
            PROVE  \E k \in 1..Len(p) : i < k /\ p[k] = "start"
        <5>1. PICK k \in 1..Len(q) : i - 1 < k /\ q[k] = "start"
          BY <1>2, <4>2, <4>4 DEF Placed
        <5>2. k + 1 \in 1..Len(p) /\ i < k + 1 /\ p[k + 1] = "start"
          BY <1>b, <5>1
        <5> QED
          BY <5>2
      <4> QED
        BY <4>3, <4>4
    <3> QED
      BY <3>1, <3>2
  <2> QED
    BY <2>1, <2>2 DEF Placed
<1>4. Leaves(p, to, w)
  <2>1. to = "none" => (w.raw = <<>> /\ w.text = <<>>) \/ (Has(p, {"end"}) /\ ~Has(p, {"append"}))
    BY <1>1, <1>2, FirstHasAll DEF Leaves
  <2>2. ASSUME NEW i \in 1..Len(p), to # "none", p[i] = "end"
        PROVE  i = Len(p) \/ \E j \in 1..Len(p) : i < j /\ p[j] = "append"
    <3>1. i # 1
      BY <1>1, <1>c, <2>2
    <3>2. i - 1 \in 1..Len(q) /\ q[i - 1] = "end"
      BY <1>a, <2>2, <3>1
    <3>3. i - 1 = Len(q) \/ \E j \in 1..Len(q) : i - 1 < j /\ q[j] = "append"
      BY <1>2, <2>2, <3>2 DEF Leaves
    <3>4. ASSUME NEW j \in 1..Len(q), i - 1 < j, q[j] = "append"
          PROVE  j + 1 \in 1..Len(p) /\ i < j + 1 /\ p[j + 1] = "append"
      BY <1>b, <3>4
    <3> QED
      BY <1>c, <3>3, <3>4
  <2>3. /\ Has(p, {"toKana", "toLatin"}) => to = "none"
        /\ Has(p, Choosing \union {"convert"}) => to = "previewing" /\ ~Has(p, {"start", "append"})
        /\ Has(p, {"shrink", "shrinkAppend"}) => w.n <= Len(w.text)
        /\ to = "composing" /\ ~Has(p, Editing) => w.n <= Len(w.text)
    BY <1>1, <1>2, RestHas DEF Leaves
  <2> QED
    BY <2>1, <2>2, <2>3 DEF Leaves
<1>5. Displays(p, w, t)
  <2>1. ASSUME NEW i \in 1..Len(p), p[i] = "start"
        PROVE  w.text = <<>> \/ \E j \in 1..Len(p) : j < i /\ p[j] = "end"
    <3>1. i # 1
      BY <1>1, <1>c, <2>1
    <3>2. i - 1 \in 1..Len(q) /\ q[i - 1] = "start"
      BY <1>a, <2>1, <3>1
    <3>3. w.text = <<>> \/ \E j \in 1..Len(q) : j < i - 1 /\ q[j] = "end"
      BY <1>2, <3>2 DEF Displays
    <3>4. ASSUME NEW j \in 1..Len(q), j < i - 1, q[j] = "end"
          PROVE  j + 1 \in 1..Len(p) /\ j + 1 < i /\ p[j + 1] = "end"
      BY <1>b, <3>4
    <3> QED
      BY <3>3, <3>4
  <2> QED
    BY <1>2, <2>1 DEF Displays
<1>6. ToCome(p, w.raw) = ToCome(q, w.raw)
  BY <1>1, ComeRest
<1>7. ~e => Agrees(p, to, w, t)
  BY <1>1, FirstHasAll DEF Agrees, Text
<1> QED
  BY <1>3, <1>4, <1>5, <1>6, <1>7 DEF Text

\* The text service w is at rest, with the composition t in the document.
AtRestText(w, t, e, o) ==
  /\ t.open => t.text = w.text
  /\ ~t.open => t.text = <<>>
  /\ Stored(w)
  /\ ~e => /\ w.state # "none" => w.raw # <<>>
           /\ w.raw = <<>> => t.text = <<>>
           /\ w.raw # <<>> => t.open /\ w.cands = w.raw /\ w.text = w.raw /\ w.n <= Len(w.raw)
           /\ o = Len(t.text)

\* With an empty plan, Text is what holds at rest.
LEMMA RestingText ==
  ASSUME NEW w, NEW t, NEW e, NEW o, Len(t.text) \in Nat, Stored(w)
  PROVE  Text(<<>>, w.state, w, t, e, o) <=> AtRestText(w, t, e, o)
<1>1. ASSUME NEW acts PROVE ~Has(<<>>, acts)
  BY DEF Has
<1>2. Placed(<<>>) /\ Leaves(<<>>, w.state, w) /\ ToCome(<<>>, w.raw) = 0
  BY <1>1 DEF Placed, Leaves, ToCome, Stored
<1>3. Displays(<<>>, w, t) <=> (t.open => t.text = w.text) /\ (~t.open => t.text = <<>>)
  BY DEF Displays
<1>4. Agrees(<<>>, w.state, w, t) <=>
        /\ w.state # "none" => w.raw # <<>>
        /\ w.raw = <<>> => t.text = <<>>
        /\ w.raw # <<>> => t.open /\ w.cands = w.raw /\ w.text = w.raw /\ w.n <= Len(w.raw)
  BY <1>1 DEF Agrees
<1> QED
  BY <1>2, <1>3, <1>4 DEF Text, AtRestText

\* A plan for the text service w at rest.
WellMade(p, to, w) ==
  /\ Placed(p) /\ Leaves(p, to, w)
  /\ \A i \in 1..Len(p) :
       p[i] = "start" => w.text = <<>> \/ \E j \in 1..Len(p) : j < i /\ p[j] = "end"
  /\ to # "none" /\ w.state = "none" => Has(p, {"append"})
  /\ Has(p, {"append"}) => w.state # "none" \/ Has(p, {"start"})

\* A well-made plan keeps the text of the service at rest.
LEMMA WellMadeText ==
  ASSUME NEW p, NEW to, NEW w, NEW t, NEW e, NEW o, AtRestText(w, t, e, o), WellMade(p, to, w)
  PROVE  Text(p, to, w, t, e, o + ToCome(p, w.raw))
<1>1. Displays(p, w, t)
  BY DEF AtRestText, WellMade, Displays
<1>2. ~e => Agrees(p, to, w, t)
  BY DEF AtRestText, WellMade, Agrees
<1> QED
  BY <1>1, <1>2 DEF Text, AtRestText, WellMade

\* The plans for a text service that composes nothing.
LEMMA IdlePlansText ==
  ASSUME NEW w, w.raw = <<>>, w.text = <<>>
  PROVE  /\ WellMade(<<"start", "append">>, "composing", w)
         /\ WellMade(<<"start", "latinOn", "append">>, "composing", w)
         /\ \A act \in {"toKana", "toLatin"} : WellMade(<<act>>, "none", w)
         /\ WellMade(<<"start", "append", "end">>, "none", w)
<1> USE DEF WellMade, Placed, Leaves, Has, Editing, Taking, FlagActs, Choosing
<1>1. WellMade(<<"start", "append">>, "composing", w)
  OBVIOUS
<1>2. WellMade(<<"start", "latinOn", "append">>, "composing", w)
  OBVIOUS
<1>3. ASSUME NEW act \in {"toKana", "toLatin"} PROVE WellMade(<<act>>, "none", w)
  OBVIOUS
<1>4. WellMade(<<"start", "append", "end">>, "none", w)
  OBVIOUS
<1> QED
  BY <1>1, <1>2, <1>3, <1>4

\* The plans for one that composes.
LEMMA OpenPlansText ==
  ASSUME NEW w, w.state # "none"
  PROVE  /\ WellMade(<<"append">>, "composing", w)
         /\ WellMade(<<"remove">>, "composing", w)
         /\ \A act \in {"up", "down", "convert"} : WellMade(<<act>>, "previewing", w)
         /\ WellMade(<<"show", "down">>, "previewing", w)
         /\ WellMade(<<"end", "start", "append">>, "composing", w)
         /\ WellMade(<<"end", "start", "latinOn", "append">>, "composing", w)
         /\ WellMade(<<"latinOn", "append">>, "composing", w)
<1> USE DEF WellMade, Placed, Leaves, Has, Editing, Taking, FlagActs, Choosing
<1>1. WellMade(<<"append">>, "composing", w)
  OBVIOUS
<1>2. WellMade(<<"remove">>, "composing", w)
  OBVIOUS
<1>3. ASSUME NEW act \in {"up", "down", "convert"} PROVE WellMade(<<act>>, "previewing", w)
  OBVIOUS
<1>4. WellMade(<<"show", "down">>, "previewing", w)
  OBVIOUS
<1>5. WellMade(<<"end", "start", "append">>, "composing", w)
  OBVIOUS
<1>6. WellMade(<<"end", "start", "latinOn", "append">>, "composing", w)
  OBVIOUS
<1>7. WellMade(<<"latinOn", "append">>, "composing", w)
  OBVIOUS
<1> QED
  BY <1>1, <1>2, <1>3, <1>4, <1>5, <1>6, <1>7

\* Those that cut a clause off.
LEMMA CutPlansText ==
  ASSUME NEW w, w.state # "none", w.n <= Len(w.text)
  PROVE  /\ \A act \in {"shrink", "shrinkAppend"} : WellMade(<<act>>, "composing", w)
         /\ WellMade(<<"latinOn", "shrinkAppend">>, "composing", w)
<1> USE DEF WellMade, Placed, Leaves, Has, Editing, Taking, FlagActs, Choosing
<1>1. ASSUME NEW act \in {"shrink", "shrinkAppend"} PROVE WellMade(<<act>>, "composing", w)
  OBVIOUS
<1>2. WellMade(<<"latinOn", "shrinkAppend">>, "composing", w)
  OBVIOUS
<1> QED
  BY <1>1, <1>2

\* Those that leave nothing composed.
LEMMA EndPlansText ==
  ASSUME NEW w
  PROVE  /\ WellMade(<<"end">>, "none", w)
         /\ WellMade(<<"remove", "end">>, "none", w)
         /\ \A act \in {"commit", "toKana", "toLatin"} : WellMade(<<"end", act>>, "none", w)
<1> USE DEF WellMade, Placed, Leaves, Has, Editing, Taking, FlagActs, Choosing
<1>1. WellMade(<<"end">>, "none", w)
  OBVIOUS
<1>2. WellMade(<<"remove", "end">>, "none", w)
  OBVIOUS
<1>3. ASSUME NEW act \in {"commit", "toKana", "toLatin"} PROVE WellMade(<<"end", act>>, "none", w)
  OBVIOUS
<1> QED
  BY <1>1, <1>2, <1>3

\* A plan that keeps the text of w at rest.
PlanText(plan, w, t, e, o) ==
  /\ plan.acts \in Seq(Actions)
  /\ Text(plan.acts, plan.to, w, t, e, o + ToCome(plan.acts, w.raw))

\* A flag put before a plan leaves it fit.
LEMMA BeforeKeepsText ==
  ASSUME NEW plan, NEW w, NEW t, NEW e, NEW o, PlanText(plan, w, t, e, o), NEW condition,
         NEW a \in FlagActs
  PROVE  PlanText(Before(plan, condition, a), w, t, e, o)
<1>1. CASE condition
  <2> DEFINE p == <<a>> \o plan.acts
             q == plan.acts
             n == o + ToCome(q, w.raw)
  <2>1. a \in Actions /\ q \in Seq(Actions)
    BY DEF PlanText, FlagActs, Actions
  <2>2. First(p, a, q) /\ p \in Seq(Actions)
    BY <2>1, FirstBefore DEF First
  <2>3. Before(plan, condition, a) = Plan(plan.to, p)
    BY <1>1 DEF Before
  <2>4. Text(q, plan.to, w, t, e, n)
    BY DEF PlanText
  <2> HIDE DEF p, q, n
  <2>5. Text(p, plan.to, w, t, e, n) /\ ToCome(p, w.raw) = ToCome(q, w.raw)
    BY <2>2, <2>4, FlagBeforeText
  <2>6. Text(p, plan.to, w, t, e, o + ToCome(p, w.raw))
    BY <2>5 DEF n
  <2> QED
    BY <2>2, <2>3, <2>6 DEF PlanText, Plan
<1>2. CASE ~condition
  BY <1>2 DEF Before
<1> QED
  BY <1>1, <1>2

\* A well-made plan is one that keeps the text.
LEMMA WellMadePlan ==
  ASSUME NEW p \in Seq(Actions), NEW to, NEW w, NEW t, NEW e, NEW o, AtRestText(w, t, e, o),
         WellMade(p, to, w)
  PROVE  PlanText(Plan(to, p), w, t, e, o)
BY WellMadeText DEF PlanText, Plan

\* The plans while nothing is composed keep the text.
LEMMA NonePlansText ==
  ASSUME NEW w, w.state = "none", NEW t, NEW e, NEW o, AtRestText(w, t, e, o),
         NEW key \in Keys, NEW m, NEW starts, PlanNone(w, key, m, starts) # Unhandled
  PROVE  PlanText(PlanNone(w, key, m, starts), w, t, e, o)
<1> DEFINE plan == PlanNone(w, key, m, starts)
<1>1. w.raw = <<>> /\ w.text = <<>>
  BY DEF AtRestText, Stored
<1>2. \/ plan = Plan("composing", <<"start", "latinOn", "append">>)
      \/ plan = Plan("composing", <<"start", "append">>)
      \/ plan = Plan("none", <<"start", "append", "end">>)
      \/ plan = Plan("none", <<"toKana">>)
      \/ plan = Plan("none", <<"toLatin">>)
  BY Concatenations DEF PlanNone, LatinOn, ModeAction
<1> HIDE DEF plan
<1>3. /\ <<"start", "latinOn", "append">> \in Seq(Actions) /\ <<"start", "append">> \in Seq(Actions)
      /\ <<"start", "append", "end">> \in Seq(Actions) /\ <<"toKana">> \in Seq(Actions)
      /\ <<"toLatin">> \in Seq(Actions)
  BY DEF Actions
<1>4. PlanText(plan, w, t, e, o)
  BY <1>1, <1>2, <1>3, IdlePlansText, WellMadePlan
<1> QED
  BY <1>4 DEF plan

\* Behind the clause there is text.
LEMMA SuffixBehind ==
  ASSUME NEW w \in Comps, Suffix(w) # <<>>
  PROVE  w.n <= Len(w.text)
<1>1. w.text \in Seq(Tokens) /\ w.n \in Nat
  BY DEF Comps
<1>2. ASSUME ~(w.n <= Len(w.text)) PROVE FALSE
  <2>1. SubSeq(w.text, w.n + 1, Len(w.text)) = <<>>
    BY <1>1, <1>2
  <2> QED
    BY <2>1 DEF Suffix
<1> QED
  BY <1>2

\* A clause is cut off only with text behind it.
LEMMA OpenPlanCuts ==
  ASSUME NEW w, NEW key \in Keys, PlanOpen(w, key) = Plan("composing", <<"shrink">>)
  PROVE  Suffix(w) # <<>>
<1>1. "shrink" # "remove" /\ <<"shrink">> # <<"remove">>
  <2>1. <<"shrink">>[1] = "shrink" /\ <<"remove">>[1] = "remove"
    OBVIOUS
  <2> QED
    BY <2>1
<1>2. Plan("composing", <<"shrink">>) # Plan("composing", <<"remove">>)
  BY <1>1 DEF Plan
<1>3. \A acts : Plan("composing", <<"shrink">>) # Plan("none", acts)
                  /\ Plan("composing", <<"shrink">>) # Plan("previewing", acts)
  BY DEF Plan
<1>4. Plan("composing", <<"shrink">>) # Unhandled
  BY DEF Plan, Unhandled
<1> QED
  BY <1>2, <1>3, <1>4 DEF PlanOpen, RemoveLast, CommitClause

\* The plans that composing and previewing share keep the text.
LEMMA OpenPlanText ==
  ASSUME NEW w \in Comps, w.state # "none", NEW t, NEW e, NEW o, AtRestText(w, t, e, o),
         NEW key \in Keys, PlanOpen(w, key) # Unhandled
  PROVE  PlanText(PlanOpen(w, key), w, t, e, o)
<1> DEFINE plan == PlanOpen(w, key)
<1>1. plan = Plan("composing", <<"shrink">>) => w.n <= Len(w.text)
  BY OpenPlanCuts, SuffixBehind
<1>2. plan \in OpenPlans
  BY OpenPlan
<1> HIDE DEF plan
<1>3. /\ <<"remove", "end">> \in Seq(Actions) /\ <<"remove">> \in Seq(Actions)
      /\ <<"end">> \in Seq(Actions) /\ <<"shrink">> \in Seq(Actions)
      /\ <<"up">> \in Seq(Actions) /\ <<"down">> \in Seq(Actions)
      /\ <<"show", "down">> \in Seq(Actions) /\ <<"convert">> \in Seq(Actions)
      /\ <<"end", "toKana">> \in Seq(Actions) /\ <<"end", "toLatin">> \in Seq(Actions)
  BY DEF Actions
<1>4. PlanText(plan, w, t, e, o)
  <2>1. CASE plan = Plan("composing", <<"shrink">>)
    <3>1. WellMade(<<"shrink">>, "composing", w)
      BY <1>1, <2>1, CutPlansText
    <3> QED
      BY <1>3, <2>1, <3>1, WellMadePlan
  <2>2. CASE plan # Plan("composing", <<"shrink">>)
    <3>1. \/ plan = Plan("none", <<"remove", "end">>) \/ plan = Plan("composing", <<"remove">>)
          \/ plan = Plan("none", <<"end">>) \/ plan = Plan("previewing", <<"up">>)
          \/ plan = Plan("previewing", <<"down">>) \/ plan = Plan("previewing", <<"show", "down">>)
          \/ plan = Plan("previewing", <<"convert">>) \/ plan = Plan("none", <<"end", "toKana">>)
          \/ plan = Plan("none", <<"end", "toLatin">>)
      BY <1>2, <2>2 DEF OpenPlans
    <3> QED
      BY <1>3, <3>1, OpenPlansText, EndPlansText, WellMadePlan
  <2> QED
    BY <2>1, <2>2
<1> QED
  BY <1>4 DEF plan

\* The plans while composing keep the text.
LEMMA ComposingPlanText ==
  ASSUME NEW w \in Comps, w.state = "composing", NEW t, NEW e, NEW o, AtRestText(w, t, e, o),
         NEW key \in Keys, NEW m, NEW starts, NEW afterN,
         PlanComposing(w, key, m, starts, afterN) # Unhandled
  PROVE  PlanText(PlanComposing(w, key, m, starts, afterN), w, t, e, o)
<1> DEFINE plan == PlanComposing(w, key, m, starts, afterN)
<1>1. \/ plan = Plan("none", <<"end", "commit">>)
      \/ plan = Plan("composing", <<"append">>)
      \/ plan = Plan("composing", <<"shrinkAppend">>)
      \/ plan = Plan("composing", <<"latinOn", "append">>)
      \/ plan = Plan("composing", <<"latinOn", "shrinkAppend">>)
      \/ plan = PlanOpen(w, key)
  BY Concatenations DEF PlanComposing, LatinOn
<1>2. plan # Unhandled
  OBVIOUS
<1> HIDE DEF plan
<1>3. /\ <<"end", "commit">> \in Seq(Actions) /\ <<"append">> \in Seq(Actions)
      /\ <<"shrinkAppend">> \in Seq(Actions) /\ <<"latinOn", "append">> \in Seq(Actions)
      /\ <<"latinOn", "shrinkAppend">> \in Seq(Actions)
  BY DEF Actions
<1>4. w.state # "none" /\ w.n <= Len(w.text)
  BY DEF AtRestText, Stored
<1>5. PlanText(plan, w, t, e, o)
  BY <1>1, <1>2, <1>3, <1>4, OpenPlansText, CutPlansText, EndPlansText, OpenPlanText, WellMadePlan
<1> QED
  BY <1>5 DEF plan

\* The plans while previewing keep the text.
LEMMA PreviewingPlanText ==
  ASSUME NEW w \in Comps, w.state # "none", NEW t, NEW e, NEW o, AtRestText(w, t, e, o),
         NEW key \in Keys, NEW m, NEW starts, PlanPreviewing(w, key, m, starts) # Unhandled
  PROVE  PlanText(PlanPreviewing(w, key, m, starts), w, t, e, o)
<1> DEFINE plan == PlanPreviewing(w, key, m, starts)
<1>1. \/ plan = Plan("none", <<"end", "commit">>)
      \/ plan = Plan("composing", <<"end", "start", "append">>)
      \/ plan = Plan("composing", <<"end", "start", "latinOn", "append">>)
      \/ plan = PlanOpen(w, key)
  BY DEF PlanPreviewing
<1>2. plan # Unhandled
  OBVIOUS
<1> HIDE DEF plan
<1>3. /\ <<"end", "commit">> \in Seq(Actions) /\ <<"end", "start", "append">> \in Seq(Actions)
      /\ <<"end", "start", "latinOn", "append">> \in Seq(Actions)
  BY DEF Actions
<1>5. PlanText(plan, w, t, e, o)
  BY <1>1, <1>2, <1>3, OpenPlansText, EndPlansText, OpenPlanText, WellMadePlan
<1> QED
  BY <1>5 DEF plan

\* plan_actions_for_user_action keeps the text.
LEMMA PlanForText ==
  ASSUME NEW w \in Comps, NEW t, NEW e, NEW o, AtRestText(w, t, e, o),
         NEW key \in Keys, NEW m, NEW starts, NEW afterN,
         PlanFor(w, key, m, starts, afterN) # Unhandled
  PROVE  PlanText(PlanFor(w, key, m, starts, afterN), w, t, e, o)
<1>1. CASE w.state = "none"
  BY <1>1, NonePlansText DEF PlanFor
<1>2. CASE w.state = "composing"
  BY <1>2, ComposingPlanText DEF PlanFor
<1>3. CASE w.state \notin {"none", "composing"}
  BY <1>3, PreviewingPlanText DEF PlanFor
<1> QED
  BY <1>1, <1>2, <1>3

\* Nothing but a flag.
LEMMA FlagPlanText ==
  ASSUME NEW w, NEW t, Len(t.text) \in Nat, NEW e, NEW o \in Int, AtRestText(w, t, e, o),
         NEW a \in FlagActs
  PROVE  PlanText(Plan(w.state, <<a>>), w, t, e, o)
<1>1. Text(<<>>, w.state, w, t, e, o)
  BY RestingText DEF AtRestText
<1>2. ToCome(<<>>, w.raw) = 0
  BY DEF ToCome, Has
<1>3. PlanText(Plan(w.state, <<>>), w, t, e, o)
  <2>1. o + ToCome(<<>>, w.raw) = o
    BY <1>2
  <2>2. Text(<<>>, w.state, w, t, e, o + ToCome(<<>>, w.raw))
    BY <1>1, <2>1
  <2> QED
    BY <2>2 DEF PlanText, Plan
<1>4. PlanText(Before(Plan(w.state, <<>>), TRUE, a), w, t, e, o)
  BY <1>3, BeforeKeepsText
<1>5. Before(Plan(w.state, <<>>), TRUE, a) = Plan(w.state, <<a>>)
  <2>1. a \in Actions
    BY DEF FlagActs, Actions
  <2>2. <<a>> \o <<>> = <<a>>
    BY <2>1
  <2> QED
    BY <2>2 DEF Before, Plan
<1> QED
  BY <1>4, <1>5

\* process_key keeps the text.
LEMMA KeyPlanText ==
  ASSUME NEW w \in Comps, NEW t, Len(t.text) \in Nat, NEW e, NEW o \in Int, AtRestText(w, t, e, o),
         NEW key \in Keys, NEW m, NEW afterN, KeyPlan(w, key, m, afterN) # Unhandled
  PROVE  PlanText(KeyPlan(w, key, m, afterN), w, t, e, o)
<1> DEFINE starts == key = "latin" /\ m = "kana" /\ ~w.tl
           plan   == PlanFor(w, key, m, starts, afterN)
<1>1. CASE key = "shift" /\ w.tl
  BY <1>1, FlagPlanText DEF KeyPlan, FlagActs
<1>2. CASE ~(key = "shift" /\ w.tl)
  <2>1. plan # Unhandled
    BY <1>2 DEF KeyPlan
  <2> HIDE DEF starts
  <2>2. PlanText(plan, w, t, e, o)
    BY <2>1, PlanForText
  <2> DEFINE first == Before(plan, EndsLatin(w, key, plan), "latinOff")
  <2>3. PlanText(first, w, t, e, o)
    BY <2>2, BeforeKeepsText DEF FlagActs
  <2> HIDE DEF plan, first
  <2>4. PlanText(Before(first, w.pending /\ key # "shift", "pendingOff"), w, t, e, o)
    BY <2>3, BeforeKeepsText DEF FlagActs
  <2> QED
    BY <1>2, <2>1, <2>4 DEF KeyPlan, first, plan, starts
<1> QED
  BY <1>1, <1>2

\* The plan of the Eisu key keeps the text.
LEMMA EisuPlanText ==
  ASSUME NEW w \in Comps, NEW t, NEW e, NEW o, AtRestText(w, t, e, o), NEW m,
         EisuPlan(w, m) # Unhandled
  PROVE  PlanText(EisuPlan(w, m), w, t, e, o)
<1>1. "toggle" \in Keys
  BY DEF Keys, ModeKeys
<1>2. PlanFor(w, "toggle", m, FALSE, FALSE) # Unhandled
  BY DEF EisuPlan
<1>3. PlanText(PlanFor(w, "toggle", m, FALSE, FALSE), w, t, e, o)
  BY <1>1, <1>2, PlanForText
<1> QED
  BY <1>2, <1>3, BeforeKeepsText DEF EisuPlan, FlagActs

\* The plan of a released Shift keeps the text.
LEMMA ShiftUpPlanText ==
  ASSUME NEW w, NEW t, Len(t.text) \in Nat, NEW e, NEW o \in Int, AtRestText(w, t, e, o),
         ShiftUpPlan(w) # Unhandled
  PROVE  PlanText(ShiftUpPlan(w), w, t, e, o)
<1> DEFINE plan == Plan(w.state, <<"pendingOff">>)
<1>1. PlanText(plan, w, t, e, o)
  BY FlagPlanText DEF FlagActs
<1>2. PlanText(Before(plan, w.tl, "latinOff"), w, t, e, o)
  BY <1>1, BeforeKeepsText DEF FlagActs
<1>3. ShiftUpPlan(w) = Before(plan, w.tl, "latinOff")
  BY Concatenations DEF ShiftUpPlan, Before, Plan
<1> QED
  BY <1>2, <1>3

\* The plan of the callbacks keeps the text.
LEMMA EndPlanText ==
  ASSUME NEW w, NEW t, NEW e, NEW o, AtRestText(w, t, e, o)
  PROVE  PlanText(EndPlan, w, t, e, o)
<1>1. <<"end">> \in Seq(Actions)
  BY DEF Actions
<1> QED
  BY <1>1, EndPlansText, WellMadePlan DEF EndPlan

-----------------------------------------------------------------------------
(* Users, applications and TSF keep the text.                                *)

\* What is known of the text of an application whose handler is not running.
LEMMA TextAtRest ==
  ASSUME TInv, NEW c \in Clients, Idle(c)
  PROVE  /\ IInv /\ Shape /\ Rest /\ TextFits(c)
         /\ comp[c] \in Comps /\ svc[c] \in Service /\ Len(tip[c].text) \in Nat
         /\ ghost \in Ghost /\ ghost.owed[c] \in Int
         /\ ghost.owed[c] - Len(doc[c]) \in Int
         /\ AtRestText(comp[c], tip[c], Excused(c), ghost.owed[c] - Len(doc[c]))
         /\ c \notin ghost.touched =>
              /\ server.up
              /\ svc[c] = [session |-> server.session, reset |-> FALSE]
              /\ server.input = comp[c].raw
<1>1. IInv /\ Shape /\ Rest /\ TextFits(c)
  BY DEF TInv, IInv
<1>2. comp[c] \in Comps /\ svc[c] \in Service /\ tip[c] \in Tips /\ doc[c] \in Seq(Tokens)
        /\ ghost \in Ghost
  BY <1>1 DEF Shape, Rest
<1>3. ghost.owed[c] \in Int /\ Len(doc[c]) \in Nat /\ Len(tip[c].text) \in Nat
  BY <1>2 DEF Ghost, Tips
<1>4. PlanOf(c) = <<>> /\ ToOf(c) = comp[c].state /\ WorkOf(c) = comp[c] /\ SvcOf(c) = svc[c]
  BY DEF PlanOf, ToOf, WorkOf, SvcOf
<1>5. Stored(comp[c])
  BY <1>1 DEF TextFits
<1> DEFINE w == comp[c]
           t == tip[c]
           o == ghost.owed[c] - Len(doc[c])
<1>6. Text(<<>>, w.state, w, t, Excused(c), o)
  BY <1>1, <1>4 DEF TextFits, Excused
<1>7. Stored(w) /\ Len(t.text) \in Nat
  BY <1>3, <1>5
<1> HIDE DEF w, t, o
<1>8. AtRestText(w, t, Excused(c), o)
  BY <1>6, <1>7, RestingText
<1>9. AtRestText(comp[c], tip[c], Excused(c), ghost.owed[c] - Len(doc[c]))
  BY <1>8 DEF w, t, o
<1> QED
  BY <1>1, <1>2, <1>3, <1>4, <1>9 DEF TextFits, Untouched

\* A handler of c begins to run.
LEMMA BeginText ==
  ASSUME TInv, IInv', Rest', NEW c \in Clients, Idle(c), NEW plan, NEW why \in {"key", "sink"},
         PlanText(plan, comp[c], tip[c], Excused(c), ghost.owed[c] - Len(doc[c])),
         run' = [run EXCEPT ![c] = [plan |-> plan.acts, to |-> plan.to, why |-> why,
                                    work |-> comp[c], svc |-> svc[c]]],
         UNCHANGED <<server, comp, svc, tip, doc>>,
         ghost'.excused = ghost.excused, ghost'.touched = ghost.touched,
         ghost'.owed[c] = ghost.owed[c] + ToCome(plan.acts, comp[c].raw),
         \A d \in Clients \ {c} : ghost'.owed[d] = ghost.owed[d]
  PROVE  TInv'
<1> DEFINE r == [plan |-> plan.acts, to |-> plan.to, why |-> why, work |-> comp[c], svc |-> svc[c]]
<1>1. /\ Shape /\ Rest /\ TextFits(c) /\ ghost.owed[c] \in Int /\ doc[c] \in Seq(Tokens)
      /\ c \notin ghost.touched =>
              /\ server.up
              /\ svc[c] = [session |-> server.session, reset |-> FALSE]
              /\ server.input = comp[c].raw
  BY TextAtRest DEF Rest
<1>2. run'[c] = r /\ \A d \in Clients \ {c} : run'[d] = run[d]
  BY <1>1 DEF Shape
<1>3. PlanOf(c)' = plan.acts /\ ToOf(c)' = plan.to /\ WorkOf(c)' = comp[c] /\ SvcOf(c)' = svc[c]
  BY <1>2 DEF Idle, PlanOf, ToOf, WorkOf, SvcOf
<1>4. Beside(c, ghost')
  BY DEF Beside, Rest
<1>5. Untouched(c)'
  BY <1>1, <1>3 DEF Untouched
<1>6. ghost'.owed[c] - Len(doc'[c]) = (ghost.owed[c] - Len(doc[c])) + ToCome(plan.acts, comp[c].raw)
  <2>1. ToCome(plan.acts, comp[c].raw) \in Int /\ Len(doc[c]) \in Nat
    BY <1>1 DEF ToCome
  <2> DEFINE x == ToCome(plan.acts, comp[c].raw)
             y == Len(doc[c])
             z == ghost.owed[c]
  <2>2. ghost'.owed[c] = z + x /\ Len(doc'[c]) = y /\ x \in Int /\ y \in Int /\ z \in Int
    BY <1>1, <2>1
  <2> HIDE DEF x, y, z
  <2>3. ghost'.owed[c] - Len(doc'[c]) = (z - y) + x
    BY <2>2
  <2> QED
    BY <2>3 DEF x, y, z
<1>7. Text(plan.acts, plan.to, comp[c], tip[c], Excused(c),
           (ghost.owed[c] - Len(doc[c])) + ToCome(plan.acts, comp[c].raw))
  BY DEF PlanText
<1>8. Text(PlanOf(c)', ToOf(c)', WorkOf(c)', tip'[c], c \in ghost'.excused,
           ghost'.owed[c] - Len(doc'[c]))
  BY <1>3, <1>6, <1>7 DEF Excused
<1>9. TextFits(c)'
  BY <1>1, <1>5, <1>8 DEF TextFits
<1> QED
  BY <1>2, <1>4, <1>9, TextStep

\* No handler begins, runs or ends, and no document changes; the server is the
\* same or nobody counts on it.
LEMMA FrameText ==
  ASSUME TInv, IInv', Rest', UNCHANGED <<comp, svc, tip, doc, run>>,
         ghost'.excused = ghost.excused, ghost'.owed = ghost.owed,
         (server' = server /\ ghost'.touched = ghost.touched) \/ Clients \subseteq ghost'.touched
  PROVE  TInv'
<1>1. ASSUME NEW c \in Clients PROVE TextFits(c)'
  <2>1. TextFits(c)
    BY DEF TInv
  <2>2. PlanOf(c)' = PlanOf(c) /\ ToOf(c)' = ToOf(c) /\ WorkOf(c)' = WorkOf(c) /\ SvcOf(c)' = SvcOf(c)
    BY DEF Idle, PlanOf, ToOf, WorkOf, SvcOf
  <2>3. Untouched(c)'
    BY <2>1, <2>2 DEF TextFits, Untouched
  <2> QED
    BY <2>1, <2>2, <2>3 DEF TextFits
<1> QED
  BY <1>1 DEF TInv

\* What is the rest of a history with nothing but `alone` changed.
LEMMA AloneTyped ==
  ASSUME ghost \in Ghost, NEW a, a \subseteq Clients
  PROVE  LET g == [ghost EXCEPT !.alone = a]
         IN g \in Ghost /\ g.owed = ghost.owed /\ g.excused = ghost.excused
              /\ g.touched = ghost.touched
BY DEF Ghost

\* A key press adds to the history just what its plan will type.
LEMMA PressKeepsText ==
  ASSUME TInv, IInv', NEW c \in Clients, NEW key \in KeysOf(c), Press(c, key)
  PROVE  TInv'
<1>1. key \in Keys /\ Idle(c)
  BY SessionAssumption DEF Press, Ready
<1>2. /\ Shape /\ Rest /\ comp[c] \in Comps /\ Len(tip[c].text) \in Nat
      /\ ghost \in Ghost /\ ghost.owed[c] \in Int /\ ghost.owed[c] - Len(doc[c]) \in Int
      /\ AtRestText(comp[c], tip[c], Excused(c), ghost.owed[c] - Len(doc[c]))
  BY <1>1, TextAtRest
<1>3. PICK afterN \in BOOLEAN :
        LET plan == KeyPlan(comp[c], key, mode[c], afterN)
        IN /\ plan # Unhandled
           /\ Types(plan) => bounds.typed > 0
           /\ bounds' = [bounds EXCEPT !.typed = @ - IF Types(plan) THEN 1 ELSE 0]
           /\ Begin(c, plan, "key", Pressed(c, key, plan))
  BY DEF Press
<1> DEFINE plan == KeyPlan(comp[c], key, mode[c], afterN)
<1>4. PlanText(plan, comp[c], tip[c], Excused(c), ghost.owed[c] - Len(doc[c]))
  <2> DEFINE w == comp[c]
             t == tip[c]
             o == ghost.owed[c] - Len(doc[c])
  <2>1. w \in Comps /\ Len(t.text) \in Nat /\ o \in Int /\ AtRestText(w, t, Excused(c), o)
          /\ KeyPlan(w, key, mode[c], afterN) # Unhandled
    BY <1>2, <1>3
  <2> HIDE DEF w, t, o
  <2>2. PlanText(KeyPlan(w, key, mode[c], afterN), w, t, Excused(c), o)
    BY <1>1, <2>1, KeyPlanText
  <2> QED
    BY <2>2 DEF w, t, o
<1>5. /\ Types(plan) => bounds.typed > 0
      /\ bounds' = [bounds EXCEPT !.typed = @ - IF Types(plan) THEN 1 ELSE 0]
      /\ run' = [run EXCEPT ![c] = [plan |-> plan.acts, to |-> plan.to, why |-> "key",
                                    work |-> comp[c], svc |-> svc[c]]]
      /\ ghost' = Pressed(c, key, plan)
      /\ UNCHANGED <<server, window, comp, svc, mode, tip, doc, due, focus, shown>>
  BY <1>3 DEF Begin
<1> HIDE DEF plan
<1> DEFINE x == IF Types(plan) THEN 1 ELSE 0
           y == IF Does(plan, {"remove"}) /\ comp[c].raw # <<>> THEN 1 ELSE 0
           a == IF key = "shift" THEN ghost.alone \union {c} ELSE ghost.alone \ {c}
<1>6. x \in 0..1 /\ y \in 0..1 /\ ToCome(plan.acts, comp[c].raw) = x - y
  BY DEF ToCome, Types, Does, Has, Typing
<1>7. bounds' \in Budget
  <2>1. bounds \in Budget /\ (x = 1 => bounds.typed > 0) /\ bounds' = [bounds EXCEPT !.typed = @ - x]
    BY <1>2, <1>5 DEF Rest
  <2> HIDE DEF x
  <2>2. bounds.typed - x \in Nat
    BY <1>6, <2>1 DEF Budget
  <2> QED
    BY <2>1, <2>2 DEF Budget
<1>8. ghost' = [ghost EXCEPT !.owed[c] = ghost.owed[c] + x - y, !.alone = a]
  BY <1>2, <1>5 DEF Pressed, Ghost
<1>9. a \subseteq Clients
  BY <1>2 DEF Ghost
<1> HIDE DEF x, y, a
<1> DEFINE n == ghost.owed[c] + x - y
<1>10. n \in Int /\ n = ghost.owed[c] + ToCome(plan.acts, comp[c].raw)
  BY <1>2, <1>6
<1>n. ghost' = [ghost EXCEPT !.owed[c] = n, !.alone = a]
  BY <1>8
<1> HIDE DEF n
<1>11. /\ ghost' \in Ghost /\ ghost'.excused = ghost.excused /\ ghost'.touched = ghost.touched
       /\ ghost'.owed = [ghost.owed EXCEPT ![c] = n]
  BY <1>2, <1>9, <1>10, <1>n DEF Ghost
<1>12. ghost'.owed[c] = n /\ \A d \in Clients \ {c} : ghost'.owed[d] = ghost.owed[d]
  BY <1>2, <1>11 DEF Ghost
<1>13. Rest'
  BY <1>2, <1>5, <1>7, <1>11 DEF Rest
<1> QED
  BY <1>1, <1>4, <1>5, <1>10, <1>11, <1>12, <1>13, BeginText

\* Plans that neither type nor take back.
LEMMA NothingToCome ==
  ASSUME NEW w
  PROVE  /\ ToCome(EndPlan.acts, w.raw) = 0
         /\ ShiftUpPlan(w) # Unhandled => ToCome(ShiftUpPlan(w).acts, w.raw) = 0
         /\ \A m : EisuPlan(w, m) # Unhandled => ToCome(EisuPlan(w, m).acts, w.raw) = 0
<1>1. ASSUME NEW p, \A i \in 1..Len(p) : p[i] \notin Typing \union {"remove"}
      PROVE  ToCome(p, w.raw) = 0
  BY <1>1 DEF ToCome, Has
<1>2. ToCome(EndPlan.acts, w.raw) = 0
  <2>1. EndPlan.acts = <<"end">>
    BY DEF EndPlan, Plan
  <2>2. \A i \in 1..Len(<<"end">>) : <<"end">>[i] \notin Typing \union {"remove"}
    BY DEF Typing
  <2> QED
    BY <1>1, <2>1, <2>2
<1>3. ASSUME ShiftUpPlan(w) # Unhandled PROVE ToCome(ShiftUpPlan(w).acts, w.raw) = 0
  <2>1. ShiftUpPlan(w).acts = <<"latinOff", "pendingOff">> \/ ShiftUpPlan(w).acts = <<"pendingOff">>
    BY <1>3, Concatenations DEF ShiftUpPlan, Plan
  <2>2. /\ \A i \in 1..Len(<<"latinOff", "pendingOff">>) :
             <<"latinOff", "pendingOff">>[i] \notin Typing \union {"remove"}
        /\ \A i \in 1..Len(<<"pendingOff">>) : <<"pendingOff">>[i] \notin Typing \union {"remove"}
    BY DEF Typing
  <2> QED
    BY <1>1, <2>1, <2>2
<1>4. ASSUME NEW m, EisuPlan(w, m) # Unhandled PROVE ToCome(EisuPlan(w, m).acts, w.raw) = 0
  <2> DEFINE plan == PlanFor(w, "toggle", m, FALSE, FALSE)
  <2>1. "toggle" \in ModeKeys /\ "toggle" \notin TextKeys
    BY DEF ModeKeys, TextKeys
  <2>2. ASSUME w.state = "none" PROVE plan.acts = <<"toKana">> \/ plan.acts = <<"toLatin">>
    BY <2>1, <2>2 DEF PlanFor, PlanNone, ModeAction, Plan
  <2>3. PlanOpen(w, "toggle") = Plan("none", <<"end", "toLatin">>)
    BY <2>1 DEF PlanOpen, ModeActionComposing
  <2>4. ASSUME w.state # "none" PROVE plan.acts = <<"end", "toLatin">>
    <3>1. plan = PlanOpen(w, "toggle")
      BY <2>1, <2>4 DEF PlanFor, PlanComposing, PlanPreviewing, CommitsMark
    <3> HIDE DEF plan
    <3>2. plan.acts = Plan("none", <<"end", "toLatin">>).acts
      BY <2>3, <3>1
    <3> QED
      BY <3>2 DEF Plan
  <2>5. plan.acts \in {<<"toKana">>, <<"toLatin">>, <<"end", "toLatin">>}
    BY <2>2, <2>4
  <2>6. EisuPlan(w, m) = Before(plan, w.tl, "latinOff")
    BY <1>4 DEF EisuPlan
  <2> HIDE DEF plan
  <2>7. EisuPlan(w, m).acts = plan.acts \/ EisuPlan(w, m).acts = <<"latinOff">> \o plan.acts
    BY <2>6 DEF Before, Plan
  <2> DEFINE p == EisuPlan(w, m).acts
  <2>8. p \in {<<"toKana">>, <<"toLatin">>, <<"end", "toLatin">>, <<"latinOff">> \o <<"toKana">>,
               <<"latinOff">> \o <<"toLatin">>, <<"latinOff">> \o <<"end", "toLatin">>}
    BY <2>5, <2>7
  <2> HIDE DEF p
  <2>9. \A i \in 1..Len(p) : p[i] \notin Typing \union {"remove"}
    BY <2>8 DEF Typing
  <2>10. ToCome(p, w.raw) = 0
    BY <1>1, <2>9
  <2> QED
    BY <2>10 DEF p
<1> QED
  BY <1>2, <1>3, <1>4

\* A handler begins to run that adds nothing to the history.
LEMMA QuietBegin ==
  ASSUME TInv, IInv', Rest', NEW c \in Clients, Idle(c), NEW plan, NEW why \in {"key", "sink"},
         PlanText(plan, comp[c], tip[c], Excused(c), ghost.owed[c] - Len(doc[c])),
         ToCome(plan.acts, comp[c].raw) = 0,
         run' = [run EXCEPT ![c] = [plan |-> plan.acts, to |-> plan.to, why |-> why,
                                    work |-> comp[c], svc |-> svc[c]]],
         UNCHANGED <<server, comp, svc, tip, doc>>,
         ghost'.excused = ghost.excused, ghost'.touched = ghost.touched,
         ghost'.owed = ghost.owed
  PROVE  TInv'
<1>1. ghost.owed[c] \in Int
  BY TextAtRest
<1>2. ghost'.owed[c] = ghost.owed[c] + ToCome(plan.acts, comp[c].raw)
  BY <1>1
<1> QED
  BY <1>2, BeginText

\* Releasing Shift keeps the text.
LEMMA ReleaseKeepsText ==
  ASSUME TInv, IInv', NEW c \in Clients, ReleaseShift(c)
  PROVE  TInv'
<1> DEFINE w    == comp[c]
           t    == tip[c]
           o    == ghost.owed[c] - Len(doc[c])
           plan == ShiftUpPlan(w)
<1>1. /\ Idle(c) /\ ShiftUpPlan(w) # Unhandled /\ Begin(c, ShiftUpPlan(w), "key", ghost)
      /\ bounds' = bounds
  BY DEF ReleaseShift, Ready
<1>2. Rest /\ w \in Comps /\ Len(t.text) \in Nat /\ o \in Int /\ AtRestText(w, t, Excused(c), o)
  BY <1>1, TextAtRest
<1>3. PlanText(plan, w, t, Excused(c), o)
  <2> HIDE DEF w, t, o
  <2> QED
    BY <1>1, <1>2, ShiftUpPlanText
<1>4. ToCome(plan.acts, w.raw) = 0
  BY <1>1, NothingToCome
<1>5. Rest'
  BY <1>1, <1>2 DEF Begin, Rest
<1> QED
  BY <1>1, <1>3, <1>4, <1>5, QuietBegin DEF Begin

\* The Eisu key keeps the text.
LEMMA EisuKeepsText ==
  ASSUME TInv, IInv', NEW c \in Clients, PressEisu(c)
  PROVE  TInv'
<1> DEFINE w    == comp[c]
           t    == tip[c]
           o    == ghost.owed[c] - Len(doc[c])
           plan == EisuPlan(w, mode[c])
<1>1. /\ Idle(c) /\ EisuPlan(w, mode[c]) # Unhandled
      /\ Begin(c, plan, "key", [ghost EXCEPT !.alone = ghost.alone \ {c}])
      /\ bounds' = bounds
  BY DEF PressEisu, Ready
<1>2. Rest /\ w \in Comps /\ ghost \in Ghost /\ AtRestText(w, t, Excused(c), o)
  BY <1>1, TextAtRest
<1>3. PlanText(plan, w, t, Excused(c), o)
  <2> HIDE DEF w, t, o
  <2> QED
    BY <1>1, <1>2, EisuPlanText
<1>4. ToCome(plan.acts, w.raw) = 0
  BY <1>1, NothingToCome
<1>5. ghost' \in Ghost /\ ghost'.owed = ghost.owed /\ ghost'.excused = ghost.excused
        /\ ghost'.touched = ghost.touched
  BY <1>1, <1>2, AloneTyped DEF Begin, Ghost
<1>6. Rest'
  BY <1>1, <1>2, <1>5 DEF Begin, Rest
<1> HIDE DEF plan
<1> QED
  BY <1>1, <1>3, <1>4, <1>5, <1>6, QuietBegin DEF Begin

\* OnSetFocus and OnCompositionTerminated keep the text.
LEMMA CallbackEndKeepsText ==
  ASSUME TInv, IInv', NEW c \in Clients, OnSetFocus(c) \/ OnCompositionTerminated(c)
  PROVE  TInv'
<1> DEFINE w == comp[c]
           t == tip[c]
           o == ghost.owed[c] - Len(doc[c])
<1>1. /\ Idle(c)
      /\ run' = [run EXCEPT ![c] = [plan |-> EndPlan.acts, to |-> EndPlan.to, why |-> "sink",
                                    work |-> comp[c], svc |-> svc[c]]]
      /\ UNCHANGED <<server, comp, svc, mode, tip, doc, focus, shown, ghost>>
  BY DEF OnSetFocus, OnCompositionTerminated, Begin
<1>2. Rest /\ AtRestText(w, t, Excused(c), o)
  BY <1>1, TextAtRest
<1>3. PlanText(EndPlan, w, t, Excused(c), o)
  <2> HIDE DEF w, t, o
  <2> QED
    BY <1>2, EndPlanText
<1>4. ToCome(EndPlan.acts, w.raw) = 0
  BY NothingToCome
<1>5. due' \in [Clients -> SUBSET {"focus", "kill"}] /\ bounds' \in Budget
  <2>1. CASE OnSetFocus(c)
    BY <1>2, <2>1 DEF OnSetFocus, Rest
  <2>2. CASE OnCompositionTerminated(c)
    <3>1. bounds \in Budget /\ bounds.switches > 0
            /\ bounds' = [bounds EXCEPT !.switches = @ - 1] /\ due' = due
      BY <1>2, <2>2 DEF OnCompositionTerminated, Begin, Rest
    <3>2. bounds.switches - 1 \in Nat
      BY <3>1 DEF Budget
    <3> QED
      BY <1>2, <3>1, <3>2 DEF Budget, Rest
  <2> QED
    BY <2>1, <2>2
<1>6. Rest'
  BY <1>1, <1>2, <1>5 DEF Rest
<1> QED
  BY <1>1, <1>3, <1>4, <1>6, QuietBegin

\* A key left to the application keeps the text.
LEMMA UnhandledKeepsText ==
  ASSUME TInv, IInv', NEW c \in Clients, NEW key, PressUnhandled(c, key)
  PROVE  TInv'
<1>1. Idle(c)
  BY DEF PressUnhandled, Ready
<1>2. /\ Shape /\ Rest /\ TextFits(c) /\ comp[c] \in Comps /\ ghost \in Ghost
      /\ AtRestText(comp[c], tip[c], Excused(c), ghost.owed[c] - Len(doc[c]))
      /\ Len(tip[c].text) \in Nat
      /\ c \notin ghost.touched =>
           /\ server.up
           /\ svc[c] = [session |-> server.session, reset |-> FALSE]
           /\ server.input = comp[c].raw
  BY <1>1, TextAtRest
<1> DEFINE w == comp[c]
           k == [comp[c] EXCEPT !.pending = @ /\ key = "shift"]
           a == IF key = "shift" THEN ghost.alone ELSE ghost.alone \ {c}
<1>3. comp' = [comp EXCEPT ![c] = k] /\ ghost' = [ghost EXCEPT !.alone = a]
        /\ UNCHANGED <<server, window, svc, mode, tip, doc, due, run, focus, bounds, shown>>
  BY DEF PressUnhandled
<1>4. k.state = w.state /\ k.raw = w.raw /\ k.cands = w.cands /\ k.text = w.text /\ k.n = w.n
  BY <1>2 DEF Comps
<1> HIDE DEF k
<1>5. comp'[c] = k /\ \A d \in Clients \ {c} : comp'[d] = comp[d]
  BY <1>2, <1>3 DEF Shape
<1>6. a \subseteq Clients
  BY <1>2 DEF Ghost
<1> HIDE DEF a
<1>7. ghost' \in Ghost /\ ghost'.owed = ghost.owed /\ ghost'.excused = ghost.excused
        /\ ghost'.touched = ghost.touched
  BY <1>2, <1>3, <1>6, AloneTyped DEF Ghost
<1>8. PlanOf(c)' = <<>> /\ ToOf(c)' = k.state /\ WorkOf(c)' = k /\ SvcOf(c)' = svc[c]
  BY <1>1, <1>3, <1>5 DEF Idle, PlanOf, ToOf, WorkOf, SvcOf
<1>9. Untouched(c)'
  BY <1>2, <1>3, <1>4, <1>7, <1>8 DEF Untouched
<1> DEFINE t == tip[c]
           o == ghost.owed[c] - Len(doc[c])
<1>10. Text(<<>>, k.state, k, t, Excused(c), o) /\ Stored(k)
  <2>1. AtRestText(w, t, Excused(c), o) /\ Len(t.text) \in Nat
    BY <1>2
  <2> HIDE DEF w, t, o
  <2>2. Stored(k)
    BY <1>4, <2>1 DEF AtRestText, Stored
  <2>3. AtRestText(k, t, Excused(c), o)
    BY <1>4, <2>1, <2>2 DEF AtRestText
  <2> QED
    BY <2>1, <2>2, <2>3, RestingText
<1>11. Text(PlanOf(c)', ToOf(c)', WorkOf(c)', tip'[c], c \in ghost'.excused,
            ghost'.owed[c] - Len(doc'[c]))
  BY <1>3, <1>7, <1>8, <1>10 DEF Excused
<1>12. TextFits(c)'
  BY <1>5, <1>9, <1>10, <1>11 DEF TextFits
<1>13. Beside(c, ghost')
  BY <1>3, <1>7 DEF Beside
<1>14. Rest'
  BY <1>2, <1>3, <1>7 DEF Rest
<1> QED
  BY <1>3, <1>5, <1>12, <1>13, <1>14, TextStep

\* OnKillThreadFocus keeps the text.
LEMMA KillFocusKeepsText ==
  ASSUME TInv, IInv', NEW c \in Clients, OnKillThreadFocus(c)
  PROVE  TInv'
<1>1. Rest /\ Deliver(c, Hidden) /\ due' = [due EXCEPT ![c] = @ \ {"kill"}]
        /\ UNCHANGED <<server, comp, svc, mode, tip, doc, run, focus, ghost>>
  BY DEF OnKillThreadFocus, TInv
<1>2. bounds' \in Budget /\ shown' \in Clients \union {"nobody"}
  BY <1>1, Bounded
<1>3. Rest'
  BY <1>1, <1>2 DEF Rest
<1> QED
  BY <1>1, <1>3, FrameText

\* Turning to another application keeps the text.
LEMMA SwitchKeepsText ==
  ASSUME TInv, IInv', NEW c \in Clients, SwitchTo(c)
  PROVE  TInv'
<1>1. Rest /\ bounds.switches > 0 /\ bounds' = [bounds EXCEPT !.switches = @ - 1] /\ focus' = c
        /\ UNCHANGED <<server, window, comp, svc, mode, tip, doc, run, shown, ghost>>
  BY DEF SwitchTo, TInv
<1>2. PICK left \in {{"kill"}, {"kill", "focus"}}, entered \in {{}, {"focus"}} :
        due' = [d \in Clients |-> due[d] \union (IF d = c THEN entered
                                                 ELSE IF d = focus THEN left ELSE {})]
  BY DEF SwitchTo
<1>3. due' \in [Clients -> SUBSET {"focus", "kill"}]
  BY <1>1, <1>2 DEF Rest
<1>4. bounds' \in Budget
  <2>1. bounds \in Budget /\ bounds.switches - 1 \in Nat
    BY <1>1 DEF Rest, Budget
  <2> QED
    BY <1>1, <2>1 DEF Budget
<1>5. Rest'
  BY <1>1, <1>3, <1>4 DEF Rest
<1> QED
  BY <1>1, <1>5, FrameText

\* When the server dies nobody counts on it.
LEMMA CrashKeepsText == ASSUME TInv, IInv', Crash PROVE TInv'
<1>1. Rest /\ bounds.faults > 0 /\ bounds' = [bounds EXCEPT !.faults = @ - 1]
        /\ ghost' = [ghost EXCEPT !.touched = Clients]
        /\ UNCHANGED <<window, comp, svc, mode, tip, doc, due, run, focus, shown>>
  BY DEF Crash, TInv
<1>2. ghost' \in Ghost /\ ghost'.touched = Clients /\ ghost'.owed = ghost.owed
        /\ ghost'.excused = ghost.excused
  BY <1>1 DEF Rest, Ghost
<1>3. bounds' \in Budget
  <2>1. bounds \in Budget /\ bounds.faults - 1 \in Nat
    BY <1>1 DEF Rest, Budget
  <2> QED
    BY <1>1, <2>1 DEF Budget
<1>4. Rest'
  BY <1>1, <1>2, <1>3 DEF Rest
<1> QED
  BY <1>1, <1>2, <1>4, FrameText

\* A new server: still nobody counts on it.
LEMMA RestartKeepsText == ASSUME TInv, IInv', Restart PROVE TInv'
<1>1. Rest /\ ~server.up
        /\ UNCHANGED <<window, comp, svc, mode, tip, doc, due, run, focus, bounds, shown, ghost>>
  BY DEF Restart, TInv
<1>2. Clients \subseteq ghost'.touched
  BY <1>1 DEF TInv, TextFits, Untouched
<1>3. Rest'
  BY <1>1 DEF Rest
<1> QED
  BY <1>1, <1>2, <1>3, FrameText

-----------------------------------------------------------------------------
(* The invariant with the text.                                              *)

\* The invariant holds in the initial states.
LEMMA TextInit == Init => TInv
<1> SUFFICES ASSUME Init PROVE TInv
  OBVIOUS
<1>1. IInv
  BY InitHolds
<1>2. <<>> \in Seq(Tokens) /\ Len(<<>>) = 0
  OBVIOUS
<1>3. ghost.touched = {} /\ ghost.excused = {} /\ ghost.owed = [c \in Clients |-> 0] /\ ghost \in Ghost
  BY DEF Init, Ghost
<1>4. Rest
  BY <1>2, <1>3, SessionAssumption DEF Init, Rest, Modes
<1>5. ASSUME NEW c \in Clients PROVE TextFits(c)
  <2>1. comp[c] = NoComp /\ run[c] = Resting /\ tip[c] = NoTip /\ doc[c] = <<>> /\ ghost.owed[c] = 0
          /\ svc[c] = [session |-> 1, reset |-> FALSE]
    BY <1>3 DEF Init
  <2>2. Idle(c)
    BY <2>1 DEF Idle, Resting
  <2>3. PlanOf(c) = <<>> /\ ToOf(c) = "none" /\ WorkOf(c) = NoComp /\ SvcOf(c) = svc[c]
    BY <2>1, <2>2 DEF PlanOf, ToOf, WorkOf, SvcOf, NoComp
  <2>4. NoComp.state = "none" /\ NoComp.raw = <<>> /\ NoComp.text = <<>> /\ Stored(NoComp)
    BY DEF NoComp, Stored
  <2>5. NoTip.open = FALSE /\ NoTip.text = <<>>
    BY DEF NoTip
  <2> DEFINE w == NoComp
             t == NoTip
             o == 0
             e == c \in ghost.excused
  <2>6. AtRestText(w, t, e, o) /\ Len(t.text) \in Nat
    BY <1>2, <2>4, <2>5 DEF AtRestText
  <2> HIDE DEF w, t, o, e
  <2>7. Text(<<>>, w.state, w, t, e, o)
    BY <2>6, RestingText DEF AtRestText
  <2>8. Text(<<>>, "none", NoComp, NoTip, c \in ghost.excused, 0)
    BY <2>4, <2>7 DEF w, t, o, e
  <2>9. ghost.owed[c] - Len(doc[c]) = 0
    <3> DEFINE x == ghost.owed[c]
               y == Len(doc[c])
    <3>1. x = 0 /\ y = 0
      BY <1>2, <2>1
    <3> HIDE DEF x, y
    <3>2. x - y = 0
      BY <3>1
    <3> QED
      BY <3>2 DEF x, y
  <2>10. Untouched(c)
    BY <2>1, <2>3, <2>4 DEF Init, Untouched
  <2> QED
    BY <2>1, <2>3, <2>4, <2>8, <2>9, <2>10 DEF TextFits
<1> QED
  BY <1>1, <1>4, <1>5 DEF TInv

\* Every step keeps the invariant.
LEMMA TextNext ==
  ASSUME CountsClauses, TInv, [Next]_vars
  PROVE  TInv'
<1>0. IInv'
  BY NextKeeps DEF CountsClauses, TInv
<1>1. ASSUME NEW c \in Clients, NEW key \in KeysOf(c), Press(c, key) \/ PressUnhandled(c, key)
      PROVE  TInv'
  BY <1>0, <1>1, PressKeepsText, UnhandledKeepsText
<1>2. ASSUME NEW c \in Clients,
             ReleaseShift(c) \/ PressEisu(c) \/ SwitchTo(c) \/ KeyInDisabledContext(c)
      PROVE  TInv'
  BY <1>0, <1>2, ReleaseKeepsText, EisuKeepsText, SwitchKeepsText, DisabledKeepsText
<1>3. ASSUME NEW c \in Clients, Callback(c) PROVE TInv'
  BY <1>0, <1>3, CallbackEndKeepsText, KillFocusKeepsText DEF Callback
<1>4. ASSUME NEW c \in Clients, Handle(c) PROVE TInv'
  BY <1>0, <1>4, HandleKeepsText
<1>5. CASE UNCHANGED vars
  <2>1. Rest'
    BY <1>5 DEF vars, TInv, Rest
  <2> QED
    BY <1>0, <1>5, <2>1, FrameText DEF vars
<1> QED
  BY <1>0, <1>1, <1>2, <1>3, <1>4, <1>5, CrashKeepsText, RestartKeepsText DEF Next

\* What the invariant says of the text.
LEMMA TextImplies == TInv => TypeOK /\ ServerAgrees /\ KeptText
<1> SUFFICES ASSUME TInv PROVE TypeOK /\ ServerAgrees /\ KeptText
  OBVIOUS
<1>1. TypeOK
  BY DEF TInv, IInv, Shape, Rest, TypeOK, Windows, Tips
<1>2. ASSUME NEW c \in Clients, Idle(c), c \notin ghost.excused
      PROVE  /\ Len(doc[c]) + Len(tip[c].text) = ghost.owed[c]
             /\ comp[c].state # "none" => tip[c].text = comp[c].raw /\ comp[c].cands = comp[c].raw
  <2>1. /\ AtRestText(comp[c], tip[c], Excused(c), ghost.owed[c] - Len(doc[c]))
        /\ Len(tip[c].text) \in Nat /\ ghost.owed[c] \in Int /\ doc[c] \in Seq(Tokens)
    BY <1>2, TextAtRest DEF Rest
  <2>2. ~Excused(c)
    BY <1>2 DEF Excused
  <2>3. ghost.owed[c] - Len(doc[c]) = Len(tip[c].text) /\ Len(doc[c]) \in Nat
    BY <2>1, <2>2 DEF AtRestText
  <2>4. comp[c].state # "none" => tip[c].text = comp[c].raw /\ comp[c].cands = comp[c].raw
    BY <2>1, <2>2 DEF AtRestText
  <2>5. Len(doc[c]) + Len(tip[c].text) = ghost.owed[c]
    <3> DEFINE x == ghost.owed[c]
               y == Len(doc[c])
               z == Len(tip[c].text)
    <3>1. x \in Int /\ y \in Nat /\ z \in Nat /\ x - y = z
      BY <2>1, <2>3
    <3> HIDE DEF x, y, z
    <3>2. y + z = x
      BY <3>1
    <3> QED
      BY <3>2 DEF x, y, z
  <2> QED
    BY <2>4, <2>5
<1>3. ASSUME NEW c \in Clients, Idle(c), c \notin ghost.touched PROVE server.input = comp[c].raw
  BY <1>3, TextAtRest
<1> QED
  BY <1>1, <1>2, <1>3 DEF KeptText, ServerAgrees

-----------------------------------------------------------------------------
(* Theorems.                                                                 *)

\* Every variable has its type.
THEOREM SessionIsTyped == ASSUME CountsClauses PROVE Spec => []TypeOK
<1>1. Init => TInv
  BY TextInit
<1>2. TInv /\ [Next]_vars => TInv'
  BY TextNext
<1>3. TInv => TypeOK
  BY TextImplies
<1> QED
  BY <1>1, <1>2, <1>3, PTL DEF Spec

\* What is typed is neither lost nor doubled.
THEOREM TextIsKept == ASSUME CountsClauses PROVE Spec => []KeptText
<1>1. Init => TInv
  BY TextInit
<1>2. TInv /\ [Next]_vars => TInv'
  BY TextNext
<1>3. TInv => KeptText
  BY TextImplies
<1> QED
  BY <1>1, <1>2, <1>3, PTL DEF Spec

\* A server that nobody else touches holds what is composed, what is listed and
\* what is shown.
THEOREM ServerFollows == ASSUME CountsClauses PROVE Spec => []ServerAgrees
<1>1. Init => TInv
  BY TextInit
<1>2. TInv /\ [Next]_vars => TInv'
  BY TextNext
<1>3. TInv => ServerAgrees
  BY TextImplies
<1> QED
  BY <1>1, <1>2, <1>3, PTL DEF Spec

-----------------------------------------------------------------------------
(* Temporary Latin input.  The invariant says of a handler that is running     *)
(* with Latin input stored that its plan either confirms or ends what is        *)
(* composed, answers a lone Shift, or leaves Latin input on (LatinFits).        *)

Dropping == {"latinOff", "end", "toKana", "toLatin"}
Opening  == {"append", "shrink", "shrinkAppend"}

EndsWith(p, a) == Len(p) # 0 /\ p[Len(p)] = a

\* The plan p leaves Latin input on, as long as the server is the one it was: what
\* ends it on the way begins it again, and an edit comes last.
Lasts(p, tl) ==
  /\ tl \/ Has(p, {"latinOn"})
  /\ \A i \in 1..Len(p) :
       p[i] \in Dropping => \E j \in 1..Len(p) : i < j /\ p[j] = "latinOn"
  /\ ~Has(p, {"shrink", "shrinkAppend"})
  /\ \A i \in 1..Len(p) : p[i] \in {"append", "remove"} => i = Len(p)

\* The plan p has a reason to leave Latin input off, or leaves it on.
Confirmed(p, to, tl, alone) ==
  \/ to = "none" /\ ~Has(p, Opening)
  \/ EndsWith(p, "shrink")
  \/ EndsWith(p, "pendingOff") /\ alone
  \/ Lasts(p, tl)

\* A release of Shift stays pending only if no other key was pressed since.
PendingFits(p, pending, alone) ==
  \/ alone
  \/ ~Has(p, {"pendingOn"}) /\ (pending => Has(p, {"pendingOff"} \union Dropping))

LatinFits(c) ==
  LET alone == c \in ghost.alone
  IN IF Idle(c)
       THEN comp[c].pending => alone
       ELSE /\ comp[c].tl => Confirmed(run[c].plan, run[c].to, run[c].work.tl, alone)
            /\ PendingFits(run[c].plan, run[c].work.pending, alone)
            /\ run[c].why # "key" => (comp[c].pending => alone)

LInv == TInv /\ \A c \in Clients : LatinFits(c)

\* What LatinUntilConfirmed says of a step.
LatinLasts(c) ==
  comp[c].tl /\ ~comp'[c].tl /\ c \notin ghost'.excused =>
    \/ comp'[c].state = "none"
    \/ Acting(c, "shrink")
    \/ Acting(c, "pendingOff") /\ c \in ghost.alone
    \/ run[c].svc # [session |-> server.session, reset |-> FALSE]

\* The copies k have the flags of Latin input.
Flagged(k) == {"state", "tl", "pending"} \subseteq DOMAIN k

\* What the action a makes of the copies w, and of the state that is planned.
Carries(a, w, to, k, new) ==
  /\ a \notin Opening => new \in {to, "none"}
  /\ a = "latinOn" => k.tl
  /\ w.tl /\ ~k.tl => a \in Dropping \union Opening \/ (a = "remove" /\ new = "none")
  /\ k.pending => w.pending \/ a = "pendingOn"
  /\ a \in Dropping \union {"pendingOff"} => ~k.pending

-----------------------------------------------------------------------------
\* What is left of a plan still has its reason to leave Latin input off, or
\* leaves it on.
LEMMA ConfirmedRest ==
  ASSUME NEW p, NEW q, NEW a, First(p, a, q), Len(q) # 0, NEW w, NEW to, NEW k, NEW new,
         Carries(a, w, to, k, new), NEW alone, Confirmed(p, to, w.tl, alone)
  PROVE  Confirmed(q, new, k.tl, alone)
<1>0. /\ Len(q) \in Nat /\ Len(p) = Len(q) + 1 /\ 1 \in 1..Len(p) /\ p[1] = a
      /\ \A i \in 1..Len(q) : i + 1 \in 1..Len(p) /\ p[i + 1] = q[i]
      /\ p[Len(p)] = q[Len(q)]
  BY DEF First
<1>h. \A acts : Has(p, acts) <=> a \in acts \/ Has(q, acts)
  BY FirstHas
<1>1. CASE to = "none" /\ ~Has(p, Opening)
  <2>1. a \notin Opening /\ ~Has(q, Opening)
    BY <1>1, <1>h
  <2> QED
    BY <1>1, <2>1 DEF Carries, Confirmed
<1>2. CASE EndsWith(p, "shrink")
  BY <1>0, <1>2 DEF EndsWith, Confirmed
<1>3. CASE EndsWith(p, "pendingOff") /\ alone
  BY <1>0, <1>3 DEF EndsWith, Confirmed
<1>4. CASE Lasts(p, w.tl)
  <2>1. a \notin {"append", "remove"} /\ a \notin Opening
    <3>1. 1 # Len(p)
      BY <1>0
    <3>2. a \notin {"append", "remove"}
      BY <1>0, <1>4, <3>1 DEF Lasts
    <3>3. a \notin {"shrink", "shrinkAppend"}
      BY <1>4, <1>h DEF Lasts
    <3> QED
      BY <3>2, <3>3 DEF Opening
  <2>2. k.tl \/ Has(q, {"latinOn"})
    <3>1. CASE a \in Dropping
      <4>1. PICK j \in 1..Len(p) : 1 < j /\ p[j] = "latinOn"
        BY <1>0, <1>4, <3>1 DEF Lasts
      <4>2. j - 1 \in 1..Len(q) /\ q[j - 1] = "latinOn"
        BY <4>1 DEF First
      <4> QED
        BY <4>2 DEF Has
    <3>2. CASE a = "latinOn"
      BY <3>2 DEF Carries
    <3>3. CASE a \notin Dropping /\ a # "latinOn"
      <4>1. w.tl \/ Has(q, {"latinOn"})
        BY <1>4, <1>h, <3>3 DEF Lasts
      <4> QED
        BY <2>1, <3>3, <4>1 DEF Carries
    <3> QED
      BY <3>1, <3>2, <3>3
  <2>3. ASSUME NEW i \in 1..Len(q), q[i] \in Dropping
        PROVE  \E j \in 1..Len(q) : i < j /\ q[j] = "latinOn"
    <3>1. PICK j \in 1..Len(p) : i + 1 < j /\ p[j] = "latinOn"
      BY <1>0, <1>4, <2>3 DEF Lasts
    <3>2. j - 1 \in 1..Len(q) /\ i < j - 1 /\ q[j - 1] = "latinOn"
      BY <3>1 DEF First
    <3> QED
      BY <3>2
  <2>4. ~Has(q, {"shrink", "shrinkAppend"})
    BY <1>4, <1>h DEF Lasts
  <2>5. ASSUME NEW i \in 1..Len(q), q[i] \in {"append", "remove"} PROVE i = Len(q)
    <3>1. i + 1 = Len(p)
      BY <1>0, <1>4, <2>5 DEF Lasts
    <3> QED
      BY <1>0, <3>1
  <2> QED
    BY <2>2, <2>3, <2>4, <2>5 DEF Lasts, Confirmed
<1> QED
  BY <1>1, <1>2, <1>3, <1>4 DEF Confirmed

\* The last action of a plan turns Latin input off only for that reason, or as
\* the first edit that meets a new server.
LEMMA ConfirmedLast ==
  ASSUME NEW p, NEW q, NEW a, First(p, a, q), Len(q) = 0, NEW w, NEW to, NEW k, NEW new,
         Carries(a, w, to, k, new), NEW alone, Confirmed(p, to, w.tl, alone), ~k.tl
  PROVE  \/ new = "none" \/ a = "shrink" \/ (a = "pendingOff" /\ alone)
         \/ (a = "append" /\ w.tl)
<1>0. Len(p) = 1 /\ p[1] = a
  BY DEF First
<1>h. \A acts : Has(p, acts) <=> a \in acts
  BY <1>0 DEF Has
<1>1. CASE to = "none" /\ ~Has(p, Opening)
  BY <1>1, <1>h DEF Carries
<1>2. CASE EndsWith(p, "shrink")
  BY <1>0, <1>2 DEF EndsWith
<1>3. CASE EndsWith(p, "pendingOff") /\ alone
  BY <1>0, <1>3 DEF EndsWith
<1>4. CASE Lasts(p, w.tl)
  <2>1. a \notin Dropping
    <3>1. 1 \in 1..Len(p) /\ ~\E j \in 1..Len(p) : 1 < j
      BY <1>0
    <3> QED
      BY <1>0, <1>4, <3>1 DEF Lasts
  <2>2. a \notin {"shrink", "shrinkAppend"} /\ (w.tl \/ a = "latinOn")
    BY <1>4, <1>h DEF Lasts
  <2> QED
    BY <2>1, <2>2 DEF Carries, Opening
<1> QED
  BY <1>1, <1>2, <1>3, <1>4 DEF Confirmed

\* A release that is pending stays fit.
LEMMA PendingRest ==
  ASSUME NEW p, NEW q, NEW a, First(p, a, q), NEW w, NEW to, NEW k, NEW new,
         Carries(a, w, to, k, new), NEW alone, PendingFits(p, w.pending, alone)
  PROVE  PendingFits(q, k.pending, alone)
<1>1. \A acts : Has(p, acts) <=> a \in acts \/ Has(q, acts)
  BY FirstHas
<1>2. CASE alone
  BY <1>2 DEF PendingFits
<1>3. CASE ~alone
  <2>1. a # "pendingOn" /\ ~Has(q, {"pendingOn"})
    BY <1>1, <1>3 DEF PendingFits
  <2>2. w.pending => a \in {"pendingOff"} \union Dropping \/ Has(q, {"pendingOff"} \union Dropping)
    BY <1>1, <1>3 DEF PendingFits
  <2> QED
    BY <2>1, <2>2 DEF PendingFits, Carries
<1> QED
  BY <1>2, <1>3

\* The history of an edit does not touch `alone`.
LEMMA AloneLasts ==
  ASSUME NEW g \in Ghost, NEW c \in Clients
  PROVE  /\ Uses(g, c).alone = g.alone /\ Excuse(g, c).alone = g.alone
         /\ \A w : Meets(g, c, w).alone = g.alone
         /\ \A written : Over(g, c, written).alone = g.alone
<1>1. Uses(g, c).alone = g.alone
  BY DEF Uses, Ghost
<1>2. Excuse(g, c).alone = g.alone
  BY DEF Excuse, Ghost
<1>3. ASSUME NEW w PROVE Meets(g, c, w).alone = g.alone
  BY <1>2 DEF Meets, Ghost
<1>4. ASSUME NEW written PROVE Over(g, c, written).alone = g.alone
  BY DEF Over, Ghost
<1> QED
  BY <1>1, <1>2, <1>3, <1>4

\* What holds of an application whose handler and composition a step leaves alone.
LEMMA OthersLatin ==
  ASSUME NEW d \in Clients, LatinFits(d), run'[d] = run[d], comp'[d] = comp[d],
         d \in ghost'.alone <=> d \in ghost.alone
  PROVE  LatinFits(d)' /\ LatinLasts(d)
<1>1. (Idle(d))' <=> Idle(d)
  BY DEF Idle
<1> DEFINE x == d \in ghost.alone
           y == d \in ghost'.alone
<1>2. x = y
  OBVIOUS
<1>3. LatinFits(d)'
  <2>1. CASE Idle(d)
    BY <1>1, <2>1 DEF LatinFits
  <2>2. CASE ~Idle(d)
    <3>1. /\ comp[d].tl => Confirmed(run[d].plan, run[d].to, run[d].work.tl, x)
          /\ PendingFits(run[d].plan, run[d].work.pending, x)
          /\ run[d].why # "key" => (comp[d].pending => x)
      BY <2>2 DEF LatinFits
    <3> HIDE DEF x, y
    <3>2. /\ comp'[d].tl => Confirmed(run'[d].plan, run'[d].to, run'[d].work.tl, y)
          /\ PendingFits(run'[d].plan, run'[d].work.pending, y)
          /\ run'[d].why # "key" => (comp'[d].pending => y)
      BY <1>2, <3>1
    <3> QED
      BY <1>1, <2>2, <3>2 DEF LatinFits, y
  <2> QED
    BY <2>1, <2>2
<1> QED
  BY <1>3 DEF LatinLasts

\* The step of one application, when it does what LatinFits and LatinLasts say.
LEMMA LatinStep ==
  ASSUME LInv, TInv', NEW c \in Clients, LatinFits(c)', LatinLasts(c),
         \A d \in Clients \ {c} : run'[d] = run[d] /\ comp'[d] = comp[d]
                                    /\ (d \in ghost'.alone <=> d \in ghost.alone)
  PROVE  LInv' /\ \A d \in Clients : LatinLasts(d)
<1>1. \A d \in Clients \ {c} : LatinFits(d)' /\ LatinLasts(d)
  BY OthersLatin DEF LInv
<1>2. \A d \in Clients : LatinFits(d)' /\ LatinLasts(d)
  BY <1>1
<1> QED
  BY <1>2 DEF LInv

\* An action of the handler of c after which it goes on, or stores its copies.
LEMMA LatinHandler ==
  ASSUME LInv, TInv', NEW c \in Clients, NEW a \in Actions, Acting(c, a),
         NEW k, Flagged(k), NEW new, NEW s,
         NEW g \in Ghost, g.alone = ghost.alone, Continue(c, k, new, s, g),
         NEW w, w = run[c].work, Carries(a, w, run[c].to, k, new),
         a = "append" /\ w.tl /\ ~k.tl /\ c \notin ghost'.excused =>
           run[c].svc # [session |-> server.session, reset |-> FALSE]
  PROVE  LInv' /\ \A d \in Clients : LatinLasts(d)
<1> DEFINE p     == run[c].plan
           q     == Tail(p)
           to    == run[c].to
           alone == c \in ghost.alone
<1>0. /\ ~Idle(c) /\ p # <<>> /\ First(p, a, q) /\ Shape
      /\ run \in [Clients -> Runs] /\ comp \in [Clients -> Comps]
  BY TextRunning DEF LInv, Shape
<1>1. /\ comp[c].tl => Confirmed(p, to, w.tl, alone)
      /\ PendingFits(p, w.pending, alone)
      /\ run[c].why # "key" => (comp[c].pending => alone)
  BY <1>0 DEF LInv, LatinFits
<1>2. Len(q) \in Nat /\ Len(p) = Len(q) + 1
  BY <1>0 DEF First
<1>3. PendingFits(q, k.pending, alone)
  <2> HIDE DEF p, q, to, alone
  <2> QED
    BY <1>0, <1>1, PendingRest
<1>4. CASE ~Last(c)
  <2> DEFINE r == [plan |-> q, to |-> new, why |-> run[c].why, work |-> k, svc |-> s]
  <2>1. run' = [run EXCEPT ![c] = r] /\ comp' = comp /\ ghost' = g
    BY <1>4 DEF Continue
  <2>2. Len(q) # 0
    BY <1>2, <1>4 DEF Last
  <2>3. run'[c] = r /\ \A d \in Clients \ {c} : run'[d] = run[d]
    BY <1>0, <2>1
  <2>4. (Idle(c))' = FALSE
    BY <1>0, <2>3 DEF Idle
  <2>5. comp[c].tl => Confirmed(q, new, k.tl, alone)
    <3> HIDE DEF p, q, to, alone, r
    <3> QED
      BY <1>0, <1>1, <2>2, ConfirmedRest DEF to
  <2>6. LatinFits(c)'
    BY <1>1, <1>3, <2>1, <2>3, <2>4, <2>5 DEF LatinFits
  <2>7. LatinLasts(c)
    BY <2>1 DEF LatinLasts
  <2> QED
    BY <2>1, <2>3, <2>6, <2>7, LatinStep
<1>5. CASE Last(c)
  <2> DEFINE m == [k EXCEPT !.state = new]
  <2>1. run' = [run EXCEPT ![c] = Resting] /\ comp' = [comp EXCEPT ![c] = m]
          /\ ghost'.alone = ghost.alone
    <3>1. ghost' = g \/ ghost' = Excuse(g, c) \/ ghost' = Over(g, c, doc'[c])
      BY <1>5 DEF Continue
    <3> QED
      BY <1>5, <3>1, AloneLasts DEF Continue
  <2>2. Len(q) = 0
    BY <1>2, <1>5 DEF Last
  <2>3. m.state = new /\ m.tl = k.tl /\ m.pending = k.pending
    BY DEF Flagged
  <2> HIDE DEF m
  <2>4. run'[c] = Resting /\ comp'[c] = m
          /\ \A d \in Clients \ {c} : run'[d] = run[d] /\ comp'[d] = comp[d]
    BY <1>0, <2>1
  <2>5. (Idle(c))' = TRUE
    BY <2>4 DEF Idle, Resting
  <2>6. k.pending => alone
    <3> HIDE DEF p, q, to, alone
    <3>1. \A acts : ~Has(q, acts)
      BY <2>2 DEF Has
    <3> QED
      BY <1>3, <3>1 DEF PendingFits
  <2>7. LatinFits(c)'
    BY <2>1, <2>3, <2>4, <2>5, <2>6 DEF LatinFits
  <2>8. LatinLasts(c)
    <3> SUFFICES ASSUME comp[c].tl, ~comp'[c].tl, c \notin ghost'.excused
                 PROVE  \/ comp'[c].state = "none" \/ Acting(c, "shrink")
                        \/ Acting(c, "pendingOff") /\ c \in ghost.alone
                        \/ run[c].svc # [session |-> server.session, reset |-> FALSE]
      BY DEF LatinLasts
    <3>1. ~k.tl /\ Confirmed(p, to, w.tl, alone)
      BY <1>1, <2>3, <2>4
    <3>2. \/ new = "none" \/ a = "shrink" \/ (a = "pendingOff" /\ alone)
          \/ (a = "append" /\ w.tl)
      <4> HIDE DEF p, q, to, alone
      <4> QED
        BY <1>0, <2>2, <3>1, ConfirmedLast DEF to
    <3> QED
      BY <2>3, <2>4, <3>1, <3>2
  <2> QED
    BY <2>1, <2>4, <2>7, <2>8, LatinStep
<1> QED
  BY <1>4, <1>5

\* The handler stops: nothing is stored, or what was.
LEMMA LatinStops ==
  ASSUME LInv, TInv', NEW c \in Clients, ~Idle(c), run' = [run EXCEPT ![c] = Resting],
         comp' = [comp EXCEPT ![c] = NoComp] \/ (comp' = comp /\ run[c].why # "key"),
         ghost'.alone = ghost.alone
  PROVE  LInv' /\ \A d \in Clients : LatinLasts(d)
<1>0. run \in [Clients -> Runs] /\ comp \in [Clients -> Comps] /\ LatinFits(c)
  BY DEF LInv, TInv, IInv, Shape
<1>1. run'[c] = Resting /\ \A d \in Clients \ {c} : run'[d] = run[d] /\ comp'[d] = comp[d]
  BY <1>0
<1>2. (Idle(c))' = TRUE
  BY <1>1 DEF Idle, Resting
<1>3. comp'[c] = NoComp \/ (comp' = comp /\ run[c].why # "key")
  BY <1>0
<1>4. NoComp.state = "none" /\ NoComp.pending = FALSE
  BY DEF NoComp
<1>5. comp'[c].pending => c \in ghost.alone
  BY <1>0, <1>3, <1>4 DEF LatinFits
<1>6. LatinFits(c)' /\ LatinLasts(c)
  BY <1>2, <1>3, <1>4, <1>5 DEF LatinFits, LatinLasts
<1> QED
  BY <1>1, <1>6, LatinStep

\* A plan for the text service w at rest.
LatinPlan(plan, w, alone) ==
  /\ w.tl => Confirmed(plan.acts, plan.to, w.tl, alone)
  /\ PendingFits(plan.acts, w.pending, alone)

\* A handler of c begins to run.
LEMMA LatinBegins ==
  ASSUME LInv, TInv', NEW c \in Clients, Idle(c), NEW plan, NEW why \in {"key", "sink"},
         run' = [run EXCEPT ![c] = [plan |-> plan.acts, to |-> plan.to, why |-> why,
                                    work |-> comp[c], svc |-> svc[c]]],
         comp' = comp, NEW alone, alone = (c \in ghost'.alone), LatinPlan(plan, comp[c], alone),
         why # "key" => ghost'.alone = ghost.alone,
         \A d \in Clients \ {c} : d \in ghost'.alone <=> d \in ghost.alone
  PROVE  LInv' /\ \A d \in Clients : LatinLasts(d)
<1> DEFINE r == [plan |-> plan.acts, to |-> plan.to, why |-> why, work |-> comp[c], svc |-> svc[c]]
<1>0. run \in [Clients -> Runs] /\ LatinFits(c)
  BY DEF LInv, TInv, IInv, Shape
<1>1. run'[c] = r /\ \A d \in Clients \ {c} : run'[d] = run[d]
  BY <1>0
<1>2. (Idle(c))' = FALSE
  BY <1>1 DEF Idle
<1>3. /\ comp[c].tl => Confirmed(plan.acts, plan.to, comp[c].tl, alone)
      /\ PendingFits(plan.acts, comp[c].pending, alone)
  BY DEF LatinPlan
<1>4. LatinFits(c)'
  BY <1>0, <1>1, <1>2, <1>3 DEF LatinFits
<1> QED
  BY <1>1, <1>4, LatinStep DEF LatinLasts

\* What the ClientActions do to the copies leaves the flags of Latin input, or
\* clears them.
LEMMA FlagsLast ==
  ASSUME NEW w, Flagged(w)
  PROVE  /\ \A s, i : LET k == Select(w, s, i)
                     IN Flagged(k) /\ k.tl = w.tl /\ k.pending = w.pending
         /\ \A x : LET k == [w EXCEPT !.text = x]
                  IN Flagged(k) /\ k.tl = w.tl /\ k.pending = w.pending
         /\ \A x : LET k == [w EXCEPT !.raw = x]
                  IN Flagged(k) /\ k.tl = w.tl /\ k.pending = w.pending
<1>1. ASSUME NEW x, NEW k, k = [w EXCEPT !.text = x] \/ k = [w EXCEPT !.raw = x]
      PROVE  Flagged(k) /\ k.tl = w.tl /\ k.pending = w.pending
  BY <1>1 DEF Flagged
<1>2. ASSUME NEW s, NEW i, NEW k, k = Select(w, s, i)
      PROVE  Flagged(k) /\ k.tl = w.tl /\ k.pending = w.pending
  BY <1>2 DEF Flagged, Select
<1> QED
  BY <1>1, <1>2

\* A composition that is over has neither.
LEMMA FlagsCleared ==
  ASSUME NEW w \in Comps
  PROVE  /\ Flagged(w)
         /\ LET k == Ended(w) IN Flagged(k) /\ ~k.tl /\ ~k.pending
         /\ LET k == [NoComp EXCEPT !.state = w.state] IN Flagged(k) /\ ~k.tl /\ ~k.pending
<1>1. Flagged(w) /\ Flagged(NoComp) /\ NoComp.tl = FALSE /\ NoComp.pending = FALSE
  BY DEF Comps, NoComp, Flagged
<1>2. ASSUME NEW k, k = Ended(w) \/ k = [NoComp EXCEPT !.state = w.state]
      PROVE  Flagged(k) /\ k.tl = FALSE /\ k.pending = FALSE
  BY <1>1, <1>2 DEF Ended, Flagged
<1> QED
  BY <1>1, <1>2

-----------------------------------------------------------------------------
(* The ClientActions.                                                        *)

\* An action that leaves Latin input, the state that is planned and the history
\* alone.
LEMMA LatinQuiet ==
  ASSUME LInv, TInv', NEW c \in Clients,
         NEW a \in {"start", "show", "commit", "up", "down", "convert"}, Acting(c, a),
         NEW k, Flagged(k), k.tl = run[c].work.tl, k.pending = run[c].work.pending, NEW s,
         Continue(c, k, run[c].to, s, ghost)
  PROVE  LInv' /\ \A d \in Clients : LatinLasts(d)
<1>1. a \in Actions /\ a \notin Opening /\ a \notin Dropping \union {"pendingOff"}
        /\ a # "latinOn" /\ a # "append"
  BY DEF Actions, Opening, Dropping
<1>2. ghost \in Ghost
  BY DEF LInv, TInv, Rest
<1> DEFINE w  == run[c].work
           to == run[c].to
<1>3. Carries(a, w, to, k, to)
  BY <1>1 DEF Carries
<1>4. Continue(c, k, to, s, ghost)
  OBVIOUS
<1> HIDE DEF to
<1>5. w = run[c].work /\ Carries(a, w, run[c].to, k, to)
  BY <1>3 DEF to
<1> QED
  BY <1>1, <1>2, <1>4, <1>5, LatinHandler

\* StartComposition, ShowCandidateWindow and CommitTextDirect.
LEMMA LatinShown ==
  ASSUME LInv, TInv', NEW c \in Clients,
         StartComposition(c) \/ ShowCandidateWindow(c) \/ CommitTextDirect(c)
  PROVE  LInv' /\ \A d \in Clients : LatinLasts(d)
<1>1. PICK a \in {"start", "show", "commit"} : Acting(c, a)
  BY DEF StartComposition, ShowCandidateWindow, CommitTextDirect, Starting
<1>2. a \in Actions
  BY <1>1 DEF Actions
<1> DEFINE w == run[c].work
<1>3. Continue(c, w, run[c].to, run[c].svc, ghost)
  BY DEF StartComposition, ShowCandidateWindow, CommitTextDirect, Work
<1>4. w \in Comps
  BY <1>1, <1>2, TextRunning DEF LInv
<1>5. Flagged(w) /\ w.tl = run[c].work.tl /\ w.pending = run[c].work.pending
  BY <1>4, FlagsCleared
<1> HIDE DEF w
<1> QED
  BY <1>1, <1>3, <1>5, LatinQuiet

\* SetSelection and SetTextWithType.
LEMMA LatinChosen ==
  ASSUME LInv, TInv', NEW c \in Clients, SetSelection(c) \/ SetTextWithType(c)
  PROVE  LInv' /\ \A d \in Clients : LatinLasts(d)
<1>1. PICK a \in {"up", "down", "convert"} : Acting(c, a)
  BY DEF SetSelection, SetTextWithType
<1>2. a \in Actions
  BY <1>1 DEF Actions
<1> DEFINE w == run[c].work
<1>3. w \in Comps
  BY <1>1, <1>2, TextRunning DEF LInv
<1>4. Flagged(w)
  BY <1>3, FlagsCleared
<1>5. PICK k : /\ Continue(c, k, run[c].to, run[c].svc, ghost)
               /\ Flagged(k) /\ k.tl = w.tl /\ k.pending = w.pending
  <2>1. CASE SetSelection(c)
    <3> DEFINE i == IF Acting(c, "up") THEN w.sel - 1 ELSE w.sel + 1
               k == Select(w, w.cands, i)
    <3>1. \/ Continue(c, w, run[c].to, run[c].svc, ghost)
          \/ Continue(c, k, run[c].to, run[c].svc, ghost)
      BY <2>1 DEF SetSelection, Work
    <3>2. Flagged(k) /\ k.tl = w.tl /\ k.pending = w.pending
      <4> HIDE DEF w, i
      <4> QED
        BY <1>4, FlagsLast
    <3> HIDE DEF k
    <3> QED
      BY <1>4, <3>1, <3>2
  <2>2. CASE SetTextWithType(c)
    <3> DEFINE x == SubSeq(w.raw, 1, IF w.n < Len(w.raw) THEN w.n ELSE Len(w.raw)) \o Suffix(w)
               k == [w EXCEPT !.text = x]
    <3>1. Continue(c, k, run[c].to, run[c].svc, ghost)
      BY <2>2 DEF SetTextWithType, Work
    <3>2. Flagged(k) /\ k.tl = w.tl /\ k.pending = w.pending
      <4> HIDE DEF w, x
      <4> QED
        BY <1>4, FlagsLast
    <3> HIDE DEF k
    <3> QED
      BY <3>1, <3>2
  <2> QED
    BY <2>1, <2>2
<1> QED
  BY <1>1, <1>5, LatinQuiet

\* SetTemporaryLatin and SetTemporaryLatinShiftPending.
LEMMA LatinFlagged ==
  ASSUME LInv, TInv', NEW c \in Clients, SetFlag(c)
  PROVE  LInv' /\ \A d \in Clients : LatinLasts(d)
<1>1. PICK a \in FlagActs : Acting(c, a)
  BY DEF SetFlag, FlagActs
<1>2. a \in Actions /\ a \notin Opening /\ a # "append"
  BY <1>1 DEF Actions, FlagActs, Opening
<1> DEFINE w  == run[c].work
           to == run[c].to
<1>3. w \in Comps /\ ghost \in Ghost
  BY <1>1, <1>2, TextRunning DEF LInv
<1> DEFINE h == Head(run[c].plan)
           k == IF h = "latinOn" THEN [w EXCEPT !.tl = TRUE]
                ELSE IF h = "latinOff" THEN [w EXCEPT !.tl = FALSE, !.pending = FALSE]
                ELSE [w EXCEPT !.pending = (h = "pendingOn")]
<1>4. Continue(c, k, to, run[c].svc, ghost)
  BY DEF SetFlag, Work
<1>5. h = a
  BY <1>1 DEF Acting
<1>6. Flagged(k) /\ Carries(a, w, to, k, to)
  <2> HIDE DEF w, h, to
  <2>1. w.tl \in BOOLEAN /\ w.pending \in BOOLEAN /\ DOMAIN k = DOMAIN w /\ Flagged(w)
    BY <1>3, FlagsCleared DEF Comps
  <2>2. Flagged(k)
    BY <2>1 DEF Flagged
  <2>3. CASE a = "latinOn"
    <3>1. k = [w EXCEPT !.tl = TRUE]
      BY <1>5, <2>3
    <3>2. k.tl = TRUE /\ k.pending = w.pending
      BY <1>3, <3>1 DEF Comps
    <3> QED
      BY <1>2, <2>2, <2>3, <3>2 DEF Carries, Dropping
  <2>4. CASE a = "latinOff"
    <3>1. k = [w EXCEPT !.tl = FALSE, !.pending = FALSE]
      BY <1>5, <2>4
    <3>2. k.tl = FALSE /\ k.pending = FALSE
      BY <1>3, <3>1 DEF Comps
    <3> QED
      BY <1>2, <2>2, <2>4, <3>2 DEF Carries, Dropping
  <2>5. CASE a \in {"pendingOn", "pendingOff"}
    <3> DEFINE b == (h = "pendingOn")
    <3>1. k = [w EXCEPT !.pending = b] /\ b \in BOOLEAN /\ (b <=> a = "pendingOn")
      BY <1>5, <2>5
    <3> HIDE DEF b, k
    <3>2. k.tl = w.tl /\ k.pending = b
      BY <1>3, <3>1 DEF Comps
    <3> QED
      BY <1>2, <2>2, <2>5, <3>1, <3>2 DEF Carries, Dropping
  <2> QED
    BY <1>1, <2>3, <2>4, <2>5 DEF FlagActs
<1> HIDE DEF k, to
<1>7. w = run[c].work /\ Carries(a, w, run[c].to, k, to)
  BY <1>6 DEF to
<1> QED
  BY <1>1, <1>2, <1>3, <1>4, <1>6, <1>7, LatinHandler

\* clear_text failed.
LEMMA LatinFails ==
  ASSUME LInv, TInv', NEW c \in Clients, NEW a \in Actions, Acting(c, a), FailToClear(c)
  PROVE  LInv' /\ \A d \in Clients : LatinLasts(d)
<1>1. ghost \in Ghost /\ ~Idle(c)
  BY TextRunning DEF LInv
<1>2. Excuse(ghost, c) \in Ghost /\ Excuse(ghost, c).alone = ghost.alone
  BY <1>1, ExcuseHistory, AloneLasts
<1>3. \A x : Over(Excuse(ghost, c), c, x).alone = ghost.alone
  BY <1>2, AloneLasts
<1>4. run' = [run EXCEPT ![c] = Resting]
  BY DEF FailToClear
<1>5. /\ comp' = [comp EXCEPT ![c] = NoComp] \/ (comp' = comp /\ run[c].why # "key")
      /\ ghost'.alone = ghost.alone
  BY <1>2, <1>3 DEF FailToClear
<1> QED
  BY <1>1, <1>4, <1>5, LatinStops

\* An edit failed.
LEMMA LatinAbandons ==
  ASSUME LInv, TInv', NEW c \in Clients, NEW a \in Actions, Acting(c, a), NEW s, Abandon(c, s)
  PROVE  LInv' /\ \A d \in Clients : LatinLasts(d)
<1>1. ghost \in Ghost /\ ~Idle(c)
  BY TextRunning DEF LInv
<1>2. Excuse(ghost, c) \in Ghost /\ Excuse(ghost, c).alone = ghost.alone
  BY <1>1, ExcuseHistory, AloneLasts
<1>3. Over(Excuse(ghost, c), c, doc[c]).alone = ghost.alone
  BY <1>2, AloneLasts
<1>4. run' = [run EXCEPT ![c] = Resting] /\ comp' = [comp EXCEPT ![c] = NoComp]
        /\ ghost'.alone = ghost.alone
  BY <1>3 DEF Abandon
<1> QED
  BY <1>1, <1>4, LatinStops

\* EndComposition and SetIMEMode: Latin input is over with the composition.
LEMMA LatinEnded ==
  ASSUME LInv, TInv', NEW c \in Clients, EndComposition(c) \/ SetIMEMode(c)
  PROVE  LInv' /\ \A d \in Clients : LatinLasts(d)
<1>1. PICK a \in {"end", "toKana", "toLatin"} : Acting(c, a)
  BY DEF EndComposition, SetIMEMode, Starting
<1>2. a \in Actions /\ a \notin Opening /\ a \in Dropping /\ a # "append"
        /\ a # "latinOn"
  BY <1>1 DEF Actions, Dropping, Opening
<1> DEFINE w  == run[c].work
           to == run[c].to
           k  == Ended(w)
<1>3. w \in Comps /\ ghost \in Ghost
  BY <1>1, <1>2, TextRunning DEF LInv
<1>4. CASE FailToClear(c)
  BY <1>1, <1>2, <1>4, LatinFails
<1>5. CASE \E s : Continue(c, k, to, s, Uses(ghost, c))
  <2>1. PICK s : Continue(c, k, to, s, Uses(ghost, c))
    BY <1>5
  <2> DEFINE g == Uses(ghost, c)
  <2>2. g \in Ghost /\ g.alone = ghost.alone
    BY <1>3, UsesHistory, AloneLasts DEF Beside
  <2>3. Flagged(k) /\ ~k.tl /\ ~k.pending
    BY <1>3, FlagsCleared
  <2> HIDE DEF k, g, to
  <2>4. Carries(a, w, to, k, to)
    BY <1>2, <2>3 DEF Carries
  <2>5. w = run[c].work /\ Carries(a, w, run[c].to, k, to) /\ Continue(c, k, to, s, g)
    BY <2>1, <2>4 DEF to, g
  <2> QED
    BY <1>1, <1>2, <2>2, <2>3, <2>5, LatinHandler
<1> QED
  BY <1>4, <1>5 DEF EndComposition, SetIMEMode, Work

\* reset_after_empty_server_composition: nothing is composed any more.
LEMMA LatinReset ==
  ASSUME LInv, TInv', NEW c \in Clients, NEW a \in Opening \union {"remove"}, Acting(c, a),
         a # "append", NEW s, NEW h \in Ghost, h.alone = ghost.alone,
         Continue(c, [NoComp EXCEPT !.state = run[c].work.state], "none", s, h)
  PROVE  LInv' /\ \A d \in Clients : LatinLasts(d)
<1> DEFINE w == run[c].work
           k == [NoComp EXCEPT !.state = w.state]
<1>1. a \in Actions /\ a # "latinOn"
  BY DEF Actions, Opening
<1>2. w \in Comps
  BY <1>1, TextRunning DEF LInv
<1>3. Flagged(k) /\ ~k.tl /\ ~k.pending
  BY <1>2, FlagsCleared
<1>4. Continue(c, k, "none", s, h)
  OBVIOUS
<1> HIDE DEF k
<1>5. Carries(a, w, run[c].to, k, "none")
  BY <1>1, <1>3 DEF Carries
<1> DEFINE new == "none"
<1>6. Continue(c, k, new, s, h) /\ Carries(a, w, run[c].to, k, new) /\ w = run[c].work
  BY <1>4, <1>5
<1> HIDE DEF new, w
<1> QED
  BY <1>1, <1>3, <1>6, LatinHandler

\* What an edit makes of the history it meets leaves `alone`.
LEMMA MeetsAlone ==
  ASSUME ghost \in Ghost, NEW c \in Clients, NEW g, g = ghost \/ g = Excuse(ghost, c), NEW w
  PROVE  /\ Meets(Uses(g, c), c, w) \in Ghost /\ Meets(Uses(g, c), c, w).alone = ghost.alone
         /\ Excuse(Uses(g, c), c) \in Ghost /\ Excuse(Uses(g, c), c).alone = ghost.alone
<1>1. g \in Ghost /\ g.alone = ghost.alone /\ (Near(c, g) \/ g = ghost)
  BY ExcuseHistory, ExcuseNear, AloneLasts
<1> DEFINE u == Uses(g, c)
<1>2. u \in Ghost /\ u.alone = ghost.alone
  BY <1>1, UsesHistory, AloneLasts DEF Beside
<1>3. Meets(u, c, w) \in Ghost
  BY <1>1, MeetsHistory DEF Beside
<1> HIDE DEF u
<1>4. /\ Meets(u, c, w).alone = ghost.alone
      /\ Excuse(u, c) \in Ghost /\ Excuse(u, c).alone = ghost.alone
  BY <1>2, ExcuseHistory, AloneLasts
<1> QED
  BY <1>3, <1>4 DEF u

\* RemoveText.
LEMMA LatinRemoved ==
  ASSUME LInv, TInv', NEW c \in Clients, RemoveText(c)
  PROVE  LInv' /\ \A d \in Clients : LatinLasts(d)
<1> DEFINE w  == run[c].work
           to == run[c].to
           a  == "remove"
<1>0. Acting(c, a) /\ a \in Actions /\ a \in Opening \union {"remove"} /\ a # "append"
        /\ a \notin Opening /\ a # "latinOn" /\ a \notin Dropping \union {"pendingOff"}
  BY DEF RemoveText, Actions, Opening, Dropping
<1>1. w \in Comps /\ ghost \in Ghost
  BY <1>0, TextRunning DEF LInv
<1> DEFINE m == Meets(Uses(ghost, c), c, w)
           h == Excuse(Uses(ghost, c), c)
           n == [NoComp EXCEPT !.state = w.state]
<1>2. m \in Ghost /\ m.alone = ghost.alone /\ h \in Ghost /\ h.alone = ghost.alone
  BY <1>1, MeetsAlone
<1>3. \/ \E s : Abandon(c, s)
      \/ \E s : Continue(c, n, "none", s, h)
      \/ \E s : Continue(c, n, "none", s, m)
      \/ \E s, result :
           Continue(c, Select([w EXCEPT !.raw = DropLast(w.raw)], result, w.sel), to, s, m)
  BY DEF RemoveText, Work, ResetAfterEmpty, Removed
<1> HIDE DEF m, h
<1>4. CASE \E s : Abandon(c, s)
  BY <1>0, <1>4, LatinAbandons
<1>5. CASE \E s : Continue(c, n, "none", s, h) \/ Continue(c, n, "none", s, m)
  BY <1>0, <1>2, <1>5, LatinReset
<1>6. CASE \E s, result :
             Continue(c, Select([w EXCEPT !.raw = DropLast(w.raw)], result, w.sel), to, s, m)
  <2> DEFINE b == [w EXCEPT !.raw = DropLast(w.raw)]
  <2>1. PICK s, result : Continue(c, Select(b, result, w.sel), to, s, m)
    BY <1>6
  <2> DEFINE k == Select(b, result, w.sel)
  <2>2. Flagged(k) /\ k.tl = w.tl /\ k.pending = w.pending
    <3>1. Flagged(w)
      BY <1>1, FlagsCleared
    <3> HIDE DEF w
    <3>2. Flagged(b) /\ b.tl = w.tl /\ b.pending = w.pending
      BY <3>1, FlagsLast
    <3> HIDE DEF b
    <3> QED
      BY <3>2, FlagsLast
  <2>3. Continue(c, k, to, s, m)
    BY <2>1
  <2> HIDE DEF k, to
  <2>4. Carries(a, w, to, k, to)
    BY <1>0, <2>2 DEF Carries
  <2>5. w = run[c].work /\ Carries(a, w, run[c].to, k, to)
    BY <2>4 DEF to
  <2> QED
    BY <1>0, <1>2, <2>2, <2>3, <2>5, LatinHandler
<1> QED
  BY <1>3, <1>4, <1>5, <1>6

\* ShrinkText.
LEMMA LatinShrunk ==
  ASSUME LInv, TInv', NEW c \in Clients, ShrinkText(c)
  PROVE  LInv' /\ \A d \in Clients : LatinLasts(d)
<1> DEFINE w  == run[c].work
           to == run[c].to
           g  == IF Acting(c, "shrink") THEN ghost ELSE Excuse(ghost, c)
           text == IF Acting(c, "shrink") THEN <<>> ELSE <<c>>
           k0   == [session |-> server.session, reset |-> FALSE]
<1>0. PICK a \in {"shrink", "shrinkAppend"} : Acting(c, a)
  BY DEF ShrinkText
<1>a. a \in Actions /\ a \in Opening \union {"remove"} /\ a # "append" /\ a \in Opening
        /\ a # "latinOn" /\ a \notin Dropping \union {"pendingOff"}
  BY <1>0 DEF Actions, Opening, Dropping
<1>1. w \in Comps /\ ghost \in Ghost
  BY <1>0, <1>a, TextRunning DEF LInv
<1>g. g = ghost \/ g = Excuse(ghost, c)
  OBVIOUS
<1>2. \/ \E s : Abandon(c, s)
      \/ \E result, fresh : Shrunk(c, w, text, result, fresh, k0, g)
  BY DEF ShrinkText, Work
<1> HIDE DEF text, k0, g
<1> DEFINE m == Meets(Uses(g, c), c, w)
           h == Excuse(Uses(ghost, c), c)
           n == [NoComp EXCEPT !.state = w.state]
<1>3. m \in Ghost /\ m.alone = ghost.alone /\ h \in Ghost /\ h.alone = ghost.alone
  BY <1>1, <1>g, MeetsAlone
<1>4. CASE \E s : Abandon(c, s)
  BY <1>0, <1>a, <1>4, LatinAbandons
<1>5. CASE \E result, fresh : Shrunk(c, w, text, result, fresh, k0, g)
  <2>1. PICK result, fresh : Shrunk(c, w, text, result, fresh, k0, g)
    BY <1>5
  <2> DEFINE x    == DropFirst(w.n, w.raw) \o text
             base == IF fresh THEN [Ended(w) EXCEPT !.raw = text] ELSE [w EXCEPT !.raw = x]
             k    == Select(base, result, 0)
             s    == Observe(k0, server.session)
  <2>2. \/ Continue(c, n, "none", s, h)
        \/ Continue(c, k, "composing", k0, m)
    BY <2>1 DEF Shrunk, ResetAfterEmpty
  <2>3. Flagged(k) /\ (k.pending => w.pending)
    <3>1. Flagged(w)
      BY <1>1, FlagsCleared
    <3> DEFINE e == Ended(w)
    <3>2. Flagged(e) /\ ~e.pending
      BY <1>1, FlagsCleared
    <3> HIDE DEF e, x, w
    <3>3. Flagged(base) /\ (base.pending => w.pending)
      <4>1. CASE fresh
        BY <3>2, <4>1, FlagsLast DEF e
      <4>2. CASE ~fresh
        BY <3>1, <4>2, FlagsLast
      <4> QED
        BY <4>1, <4>2
    <3> HIDE DEF base
    <3> QED
      BY <3>3, FlagsLast
  <2> HIDE DEF m, h, k, s
  <2>4. CASE Continue(c, n, "none", s, h)
    BY <1>0, <1>a, <1>3, <2>4, LatinReset
  <2>5. CASE Continue(c, k, "composing", k0, m)
    <3> DEFINE new == "composing"
    <3>1. Continue(c, k, new, k0, m)
      BY <2>5
    <3> HIDE DEF new
    <3>2. Carries(a, w, run[c].to, k, new) /\ w = run[c].work
      BY <1>a, <2>3 DEF Carries
    <3> HIDE DEF w
    <3> QED
      BY <1>0, <1>a, <1>3, <2>3, <3>1, <3>2, LatinHandler
  <2> QED
    BY <2>2, <2>4, <2>5
<1> QED
  BY <1>2, <1>4, <1>5

\* AppendText gives Latin input up only for a server that it takes for a new one.
LEMMA LatinAppended ==
  ASSUME CountsClauses, LInv, TInv', NEW c \in Clients, AppendText(c)
  PROVE  LInv' /\ \A d \in Clients : LatinLasts(d)
<1> DEFINE w  == run[c].work
           to == run[c].to
           s  == run[c].svc
           a  == "append"
<1>0. Acting(c, a) /\ a \in Actions /\ a \in Opening /\ a # "latinOn"
        /\ a \notin Dropping \union {"pendingOff"}
  BY DEF AppendText, Actions, Opening, Dropping
<1>1. /\ Shape /\ w \in Comps /\ ghost \in Ghost /\ s \in Service /\ CountsTokens
      /\ c \notin ghost.touched =>
           s = [session |-> server.session, reset |-> FALSE] /\ server.input = w.raw
  BY <1>0, TextRunning DEF LInv, CountsClauses
<1>2. CASE Abandon(c, s)
  BY <1>0, <1>2, LatinAbandons
<1>3. CASE ~Abandon(c, s)
  <2> DEFINE v == Observe(s, server.session)
             k0 == [v EXCEPT !.reset = FALSE]
             Stale(result) == \/ v.reset /\ HasState(w)
                              \/ LooksReset(w.raw, FullView(w.cands), <<c>>, FullView(result))
  <2>1. PICK result \in Appending(s, server.input, <<c>>) :
           Appended(c, w, IF Stale(result) THEN "composing" ELSE to, result, Stale(result), k0)
    BY <1>3 DEF AppendText, Work
  <2> DEFINE stale == Stale(result)
             newTo == IF stale THEN "composing" ELSE to
             base  == IF stale THEN Ended(w) ELSE w
             x     == Append(base.raw, c)
             new   == Select([base EXCEPT !.raw = x], result, base.sel)
             m     == Meets(Uses(ghost, c), c, w)
  <2>2. /\ tip' = (IF stale THEN [tip EXCEPT ![c] = Tip(new.text)] ELSE SetText(c, new.text))
        /\ Continue(c, new, newTo, k0, m)
    BY <2>1 DEF Appended
  <2> DEFINE vr == v.reset
  <2>3. /\ stale <=> (vr /\ HasState(w))
                       \/ LooksReset(w.raw, FullView(w.cands), <<c>>, FullView(result))
        /\ vr = Observe(s, server.session).reset
    OBVIOUS
  <2>4. base \in Comps /\ (stale => base.raw = <<>>) /\ (stale => newTo = "composing")
    BY <1>1, EndedFields
  <2> HIDE DEF stale, newTo, vr, v
  <2>5. Flagged(new) /\ (new.pending => w.pending) /\ (~stale => new.tl = w.tl)
    <3>1. Flagged(w)
      BY <1>1, FlagsCleared
    <3> DEFINE e == Ended(w)
    <3>2. Flagged(e) /\ ~e.pending
      BY <1>1, FlagsCleared
    <3> HIDE DEF e, w, x
    <3>3. Flagged(base) /\ (base.pending => w.pending) /\ (~stale => base.tl = w.tl)
      BY <3>1, <3>2 DEF e
    <3> DEFINE b == [base EXCEPT !.raw = x]
               i == base.sel
    <3> HIDE DEF base, i
    <3>4. Flagged(b) /\ b.pending = base.pending /\ b.tl = base.tl
      BY <3>3, FlagsLast
    <3> HIDE DEF b
    <3>5. Flagged(Select(b, result, i)) /\ Select(b, result, i).tl = b.tl
            /\ Select(b, result, i).pending = b.pending
      BY <3>4, FlagsLast
    <3>6. new = Select(b, result, i)
      BY DEF b, i
    <3> HIDE DEF new
    <3> QED
      BY <3>3, <3>4, <3>5, <3>6
  <2>6. /\ m \in Ghost /\ m.alone = ghost.alone
        /\ c \in m.excused <=> c \in ghost.excused \/ ~Alone(c, w)
    BY <1>1, MeetsAlone, MeetsHistory
  <2> HIDE DEF new, m, k0
  <2>7. ASSUME w.tl, ~new.tl, c \notin ghost'.excused
        PROVE  s # [session |-> server.session, reset |-> FALSE]
    <3>1. stale
      BY <2>5, <2>7
    <3>2. ghost' = m \/ ghost' = Excuse(m, c)
      BY <2>2, <2>4, <3>1 DEF Continue
    <3>3. Alone(c, w)
      BY <2>6, <2>7, <3>2, ExcuseHistory
    <3>4. result = Append(base.raw, c) /\ Len(result) = Len(w.raw) + 1
      <4>1. base = IF stale THEN Ended(w) ELSE w
        OBVIOUS
      <4> HIDE DEF base, w, s
      <4> QED
        BY <1>1, <2>3, <2>4, <3>3, <4>1, AppendAlone
    <3>5. w.raw = <<>>
      <4>1. result = Append(<<>>, c)
        BY <2>4, <3>1, <3>4
      <4>2. Len(result) = 1
        BY <4>1
      <4>3. w.raw \in Seq(Tokens)
        BY <1>1 DEF Comps
      <4> HIDE DEF w
      <4> QED
        BY <3>4, <4>2, <4>3
    <3>6. vr
      BY <2>3, <3>1, <3>5 DEF LooksReset
    <3> HIDE DEF s
    <3>7. s = [session |-> server.session, reset |-> FALSE] => vr = FALSE
      BY <1>1, <2>3, KnowsServer
    <3> QED
      BY <3>6, <3>7
  <2> HIDE DEF to
  <2>8. Carries(a, w, run[c].to, new, newTo) /\ w = run[c].work
    BY <1>0, <2>5 DEF Carries
  <2>9. a = "append" /\ w.tl /\ ~new.tl /\ c \notin ghost'.excused =>
           run[c].svc # [session |-> server.session, reset |-> FALSE]
    BY <2>7
  <2> QED
    BY <1>0, <2>2, <2>5, <2>6, <2>8, <2>9, LatinHandler
<1> QED
  BY <1>2, <1>3

\* Every ClientAction.
LEMMA LatinHandled ==
  ASSUME CountsClauses, LInv, TInv', NEW c \in Clients, Handle(c)
  PROVE  LInv' /\ \A d \in Clients : LatinLasts(d)
BY LatinShown, LatinChosen, LatinFlagged, LatinEnded, LatinRemoved, LatinShrunk, LatinAppended
   DEF Handle

-----------------------------------------------------------------------------
(* Plans.                                                                    *)

\* The plans for a text service with Latin input, without the flags in front:
\* those that leave it on.
LatinKept ==
  {Plan("composing", <<"start", "append">>), Plan("composing", <<"append">>),
   Plan("composing", <<"remove">>), Plan("previewing", <<"up">>), Plan("previewing", <<"down">>),
   Plan("previewing", <<"show", "down">>), Plan("previewing", <<"convert">>),
   Plan("composing", <<"end", "start", "latinOn", "append">>)}

\* Those that leave nothing composed.
LatinOver ==
  {Plan("none", <<"toKana">>), Plan("none", <<"toLatin">>), Plan("none", <<"end">>),
   Plan("none", <<"remove", "end">>), Plan("none", <<"end", "toKana">>),
   Plan("none", <<"end", "toLatin">>)}

\* Confirming a clause is the work of Enter.
LEMMA ShrinksByEnter ==
  ASSUME NEW w, NEW key \in Keys, PlanOpen(w, key) = Plan("composing", <<"shrink">>)
  PROVE  key = "enter"
<1>1. <<"shrink">> # <<"remove">>
  <2>1. <<"shrink">>[1] = "shrink" /\ <<"remove">>[1] = "remove" /\ "shrink" # "remove"
    OBVIOUS
  <2> QED
    BY <2>1
<1>2. Plan("composing", <<"shrink">>) # Plan("composing", <<"remove">>)
  BY <1>1 DEF Plan
<1>3. \A acts : Plan("composing", <<"shrink">>) # Plan("none", acts)
                  /\ Plan("composing", <<"shrink">>) # Plan("previewing", acts)
  BY DEF Plan
<1>4. Plan("composing", <<"shrink">>) # Unhandled
  BY DEF Plan, Unhandled
<1> QED
  BY <1>2, <1>3, <1>4 DEF PlanOpen, RemoveLast

\* Enter confirms, or ends.
LEMMA EnterEnds ==
  ASSUME NEW w
  PROVE  PlanOpen(w, "enter") \in {Plan("none", <<"end">>), Plan("composing", <<"shrink">>)}
BY DEF PlanOpen, CommitClause

\* plan_actions_for_user_action for a text service with Latin input.
LEMMA LatinPlans ==
  ASSUME NEW w \in Comps, w.tl, NEW key \in Keys, NEW m, NEW afterN,
         NEW plan, plan = PlanFor(w, key, m, FALSE, afterN), plan # Unhandled
  PROVE  \/ plan \in LatinOver
         \/ key = "enter" /\ plan = Plan("composing", <<"shrink">>)
         \/ key # "enter" /\ plan \in LatinKept
<1>1. CASE w.state = "none"
  <2>1. plan = PlanNone(w, key, m, FALSE)
    BY <1>1 DEF PlanFor
  <2>2. CASE key \in TextKeys
    <3>1. plan = Plan("composing", <<"start", "append">>)
      BY <2>1, <2>2, Concatenations DEF PlanNone, LatinOn
    <3>2. key # "enter"
      BY <2>2 DEF TextKeys
    <3> QED
      BY <3>1, <3>2 DEF LatinKept
  <2>3. CASE key \notin TextKeys
    <3>1. "space" \in TextKeys
      BY DEF TextKeys
    <3>2. plan = Plan("none", <<ModeAction(key, m)>>)
      BY <2>1, <2>3, <3>1 DEF PlanNone
    <3> QED
      BY <3>2 DEF ModeAction, LatinOver
  <2> QED
    BY <2>2, <2>3
<1>2. CASE w.state # "none"
  <2>1. CASE key \in TextKeys
    <3>1. key # "enter"
      BY <2>1 DEF TextKeys
    <3>2. CASE w.state = "composing"
      <4>1. plan = PlanComposing(w, key, m, FALSE, afterN)
        BY <3>2 DEF PlanFor
      <4>2. plan = Plan("composing", <<>> \o <<"append">>)
        BY <2>1, <4>1 DEF PlanComposing, CommitsMark, LatinOn, ShrinksFirst
      <4>3. plan = Plan("composing", <<"append">>)
        BY <4>2, Concatenations
      <4> QED
        BY <3>1, <4>3 DEF LatinKept
    <3>3. CASE w.state # "composing"
      <4>1. plan = PlanPreviewing(w, key, m, FALSE)
        BY <1>2, <3>3 DEF PlanFor
      <4>2. plan = Plan("composing", <<"end", "start", "latinOn", "append">>)
        BY <2>1, <4>1 DEF PlanPreviewing, CommitsMark
      <4> QED
        BY <3>1, <4>2 DEF LatinKept
    <3> QED
      BY <3>2, <3>3
  <2>2. CASE key \notin TextKeys
    <3>1. "punctuation" \in TextKeys
      BY DEF TextKeys
    <3>2. plan = PlanOpen(w, key)
      BY <1>2, <2>2, <3>1 DEF PlanFor, PlanComposing, PlanPreviewing, CommitsMark
    <3>3. plan \in OpenPlans
      BY <3>2, OpenPlan
    <3>4. CASE key = "enter"
      BY <3>2, <3>4, EnterEnds DEF LatinOver
    <3>5. CASE key # "enter"
      <4>1. plan # Plan("composing", <<"shrink">>)
        BY <3>2, <3>5, ShrinksByEnter
      <4> HIDE DEF Plan
      <4> QED
        BY <3>3, <3>5, <4>1 DEF OpenPlans, LatinOver, LatinKept
    <3> QED
      BY <3>4, <3>5
  <2> QED
    BY <2>1, <2>2
<1> QED
  BY <1>1, <1>2

\* Those that leave nothing composed type nothing.
LEMMA OverPlans ==
  ASSUME NEW plan \in LatinOver
  PROVE  plan.to = "none" /\ ~Has(plan.acts, Opening) /\ plan.acts \in Seq(Actions)
<1>1. PICK p : /\ plan = Plan("none", p)
               /\ p \in {<<"toKana">>, <<"toLatin">>, <<"end">>, <<"remove", "end">>,
                         <<"end", "toKana">>, <<"end", "toLatin">>}
  BY DEF LatinOver
<1>2. /\ <<"toKana">> \in Seq(Actions) /\ <<"toLatin">> \in Seq(Actions)
      /\ <<"end">> \in Seq(Actions) /\ <<"remove", "end">> \in Seq(Actions)
      /\ <<"end", "toKana">> \in Seq(Actions) /\ <<"end", "toLatin">> \in Seq(Actions)
  BY DEF Actions
<1>3. \A i \in 1..Len(p) : p[i] \notin Opening
  <2>1. CASE p \in {<<"toKana">>, <<"toLatin">>, <<"end">>}
    BY <2>1 DEF Opening
  <2>2. CASE p \in {<<"remove", "end">>, <<"end", "toKana">>, <<"end", "toLatin">>}
    BY <2>2 DEF Opening
  <2> QED
    BY <1>1, <2>1, <2>2
<1>4. plan.to = "none" /\ plan.acts = p
  BY <1>1 DEF Plan
<1>5. p \in Seq(Actions)
  BY <1>1, <1>2
<1> QED
  BY <1>3, <1>4, <1>5 DEF Has

\* The others leave Latin input on.
LEMMA KeptPlans ==
  ASSUME NEW plan \in LatinKept
  PROVE  plan.to # "none" /\ Lasts(plan.acts, TRUE) /\ plan.acts \in Seq(Actions)
<1>1. PICK p : /\ plan = Plan("composing", p) \/ plan = Plan("previewing", p)
               /\ p \in {<<"start", "append">>, <<"append">>, <<"remove">>, <<"up">>, <<"down">>,
                         <<"show", "down">>, <<"convert">>, <<"end", "start", "latinOn", "append">>}
  BY DEF LatinKept
<1>2. /\ <<"start", "append">> \in Seq(Actions) /\ <<"append">> \in Seq(Actions)
      /\ <<"remove">> \in Seq(Actions) /\ <<"up">> \in Seq(Actions)
      /\ <<"down">> \in Seq(Actions) /\ <<"show", "down">> \in Seq(Actions)
      /\ <<"convert">> \in Seq(Actions)
      /\ <<"end", "start", "latinOn", "append">> \in Seq(Actions)
  BY DEF Actions
<1>3. /\ \A i \in 1..Len(p) : p[i] \in Dropping => 3 \in 1..Len(p) /\ i < 3 /\ p[3] = "latinOn"
      /\ \A i \in 1..Len(p) : p[i] \notin {"shrink", "shrinkAppend"}
      /\ \A i \in 1..Len(p) : p[i] \in {"append", "remove"} => i = Len(p)
  <2>1. CASE p = <<"end", "start", "latinOn", "append">>
    BY <2>1 DEF Dropping
  <2>2. CASE p = <<"start", "append">>
    BY <2>2 DEF Dropping
  <2>3. CASE p \in {<<"append">>, <<"remove">>, <<"up">>, <<"down">>, <<"convert">>}
    BY <2>3 DEF Dropping
  <2>4. CASE p = <<"show", "down">>
    BY <2>4 DEF Dropping
  <2> QED
    BY <1>1, <2>1, <2>2, <2>3, <2>4
<1>4. \A i \in 1..Len(p) : p[i] \in Dropping => \E j \in 1..Len(p) : i < j /\ p[j] = "latinOn"
  BY <1>3
<1>5. Lasts(p, TRUE)
  BY <1>3, <1>4 DEF Lasts, Has
<1>6. plan.to # "none" /\ plan.acts = p
  BY <1>1 DEF Plan
<1>7. p \in Seq(Actions)
  BY <1>1, <1>2
<1> QED
  BY <1>5, <1>6, <1>7

\* No key but Shift makes a release of Shift pending.
LEMMA NoPending ==
  ASSUME NEW w, NEW key \in Keys, NEW m, NEW starts, NEW afterN,
         NEW plan, plan = PlanFor(w, key, m, starts, afterN), plan # Unhandled
  PROVE  ~Has(plan.acts, {"pendingOn"}) /\ plan.acts \in Seq(Actions)
<1> DEFINE Single == {<<"remove">>, <<"end">>, <<"shrink">>, <<"up">>, <<"down">>, <<"convert">>,
                      <<"append">>, <<"shrinkAppend">>, <<"toKana">>, <<"toLatin">>}
           Double == {<<"remove", "end">>, <<"show", "down">>, <<"end", "toKana">>,
                      <<"end", "toLatin">>, <<"end", "commit">>, <<"latinOn", "append">>,
                      <<"latinOn", "shrinkAppend">>, <<"start", "append">>}
           Longer == {<<"start", "latinOn", "append">>, <<"start", "append", "end">>,
                      <<"end", "start", "append">>, <<"end", "start", "latinOn", "append">>}
           All == Single \union Double \union Longer
<1>1. \E to, p : plan = Plan(to, p) /\ p \in All
  <2>1. CASE w.state = "none"
    <3>1. plan = PlanNone(w, key, m, starts)
      BY <2>1 DEF PlanFor
    <3>2. \/ plan = Plan("composing", <<"start", "latinOn", "append">>)
          \/ plan = Plan("composing", <<"start", "append">>)
          \/ plan = Plan("none", <<"start", "append", "end">>)
          \/ plan = Plan("none", <<"toKana">>)
          \/ plan = Plan("none", <<"toLatin">>)
      BY <3>1, Concatenations DEF PlanNone, LatinOn, ModeAction
    <3> HIDE DEF Plan
    <3> QED
      BY <3>2
  <2>2. CASE w.state # "none"
    <3>1. plan \in OpenPlans \union ComposingPlans
      BY <2>2, ComposingPlan, PreviewingPlan DEF PlanFor
    <3> HIDE DEF Plan
    <3> QED
      BY <3>1 DEF OpenPlans, ComposingPlans
  <2> QED
    BY <2>1, <2>2
<1>2. ASSUME NEW p \in Single
      PROVE  p \in Seq(Actions) /\ \A i \in 1..Len(p) : p[i] # "pendingOn"
  <2>1. PICK a \in {"remove", "end", "shrink", "up", "down", "convert", "append", "shrinkAppend",
                    "toKana", "toLatin"} : p = <<a>>
    BY <1>2
  <2>2. a \in Actions
    BY DEF Actions
  <2> QED
    BY <2>1, <2>2
<1>3. ASSUME NEW p \in Double
      PROVE  p \in Seq(Actions) /\ \A i \in 1..Len(p) : p[i] # "pendingOn"
  <2>1. PICK a \in {"remove", "show", "end", "latinOn", "start"},
             b \in {"end", "down", "toKana", "toLatin", "commit", "append", "shrinkAppend"} :
          p = <<a, b>>
    BY <1>3
  <2>2. a \in Actions /\ b \in Actions /\ a # "pendingOn" /\ b # "pendingOn"
    BY DEF Actions
  <2>3. p \in Seq(Actions) /\ Len(p) = 2 /\ p[1] = a /\ p[2] = b
    BY <2>1, <2>2
  <2> QED
    BY <2>2, <2>3
<1>4. ASSUME NEW p \in Longer
      PROVE  p \in Seq(Actions) /\ \A i \in 1..Len(p) : p[i] # "pendingOn"
  <2>1. <<"start", "latinOn", "append">> \in Seq(Actions)
          /\ <<"start", "append", "end">> \in Seq(Actions)
          /\ <<"end", "start", "append">> \in Seq(Actions)
          /\ <<"end", "start", "latinOn", "append">> \in Seq(Actions)
    BY DEF Actions
  <2>2. \A i \in 1..Len(p) : p[i] # "pendingOn"
    <3>1. CASE p = <<"start", "latinOn", "append">>
      BY <3>1
    <3>2. CASE p = <<"start", "append", "end">>
      BY <3>2
    <3>3. CASE p = <<"end", "start", "append">>
      BY <3>3
    <3>4. CASE p = <<"end", "start", "latinOn", "append">>
      BY <3>4
    <3> QED
      BY <3>1, <3>2, <3>3, <3>4
  <2> QED
    BY <2>1, <2>2
<1> HIDE DEF Single, Double, Longer
<1>5. PICK to, p : plan = Plan(to, p) /\ p \in All
  BY <1>1
<1>6. plan.acts = p
  BY <1>5 DEF Plan
<1>7. p \in Seq(Actions) /\ \A i \in 1..Len(p) : p[i] # "pendingOn"
  BY <1>2, <1>3, <1>4, <1>5
<1> QED
  BY <1>6, <1>7 DEF Has

\* A flag that is cleared before a plan leaves it its reason.
LEMMA ConfirmedBefore ==
  ASSUME NEW p, NEW q, NEW a \in {"latinOff", "pendingOff"}, First(p, a, q),
         NEW to, NEW tl, NEW alone,
         \/ Confirmed(q, to, tl, alone) /\ a = "pendingOff"
         \/ to = "none" /\ ~Has(q, Opening)
         \/ EndsWith(q, "shrink")
         \/ Lasts(q, tl) /\ Has(q, {"latinOn"})
  PROVE  Confirmed(p, to, tl, alone)
<1>0. /\ Len(q) \in Nat /\ Len(p) = Len(q) + 1 /\ p[1] = a
      /\ \A i \in 1..Len(q) : i + 1 \in 1..Len(p) /\ p[i + 1] = q[i]
      /\ \A i \in 1..Len(p) : i # 1 => i - 1 \in 1..Len(q) /\ p[i] = q[i - 1]
  BY DEF First
<1>h. \A acts : Has(p, acts) <=> a \in acts \/ Has(q, acts)
  BY FirstHas
<1>1. CASE to = "none" /\ ~Has(q, Opening)
  BY <1>1, <1>h DEF Opening, Confirmed
<1>2. CASE EndsWith(q, "shrink") \/ (EndsWith(q, "pendingOff") /\ alone)
  <2>1. Len(q) \in 1..Len(q) /\ p[Len(p)] = q[Len(q)]
    BY <1>0, <1>2 DEF EndsWith
  <2> QED
    BY <1>0, <1>2, <2>1 DEF EndsWith, Confirmed
<1>3. CASE Lasts(q, tl) /\ (a = "pendingOff" \/ Has(q, {"latinOn"}))
  <2>1. tl \/ Has(p, {"latinOn"})
    BY <1>3, <1>h DEF Lasts
  <2>2. ASSUME NEW i \in 1..Len(p), p[i] \in Dropping
        PROVE  \E j \in 1..Len(p) : i < j /\ p[j] = "latinOn"
    <3>1. CASE i = 1
      <4>1. Has(q, {"latinOn"})
        BY <1>0, <1>3, <2>2, <3>1 DEF Dropping
      <4>2. PICK j \in 1..Len(q) : q[j] = "latinOn"
        BY <4>1 DEF Has
      <4>3. j + 1 \in 1..Len(p) /\ i < j + 1 /\ p[j + 1] = "latinOn"
        BY <1>0, <3>1, <4>2
      <4> QED
        BY <4>3
    <3>2. CASE i # 1
      <4>1. i - 1 \in 1..Len(q) /\ q[i - 1] \in Dropping
        BY <1>0, <2>2, <3>2
      <4>2. PICK j \in 1..Len(q) : i - 1 < j /\ q[j] = "latinOn"
        BY <1>3, <4>1 DEF Lasts
      <4>3. j + 1 \in 1..Len(p) /\ i < j + 1 /\ p[j + 1] = "latinOn"
        BY <1>0, <4>2
      <4> QED
        BY <4>3
    <3> QED
      BY <3>1, <3>2
  <2>3. ~Has(p, {"shrink", "shrinkAppend"})
    BY <1>3, <1>h DEF Lasts
  <2>4. ASSUME NEW i \in 1..Len(p), p[i] \in {"append", "remove"} PROVE i = Len(p)
    <3>1. i # 1
      BY <1>0, <2>4
    <3>2. i - 1 \in 1..Len(q) /\ q[i - 1] \in {"append", "remove"}
      BY <1>0, <2>4, <3>1
    <3>3. i - 1 = Len(q)
      BY <1>3, <3>2 DEF Lasts
    <3> QED
      BY <1>0, <3>3
  <2> QED
    BY <2>1, <2>2, <2>3, <2>4 DEF Lasts, Confirmed
<1> QED
  BY <1>1, <1>2, <1>3 DEF Confirmed

\* process_key leaves Latin input on unless it has a reason, and a key other than
\* Shift clears a release that is pending.
LEMMA KeyPlanLatin ==
  ASSUME NEW w \in Comps, NEW key \in Keys, NEW m, NEW afterN,
         KeyPlan(w, key, m, afterN) # Unhandled, NEW alone, key = "shift" => alone
  PROVE  LatinPlan(KeyPlan(w, key, m, afterN), w, alone)
<1> DEFINE starts == key = "latin" /\ m = "kana" /\ ~w.tl
           plan   == PlanFor(w, key, m, starts, afterN)
<1>1. CASE key = "shift" /\ w.tl
  <2>1. KeyPlan(w, key, m, afterN) = Plan(w.state, <<"pendingOn">>)
    BY <1>1 DEF KeyPlan
  <2> DEFINE p == <<"pendingOn">>
  <2>2. /\ \A i \in 1..Len(p) : p[i] \notin Dropping /\ p[i] \notin {"shrink", "shrinkAppend"}
        /\ \A i \in 1..Len(p) : p[i] \notin {"append", "remove"}
    BY DEF Dropping
  <2> HIDE DEF p
  <2>3. Lasts(p, w.tl)
    BY <1>1, <2>2 DEF Lasts, Has
  <2>4. KeyPlan(w, key, m, afterN).acts = p
    BY <2>1 DEF Plan, p
  <2> QED
    BY <1>1, <2>3, <2>4 DEF LatinPlan, Confirmed, PendingFits
<1>2. CASE ~(key = "shift" /\ w.tl)
  <2>1. plan # Unhandled
    BY <1>2 DEF KeyPlan
  <2> DEFINE ends  == EndsLatin(w, key, plan)
             first == Before(plan, ends, "latinOff")
             over  == w.pending /\ key # "shift"
             whole == Before(first, over, "pendingOff")
  <2>2. KeyPlan(w, key, m, afterN) = whole
    BY <1>2, <2>1 DEF KeyPlan
  <2>3. w.tl => starts = FALSE
    OBVIOUS
  <2> HIDE DEF starts
  <2>4. ~Has(plan.acts, {"pendingOn"}) /\ plan.acts \in Seq(Actions)
    BY <2>1, NoPending
  <2>5. ends => /\ first.to = plan.to /\ First(first.acts, "latinOff", plan.acts)
                /\ first.acts \in Seq(Actions)
    <3>1. "latinOff" \in Actions
      BY DEF Actions
    <3> HIDE DEF plan, ends
    <3> QED
      BY <2>4, <3>1, FirstBefore DEF Before, Plan
  <2>6. ~ends => first = plan
    BY DEF Before
  <2>7. first.acts \in Seq(Actions) /\ ~Has(first.acts, {"pendingOn"})
    <3> HIDE DEF plan, ends, first
    <3>1. CASE ends
      BY <2>4, <2>5, <3>1, FirstHas
    <3>2. CASE ~ends
      BY <2>4, <2>6, <3>2
    <3> QED
      BY <3>1, <3>2
  <2>8. over => whole.to = first.to /\ First(whole.acts, "pendingOff", first.acts)
    <3>1. "pendingOff" \in Actions
      BY DEF Actions
    <3> HIDE DEF first
    <3> QED
      BY <2>7, <3>1, FirstBefore DEF Before, Plan
  <2>9. ~over => whole = first
    BY DEF Before
  <2> HIDE DEF first, whole
  <2>10. PendingFits(whole.acts, w.pending, alone)
    <3>1. CASE key = "shift"
      BY <3>1 DEF PendingFits
    <3>2. CASE over
      <4>1. \A acts : Has(whole.acts, acts) <=> "pendingOff" \in acts \/ Has(first.acts, acts)
        BY <2>8, <3>2, FirstHas
      <4> QED
        BY <2>7, <4>1 DEF PendingFits
    <3>3. CASE key # "shift" /\ ~over
      BY <2>7, <2>9, <3>3 DEF PendingFits
    <3> QED
      BY <3>1, <3>2, <3>3
  <2>11. ASSUME w.tl PROVE Confirmed(whole.acts, whole.to, w.tl, alone)
    <3>1. plan = PlanFor(w, key, m, FALSE, afterN)
      BY <2>3, <2>11
    <3>e. ends <=> key = "enter" \/ plan.to = "none" \/ Has(plan.acts, {"end", "toKana", "toLatin"})
      BY <2>11 DEF EndsLatin, Does, Has
    <3> HIDE DEF plan, ends
    <3>2. \/ plan \in LatinOver
          \/ key = "enter" /\ plan = Plan("composing", <<"shrink">>)
          \/ key # "enter" /\ plan \in LatinKept
      BY <2>1, <2>11, <3>1, LatinPlans
    <3>3. Confirmed(first.acts, first.to, w.tl, alone)
      <4>1. CASE plan \in LatinOver
        <5>1. plan.to = "none" /\ ~Has(plan.acts, Opening) /\ ends
          BY <3>e, <4>1, OverPlans
        <5> QED
          BY <2>5, <5>1, ConfirmedBefore
      <4>2. CASE key = "enter" /\ plan = Plan("composing", <<"shrink">>)
        <5>1. EndsWith(<<"shrink">>, "shrink")
          BY DEF EndsWith
        <5>2. plan.acts = <<"shrink">> /\ ends
          BY <3>e, <4>2 DEF Plan
        <5> QED
          BY <2>5, <5>1, <5>2, ConfirmedBefore
      <4>3. CASE key # "enter" /\ plan \in LatinKept
        <5>1. plan.to # "none" /\ Lasts(plan.acts, TRUE)
          BY <4>3, KeptPlans
        <5>2. Lasts(plan.acts, w.tl)
          BY <2>11, <5>1 DEF Lasts
        <5>3. CASE ends
          <6>1. PICK i \in 1..Len(plan.acts) : plan.acts[i] \in {"end", "toKana", "toLatin"}
            BY <3>e, <4>3, <5>1, <5>3 DEF Has
          <6>2. plan.acts[i] \in Dropping
            BY <6>1 DEF Dropping
          <6>3. Has(plan.acts, {"latinOn"})
            BY <5>1, <6>2 DEF Lasts, Has
          <6> QED
            BY <2>5, <5>2, <5>3, <6>3, ConfirmedBefore
        <5>4. CASE ~ends
          BY <2>6, <5>2, <5>4 DEF Confirmed
        <5> QED
          BY <5>3, <5>4
      <4> QED
        BY <3>2, <4>1, <4>2, <4>3
    <3>4. CASE over
      BY <2>8, <3>3, <3>4, ConfirmedBefore
    <3>5. CASE ~over
      BY <2>9, <3>3, <3>5
    <3> QED
      BY <3>4, <3>5
  <2> QED
    BY <2>2, <2>10, <2>11 DEF LatinPlan
<1> QED
  BY <1>1, <1>2

\* The Eisu key ends what is composed, and Latin input with it.
LEMMA EisuPlanLatin ==
  ASSUME NEW w \in Comps, NEW m, EisuPlan(w, m) # Unhandled, NEW alone
  PROVE  LatinPlan(EisuPlan(w, m), w, alone)
<1> DEFINE plan == PlanFor(w, "toggle", m, FALSE, FALSE)
<1>1. "toggle" \in ModeKeys /\ "toggle" \notin TextKeys
  BY DEF ModeKeys, TextKeys
<1>2. plan = Plan("none", <<"toKana">>) \/ plan = Plan("none", <<"toLatin">>)
        \/ plan = Plan("none", <<"end", "toLatin">>)
  <2>1. CASE w.state = "none"
    BY <1>1, <2>1 DEF PlanFor, PlanNone, ModeAction
  <2>2. CASE w.state # "none"
    <3>1. PlanOpen(w, "toggle") = Plan("none", <<"end", "toLatin">>)
      BY <1>1 DEF PlanOpen, ModeActionComposing
    <3>2. plan = PlanOpen(w, "toggle")
      BY <1>1, <2>2 DEF PlanFor, PlanComposing, PlanPreviewing, CommitsMark
    <3> QED
      BY <3>1, <3>2
  <2> QED
    BY <2>1, <2>2
<1>3. EisuPlan(w, m) = Before(plan, w.tl, "latinOff")
  BY DEF EisuPlan
<1> HIDE DEF plan
<1>4. plan \in LatinOver
  BY <1>2 DEF LatinOver
<1>5. plan.to = "none" /\ ~Has(plan.acts, Opening) /\ plan.acts \in Seq(Actions)
  BY <1>4, OverPlans
<1>6. Has(plan.acts, Dropping) /\ ~Has(plan.acts, {"pendingOn"})
  <2>1. PICK p : plan.acts = p /\ p \in {<<"toKana">>, <<"toLatin">>, <<"end", "toLatin">>}
    BY <1>2 DEF Plan
  <2>2. Has(p, Dropping)
    <3>1. 1 \in 1..Len(p) /\ p[1] \in {"toKana", "toLatin", "end"}
      BY <2>1
    <3> QED
      BY <3>1 DEF Has, Dropping
  <2>3. ~Has(p, {"pendingOn"})
    BY <2>1 DEF Has
  <2> QED
    BY <2>1, <2>2, <2>3
<1> DEFINE whole == Before(plan, w.tl, "latinOff")
<1>7. CASE w.tl
  <2>1. "latinOff" \in Actions
    BY DEF Actions
  <2>2. whole.to = plan.to /\ First(whole.acts, "latinOff", plan.acts)
    BY <1>5, <1>7, <2>1, FirstBefore DEF Before, Plan
  <2> HIDE DEF whole
  <2>3. \A acts : Has(whole.acts, acts) <=> "latinOff" \in acts \/ Has(plan.acts, acts)
    BY <2>2, FirstHas
  <2>4. Confirmed(whole.acts, whole.to, w.tl, alone)
    BY <1>5, <2>2, ConfirmedBefore
  <2>5. PendingFits(whole.acts, w.pending, alone)
    BY <1>6, <2>3 DEF PendingFits, Dropping
  <2> QED
    BY <1>3, <2>4, <2>5 DEF LatinPlan, whole
<1>8. CASE ~w.tl
  <2>1. whole = plan
    BY <1>8 DEF Before
  <2> HIDE DEF whole
  <2>2. \A acts : Has(plan.acts, acts) => Has(plan.acts, {"pendingOff"} \union acts)
    BY DEF Has
  <2>3. PendingFits(plan.acts, w.pending, alone)
    BY <1>6, <2>2 DEF PendingFits
  <2> QED
    BY <1>3, <1>8, <2>1, <2>3 DEF LatinPlan, whole
<1> QED
  BY <1>7, <1>8

\* So do the callbacks.
LEMMA EndPlanLatin ==
  ASSUME NEW w, NEW alone
  PROVE  LatinPlan(EndPlan, w, alone)
<1>1. EndPlan.to = "none" /\ EndPlan.acts = <<"end">>
  BY DEF EndPlan, Plan
<1> DEFINE p == <<"end">>
<1>2. Len(p) = 1 /\ p[1] = "end"
  OBVIOUS
<1> HIDE DEF p
<1>3. ~Has(p, Opening) /\ ~Has(p, {"pendingOn"}) /\ Has(p, {"pendingOff"} \union Dropping)
  BY <1>2 DEF Has, Opening, Dropping
<1> QED
  BY <1>1, <1>3 DEF LatinPlan, Confirmed, PendingFits, p

\* Releasing Shift ends Latin input if no other key was pressed.
LEMMA ShiftUpPlanLatin ==
  ASSUME NEW w, ShiftUpPlan(w) # Unhandled, NEW alone, w.pending => alone
  PROVE  LatinPlan(ShiftUpPlan(w), w, alone)
<1>1. alone
  BY DEF ShiftUpPlan
<1>2. \/ ShiftUpPlan(w) = Plan(w.state, <<"latinOff", "pendingOff">>)
      \/ ShiftUpPlan(w) = Plan(w.state, <<"pendingOff">>)
  BY Concatenations DEF ShiftUpPlan
<1>3. \/ ShiftUpPlan(w).acts = <<"latinOff", "pendingOff">>
      \/ ShiftUpPlan(w).acts = <<"pendingOff">>
  BY <1>2 DEF Plan
<1>4. /\ EndsWith(<<"latinOff", "pendingOff">>, "pendingOff")
      /\ EndsWith(<<"pendingOff">>, "pendingOff")
  BY DEF EndsWith
<1> QED
  BY <1>1, <1>3, <1>4 DEF LatinPlan, Confirmed, PendingFits

-----------------------------------------------------------------------------
(* Users, applications and TSF.                                              *)

\* A key press.
LEMMA LatinPressed ==
  ASSUME LInv, TInv', NEW c \in Clients, NEW key \in KeysOf(c), Press(c, key)
  PROVE  LInv' /\ \A d \in Clients : LatinLasts(d)
<1>1. key \in Keys /\ Idle(c)
  BY SessionAssumption DEF Press, Ready
<1>2. comp[c] \in Comps /\ ghost \in Ghost
  BY <1>1, TextAtRest DEF LInv
<1>3. PICK afterN \in BOOLEAN :
        /\ KeyPlan(comp[c], key, mode[c], afterN) # Unhandled
        /\ Begin(c, KeyPlan(comp[c], key, mode[c], afterN), "key",
                 Pressed(c, key, KeyPlan(comp[c], key, mode[c], afterN)))
  BY DEF Press
<1> DEFINE plan == KeyPlan(comp[c], key, mode[c], afterN)
           w    == comp[c]
<1>4. /\ run' = [run EXCEPT ![c] = [plan |-> plan.acts, to |-> plan.to, why |-> "key",
                                    work |-> comp[c], svc |-> svc[c]]]
      /\ comp' = comp /\ ghost' = Pressed(c, key, plan)
  BY <1>3 DEF Begin
<1> HIDE DEF plan
<1>5. ghost'.alone = IF key = "shift" THEN ghost.alone \union {c} ELSE ghost.alone \ {c}
  BY <1>2, <1>4 DEF Pressed, Ghost
<1>6. \A d \in Clients \ {c} : d \in ghost'.alone <=> d \in ghost.alone
  BY <1>5
<1> DEFINE alone == c \in ghost'.alone
<1>7. key = "shift" => alone
  BY <1>5
<1> HIDE DEF alone
<1>8. LatinPlan(plan, w, alone)
  BY <1>1, <1>2, <1>3, <1>7, KeyPlanLatin DEF plan
<1>9. alone = (c \in ghost'.alone)
  BY DEF alone
<1> DEFINE why == "key"
<1>10. why \in {"key", "sink"} /\ (why # "key" => ghost'.alone = ghost.alone)
         /\ run' = [run EXCEPT ![c] = [plan |-> plan.acts, to |-> plan.to, why |-> why,
                                       work |-> comp[c], svc |-> svc[c]]]
  BY <1>4
<1> HIDE DEF why
<1> QED
  BY <1>1, <1>4, <1>6, <1>8, <1>9, <1>10, LatinBegins

\* A key left to the application.
LEMMA LatinUnhandled ==
  ASSUME LInv, TInv', NEW c \in Clients, NEW key, PressUnhandled(c, key)
  PROVE  LInv' /\ \A d \in Clients : LatinLasts(d)
<1>1. Idle(c)
  BY DEF PressUnhandled, Ready
<1>2. Shape /\ comp[c] \in Comps /\ ghost \in Ghost /\ LatinFits(c)
  BY <1>1, TextAtRest DEF LInv
<1> DEFINE b == comp[c].pending /\ key = "shift"
           k == [comp[c] EXCEPT !.pending = b]
           a == IF key = "shift" THEN ghost.alone ELSE ghost.alone \ {c}
<1>3. comp' = [comp EXCEPT ![c] = k] /\ ghost' = [ghost EXCEPT !.alone = a] /\ run' = run
  BY DEF PressUnhandled
<1>4. k.tl = comp[c].tl /\ k.pending = b
  BY <1>2 DEF Comps
<1>5. ghost'.alone = a
  BY <1>2, <1>3 DEF Ghost
<1> HIDE DEF k
<1>6. comp'[c] = k /\ \A d \in Clients \ {c} : comp'[d] = comp[d]
  BY <1>2, <1>3 DEF Shape
<1>7. \A d \in Clients \ {c} : d \in ghost'.alone <=> d \in ghost.alone
  BY <1>5
<1>8. (Idle(c))' = TRUE
  BY <1>1, <1>3 DEF Idle
<1>9. comp'[c].pending => c \in ghost'.alone
  BY <1>1, <1>2, <1>4, <1>5, <1>6 DEF LatinFits
<1>10. LatinFits(c)'
  BY <1>8, <1>9 DEF LatinFits
<1>11. LatinLasts(c)
  BY <1>4, <1>6 DEF LatinLasts
<1> QED
  BY <1>3, <1>6, <1>7, <1>10, <1>11, LatinStep

\* Releasing Shift.
LEMMA LatinReleased ==
  ASSUME LInv, TInv', NEW c \in Clients, ReleaseShift(c)
  PROVE  LInv' /\ \A d \in Clients : LatinLasts(d)
<1> DEFINE w     == comp[c]
           plan  == ShiftUpPlan(w)
           alone == c \in ghost'.alone
           why   == "key"
<1>1. /\ Idle(c) /\ plan # Unhandled
      /\ run' = [run EXCEPT ![c] = [plan |-> plan.acts, to |-> plan.to, why |-> why,
                                    work |-> comp[c], svc |-> svc[c]]]
      /\ comp' = comp /\ ghost' = ghost /\ why \in {"key", "sink"}
  BY DEF ReleaseShift, Ready, Begin
<1>2. w.pending => alone
  BY <1>1 DEF LInv, LatinFits
<1> HIDE DEF alone, w
<1>3. LatinPlan(plan, w, alone)
  BY <1>1, <1>2, ShiftUpPlanLatin
<1>4. LatinPlan(plan, comp[c], alone) /\ alone = (c \in ghost'.alone)
  BY <1>3 DEF w, alone
<1> HIDE DEF plan, why
<1> QED
  BY <1>1, <1>4, LatinBegins

\* The Eisu key.
LEMMA LatinEisu ==
  ASSUME LInv, TInv', NEW c \in Clients, PressEisu(c)
  PROVE  LInv' /\ \A d \in Clients : LatinLasts(d)
<1> DEFINE plan  == EisuPlan(comp[c], mode[c])
           alone == c \in ghost'.alone
           why   == "key"
<1>1. /\ Idle(c) /\ plan # Unhandled
      /\ run' = [run EXCEPT ![c] = [plan |-> plan.acts, to |-> plan.to, why |-> why,
                                    work |-> comp[c], svc |-> svc[c]]]
      /\ comp' = comp /\ ghost' = [ghost EXCEPT !.alone = @ \ {c}] /\ why \in {"key", "sink"}
      /\ why # "key" => ghost'.alone = ghost.alone
  BY DEF PressEisu, Ready, Begin
<1>2. comp[c] \in Comps /\ ghost \in Ghost
  BY <1>1, TextAtRest DEF LInv
<1>3. \A d \in Clients \ {c} : d \in ghost'.alone <=> d \in ghost.alone
  BY <1>1, <1>2 DEF Ghost
<1> HIDE DEF alone
<1>4. LatinPlan(plan, comp[c], alone)
  BY <1>1, <1>2, EisuPlanLatin
<1>5. alone = (c \in ghost'.alone)
  BY DEF alone
<1> HIDE DEF plan, why
<1> QED
  BY <1>1, <1>3, <1>4, <1>5, LatinBegins

\* OnSetFocus and OnCompositionTerminated.
LEMMA LatinCalledBack ==
  ASSUME LInv, TInv', NEW c \in Clients, OnSetFocus(c) \/ OnCompositionTerminated(c)
  PROVE  LInv' /\ \A d \in Clients : LatinLasts(d)
<1> DEFINE plan  == EndPlan
           alone == c \in ghost'.alone
           why   == "sink"
<1>1. /\ Idle(c)
      /\ run' = [run EXCEPT ![c] = [plan |-> plan.acts, to |-> plan.to, why |-> why,
                                    work |-> comp[c], svc |-> svc[c]]]
      /\ comp' = comp /\ ghost' = ghost /\ why \in {"key", "sink"}
  BY DEF OnSetFocus, OnCompositionTerminated, Begin
<1> HIDE DEF alone
<1>2. LatinPlan(plan, comp[c], alone)
  BY EndPlanLatin
<1>3. alone = (c \in ghost'.alone)
  BY DEF alone
<1> HIDE DEF plan, why
<1> QED
  BY <1>1, <1>2, <1>3, LatinBegins

\* A key where the keyboard is disabled.
LEMMA LatinDisabled ==
  ASSUME LInv, TInv', NEW c \in Clients, KeyInDisabledContext(c)
  PROVE  LInv' /\ \A d \in Clients : LatinLasts(d)
<1>1. Idle(c) /\ comp' = [comp EXCEPT ![c] = NoComp] /\ run' = run
        /\ ghost' = Over(Excuse(Uses(ghost, c), c), c, doc[c])
  BY DEF KeyInDisabledContext, Ready
<1>2. Shape /\ ghost \in Ghost
  BY <1>1, TextAtRest DEF LInv
<1>3. Excuse(Uses(ghost, c), c) \in Ghost /\ Excuse(Uses(ghost, c), c).alone = ghost.alone
  BY <1>2, MeetsAlone
<1>4. ghost'.alone = ghost.alone
  BY <1>1, <1>3, AloneLasts
<1>5. comp'[c] = NoComp /\ \A d \in Clients \ {c} : comp'[d] = comp[d]
  BY <1>1, <1>2 DEF Shape
<1>6. NoComp.state = "none" /\ NoComp.pending = FALSE
  BY DEF NoComp
<1>7. (Idle(c))' = TRUE
  BY <1>1 DEF Idle
<1>8. LatinFits(c)' /\ LatinLasts(c)
  BY <1>5, <1>6, <1>7 DEF LatinFits, LatinLasts
<1> QED
  BY <1>1, <1>4, <1>5, <1>8, LatinStep

\* No handler begins, runs or ends.
LEMMA LatinFrame ==
  ASSUME LInv, TInv', run' = run, comp' = comp, ghost'.alone = ghost.alone
  PROVE  LInv' /\ \A d \in Clients : LatinLasts(d)
<1>1. \A d \in Clients : LatinFits(d)' /\ LatinLasts(d)
  BY OthersLatin DEF LInv
<1> QED
  BY <1>1 DEF LInv

-----------------------------------------------------------------------------
(* The invariant with Latin input.                                           *)

\* The invariant holds in the initial states.
LEMMA LatinInit == Init => LInv
<1> SUFFICES ASSUME Init PROVE LInv
  OBVIOUS
<1>1. ASSUME NEW c \in Clients PROVE LatinFits(c)
  <2>1. comp[c] = NoComp /\ run[c] = Resting
    BY DEF Init
  <2>2. Idle(c) /\ comp[c].pending = FALSE
    BY <2>1 DEF Idle, Resting, NoComp
  <2> QED
    BY <2>2 DEF LatinFits
<1> QED
  BY <1>1, TextInit DEF LInv

\* Every step keeps it, and does what the property says.
LEMMA LatinNext ==
  ASSUME CountsClauses, LInv, [Next]_vars
  PROVE  LInv' /\ \A d \in Clients : LatinLasts(d)
<1>0. TInv' /\ ghost \in Ghost
  BY TextNext DEF LInv, TInv, Rest
<1>1. ASSUME NEW c \in Clients, NEW key \in KeysOf(c), Press(c, key) \/ PressUnhandled(c, key)
      PROVE  LInv' /\ \A d \in Clients : LatinLasts(d)
  BY <1>0, <1>1, LatinPressed, LatinUnhandled
<1>2. ASSUME NEW c \in Clients, ReleaseShift(c) \/ PressEisu(c) \/ KeyInDisabledContext(c)
      PROVE  LInv' /\ \A d \in Clients : LatinLasts(d)
  BY <1>0, <1>2, LatinReleased, LatinEisu, LatinDisabled
<1>3. ASSUME NEW c \in Clients, OnSetFocus(c) \/ OnCompositionTerminated(c)
      PROVE  LInv' /\ \A d \in Clients : LatinLasts(d)
  BY <1>0, <1>3, LatinCalledBack
<1>4. ASSUME NEW c \in Clients, Handle(c)
      PROVE  LInv' /\ \A d \in Clients : LatinLasts(d)
  BY <1>0, <1>4, LatinHandled
<1>5. ASSUME \/ \E c \in Clients : SwitchTo(c) \/ OnKillThreadFocus(c)
             \/ Crash \/ Restart \/ UNCHANGED vars
      PROVE  run' = run /\ comp' = comp /\ ghost'.alone = ghost.alone
  BY <1>0, <1>5 DEF SwitchTo, OnKillThreadFocus, Crash, Restart, vars, Ghost
<1> QED
  BY <1>0, <1>1, <1>2, <1>3, <1>4, <1>5, LatinFrame DEF Next, Callback

\* Latin input lasts until the composition is confirmed, given up or ended, Shift
\* was pressed alone, or an edit meets a new server.
THEOREM LatinLastsUntilConfirmed ==
  ASSUME CountsClauses
  PROVE  Spec => LatinUntilConfirmed
<1> DEFINE Lasting == \A c \in Clients :
             comp[c].tl /\ ~comp'[c].tl /\ c \notin ghost'.excused =>
               \/ comp'[c].state = "none"
               \/ Acting(c, "shrink")
               \/ Acting(c, "pendingOff") /\ c \in ghost.alone
               \/ run[c].svc # [session |-> server.session, reset |-> FALSE]
<1>1. Init => LInv
  BY LatinInit
<1>2. LInv /\ [Next]_vars => LInv'
  BY LatinNext
<1>3. LInv /\ [Next]_vars => [Lasting]_vars
  BY LatinNext DEF LatinLasts
<1>4. Spec => [][Lasting]_vars
  <2> HIDE DEF Lasting
  <2> QED
    BY <1>1, <1>2, <1>3, PTL DEF Spec
<1> QED
  BY <1>4 DEF LatinUntilConfirmed
=============================================================================
