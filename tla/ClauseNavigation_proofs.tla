----------------------- MODULE ClauseNavigation_proofs ------------------------
(***************************************************************************)
(* The invariant of clause navigation: as long as every change of the      *)
(* composition was one the model judges, the clauses are those of one      *)
(* composition (Holding). From it follow the properties that               *)
(* MCClauseNavigation checks, for every converter, key size and length of  *)
(* the composition that the assumptions of ClauseData allow.               *)
(***************************************************************************)
EXTENDS ClauseMoves_proofs

-----------------------------------------------------------------------------
(* Boundaries.                                                             *)

\* The groups of a stack of clauses are finitely many.
LEMMA GroupsFinite ==
  ASSUME NEW S, NEW s \in Seq(S)
  PROVE IsFiniteSet({s[i].group : i \in DOMAIN s})
<1> DEFINE n == Len(s)  f == [i \in 1..n |-> s[i].group]  T == {s[i].group : i \in DOMAIN s}
<1>1. n \in Nat /\ DOMAIN s = 1..n
  BY SeqIs
<1>2. f \in Surjection(1..n, T)
  BY <1>1 DEF Surjection
<1> HIDE DEF f, T, n
<1>3. IsFiniteSet(1..n)
  BY <1>1, FS_Interval
<1>4. IsFiniteSet(T)
  BY <1>2, <1>3, FS_Surjection
<1> QED
  BY <1>4 DEF T

\* There is always a group id that nothing carries.
LEMMA UnusedGroupIs ==
  ASSUME NEW n, n.snaps \in Seq(Clauses), n.futures \in Seq(Futures)
  PROVE UnusedGroup(n) \in Nat
<1> DEFINE a == {n.clause.group}  b == {n.snaps[i].group : i \in DOMAIN n.snaps}
           d == {n.futures[i].group : i \in DOMAIN n.futures}
           used == a \union b \union d
           k == Cardinality(used) + 1  S == 1..k \ used
<1>1. UnusedGroup(n) = Min(S)
  BY DEF UnusedGroup
<1>2. IsFiniteSet(a) /\ IsFiniteSet(b) /\ IsFiniteSet(d)
  <2>1. IsFiniteSet(a)
    BY FS_Singleton
  <2> DEFINE s == n.snaps  f == n.futures
  <2>2. s \in Seq(Clauses) /\ f \in Seq(Futures)
    OBVIOUS
  <2> HIDE DEF s, f, a
  <2>3. IsFiniteSet({s[i].group : i \in DOMAIN s})
    BY <2>2, GroupsFinite
  <2>4. IsFiniteSet({f[i].group : i \in DOMAIN f})
    BY <2>2, GroupsFinite
  <2> QED
    BY <2>1, <2>3, <2>4 DEF s, f
<1> HIDE DEF a, b, d
<1>3. IsFiniteSet(a \union b)
  BY <1>2, FS_Union
<1> DEFINE ab == a \union b
<1> HIDE DEF ab
<1>4. IsFiniteSet(ab \union d)
  BY <1>2, <1>3, FS_Union DEF ab
<1>5. IsFiniteSet(used)
  BY <1>4 DEF ab
<1> HIDE DEF used
<1>6. Cardinality(used) \in Nat
  BY <1>5, FS_CardinalityType
<1>7. k \in Nat /\ k > Cardinality(used) /\ k >= 1
  BY <1>6
<1> HIDE DEF k
<1>8. S # {}
  <2> SUFFICES ASSUME S = {} PROVE FALSE
    OBVIOUS
  <2>1. 1..k \in SUBSET used
    OBVIOUS
  <2> DEFINE T == 1..k
  <2>2. Cardinality(T) = k
    <3>1. Cardinality(1..k) = IF 1 > k THEN 0 ELSE k - 1 + 1
      BY <1>7, FS_Interval
    <3> QED
      BY <1>7, <3>1
  <2> HIDE DEF T
  <2>3. Cardinality(T) <= Cardinality(used)
    BY <1>5, <2>1, FS_Subset DEF T
  <2> QED
    BY <1>6, <1>7, <2>2, <2>3
<1>9. S \in SUBSET Nat
  BY <1>7
<1> HIDE DEF S
<1>10. Min(S) \in S
  BY <1>8, <1>9, MinIs
<1> QED
  BY <1>1, <1>9, <1>10

\* A boundary move has a group number, new or old.
LEMMA BoundaryGroupIs ==
  ASSUME NEW n, n.clause \in Clauses, n.snaps \in Seq(Clauses), n.futures \in Seq(Futures)
  PROVE BoundaryGroup(n) \in Nat
<1>1. UnusedGroup(n) \in Nat /\ n.clause.group \in Nat
  BY UnusedGroupIs, ClauseFields
<1>2. n.futures # <<>> => Last(n.futures).group \in Nat
  <2> HAVE n.futures # <<>>
  <2>1. Last(n.futures) \in Futures
    BY FrontIs
  <2> QED
    BY <2>1, FutureFields
<1> QED
  BY <1>1, <1>2 DEF BoundaryGroup

\* The candidate i of the clause may become its new boundary.
Cuttable(c, i, fs, p) ==
  LET view == c.view
      m    == Len(c.reading)
      rest == c.view.items[i].rest
  IN /\ c \in Clauses /\ m \in 1..Len(p.whole) /\ c.reading = Spelled(0, Rear(m, p.whole))
     /\ c.raw = Rear(Keys * m + p.extra, p.keys)
     /\ p.base \o (Kana(c.fixed) \o Kana(c.reading)) = p.whole
     /\ ViewPart(view, m, p) /\ i \in DOMAIN view.items
     /\ fs # <<>> => Len(Last(fs).reading) < m
     /\ Readable(rest, fs)
     /\ rest = <<>> /\ fs # <<>> => Ended(view)
     /\ fs = <<>> => RestsPlain(view, 0)
     /\ rest # <<>> => RestsPlain(view, Len(rest))
     /\ rest # <<>> => RestsPlain(view, 0) \/ (fs # <<>> /\ Len(Last(fs).reading) < Len(rest))

\* apply_boundary_candidate_selection
LEMMA ChooseInIs ==
  ASSUME NEW p, Frame(p), NEW n, n \in Bundles, Trail(n.snaps, n.server.stack, p),
         After(n.clause, n.snaps), Place(n.server, n.clause), Row(n.futures, p),
         NEW i, Cuttable(n.clause, i, n.futures, p), NEW group \in Nat
  PROVE Good(ChooseIn(n, i, group), p) /\ ChooseIn(n, i, group).effect = "applied"
<1> DEFINE c == n.clause  fs == n.futures  view == c.view  m == Len(c.reading)
           item == view.items[i]  rest == item.rest
           bootstrap == fs = <<>> /\ n.snaps # <<>> /\ RawSuffix(view.reading, item.count) = <<>>
           out == Split(fs, c.raw, view.reading, item.count, item.rest, bootstrap, group)
           derived == c.neighbor \/ \E k \in DOMAIN out : out[k].group = group
           preview == c.fixed \o item.text
           g == IF derived THEN group ELSE 0
           no == FALSE
           b == [c EXCEPT !.sel = i, !.count = item.count, !.preview = preview,
                          !.reading = view.reading, !.derived = derived, !.remainder = no,
                          !.group = g]
           d == ShowAhead(b, out)
<1>1. /\ c \in Clauses /\ m \in 1..Len(p.whole) /\ c.reading = Spelled(0, Rear(m, p.whole))
      /\ c.raw = Rear(Keys * m + p.extra, p.keys)
      /\ p.base \o (Kana(c.fixed) \o Kana(c.reading)) = p.whole
      /\ ViewPart(view, m, p) /\ i \in DOMAIN view.items
      /\ (fs # <<>> => Len(Last(fs).reading) < m)
      /\ Readable(rest, fs)
      /\ (rest = <<>> /\ fs # <<>> => Ended(view))
      /\ (fs = <<>> => RestsPlain(view, 0))
      /\ (rest # <<>> => RestsPlain(view, Len(rest)))
      /\ (rest # <<>> => RestsPlain(view, 0) \/ (fs # <<>> /\ Len(Last(fs).reading) < Len(rest)))
  BY DEF Cuttable
<1>2. view \in Views /\ c.fixed \in Text /\ c.neighbor \in BOOLEAN
  BY <1>1, ClauseFields
<1>3. item \in Items /\ item.text \in Text /\ rest \in Text /\ item.count \in Nat /\ i \in Nat
  BY <1>1, <1>2, ViewFields
<1>4. Tells(item, m, p) /\ view.reading = c.reading
  BY <1>1 DEF ViewPart
<1>5. preview \in Text
  BY <1>2, <1>3, TextCat
<1>6. ChooseIn(n, i, group) = Redrawn(n, d, out)
  BY Zenon DEF ChooseIn, Chosen
<1>7. derived \in BOOLEAN /\ g \in Nat /\ (g # 0 => derived)
  BY Zenon, <1>2
<1>8. OnlyFirst(bootstrap, fs)
  BY DEF OnlyFirst
<1>9. no \in BOOLEAN /\ ~no
  OBVIOUS
<1> HIDE DEF bootstrap, derived, g, no
<1>10. /\ Row(out, p) /\ (rest = <<>> => out = fs)
       /\ (rest # <<>> /\ out # <<>> => Len(Last(out).reading) = Len(rest))
       /\ (~Plain(rest) \/ (fs # <<>> /\ Len(Last(fs).reading) < Len(rest)) => out # <<>>)
  <2> DEFINE raw == c.raw  reading == view.reading
  <2>1. raw = Rear(Keys * m + p.extra, p.keys) /\ reading = Spelled(0, Rear(m, p.whole))
    BY <1>1, <1>4
  <2>2. Readable(item.rest, fs) /\ Row(fs, p)
    BY <1>1
  <2> HIDE DEF raw, reading, item, fs
  <2>3. LET o == Split(fs, raw, reading, item.count, item.rest, bootstrap, group)
        IN /\ Row(o, p)
           /\ item.rest = <<>> => o = fs
           /\ item.rest # <<>> /\ o # <<>> => Len(Last(o).reading) = Len(item.rest)
           /\ ~Plain(item.rest) \/ (fs # <<>> /\ Len(Last(fs).reading) < Len(item.rest)) => o # <<>>
    BY <1>1, <1>3, <1>4, <1>8, <2>1, <2>2, SplitIs
  <2> QED
    BY <2>3 DEF raw, reading
<1> HIDE DEF out, preview, item, m
<1>11. /\ b \in Clauses /\ b.sel = i /\ b.count = item.count /\ b.preview = preview
       /\ b.reading = c.reading /\ b.fixed = c.fixed /\ b.view = view /\ b.raw = c.raw
       /\ b.group = g /\ b.derived = derived /\ b.remainder = no
  <2>1. c.reading \in Text
    BY <1>1, ClauseFields
  <2> DEFINE r == c.reading
             x == [c EXCEPT !.sel = i, !.count = item.count, !.preview = preview,
                          !.reading = r, !.derived = derived, !.remainder = no,
                          !.group = g]
  <2>2. b = x
    BY <1>4
  <2>3. r \in Text /\ c \in Clauses /\ c.view = view
    BY <1>1, <2>1
  <2> HIDE DEF c, r, b, view
  <2>4. /\ x \in Clauses /\ x.sel = i /\ x.count = item.count /\ x.preview = preview
        /\ x.reading = r /\ x.fixed = c.fixed /\ x.view = c.view /\ x.raw = c.raw
        /\ x.group = g /\ x.derived = derived /\ x.remainder = no
    BY <1>3, <1>5, <1>7, <1>9, <2>3 DEF Clauses
  <2> QED
    BY <2>2, <2>3, <2>4 DEF r
<1> HIDE DEF b
<1>12. ClauseBase(b, p)
  <2>1. Len(b.reading) = m
    BY <1>11 DEF m
  <2>2. Base(b, p)
    BY <1>1, <1>7, <1>11, <2>1 DEF Base, item
  <2> QED
    BY <1>1, <1>11, <2>2 DEF ClauseBase, preview, item
<1>13. Fits(b, out)
  <2>1. b.view.items[b.sel].rest = rest
    BY <1>11 DEF item
  <2>2. out = <<>> => RestsPlain(view, 0)
    <3> HAVE out = <<>>
    <3>1. CASE rest = <<>>
      BY <1>1, <1>10, <3>1
    <3>2. CASE rest # <<>>
      BY <1>1, <1>10, <3>2
    <3> QED
      BY <3>1, <3>2
  <2>3. ASSUME out # <<>>
        PROVE /\ RestsPlain(view, Len(Last(out).reading)) /\ Len(Last(out).reading) < m
              /\ (rest # <<>> => Len(rest) = Len(Last(out).reading))
              /\ (rest = <<>> => Ended(view) /\ ~b.remainder)
    <3>1. CASE rest = <<>>
      <4>1. out = fs /\ Ended(view) /\ ~b.remainder /\ Len(Last(out).reading) < m
        BY <1>1, <1>9, <1>10, <1>11, <2>3, <3>1
      <4>2. RestsPlain(view, Len(Last(out).reading))
        BY <4>1 DEF Ended, RestsPlain, PlainBefore
      <4> QED
        BY <3>1, <4>1, <4>2
    <3>2. CASE rest # <<>>
      <4>1. Len(Last(out).reading) = Len(rest) /\ RestsPlain(view, Len(rest))
        BY <1>1, <1>10, <2>3, <3>2
      <4>2. Len(rest) < m
        <5>1. m \in 1..Len(p.whole) /\ Len(p.whole) \in Nat
          BY <1>1, SeqIs DEF m, Frame, Frames, Kanas
        <5>2. m \in 0..Len(p.whole) /\ m \in Nat
          BY <5>1
        <5>3. item \in Items /\ Tells(item, m, p)
          BY <1>3, <1>4
        <5>4. Len(item.rest) \in 0..m-1
          BY ONLY <5>2, <5>3, TellsIs, Frame(p)
        <5>5. rest = item.rest
          BY DEF item
        <5> DEFINE r == Len(item.rest)
        <5>6. r \in 0..m-1
          BY <5>4
        <5> HIDE DEF r
        <5>7. r < m
          BY <5>2, <5>6
        <5> QED
          BY <5>5, <5>7 DEF r
      <4> QED
        BY <3>2, <4>1, <4>2
    <3> QED
      BY <3>1, <3>2
  <2> HIDE DEF view
  <2> QED
    BY <1>11, <2>1, <2>2, <2>3 DEF Fits, m
<1>14. ClausePart(d, p) /\ Before(d, out) /\ SameClause(b, d)
  BY <1>10, <1>12, <1>13, ShowAheadIs
<1>15. d.fixed = c.fixed /\ d.reading = c.reading
  BY <1>11, <1>14 DEF SameClause
<1> HIDE DEF d
<1>16. Good(Redrawn(n, d, out), p) /\ Redrawn(n, d, out).effect = "applied"
  BY <1>10, <1>14, <1>15, RedrawnIs
<1> QED
  BY <1>6, <1>16

\* The bundle n, with the candidates of a view and another cursor of the server.
Turning(n, s, view, x) ==
  /\ x.clause = [n.clause EXCEPT !.view = view] /\ x.snaps = n.snaps /\ x.futures = n.futures
  /\ x.server = s /\ x.effect = n.effect

\* A boundary move that got an answer leaves the clauses behind and the row
\* ahead.
LEMMA TurningIs ==
  ASSUME NEW p, Frame(p), NEW n, Light(n, p), NEW s, At(s, n.server), NEW view \in Views,
         NEW x \in Bundles, Turning(n, s, view, x)
  PROVE /\ Trail(x.snaps, x.server.stack, p) /\ After(x.clause, x.snaps)
        /\ Place(x.server, x.clause) /\ Row(x.futures, p)
<1>1. /\ n \in Bundles /\ n.clause \in Clauses /\ Trail(n.snaps, n.server.stack, p)
      /\ After(n.clause, n.snaps) /\ Place(n.server, n.clause) /\ Row(n.futures, p)
  BY BundleFields DEF Light
<1>2. x.clause.fixed = n.clause.fixed /\ x.clause.reading = n.clause.reading
  BY <1>1 DEF Turning, Clauses
<1>3. x.server.input = n.server.input /\ x.server.stack = n.server.stack
      /\ x.server.cursor \in 0..Len(x.server.input)
  BY DEF Turning, At
<1>4. x.snaps = n.snaps /\ x.futures = n.futures
  BY DEF Turning
<1>5. After(x.clause, x.snaps)
  BY <1>1, <1>2, <1>4 DEF After, Behind
<1>6. Place(x.server, x.clause)
  BY <1>1, <1>2, <1>3 DEF Place
<1> QED
  BY <1>1, <1>3, <1>4, <1>5, <1>6 DEF Bundles

\* A boundary that the server moved.
LEMMA CuttableFresh ==
  ASSUME NEW p, Frame(p), NEW c, ClausePart(c, p), NEW view \in Views,
         ViewPart(view, Len(c.reading), p), RestsPlain(view, 0), view.items # <<>>,
         \A a, b \in DOMAIN view.items : view.items[a].rest = view.items[b].rest,
         NEW fs, fs # <<>> => Chain(c, Last(fs))
  PROVE Cuttable([c EXCEPT !.view = view], 1, fs, p)
<1> DEFINE m == Len(c.reading)  x == [c EXCEPT !.view = view]  rest == view.items[1].rest
<1>1. c \in Clauses /\ Base(c, p) /\ c.view \in Views
  BY ClauseFields DEF ClausePart, ClauseBase
<1>2. /\ x \in Clauses /\ x.view = view /\ x.reading = c.reading /\ x.raw = c.raw
         /\ x.fixed = c.fixed
  BY <1>1 DEF Clauses
<1>3. m \in 1..Len(p.whole) /\ c.reading = Spelled(0, Rear(m, p.whole))
      /\ c.raw = Rear(Keys * m + p.extra, p.keys)
  BY <1>1 DEF Base
<1>4. p.base \o (Kana(c.fixed) \o Kana(c.reading)) = p.whole
  BY DEF ClausePart, ClauseBase
<1>5. 1 \in DOMAIN view.items /\ rest \in Text
  BY ViewFields
<1>6. Plain(rest) /\ Len(rest) \in Nat
  BY <1>5, PlainNoCut, SeqIs DEF RestsPlain, Text
<1>7. rest = <<>> => Ended(view)
  BY <1>5 DEF Ended
<1>8. RestsPlain(view, Len(rest))
  <2> SUFFICES ASSUME NEW i \in DOMAIN view.items PROVE PlainBefore(Len(rest), view.items[i].rest)
    BY DEF RestsPlain
  <2>1. view.items[i].rest \in Text /\ PlainBefore(0, view.items[i].rest)
    BY ViewFields DEF RestsPlain
  <2>2. Plain(view.items[i].rest)
    BY <2>1, PlainNoCut
  <2> QED
    BY <1>6, <2>1, <2>2, PlainAnyCut
<1>9. fs # <<>> => Len(Last(fs).reading) < m
  BY DEF Chain
<1>10. Readable(rest, fs)
  BY <1>6 DEF Readable
<1> HIDE DEF x, m
<1>11. ViewPart(view, m, p)
  BY DEF m
<1>12. Len(x.reading) = m /\ x.view.items[1].rest = rest
  BY <1>2 DEF m
<1> HIDE DEF rest
<1>13. x.reading = Spelled(0, Rear(m, p.whole)) /\ x.raw = Rear(Keys * m + p.extra, p.keys)
       /\ p.base \o (Kana(x.fixed) \o Kana(x.reading)) = p.whole
  BY <1>2, <1>3, <1>4
<1>14. Cuttable(x, 1, fs, p)
  BY <1>2, <1>3, <1>5, <1>6, <1>7, <1>8, <1>9, <1>10, <1>11, <1>12, <1>13 DEF Cuttable
<1> QED
  BY <1>14 DEF x

\* A shorter candidate of the clause.
LEMMA CuttableOlder ==
  ASSUME NEW p, Frame(p), NEW c, ClausePart(c, p), NEW fs, Row(fs, p),
         fs # <<>> => Chain(c, Last(fs)) /\ Keys = 1, fs = <<>> => RestsPlain(c.view, 0),
         NEW i \in DOMAIN c.view.items, c.view.items[i].count < c.count
  PROVE Cuttable(c, i, fs, p)
<1> DEFINE m == Len(c.reading)  view == c.view  rest == view.items[i].rest
           a == view.items[i]  b == view.items[c.sel]
<1>1. c \in Clauses /\ Base(c, p) /\ Ends(c) /\ view \in Views /\ c.suffix \in Text
  BY ClauseFields DEF ClausePart, ClauseBase
<1>2. m \in 1..Len(p.whole) /\ c.reading = Spelled(0, Rear(m, p.whole))
      /\ c.raw = Rear(Keys * m + p.extra, p.keys) /\ ViewPart(view, m, p)
  BY <1>1 DEF Base
<1>3. p.base \o (Kana(c.fixed) \o Kana(c.reading)) = p.whole
  BY DEF ClausePart, ClauseBase
<1>4. /\ a \in Items /\ Tells(a, m, p) /\ rest \in Text /\ Len(rest) \in Nat
      /\ b \in Items /\ Tells(b, m, p) /\ c.count = b.count /\ m \in 0..Len(p.whole)
  <2>1. a \in Items /\ rest \in Text
    BY <1>1, ViewFields
  <2>2. Len(rest) \in Nat
    BY <2>1, SeqIs DEF Text
  <2>3. b \in Items /\ Tells(b, m, p) /\ m \in 0..Len(p.whole)
    BY <1>1, BaseIs
  <2>4. Tells(a, m, p)
    BY <1>2 DEF ViewPart
  <2>5. c.count = b.count
    BY <1>1 DEF Base
  <2> QED
    BY <2>1, <2>2, <2>3, <2>4, <2>5
<1>5. CASE fs = <<>>
  <2>1. RestsPlain(view, 0)
    BY <1>5
  <2>2. Plain(rest)
    BY <1>4, <2>1, PlainNoCut DEF RestsPlain
  <2>3. RestsPlain(view, Len(rest))
    <3> SUFFICES ASSUME NEW j \in DOMAIN view.items PROVE PlainBefore(Len(rest), view.items[j].rest)
      BY DEF RestsPlain
    <3>1. view.items[j].rest \in Text /\ PlainBefore(0, view.items[j].rest)
      BY <1>1, <2>1, ViewFields DEF RestsPlain
    <3>2. Plain(view.items[j].rest)
      BY <3>1, PlainNoCut
    <3> QED
      BY <1>4, <3>1, <3>2, PlainAnyCut
  <2> QED
    BY <1>1, <1>2, <1>3, <1>5, <2>1, <2>2, <2>3 DEF Cuttable, Readable
<1>6. CASE fs # <<>>
  <2>1. Chain(c, Last(fs)) /\ Keys = 1
    BY <1>6
  <2>2. Len(b.rest) < Len(rest) /\ rest # <<>>
    <3> HIDE DEF a, b, m
    <3>1. a.count < b.count
      BY <1>4 DEF a
    <3>2. Len(b.rest) < Len(a.rest) /\ a.rest # <<>>
      BY ONLY <1>4, <2>1, <3>1, Frame(p), ShorterRest
    <3> QED
      BY <3>2 DEF a
  <2>3. Len(b.rest) = Len(c.suffix)
    BY <1>1, EndsIs
  <2>4. c.suffix # <<>>
    BY <2>1, <2>2 DEF Chain, Ended
  <2> DEFINE k == Len(Last(fs).reading)
  <2>5. k = Len(c.suffix) /\ k < m
    BY <2>1, <2>4 DEF Chain
  <2>6. k \in Nat
    BY <1>1, <2>5, SeqIs DEF Text
  <2>7. RestsPlain(view, k)
    BY <1>1, <2>5 DEF Ends
  <2> HIDE DEF k
  <2>8. k < Len(rest)
    BY <2>2, <2>3, <2>5
  <2>9. RestsPlain(view, Len(rest))
    <3> SUFFICES ASSUME NEW j \in DOMAIN view.items PROVE PlainBefore(Len(rest), view.items[j].rest)
      BY DEF RestsPlain
    <3>1. view.items[j].rest \in Text /\ PlainBefore(k, view.items[j].rest)
      BY <1>1, <2>7, ViewFields DEF RestsPlain
    <3>2. k <= Len(rest)
      BY <1>4, <2>6, <2>8
    <3> QED
      BY <1>4, <2>6, <3>1, <3>2, PlainBeforeMore
  <2>10. PlainBefore(k, rest)
    BY <2>7 DEF RestsPlain
  <2>11. Readable(rest, fs)
    BY <1>6, <2>1, <2>8, <2>10 DEF Readable, k
  <2> QED
    BY <1>1, <1>2, <1>3, <1>6, <2>2, <2>5, <2>8, <2>9, <2>11 DEF Cuttable, k
<1> QED
  BY <1>5, <1>6

\* The clause and the server of a bundle, changed.
LEMMA ChangedIs ==
  ASSUME NEW n \in Bundles, NEW s \in Servers, NEW view \in Views
  PROVE LET x == [n EXCEPT !.server = s, !.clause.view = view]
            y == [n EXCEPT !.server = s]
        IN /\ x \in Bundles /\ Turning(n, s, view, x)
           /\ y \in Bundles /\ y = [clause |-> n.clause, snaps |-> n.snaps, futures |-> n.futures,
                                    server |-> s, effect |-> n.effect]
<1> DEFINE c == n.clause  sn == n.snaps  fs == n.futures  e == n.effect
           d == [c EXCEPT !.view = view]
<1>1. /\ c \in Clauses /\ sn \in Seq(Clauses) /\ fs \in Seq(Futures) /\ e \in Effects
      /\ n = [clause |-> c, snaps |-> sn, futures |-> fs, server |-> n.server, effect |-> e]
  BY BundleFields
<1>2. d \in Clauses
  BY <1>1 DEF Clauses
<1> DEFINE w == n.server
<1> HIDE DEF c, sn, fs, e, w
<1>3. n = [clause |-> c, snaps |-> sn, futures |-> fs, server |-> w, effect |-> e]
  BY <1>1 DEF w
<1> DEFINE x == [n EXCEPT !.server = s, !.clause.view = view]
           y == [n EXCEPT !.server = s]
<1>4. x = [clause |-> d, snaps |-> sn, futures |-> fs, server |-> s, effect |-> e]
  <2> DEFINE r == [clause |-> d, snaps |-> sn, futures |-> fs, server |-> s, effect |-> e]
  <2>1. n.clause = c
    BY ONLY <1>3
  <2>2. x.clause = [n.clause EXCEPT !.view = view]
    BY ONLY <1>3
  <2>3. x.clause = d
    BY ONLY <2>1, <2>2
  <2> HIDE DEF d
  <2>4. DOMAIN x = DOMAIN r /\ x.snaps = sn /\ x.futures = fs /\ x.server = s /\ x.effect = e
    BY ONLY <1>3
  <2>5. x \in [DOMAIN x -> {x.clause, x.snaps, x.futures, x.server, x.effect}]
    BY ONLY <1>3
  <2> HIDE DEF x
  <2> QED
    BY ONLY <2>3, <2>4, <2>5
<1>5. y = [clause |-> c, snaps |-> sn, futures |-> fs, server |-> s, effect |-> e]
  BY ONLY <1>3
<1> HIDE DEF x, y, d
<1>6. x \in Bundles /\ y \in Bundles
  BY <1>1, <1>2, <1>4, <1>5 DEF Bundles
<1>7. x.clause = d /\ x.snaps = sn /\ x.futures = fs /\ x.server = s /\ x.effect = e
  BY <1>4
<1>8. Turning(n, s, view, x)
  BY <1>7 DEF Turning, c, sn, fs, e, d
<1> QED
  BY <1>5, <1>6, <1>8 DEF x, y, c, sn, fs, e

\* An answer of the server to a boundary move: candidates that all end at the
\* boundary.
AnswerPart(view, m, p) ==
  /\ view \in Views /\ view # NoView /\ ViewPart(view, m, p) /\ RestsPlain(view, 0)
  /\ \A a, b \in DOMAIN view.items : view.items[a].rest = view.items[b].rest

\* The answer for a cursor of the server at the clause.
LEMMA AnswerAt ==
  ASSUME NEW p, Frame(p), NEW c, ClausePart(c, p), NEW from, Place(from, c), NEW s, At(s, from)
  PROVE AnswerPart(View0(s), Len(c.reading), p)
<1> DEFINE m == Len(c.reading)  cursor == s.cursor
<1>1. c \in Clauses /\ Base(c, p) /\ c.view \in Views
  BY ClauseFields DEF ClausePart, ClauseBase
<1>2. m \in 1..Len(p.whole) /\ m \in 0..Len(p.whole) /\ Kana(c.reading) = Rear(m, p.whole)
  BY <1>1, BaseIs
<1>3. s.input = Rear(m, p.whole) /\ cursor \in 0..Len(s.input)
  BY <1>2 DEF At, Place
<1>4. Len(Rear(m, p.whole)) = m
  BY <1>2, NumIs
<1>5. cursor \in 0..m
  BY <1>3, <1>4
<1>6. View0(s) = PrefixView(Rear(m, p.whole), cursor)
  BY <1>3 DEF View0
<1> HIDE DEF m, cursor
<1>7. LET view == PrefixView(Rear(m, p.whole), cursor)
      IN /\ view \in Views /\ view # NoView /\ ViewPart(view, m, p) /\ RestsPlain(view, 0)
         /\ view.items = <<>> <=> cursor = 0
         /\ \A a, b \in DOMAIN view.items : view.items[a].rest = view.items[b].rest
  BY <1>2, <1>5, PrefixViewIs
<1> QED
  BY <1>6, <1>7 DEF AnswerPart, m, cursor

\* The boundary is where the server's answer puts it.
LEMMA AdjustFresh ==
  ASSUME NEW p, Frame(p), NEW n, Good(n, p), NEW s, At(s, n.server), View0(s).items # <<>>
  PROVE LET x == [n EXCEPT !.server = s, !.clause.view = View0(s)]
        IN Good(ChooseBoundary(x, 1), p) /\ ChooseBoundary(x, 1).effect = "applied"
<1> DEFINE view == View0(s)  c == n.clause  x == [n EXCEPT !.server = s, !.clause.view = view]
           one == 1  group == BoundaryGroup(x)
<1>1. /\ n \in Bundles /\ ClausePart(c, p) /\ Place(n.server, c) /\ Light(n, p)
      /\ (n.futures # <<>> => Chain(c, Last(n.futures)))
  BY DEF Good, Light
<1>2. s \in Servers
  BY DEF At
<1>3. /\ view \in Views /\ ViewPart(view, Len(c.reading), p) /\ RestsPlain(view, 0)
      /\ \A a, b \in DOMAIN view.items : view.items[a].rest = view.items[b].rest
  <2> DEFINE from == n.server
  <2>1. ClausePart(c, p) /\ Place(from, c) /\ At(s, from)
    BY <1>1
  <2> HIDE DEF from, c
  <2>2. AnswerPart(View0(s), Len(c.reading), p)
    BY ONLY <2>1, Frame(p), AnswerAt
  <2> QED
    BY <2>2 DEF AnswerPart
<1>4. view.items # <<>>
  OBVIOUS
<1> HIDE DEF view
<1>5. x \in Bundles /\ Turning(n, s, view, x)
  BY <1>1, <1>2, <1>3, ChangedIs
<1> HIDE DEF x
<1>6. /\ Trail(x.snaps, x.server.stack, p) /\ After(x.clause, x.snaps)
      /\ Place(x.server, x.clause) /\ Row(x.futures, p)
  BY <1>1, <1>3, <1>5, TurningIs
<1>7. x.clause = [c EXCEPT !.view = view] /\ x.futures = n.futures
  BY <1>5 DEF Turning
<1> DEFINE fs == n.futures
<1>8. fs # <<>> => Chain(c, Last(fs))
  BY <1>1
<1> HIDE DEF c, fs
<1>9. Cuttable([c EXCEPT !.view = view], 1, fs, p)
  BY <1>1, <1>3, <1>4, <1>8, CuttableFresh
<1>10. Cuttable(x.clause, one, x.futures, p)
  BY <1>7, <1>9 DEF fs
<1>11. group \in Nat
  <2>1. x.clause \in Clauses /\ x.snaps \in Seq(Clauses) /\ x.futures \in Seq(Futures)
    BY <1>5, BundleFields
  <2> QED
    BY <2>1, BoundaryGroupIs
<1>12. ChooseBoundary(x, 1) = ChooseIn(x, one, group)
  BY DEF ChooseBoundary
<1> HIDE DEF one, group
<1>13. Good(ChooseIn(x, one, group), p) /\ ChooseIn(x, one, group).effect = "applied"
  BY <1>5, <1>6, <1>10, <1>11, ChooseInIs
<1> QED
  BY <1>12, <1>13 DEF x, view

\* The next shorter candidate is taken.
LEMMA AdjustOlder ==
  ASSUME NEW p, Frame(p), NEW n, Good(n, p), NEW s, At(s, n.server),
         ShorterItems(n.clause) # {}, n.futures # <<>> => Keys = 1
  PROVE LET y == [n EXCEPT !.server = s]  i == Max(ShorterItems(n.clause))
        IN Good(ChooseBoundary(y, i), p) /\ ChooseBoundary(y, i).effect = "applied"
<1> DEFINE c == n.clause  y == [n EXCEPT !.server = s]  i == Max(ShorterItems(c))
           group == BoundaryGroup(y)  fs == n.futures  v == c.view
<1>1. /\ n \in Bundles /\ ClausePart(c, p) /\ Place(n.server, c) /\ Light(n, p)
      /\ (fs # <<>> => Chain(c, Last(fs))) /\ Row(fs, p) /\ (fs = <<>> => RestsPlain(c.view, 0))
  BY DEF Good, Light
<1>2. s \in Servers /\ c \in Clauses /\ v \in Views
  BY <1>1, BundleFields, ClauseFields DEF At
<1>3. i \in DOMAIN c.view.items /\ c.view.items[i].count < c.count
  <2> DEFINE S == ShorterItems(c)  N == Len(c.view.items)
  <2>1. S \in SUBSET DOMAIN c.view.items /\ \A j \in S : c.view.items[j].count < c.count
    BY DEF ShorterItems
  <2>2. N \in Nat /\ DOMAIN c.view.items = 1..N
    BY <1>2, ViewFields
  <2>3. S # {}
    OBVIOUS
  <2> HIDE DEF S, N
  <2>4. S \in SUBSET (0..N)
    BY <2>1, <2>2
  <2>5. Max(S) \in S
    BY <2>2, <2>3, <2>4, MaxIs
  <2> QED
    BY <2>1, <2>5 DEF S
<1> HIDE DEF v
<1>4. /\ y \in Bundles /\ y = [clause |-> n.clause, snaps |-> n.snaps, futures |-> n.futures,
                               server |-> s, effect |-> n.effect]
  BY <1>1, <1>2, ChangedIs
<1> HIDE DEF y
<1>5. y.clause = c /\ y.snaps = n.snaps /\ y.futures = fs /\ y.server = s /\ y.effect = n.effect
  BY <1>4
<1>6. Turning(n, s, v, y)
  <2>1. [c EXCEPT !.view = v] = c
    BY <1>2 DEF Clauses, v
  <2> QED
    BY <1>5, <2>1 DEF Turning
<1>7. /\ Trail(y.snaps, y.server.stack, p) /\ After(y.clause, y.snaps)
      /\ Place(y.server, y.clause) /\ Row(y.futures, p)
  BY <1>1, <1>2, <1>4, <1>6, TurningIs
<1>8. group \in Nat
  <2>1. y.clause \in Clauses /\ y.snaps \in Seq(Clauses) /\ y.futures \in Seq(Futures)
    BY <1>4, BundleFields
  <2> QED
    BY <2>1, BoundaryGroupIs
<1>9. fs # <<>> => Chain(c, Last(fs)) /\ Keys = 1
  BY <1>1
<1> HIDE DEF c, fs, i
<1>10. Cuttable(c, i, fs, p)
  BY <1>1, <1>3, <1>9, CuttableOlder
<1>11. Cuttable(y.clause, i, y.futures, p)
  BY <1>5, <1>10
<1> HIDE DEF group
<1>12. Good(ChooseIn(y, i, group), p) /\ ChooseIn(y, i, group).effect = "applied"
  BY <1>4, <1>7, <1>8, <1>11, ChooseInIs
<1>13. ChooseBoundary(y, i) = ChooseIn(y, i, group)
  BY DEF ChooseBoundary, group
<1> QED
  BY <1>12, <1>13 DEF y, i, c

\* The boundary does not move, and the clause keeps its candidates.
LEMMA AdjustNot ==
  ASSUME NEW p, Frame(p), NEW n, Good(n, p), NEW s, At(s, n.server), NEW view
  PROVE LET q == Skipped([n EXCEPT !.server = s, !.clause.view = view])
        IN q.effect = "skipped" /\ (q.clause.view = n.clause.view => Good(q, p))
<1> DEFINE x == [n EXCEPT !.server = s, !.clause.view = view]  q == Skipped(x)
           c == n.clause  w == n.server  skip == "skipped"
<1>1. /\ n \in Bundles /\ Light(n, p) /\ c \in Clauses /\ c.view \in Views
      /\ (n.futures = <<>> => RestsPlain(n.clause.view, 0))
  BY BundleFields, ClauseFields DEF Good, Light
<1>2. n = [clause |-> c, snaps |-> n.snaps, futures |-> n.futures, server |-> w,
           effect |-> n.effect]
  BY <1>1, BundleFields
<1> DEFINE d == [c EXCEPT !.view = view]  sn == n.snaps  fs == n.futures  e == n.effect
<1>3. n = [clause |-> c, snaps |-> sn, futures |-> fs, server |-> w, effect |-> e]
  BY <1>2
<1> HIDE DEF c, w, sn, fs, e
<1>4. x = [clause |-> d, snaps |-> sn, futures |-> fs, server |-> s, effect |-> e]
  <2> DEFINE r == [clause |-> d, snaps |-> sn, futures |-> fs, server |-> s, effect |-> e]
  <2>1. n.clause = c
    BY ONLY <1>3
  <2>2. x.clause = [n.clause EXCEPT !.view = view]
    BY ONLY <1>3
  <2>3. x.clause = d
    BY ONLY <2>1, <2>2
  <2> HIDE DEF d
  <2>4. DOMAIN x = DOMAIN r /\ x.snaps = sn /\ x.futures = fs /\ x.server = s /\ x.effect = e
    BY ONLY <1>3
  <2>5. x \in [DOMAIN x -> {x.clause, x.snaps, x.futures, x.server, x.effect}]
    BY ONLY <1>3
  <2> HIDE DEF x
  <2> QED
    BY ONLY <2>3, <2>4, <2>5
<1> HIDE DEF d, x, skip
<1>5. q = [clause |-> d, snaps |-> sn, futures |-> fs, server |-> s, effect |-> skip]
  <2>1. q = [x EXCEPT !.effect = skip]
    BY DEF Skipped, skip
  <2> QED
    BY ONLY <1>4, <2>1
<1> HIDE DEF q
<1>6. q.effect = "skipped" /\ q.clause = d
  BY <1>5 DEF skip
<1>7. ASSUME q.clause.view = n.clause.view PROVE Good(q, p)
  <2>1. d.view = view
    BY <1>1 DEF d, Clauses
  <2>2. view = c.view
    BY <1>6, <1>7, <2>1 DEF c
  <2>3. d = c
    BY <1>1, <2>2 DEF d, Clauses
  <2>4. q.clause = n.clause /\ q.snaps = n.snaps /\ q.futures = n.futures /\ q.server = s
    BY <1>5, <2>3 DEF c, sn, fs
  <2>5. s \in Servers
    BY DEF At
  <2>6. q \in Bundles
    <3>1. skip \in Effects
      BY DEF skip, Effects
    <3>2. sn \in Seq(Clauses) /\ fs \in Seq(Futures)
      BY <1>1, BundleFields DEF sn, fs
    <3> QED
      BY <1>1, <1>5, <2>3, <2>5, <3>1, <3>2 DEF Bundles
  <2>7. Place(q.server, q.clause)
    BY <1>1, <2>4 DEF Place, At, Light
  <2>8. Trail(q.snaps, q.server.stack, p)
    BY <1>1, <2>4 DEF At, Light
  <2> QED
    BY <1>1, <2>4, <2>6, <2>7, <2>8 DEF Good, Light
<1> QED
  BY <1>6, <1>7 DEF q, x

\* The server and its cursor at the clause, as it is read.
LEMMA SyncedIs ==
  ASSUME NEW p, Frame(p), NEW n, Good(n, p)
  PROVE At(Synced(n).server, n.server)
<1> DEFINE c == n.clause  from == n.server  view == c.view
<1>1. n \in Bundles /\ Place(from, c)
  BY DEF Good, Light
<1>2. from \in Servers /\ view \in Views
  BY <1>1, BundleFields, ClauseFields
<1>3. At(from, from)
  BY <1>1, <1>2 DEF At, Place
<1>4. At(SyncTo(from, view, c.reading, c.suffix, c.count).server, from)
  <2> DEFINE a == c.reading  e == c.suffix  k == c.count
  <2> HIDE DEF a, e, k, from, view
  <2>1. At(SyncTo(from, view, a, e, k).server, from)
    BY <1>2, <1>3, SyncToIs
  <2> QED
    BY <2>1 DEF a, e, k
<1>5. CASE c.suffix # <<>> \/ n.futures # <<>>
  <2>1. Synced(n) = SyncTo(from, view, c.reading, c.suffix, c.count)
    BY <1>5 DEF Synced
  <2> HIDE DEF from, view, c
  <2>2. At(Synced(n).server, from)
    BY <1>4, <2>1
  <2> QED
    BY <2>2 DEF from
<1>6. CASE ~(c.suffix # <<>> \/ n.futures # <<>>)
  <2>1. Synced(n) = [server |-> from, view |-> view]
    BY <1>6 DEF Synced
  <2> HIDE DEF from, view
  <2>2. Synced(n).server = from
    BY <2>1
  <2> QED
    BY <1>3, <2>2 DEF from
<1> QED
  BY <1>5, <1>6

\* What AdjustBoundary leaves, by the flags that its step sets.
Adjusted(n, d, q, p) ==
  /\ q.effect \in {"applied", "skipped"}
  /\ /\ q.effect = "skipped" => q.clause.view = n.clause.view
     /\ Keys > 1 /\ n.futures # <<>> /\ q.effect = "applied" => View0(Turned(n, d)).items # <<>>
     => Good(q, p)

\* adjust_boundary, by whichever of its branches, leaves a bundle of the same
\* composition.
LEMMA AdjustIs ==
  ASSUME NEW p, Frame(p), NEW n, Good(n, p), NEW d \in {-1, 1}
  PROVE Adjusted(n, d, Adjust(n, d), p)
<1> DEFINE from == n.server  s == Synced(n).server  moved == Turned(n, d)  view == View0(moved)
           back == IF d < 0 THEN MoveCursor(1, moved) ELSE moved
           q == Adjust(n, d)
<1>1. At(s, from)
  BY SyncedIs
<1>2. d \in Int /\ 1 \in Int
  OBVIOUS
<1>3. moved = MoveCursor(d, s)
  BY DEF Turned
<1>4. At(moved, from)
  <2> HIDE DEF from, s, moved
  <2> QED
    BY <1>1, <1>2, <1>3, MoveCursorIs
<1>5. At(back, from)
  <2> DEFINE one == 1
  <2>1. one \in Int
    OBVIOUS
  <2> HIDE DEF from, moved, one
  <2>2. At(MoveCursor(one, moved), from)
    BY <1>4, <2>1, MoveCursorIs
  <2> QED
    BY <1>4, <2>2 DEF one
<1>6. q = AdjustTo(n, d, moved, view, Synced(n).view)
  BY DEF Adjust
<1> HIDE DEF moved, s
<1>7. CASE view.items # <<>>
  <2>1. q = ChooseBoundary([n EXCEPT !.server = moved, !.clause.view = View0(moved)], 1)
    BY <1>6, <1>7 DEF AdjustTo
  <2> DEFINE x == ChooseBoundary([n EXCEPT !.server = moved, !.clause.view = View0(moved)], 1)
  <2>4. At(moved, n.server) /\ View0(moved).items # <<>>
    BY <1>4, <1>7
  <2>5. Good(x, p) /\ x.effect = "applied"
    BY <2>4, AdjustFresh
  <2> HIDE DEF q, x
  <2>2. Good(q, p) /\ q.effect = "applied"
    BY <2>1, <2>5 DEF x
  <2>3. Adjusted(n, d, q, p)
    BY <2>2 DEF Adjusted
  <2> QED
    BY <2>3 DEF q
<1>8. CASE ~(view.items # <<>>) /\ d < 0 /\ ShorterItems(n.clause) # {}
  <2>1. q = ChooseBoundary([n EXCEPT !.server = back], Max(ShorterItems(n.clause)))
    BY <1>6, <1>8 DEF AdjustTo
  <2>2. n.futures # <<>> => (Keys = 1 \/ Keys > 1)
    BY DEF Frame
  <2>3. CASE n.futures # <<>> => Keys = 1
    <3> DEFINE x == ChooseBoundary([n EXCEPT !.server = back], Max(ShorterItems(n.clause)))
    <3>3. At(back, n.server) /\ ShorterItems(n.clause) # {}
      BY <1>5, <1>8
    <3> HIDE DEF back
    <3>4. Good(x, p) /\ x.effect = "applied"
      BY <2>3, <3>3, AdjustOlder
    <3> HIDE DEF q, x
    <3>1. Good(q, p) /\ q.effect = "applied"
      BY <2>1, <3>4 DEF x
    <3>2. Adjusted(n, d, q, p)
      BY <3>1 DEF Adjusted
    <3> QED
      BY <3>2 DEF q
  <2>4. CASE n.futures # <<>> /\ Keys > 1
    <3>1. q.effect = "applied"
      <4> DEFINE y == [n EXCEPT !.server = back]  i == Max(ShorterItems(n.clause))
                 group == BoundaryGroup(y)  item == y.clause.view.items[i]
                 boot == y.futures = <<>> /\ y.snaps # <<>>
                         /\ RawSuffix(y.clause.view.reading, item.count) = <<>>
                 fs == Split(y.futures, y.clause.raw, y.clause.view.reading, item.count,
                             item.rest, boot, group)
                 c == Chosen(y.clause, i, fs, group)
      <4>1. q = Redrawn(y, c, fs)
        BY <2>1 DEF ChooseBoundary, ChooseIn
      <4>2. n \in Bundles /\ back \in Servers
        BY <1>5 DEF Good, Light, At
      <4>3. y \in Bundles
        BY <4>2 DEF Bundles
      <4> HIDE DEF y, c, fs
      <4>4. DOMAIN y = {"clause", "snaps", "futures", "server", "effect"}
        BY <4>3 DEF Bundles
      <4>5. q = [[y EXCEPT !.clause = c, !.futures = fs, !.snaps
              = ShowBehind(@, c.preview \o c.suffix)]
                 EXCEPT !.effect = "applied"]
        BY <4>1 DEF Redrawn, Applied
      <4> QED
        BY ONLY <4>4, <4>5
    <3> HIDE DEF q
    <3>2. Adjusted(n, d, q, p)
      BY <1>8, <2>4, <3>1 DEF Adjusted, view, moved
    <3> QED
      BY <3>2 DEF q
  <2> QED
    BY <2>2, <2>3, <2>4
<1>9. CASE ~(view.items # <<>>) /\ ~(d < 0 /\ ShorterItems(n.clause) # {})
  <2> DEFINE before == Synced(n).view
  <2>1. q = Skipped([n EXCEPT !.server = back, !.clause.view = before])
    BY <1>6, <1>9 DEF AdjustTo
  <2> DEFINE x == Skipped([n EXCEPT !.server = back, !.clause.view = before])
  <2>4. At(back, n.server)
    BY <1>5
  <2> HIDE DEF back, before
  <2>5. x.effect = "skipped" /\ (x.clause.view = n.clause.view => Good(x, p))
    BY <2>4, AdjustNot
  <2> HIDE DEF q, x
  <2>2. q.effect = "skipped" /\ (q.clause.view = n.clause.view => Good(q, p))
    BY <2>1, <2>5 DEF x
  <2>3. Adjusted(n, d, q, p)
    BY <2>2 DEF Adjusted
  <2> QED
    BY <2>3 DEF q
<1> QED
  BY <1>7, <1>8, <1>9

-----------------------------------------------------------------------------
(* Finding the clauses ahead again.                                        *)

\* What the server has after j of the compositions on `stack` are popped.
Popped(b, j, stack) ==
  LET k == Len(stack) - j
  IN /\ b \in Servers /\ Len(b.stack) = k /\ \A i \in 1..k : b.stack[i] = stack[i]
     /\ j > 0 => b.input = stack[k + 1].input /\ b.cursor = stack[k + 1].cursor

\* One more pop.
LEMMA PoppedStep ==
  ASSUME NEW stack \in Seq(Places), NEW j \in Nat, j < Len(stack), NEW b, Popped(b, j, stack)
  PROVE Popped(PopPlace(b), j + 1, stack)
<1> DEFINE n == Len(stack)  k == n - j  s == b.stack  q == PopPlace(b)
<1>1. n \in Nat /\ k \in Nat /\ k >= 1 /\ k - 1 \in Nat /\ n - (j + 1) = k - 1
  BY SeqIs
<1>2. b \in Servers /\ Len(s) = k /\ \A i \in 1..k : s[i] = stack[i]
  BY DEF Popped
<1>3. s \in Seq(Places) /\ s # <<>>
  BY <1>1, <1>2, ServerFields, SeqIs
<1>4. /\ Front(s) \in Seq(Places) /\ Len(Front(s)) = k - 1 /\ Last(s) \in Places
      /\ \A i \in 1..k - 1 : Front(s)[i] = s[i]
      /\ Last(s) = s[k]
  BY <1>2, <1>3, FrontIs
<1>5. q = [input |-> Last(s).input, cursor |-> Last(s).cursor, stack |-> Front(s)]
  BY <1>3 DEF PopPlace
<1>6. Last(s).input \in Kanas /\ Last(s).cursor \in Nat
  BY <1>4 DEF Places
<1> HIDE DEF q, s
<1>7. q \in Servers /\ q.stack = Front(s) /\ q.input = Last(s).input /\ q.cursor = Last(s).cursor
  BY <1>4, <1>5, <1>6 DEF Servers
<1> HIDE DEF k, n
<1>8. \A i \in 1..k - 1 : Front(s)[i] = stack[i]
  BY <1>1, <1>2, <1>4
<1>9. Last(s) = stack[k]
  BY <1>1, <1>2, <1>4
<1>10. (k - 1) + 1 = k
  BY <1>1
<1> QED
  <2>1. Len(stack) - (j + 1) = k - 1
    BY <1>1 DEF n
  <2> QED
    BY <1>4, <1>7, <1>8, <1>9, <1>10, <2>1 DEF Popped, q

\* All compositions are popped: the one at the bottom is left.
LEMMA PoppedAll ==
  ASSUME NEW start \in Servers, start.stack # <<>>
  PROVE Iterated(PopPlace, Len(start.stack), start)
          = [input |-> start.stack[1].input, cursor |-> start.stack[1].cursor, stack |-> <<>>]
<1> DEFINE stack == start.stack  n == Len(stack)
<1>1. stack \in Seq(Places) /\ n \in Nat /\ n >= 1 /\ DOMAIN stack = 1..n
  BY ServerFields, SeqIs
<1>2. PICK f : Pops(n, start, f) /\ Iterated(PopPlace, n, start) = f[n]
  BY <1>1, PopsAre
<1>3. \A i \in 0..n : f[i] = IF i = 0 THEN start ELSE PopPlace(f[i - 1])
  BY <1>2 DEF Pops
<1> DEFINE S == {i \in Nat : i <= n => Popped(f[i], i, stack)}
<1>4. 0 \in S
  <2>1. f[0] = start
    BY <1>1, <1>3
  <2>2. n - 0 = n
    BY <1>1
  <2>3. Popped(start, 0, stack)
    BY <2>2 DEF Popped
  <2> QED
    BY <2>1, <2>3
<1>5. \A i \in S : i + 1 \in S
  <2> TAKE i \in S
  <2>1. CASE i + 1 <= n
    <3>1. i \in Nat /\ i + 1 \in 0..n /\ i + 1 # 0 /\ (i + 1) - 1 = i /\ i <= n /\ i < n
      BY <1>1, <2>1
    <3>2. f[i + 1] = PopPlace(f[i])
      BY <1>3, <3>1
    <3>3. Popped(f[i], i, stack)
      BY <3>1
    <3> HIDE DEF n
    <3>4. i < Len(stack)
      BY <3>1 DEF n
    <3> HIDE DEF stack
    <3>5. Popped(PopPlace(f[i]), i + 1, stack)
      BY <1>1, <3>1, <3>3, <3>4, PoppedStep
    <3> QED
      BY <3>1, <3>2, <3>5
  <2> QED
    BY <2>1
<1>6. S = Nat
  <2> HIDE DEF S
  <2>1. S \in SUBSET Nat
    BY DEF S
  <2> QED
    BY <1>4, <1>5, <2>1, SetInduction
<1>7. Popped(f[n], n, stack)
  BY <1>1, <1>6
<1> DEFINE b == f[n]
<1>8. n - n = 0 /\ n > 0
  BY <1>1
<1>9. /\ b \in Servers /\ Len(b.stack) = 0
      /\ b.input = stack[1].input /\ b.cursor = stack[1].cursor
  BY <1>7, <1>8 DEF Popped
<1> HIDE DEF b
<1>10. b.stack = <<>>
  BY <1>9, ServerFields, SeqIs
<1>11. b = [input |-> b.input, cursor |-> b.cursor, stack |-> b.stack]
  BY <1>9, ServerFields
<1> QED
  BY <1>2, <1>9, <1>10, <1>11 DEF b

\* Remembered clauses, nearest first: the first one reads the last r kana, and every
\* one reads what the one before it leaves.
Ahead(found, r, p) ==
  /\ found \in Seq(Futures)
  /\ \A i \in 1..Len(found) : /\ FuturePart(found[i], p) /\ ~found[i].conservative
                              /\ RestsPlain(found[i].view, 0)
  /\ \A i \in 1..Len(found) - 1 : /\ found[i].suffix # <<>>
                                  /\ Len(found[i + 1].reading) = Len(found[i].suffix)
  /\ found # <<>> => Len(found[1].reading) = r

\* f can follow the clauses found.
Follows(f, found, r, p) ==
  /\ FuturePart(f, p) /\ ~f.conservative /\ RestsPlain(f.view, 0)
  /\ found = <<>> => Len(f.reading) = r
  /\ found # <<>> => Last(found).suffix # <<>> /\ Len(f.reading) = Len(Last(found).suffix)

\* The clauses found so far, and one more.
LEMMA AheadAppend ==
  ASSUME NEW p, NEW r, NEW found, Ahead(found, r, p), NEW f, Follows(f, found, r, p)
  PROVE Ahead(Append(found, f), r, p) /\ Append(found, f) # <<>> /\ Last(Append(found, f)) = f
<1> DEFINE n == Len(found)  g == Append(found, f)
<1>1. found \in Seq(Futures) /\ f \in Futures
  BY DEF Ahead, Follows, FuturePart
<1>2. n \in Nat /\ (found = <<>> <=> n = 0)
  BY <1>1, SeqIs
<1>3. g \in Seq(Futures)
  BY ONLY <1>1, AppendIs
<1>4. Len(g) = n + 1
  BY ONLY <1>1, AppendIs
<1>5. \A i \in 1..n : g[i] = found[i]
  BY ONLY <1>1, AppendIs
<1>6. g[n + 1] = f
  BY ONLY <1>1, AppendIs
<1>7. g # <<>> /\ Last(g) = f
  BY ONLY <1>1, AppendSome, AppendLast
<1> HIDE DEF g
<1>8. \A i \in 1..Len(g) : FuturePart(g[i], p) /\ ~g[i].conservative /\ RestsPlain(g[i].view, 0)
  <2> TAKE i \in 1..Len(g)
  <2>1. CASE i \in 1..n
    BY <1>5, <2>1 DEF Ahead
  <2>2. CASE i = n + 1
    BY <1>6, <2>2 DEF Follows
  <2> QED
    BY <1>2, <1>4, <2>1, <2>2
<1>9. \A i \in 1..Len(g) - 1 : g[i].suffix # <<>> /\ Len(g[i + 1].reading) = Len(g[i].suffix)
  <2> TAKE i \in 1..Len(g) - 1
  <2>1. i \in 1..n
    BY <1>2, <1>4
  <2>2. CASE i \in 1..n - 1
    <3>1. i + 1 \in 1..n
      BY <1>2, <2>2
    <3> QED
      BY <1>5, <2>1, <2>2, <3>1 DEF Ahead
  <2>3. CASE i = n
    <3>1. found # <<>> /\ g[i] = Last(found) /\ g[i + 1] = f
      BY <1>2, <1>5, <1>6, <2>1, <2>3 DEF Last
    <3> QED
      BY <3>1 DEF Follows
  <2> QED
    BY <1>2, <2>1, <2>2, <2>3
<1>10. Len(g[1].reading) = r
  <2>1. CASE n = 0
    BY <1>2, <1>6, <2>1 DEF Follows
  <2>2. CASE n # 0
    <3>1. 1 \in 1..n /\ found # <<>>
      BY <1>2, <2>2
    <3> QED
      BY <1>5, <3>1 DEF Ahead
  <2> QED
    BY <2>1, <2>2
<1>11. Ahead(g, r, p)
  BY <1>3, <1>8, <1>9, <1>10 DEF Ahead
<1> QED
  BY <1>7, <1>11 DEF g

\* The clauses found, nearest last, are a row.
LEMMA AheadReverse ==
  ASSUME NEW p, Frame(p), NEW r, NEW found, Ahead(found, r, p), found # <<>>
  PROVE Row(Reverse(found), p) /\ Reverse(found) # <<>> /\ Len(Last(Reverse(found)).reading) = r
<1> DEFINE n == Len(found)  fs == Reverse(found)
<1>1. /\ found \in Seq(Futures) /\ Len(found[1].reading) = r
      /\ \A i \in 1..n : /\ FuturePart(found[i], p) /\ ~found[i].conservative
                         /\ RestsPlain(found[i].view, 0)
      /\ \A i \in 1..n - 1 : /\ found[i].suffix # <<>>
                             /\ Len(found[i + 1].reading) = Len(found[i].suffix)
  BY DEF Ahead
<1>2. n \in Nat /\ n # 0
  BY <1>1, SeqIs
<1>3. fs \in Seq(Futures) /\ Len(fs) = n /\ \A i \in 1..n : fs[i] = found[n - i + 1]
  BY <1>1, ReverseIs
<1> HIDE DEF fs, n
<1>4. \A i \in 1..n : FuturePart(fs[i], p)
  <2> TAKE i \in 1..n
  <2>1. n - i + 1 \in 1..n
    BY <1>2
  <2> QED
    BY <1>1, <1>3, <2>1
<1>5. \A i \in 1..n - 1 : Chain(fs[i + 1], fs[i])
  <2> TAKE i \in 1..n - 1
  <2> DEFINE k == n - i  x == found[k]  f == found[k + 1]
  <2>1. k \in 1..n - 1 /\ k \in 1..n /\ i \in 1..n /\ i + 1 \in 1..n /\ n - i + 1 = k + 1
        /\ n - (i + 1) + 1 = k
    BY <1>2
  <2> HIDE DEF k
  <2>2. fs[i] = f /\ fs[i + 1] = x
    BY <1>3, <2>1
  <2>3. x.suffix # <<>> /\ Len(f.reading) = Len(x.suffix) /\ FuturePart(x, p)
    BY <1>1, <2>1
  <2> HIDE DEF x, f
  <2>4. x.view \in Views /\ x.suffix \in Text /\ Base(x, p) /\ Ends(x)
    BY <2>3, FutureFields DEF FuturePart
  <2>5. Len(x.suffix) \in 0..Len(x.reading) - 1 /\ Len(x.reading) \in Nat
    BY <2>4, EndsIs
  <2>6. Len(f.reading) < Len(x.reading)
    BY <2>3, <2>5
  <2> QED
    BY <2>2, <2>3, <2>6 DEF Chain
<1>6. fs # <<>>
  BY <1>2, <1>3, SeqIs
<1>7. Last(fs) = found[1]
  <2>1. n \in 1..n /\ n - n + 1 = 1
    BY <1>2
  <2> QED
    BY <1>3, <2>1 DEF Last
<1>8. RestsPlain(fs[1].view, 0) /\ ~fs[1].conservative
  <2>1. 1 \in 1..n /\ n - 1 + 1 = n /\ n \in 1..n
    BY <1>2
  <2> QED
    BY <1>1, <1>3, <2>1
<1>9. Row(fs, p)
  BY <1>3, <1>4, <1>5, <1>8 DEF Row
<1> QED
  BY <1>1, <1>6, <1>7, <1>9 DEF fs

\* How a clause is remembered during the walk.
LEMMA RememberedIs ==
  ASSUME NEW p, Frame(p), NEW c, ClausePart(c, p), RestsPlain(c.view, 0), NEW found,
         NEW group \in Nat
  PROVE \E f : /\ Remembered(found, c, group) = Append(found, f)
               /\ FuturePart(f, p) /\ ~f.conservative /\ RestsPlain(f.view, 0)
               /\ f.reading = c.reading /\ f.suffix = c.suffix
<1>1. CASE found # <<>>
  <2> DEFINE f == Future(c)
  <2>1. Remembered(found, c, group) = Append(found, f)
    BY <1>1 DEF Remembered
  <2>2. FuturePart(f, p) /\ Remembers(f, c)
    BY FutureIs
  <2> HIDE DEF f
  <2> QED
    BY <2>1, <2>2 DEF Remembers
<1>2. CASE found = <<>>
  <2> DEFINE yes == TRUE
             d == [c EXCEPT !.derived = yes, !.remainder = yes, !.neighbor = yes, !.group = group]
             f == Future(d)
  <2>1. Remembered(found, c, group) = Append(found, f)
    BY <1>2 DEF Remembered
  <2>2. c \in Clauses
    BY DEF ClausePart, ClauseBase
  <2>3. yes \in BOOLEAN /\ yes
    OBVIOUS
  <2> HIDE DEF yes
  <2>4. /\ d \in Clauses /\ d.fixed = c.fixed /\ d.preview = c.preview /\ d.suffix = c.suffix
        /\ d.raw = c.raw /\ d.reading = c.reading /\ d.count = c.count /\ d.sel = c.sel
        /\ d.view = c.view /\ d.derived = yes /\ d.group = group
    BY <2>2, <2>3 DEF Clauses
  <2> HIDE DEF d
  <2>5. ClausePart(d, p)
    <3>1. Base(d, p)
      BY <2>3, <2>4 DEF ClausePart, ClauseBase, Base
    <3>2. Ends(d)
      BY <2>4 DEF ClausePart, Ends
    <3> QED
      BY <2>4, <3>1, <3>2 DEF ClausePart, ClauseBase
  <2>6. FuturePart(f, p) /\ Remembers(f, d)
    BY <2>5, FutureIs
  <2> HIDE DEF f
  <2> QED
    BY <2>1, <2>4, <2>6 DEF Remembers
<1> QED
  BY <1>1, <1>2

\* What a walk over the clauses ahead has found, from the server's state `from` on.
Walk(acc, from, r, p) ==
  /\ acc = [walk |-> acc.walk, found |-> acc.found, done |-> acc.done]
  /\ acc.done \in BOOLEAN
  /\ Light(acc.walk, p) /\ acc.walk.futures = <<>>
  /\ Ahead(acc.found, r, p)
  /\ acc.found = <<>> <=> acc.walk.snaps = <<>>
  /\ acc.found = <<>> => Len(acc.walk.clause.suffix) = r /\ acc.walk.server = from
  /\ acc.found # <<>> =>
       /\ Len(Last(acc.found).suffix) = Len(acc.walk.clause.suffix)
       /\ acc.walk.server.stack[1] = [input |-> from.input, cursor |-> from.cursor]
  /\ ~acc.done => acc.walk.clause.suffix # <<>>

\* One step of rebuilding the clauses ahead.
RebuildStep(acc, group) ==
  IF acc.done THEN acc ELSE Walked(acc, MoveRight(acc.walk), group)

\* The composition at the bottom of a stack that `place` was pushed to.
Bottom(snaps, stack, out, place) ==
  /\ snaps = <<>> => out[1] = place
  /\ snaps # <<>> => out[1] = stack[1]

\* A push keeps what lies below it.
LEMMA StackBottom ==
  ASSUME NEW p, NEW snaps, NEW stack, Trail(snaps, stack, p), NEW place
  PROVE Bottom(snaps, stack, Append(stack, place), place)
<1>1. stack \in Seq(Places) /\ Len(snaps) = Len(stack) /\ snaps \in Seq(Clauses)
  BY DEF Trail
<1> DEFINE n == Len(stack)
<1>2. n \in Nat /\ (snaps = <<>> <=> n = 0)
  BY <1>1, SeqIs
<1> DEFINE S == Places \union {place}
<1>3. stack \in Seq(S) /\ place \in S
  BY <1>1
<1> HIDE DEF S
<1>4. \A i \in 1..n : Append(stack, place)[i] = stack[i]
  BY ONLY <1>3, AppendIs
<1>5. Append(stack, place)[n + 1] = place
  BY ONLY <1>3, AppendIs
<1> QED
  BY <1>2, <1>4, <1>5 DEF Bottom

\* One step of rebuilding the clauses ahead.
LEMMA WalkStep ==
  ASSUME NEW p, Frame(p), NEW from, NEW r, NEW acc, Walk(acc, from, r, p), NEW group \in Nat
  PROVE LET next == RebuildStep(acc, group)
        IN Walk(next, from, r, p) /\ (acc.found # <<>> \/ ~acc.done => next.found # <<>>)
<1>1. CASE acc.done
  <2>1. RebuildStep(acc, group) = acc
    BY <1>1 DEF RebuildStep
  <2> QED
    BY <1>1, <2>1
<1>2. CASE ~acc.done
  <2> DEFINE n == acc.walk  q == MoveRight(n)  found == acc.found
  <2>1. /\ Light(n, p) /\ n.futures = <<>> /\ Ahead(found, r, p) /\ n.clause.suffix # <<>>
        /\ (found = <<>> <=> n.snaps = <<>>)
        /\ (found = <<>> => Len(n.clause.suffix) = r /\ n.server = from)
        /\ (found # <<>> => /\ Len(Last(found).suffix) = Len(n.clause.suffix)
                            /\ n.server.stack[1] = [input |-> from.input, cursor |-> from.cursor])
    BY <1>2 DEF Walk
  <2>2. MovedRight(n, q, p)
    <3> HIDE DEF n
    <3> QED
      BY <2>1, MoveRightIs
  <2> HIDE DEF q
  <2>3. /\ Good(q, p) /\ q.effect = "applied" /\ q.snaps = Append(n.snaps, n.clause)
        /\ q.server.stack = Append(n.server.stack, [input  |-> n.server.input,
                                                    cursor |-> n.server.cursor])
        /\ Len(q.clause.reading) = Len(n.clause.suffix)
        /\ q.futures = <<>>
    BY <2>1, <2>2 DEF MovedRight
  <2>4. Light(q, p) /\ ClausePart(q.clause, p) /\ RestsPlain(q.clause.view, 0)
    BY <2>3 DEF Good, Light
  <2>5. /\ n.snaps \in Seq(Clauses) /\ n.clause \in Clauses /\ Trail(n.snaps, n.server.stack, p)
    BY <2>1, BundleFields DEF Light
  <2>6. q.snaps # <<>>
    BY <2>3, <2>5, AppendIs
  <2>7. Len(q.snaps) # Len(n.snaps)
    <3> DEFINE k == Len(n.snaps)
    <3>1. k \in Nat
      BY <2>5, SeqIs
    <3>2. Len(q.snaps) = k + 1
      BY <2>3, <2>5, AppendIs
    <3> HIDE DEF k
    <3>3. Len(q.snaps) # k
      BY <3>1, <3>2
    <3> QED
      BY <3>3 DEF k
  <2>8. Marker(q) # Marker(n)
    <3>1. Marker(q)[2] = Len(q.snaps) /\ Marker(n)[2] = Len(n.snaps)
      BY DEF Marker
    <3> QED
      BY <2>7, <3>1
  <2> DEFINE c == q.clause
  <2> HIDE DEF found
  <2>9. PICK f : /\ Remembered(found, c, group) = Append(found, f)
                 /\ FuturePart(f, p) /\ ~f.conservative /\ RestsPlain(f.view, 0)
                 /\ f.reading = c.reading /\ f.suffix = c.suffix
    <3> HIDE DEF c
    <3>1. ClausePart(c, p) /\ RestsPlain(c.view, 0)
      BY <2>4 DEF c
    <3> QED
      BY <3>1, RememberedIs
  <2>10. \/ /\ Last(found) \in Futures
            /\ Len(Last(found).suffix) = 0 <=> Last(found).suffix = <<>>
         \/ found = <<>>
    <3> SUFFICES ASSUME found # <<>> PROVE Last(found) \in Futures
                    /\ (Len(Last(found).suffix) = 0 <=> Last(found).suffix = <<>>)
      OBVIOUS
    <3>1. Last(found) \in Futures
      BY <2>1, FrontIs DEF Ahead
    <3> QED
      BY <3>1, FutureFields, SeqIs DEF Text
  <2>11. Len(n.clause.suffix) # 0
    BY <2>1, <2>5, ClauseFields, SeqIs DEF Text
  <2>12. Follows(f, found, r, p)
    <3>1. found = <<>> => Len(f.reading) = r
      BY <2>1, <2>3, <2>9
    <3>2. found # <<>> => Last(found).suffix # <<>> /\ Len(f.reading) = Len(Last(found).suffix)
      BY <2>1, <2>3, <2>9, <2>10, <2>11
    <3> QED
      BY <2>9, <3>1, <3>2 DEF Follows
  <2> DEFINE g == Append(found, f)
  <2>13. Ahead(g, r, p) /\ g # <<>> /\ Last(g) = f
    BY <2>1, <2>12, AheadAppend
  <2> HIDE DEF g
  <2> DEFINE place == [input |-> from.input, cursor |-> from.cursor]
  <2>14. q.server.stack[1] = place
    <3> DEFINE here == [input |-> n.server.input, cursor |-> n.server.cursor]
               sn == n.snaps  st == n.server.stack
    <3>1. Trail(sn, st, p) /\ q.server.stack = Append(st, here)
      BY <2>3, <2>5
    <3>2. (found = <<>> => sn = <<>> /\ here = place)
            /\ (found # <<>> => sn # <<>> /\ st[1] = place)
      BY <2>1
    <3> HIDE DEF here, sn, st, place
    <3>3. Bottom(sn, st, Append(st, here), here)
      BY ONLY <3>1, StackBottom
    <3> QED
      BY <3>1, <3>2, <3>3 DEF Bottom
  <2> DEFINE ended == c.suffix = <<>>  next == [walk |-> q, found |-> g, done |-> ended]
  <2>15. RebuildStep(acc, group) = next
    <3>1. RebuildStep(acc, group) = Walked(acc, q, group)
      BY <1>2 DEF RebuildStep, q
    <3>2. Walked(acc, q, group)
            = [walk |-> q, found |-> Remembered(found, c, group), done |-> c.suffix = <<>>]
      BY <2>3, <2>8 DEF Walked, found
    <3> QED
      BY <2>9, <3>1, <3>2 DEF g
  <2>16. ended \in BOOLEAN /\ (ended <=> c.suffix = <<>>)
    OBVIOUS
  <2> HIDE DEF ended
  <2>17. next.walk = q /\ next.found = g /\ next.done = ended
    OBVIOUS
  <2> HIDE DEF next, place
  <2>18. next = [walk |-> next.walk, found |-> next.found, done |-> next.done]
    BY <2>17 DEF next
  <2>19. Walk(next, from, r, p)
    BY <2>3, <2>4, <2>6, <2>9, <2>13, <2>14, <2>16, <2>17, <2>18 DEF Walk, place, c
  <2> QED
    BY <2>13, <2>15, <2>17, <2>19
<1> QED
  BY <1>1, <1>2 DEF Walk

\* The states of up to n of them.
Rebuilds(n, start, group, f) ==
  f = [i \in 0..n |-> IF i = 0 THEN start ELSE RebuildStep(f[i - 1], group)]

\* The steps of the rebuild, as a function of their number.
LEMMA RebuildsExist ==
  ASSUME NEW n \in Nat, NEW start, NEW group
  PROVE \E f : Rebuilds(n, start, group, f)
<1> DEFINE S == {m \in Nat : \E f : Rebuilds(m, start, group, f)}
<1>1. 0 \in S
  <2>1. Rebuilds(0, start, group, [i \in 0..0 |-> start])
    BY DEF Rebuilds
  <2> QED
    BY <2>1
<1>2. \A m \in S : m + 1 \in S
  <2> TAKE m \in S
  <2>1. PICK f : Rebuilds(m, start, group, f)
    OBVIOUS
  <2> DEFINE g == [i \in 0..m+1 |-> IF i = m + 1 THEN RebuildStep(f[m], group) ELSE f[i]]
  <2>2. m \in Nat
    OBVIOUS
  <2>3. \A i \in 0..m : f[i] = IF i = 0 THEN start ELSE RebuildStep(f[i - 1], group)
    BY <2>1 DEF Rebuilds
  <2>4. \A i \in 0..m+1 : g[i] = IF i = 0 THEN start ELSE RebuildStep(g[i - 1], group)
    BY <2>2, <2>3
  <2>5. Rebuilds(m + 1, start, group, g)
    BY <2>4 DEF Rebuilds
  <2> QED
    BY <2>2, <2>5
<1>3. S = Nat
  <2> HIDE DEF S
  <2>1. S \in SUBSET Nat
    BY DEF S
  <2> QED
    BY <1>1, <1>2, <2>1, SetInduction
<1> QED
  BY <1>3

\* The clauses ahead are found, and nothing else changes.
Refound(n, q, fs, p) ==
  /\ q = [clause |-> n.clause, snaps |-> n.snaps, futures |-> fs, server |-> n.server,
          effect |-> n.effect]
  /\ Row(fs, p) /\ fs # <<>> /\ Len(Last(fs).reading) = Len(n.clause.suffix)

\* Rebuilding finds at least one clause ahead of a clause that leaves kana over,
\* and ends where it began.
LEMMA RebuiltIs ==
  ASSUME NEW p, Frame(p), NEW n, Light(n, p), n.snaps = <<>>, n.futures = <<>>,
         n.clause.suffix # <<>>
  PROVE \E fs : Refound(n, Rebuilt(n), fs, p)
<1> DEFINE from == n.server  r == Len(n.clause.suffix)  group == n.clause.group
           m == Len(n.server.input)
           start == [walk |-> [n EXCEPT !.snaps = <<>>, !.futures = <<>>], found |-> <<>>,
                     done |-> FALSE]
           F == CHOOSE f : Rebuilds(m, start, group, f)
<1>1. /\ n \in Bundles /\ n.clause \in Clauses /\ from \in Servers /\ group \in Nat
      /\ ClausePart(n.clause, p) /\ Place(from, n.clause) /\ Trail(n.snaps, n.server.stack, p)
  BY BundleFields, ClauseFields DEF Light
<1>2. m \in Nat /\ m >= 1 /\ from.stack = <<>>
  <2>1. Base(n.clause, p) /\ n.clause.view \in Views
    BY <1>1, ClauseFields DEF ClausePart, ClauseBase
  <2> DEFINE k == Len(n.clause.reading)
  <2>2. k \in 1..Len(p.whole) /\ k \in Nat /\ Kana(n.clause.reading) = Rear(k, p.whole)
        /\ k \in 0..Len(p.whole)
    BY <2>1, BaseIs
  <2>3. Len(Rear(k, p.whole)) = k
    BY <2>2, NumIs
  <2>4. m = k
    BY <1>1, <2>2, <2>3 DEF Place
  <2>5. m \in Nat /\ m \in 1..Len(p.whole) /\ Len(p.whole) \in Nat
    BY <2>2, <2>4, SeqIs DEF Frame, Frames, Kanas
  <2> HIDE DEF m
  <2>6. m \in Nat /\ m >= 1
    BY <2>5
  <2>7. from.stack = <<>>
    <3>1. Len(n.snaps) = 0
      OBVIOUS
    <3> QED
      BY <1>1, <3>1, TrailFields
  <2> QED
    BY Zenon, <2>6, <2>7
<1>3. Rebuilt(n) = WalkedBack(n, F[m])
  BY DEF Rebuilt, Iterated, Rebuilds, RebuildStep
<1>4. Rebuilds(m, start, group, F)
  <2> HIDE DEF m, start, group
  <2> QED
    BY <1>2, RebuildsExist
<1> HIDE DEF F
<1>5. Walk(start, from, r, p) /\ ~start.done
  <2> DEFINE x == [n EXCEPT !.snaps = <<>>, !.futures = <<>>]  none == <<>>  no == FALSE
  <2>1. x = n
    BY <1>1 DEF Bundles
  <2>2. start = [walk |-> x, found |-> none, done |-> no]
    OBVIOUS
  <2>3. none = <<>> /\ no = FALSE
    OBVIOUS
  <2> HIDE DEF x, none, no, start
  <2>4. start.walk = n /\ start.found = <<>> /\ start.done = FALSE
    BY <2>1, <2>2, <2>3
  <2>5. start = [walk |-> start.walk, found |-> start.found, done |-> start.done]
    BY <2>1, <2>2, <2>3, <2>4
  <2>6. Ahead(<<>>, r, p)
    BY DEF Ahead
  <2> QED
    BY <2>4, <2>5, <2>6 DEF Walk
<1> HIDE DEF start
<1>6. \A i \in 0..m : F[i] = IF i = 0 THEN start ELSE RebuildStep(F[i - 1], group)
  BY <1>4 DEF Rebuilds
<1> DEFINE Held(i) == Walk(F[i], from, r, p) /\ (i > 0 => F[i].found # <<>>)
           S == {i \in Nat : i <= m => Held(i)}
<1>7. 0 \in S
  <2>1. F[0] = start
    BY <1>2, <1>6
  <2> QED
    BY <1>5, <2>1
<1>8. \A i \in S : i + 1 \in S
  <2> TAKE i \in S
  <2>1. CASE i + 1 <= m
    <3>1. i \in Nat /\ i + 1 \in 0..m /\ i + 1 # 0 /\ (i + 1) - 1 = i /\ i <= m
      BY <1>2, <2>1
    <3>2. F[i + 1] = RebuildStep(F[i], group)
      BY <1>6, <3>1
    <3>3. Walk(F[i], from, r, p) /\ (i > 0 => F[i].found # <<>>)
      BY <3>1
    <3>4. i = 0 => F[i] = start
      BY <1>2, <1>6
    <3>5. F[i].found # <<>> \/ ~F[i].done
      BY <1>5, <3>1, <3>3, <3>4
    <3> DEFINE acc == F[i]
    <3> HIDE DEF acc, from, r, group
    <3>6. Walk(acc, from, r, p) /\ group \in Nat /\ (acc.found # <<>> \/ ~acc.done)
      BY <1>1, <3>3, <3>5 DEF acc, from, r
    <3>7. Walk(RebuildStep(acc, group), from, r, p) /\ RebuildStep(acc, group).found # <<>>
      BY ONLY <3>6, Frame(p), WalkStep
    <3>8. Held(i + 1)
      BY <3>2, <3>7 DEF acc
    <3> QED
      BY <3>1, <3>8
  <2> QED
    BY <2>1
<1>9. S = Nat
  <2> HIDE DEF S
  <2>1. S \in SUBSET Nat
    BY DEF S
  <2> QED
    BY <1>7, <1>8, <2>1, SetInduction
<1> DEFINE end == F[m]
<1>10. Walk(end, from, r, p) /\ end.found # <<>>
  BY <1>2, <1>9
<1> HIDE DEF end, S
<1> DEFINE walk == end.walk  found == end.found  fs == Reverse(found)
<1>11. /\ Light(walk, p) /\ Ahead(found, r, p) /\ walk.snaps # <<>>
       /\ walk.server.stack[1] = [input |-> from.input, cursor |-> from.cursor]
  BY <1>10 DEF Walk
<1>12. Row(fs, p) /\ fs # <<>> /\ Len(Last(fs).reading) = r
  <2> HIDE DEF found, r
  <2> QED
    BY <1>10, <1>11, AheadReverse DEF found
<1>13. Iterated(PopPlace, Len(walk.snaps), walk.server) = from
  <2> DEFINE s == walk.server
  <2>1. walk \in Bundles /\ s \in Servers /\ Trail(walk.snaps, s.stack, p)
    BY <1>11, BundleFields DEF Light
  <2>2. Len(walk.snaps) = Len(s.stack) /\ s.stack # <<>>
    <3>1. walk.snaps \in Seq(Clauses) /\ s.stack \in Seq(Places) /\ Len(walk.snaps) = Len(s.stack)
      BY <2>1 DEF Trail
    <3> QED
      BY <1>11, <3>1, SeqIs
  <2> HIDE DEF s
  <2>3. Iterated(PopPlace, Len(s.stack), s)
          = [input |-> s.stack[1].input, cursor |-> s.stack[1].cursor, stack |-> <<>>]
    BY <2>1, <2>2, PoppedAll
  <2>4. s.stack[1].input = from.input /\ s.stack[1].cursor = from.cursor
    BY <1>11 DEF s
  <2>5. from = [input |-> from.input, cursor |-> from.cursor, stack |-> from.stack]
    BY <1>1, ServerFields
  <2> QED
    BY <1>2, <2>2, <2>3, <2>4, <2>5 DEF s
<1>14. Rebuilt(n) = [n EXCEPT !.futures = fs, !.server = from]
  BY <1>3, <1>13 DEF WalkedBack, end
<1> HIDE DEF fs, from
<1> DEFINE c == n.clause  sn == n.snaps  e == n.effect  f0 == n.futures  w0 == n.server
<1>15. n = [clause |-> c, snaps |-> sn, futures |-> f0, server |-> w0, effect |-> e]
  BY <1>1, BundleFields
<1> DEFINE q == Rebuilt(n)
           k == [clause |-> c, snaps |-> sn, futures |-> fs, server |-> from, effect |-> e]
<1> HIDE DEF c, sn, e, f0, w0, q
<1>16. q = [n EXCEPT !.futures = fs, !.server = from]
  BY <1>14 DEF q
<1>17. DOMAIN q = DOMAIN k /\ q.clause = k.clause /\ q.snaps = k.snaps /\ q.futures = k.futures
       /\ q.server = k.server /\ q.effect = k.effect /\ q = [i \in DOMAIN q |-> q[i]]
  BY ONLY <1>15, <1>16
<1>18. q = k
  BY ONLY <1>17
<1>19. Refound(n, q, fs, p)
  BY <1>12, <1>18 DEF Refound, c, sn, e, from, r
<1> QED
  BY <1>19 DEF q

-----------------------------------------------------------------------------
(* The first move: the composition becomes clauses.                        *)

\* The candidate that navigation starts from is one of the view.
LEMMA NavigationItemIs ==
  ASSUME NEW c \in Clauses, NEW view \in Views, view.items # <<>>
  PROVE NavigationItem(c, view) \in DOMAIN view.items
<1> DEFINE target == ClausePreview(c)
           exact  == {i \in DOMAIN view.items : target = view.items[i].text \o view.items[i].rest}
           starts == {i \in DOMAIN view.items : view.items[i].text # <<>>
                                                /\ IsPrefix(view.items[i].text, target)}
           widest == {i \in starts : \A j \in starts : view.items[i].count >= view.items[j].count}
           n == Len(view.items)  out == NavigationItem(c, view)
<1>1. n \in Nat /\ DOMAIN view.items = 1..n
  BY ViewFields
<1>2. exact \in SUBSET (1..n) /\ widest \in SUBSET (1..n)
  BY <1>1
<1>3. out = IF exact # {} THEN Min(exact) ELSE IF widest # {} THEN Max(widest)
        ELSE Clamp(c.sel, view)
  BY DEF NavigationItem
<1> HIDE DEF exact, widest, out, n
<1>4. CASE exact # {}
  <2>1. exact \in SUBSET Nat
    BY <1>1, <1>2
  <2>2. Min(exact) \in exact
    BY <1>4, <2>1, MinIs
  <2> QED
    BY <1>1, <1>2, <1>3, <1>4, <2>2 DEF out
<1>5. CASE exact = {} /\ widest # {}
  <2>1. widest \in SUBSET (0..n)
    BY <1>1, <1>2
  <2>2. Max(widest) \in widest
    BY <1>1, <1>5, <2>1, MaxIs
  <2> QED
    BY <1>1, <1>2, <1>3, <1>5, <2>2 DEF out
<1>6. CASE exact = {} /\ widest = {}
  <2> DEFINE sel == c.sel
  <2>1. sel \in Int
    BY ClauseFields
  <2> HIDE DEF sel
  <2>2. Clamp(sel, view) \in DOMAIN view.items
    BY <2>1, ClampIs
  <2> QED
    BY <1>3, <1>6, <2>2 DEF out, sel
<1> QED
  BY <1>4, <1>5, <1>6

\* What is left of the candidates of a clause that is parted.
Rests(part, view, i) ==
  [j \in DOMAIN view.items |-> IF j = i THEN part.suffix ELSE view.items[j].rest]

\* Two ways to write the clause of a candidate that leaves something.
With(part, i, yes)       == [part EXCEPT !.view.items[i].rest = part.suffix, !.derived = yes]

\* The clause with its candidates' rests respelled.
WithRests(part, view, i, yes) ==
  [part EXCEPT !.view = Retold(view, Rests(part, view, i)), !.derived = yes]

\* A clause parted from its suffix, in the terms of RetoldIs.
LEMMA PartedIsRetold ==
  ASSUME NEW view \in Views, NEW part \in Clauses, part.view = view, NEW i \in DOMAIN view.items,
         NEW yes
  PROVE With(part, i, yes) = WithRests(part, view, i, yes)
<1> DEFINE s == part.suffix  items == view.items  n == Len(items)
           rests == Rests(part, view, i)
           new == [items EXCEPT ![i] = [items[i] EXCEPT !.rest = s]]
           old == [j \in DOMAIN items |-> [items[j] EXCEPT !.rest = rests[j]]]
<1>1. DOMAIN items = 1..n /\ \A j \in 1..n : items[j] \in Items
  BY ViewFields
<1>2. items = [j \in 1..n |-> items[j]]
  BY <1>1, ViewFields
<1>3. \A j \in 1..n : rests[j] = IF j = i THEN s ELSE items[j].rest
  BY <1>1 DEF Rests
<1>4. i \in 1..n
  BY <1>1
<1> HIDE DEF s, rests, n
<1>5. \A j \in 1..n : new[j] = old[j]
  <2> TAKE j \in 1..n
  <2>1. old[j] = [items[j] EXCEPT !.rest = rests[j]]
    BY <1>1
  <2>2. CASE j = i
    BY <1>1, <1>3, <2>1, <2>2
  <2>3. CASE j # i
    <3> DEFINE x == items[j]
    <3>1. new[j] = x /\ x \in Items /\ rests[j] = x.rest
      BY <1>1, <1>3, <2>3
    <3> HIDE DEF x
    <3>2. [x EXCEPT !.rest = x.rest] = x
      BY <3>1 DEF Items
    <3> QED
      BY <2>1, <3>1, <3>2 DEF x
  <2> QED
    BY <2>2, <2>3
<1>6. new = old
  BY <1>1, <1>2, <1>5
<1>7. [view EXCEPT !.items = new] = Retold(view, rests)
  BY <1>6 DEF Retold
<1>8. [part EXCEPT !.view.items[i].rest = part.suffix, !.derived = yes]
        = [part EXCEPT !.view = [view EXCEPT !.items = new], !.derived = yes]
  BY DEF s
<1> QED
  BY <1>7, <1>8 DEF rests, With, WithRests

\* The clause of a candidate that leaves something.
PartedPart(d, c, i, view, p) ==
  /\ ClausePart(d, p) /\ d.fixed = c.fixed /\ d.reading = view.reading /\ d.suffix # <<>>

\* A clause parted from its suffix is told as before, whether or not it has the
\* suffix's spelling.
LEMMA PartedIs ==
  ASSUME NEW p, Frame(p), NEW c, NEW view, NEW i, NEW m, Fresher(c, view, i, m, p),
         view.items[i].rest # <<>>
  PROVE PartedPart(Parted(c, view, i), c, i, view, p)
<1> DEFINE part == Reread(c, view, i)  yes == TRUE  rests == Rests(part, view, i)
           new == Retold(view, rests)  s == part.suffix
           d == [part EXCEPT !.view = new, !.derived = yes]
<1>1. /\ m \in 1..Len(p.whole) /\ view \in Views /\ ViewPart(view, m, p) /\ RestsPlain(view, 0)
      /\ i \in DOMAIN view.items
  BY DEF Fresher
<1>2. /\ ClausePart(part, p) /\ part.fixed = c.fixed /\ part.view = view /\ part.sel = i
      /\ Len(part.reading) = m /\ Len(s) = Len(view.items[i].rest)
      /\ Kana(s) = Kana(view.items[i].rest)
  BY RereadIs
<1>3. part.reading = view.reading
  <2>1. part.reading = Spelled(0, Rear(Len(part.reading), p.whole))
    BY <1>2 DEF ClausePart, ClauseBase, Base
  <2> QED
    BY <1>1, <1>2, <2>1 DEF ViewPart
<1>4. part \in Clauses /\ s \in Text
  BY <1>2, ClauseFields DEF ClausePart, ClauseBase
<1>5. s # <<>>
  <2> DEFINE rest == view.items[i].rest
  <2>1. rest \in Text /\ Len(s) = Len(rest) /\ rest # <<>>
    BY <1>1, <1>2, ViewFields
  <2> HIDE DEF rest, s
  <2> QED
    BY <1>4, <2>1, SeqIs DEF Text
<1>6. Respells(rests, view)
  <2>1. DOMAIN rests = DOMAIN view.items
    BY DEF Rests
  <2>2. \A j \in DOMAIN view.items : rests[j] \in Text /\ Kana(rests[j]) = Kana(view.items[j].rest)
    <3> TAKE j \in DOMAIN view.items
    <3>1. rests[j] = IF j = i THEN s ELSE view.items[j].rest
      BY DEF Rests
    <3>2. view.items[j].rest \in Text
      BY <1>1, ViewFields
    <3> QED
      BY <1>2, <1>4, <3>1, <3>2
  <2> QED
    BY <2>1, <2>2 DEF Respells
<1>7. Parted(c, view, i) = [part EXCEPT !.view.items[i].rest = part.suffix, !.derived = TRUE]
  BY DEF Parted
<1>8. Parted(c, view, i) = d
  <2>1. Parted(c, view, i) = With(part, i, yes)
    BY <1>7 DEF With
  <2>2. view \in Views /\ part \in Clauses /\ part.view = view /\ i \in DOMAIN view.items
    BY <1>1, <1>2, <1>4
  <2>3. WithRests(part, view, i, yes) = d
    BY DEF WithRests
  <2> HIDE DEF part, yes, d
  <2>4. With(part, i, yes) = WithRests(part, view, i, yes)
    BY ONLY <2>2, PartedIsRetold
  <2> QED
    BY <2>1, <2>3, <2>4
<1> HIDE DEF rests
<1>9. ViewPart(new, m, p) /\ RespeltPart(new, view, rests)
  BY <1>1, <1>6, RetoldIs
<1> HIDE DEF new, part
<1>10. yes \in BOOLEAN /\ yes
  OBVIOUS
<1> HIDE DEF yes
<1>11. /\ new \in Views /\ DOMAIN new.items = DOMAIN view.items
       /\ \A j \in DOMAIN view.items : /\ new.items[j].text = view.items[j].text
                                       /\ new.items[j].count = view.items[j].count
                                       /\ new.items[j].rest = rests[j]
  BY <1>9 DEF RespeltPart
<1>12. /\ d \in Clauses /\ d.view = new /\ d.derived = yes /\ d.fixed = part.fixed
       /\ d.preview = part.preview /\ d.suffix = s /\ d.raw = part.raw
       /\ d.reading = part.reading /\ d.count = part.count /\ d.sel = i
  BY <1>2, <1>4, <1>10, <1>11 DEF Clauses
<1> HIDE DEF d
<1>13. Base(d, p)
  <2>1. Base(part, p)
    BY Zenon, <1>2 DEF ClausePart, ClauseBase
  <2> QED
    BY <1>1, <1>2, <1>9, <1>10, <1>11, <1>12, <2>1 DEF Base
<1>14. ClauseBase(d, p)
  BY <1>1, <1>2, <1>11, <1>12, <1>13 DEF ClausePart, ClauseBase
<1>15. rests[i] = s /\ \A j \in DOMAIN view.items : j # i => rests[j] = view.items[j].rest
  BY <1>1 DEF rests, Rests, s
<1>16. Ends(d)
  <2>1. Kana(d.suffix) = Kana(d.view.items[d.sel].rest)
    BY <1>1, <1>11, <1>12, <1>15
  <2> DEFINE k == Len(s)
  <2>2. k \in Nat
    BY <1>4, SeqIs DEF Text
  <2>3. \A j \in DOMAIN view.items : PlainBefore(k, rests[j])
    <3> TAKE j \in DOMAIN view.items
    <3>1. CASE j = i
      <4>1. \A x \in 1..k : ~(x + k <= k)
        BY <2>2
      <4>2. rests[j] = s
        BY <1>15, <3>1
      <4> QED
        BY <4>1, <4>2 DEF PlainBefore
    <3>2. CASE j # i
      <4> HIDE DEF k
      <4>1. view.items[j].rest \in Text /\ PlainBefore(0, view.items[j].rest)
        BY <1>1, ViewFields DEF RestsPlain
      <4>2. PlainBefore(k, view.items[j].rest)
        BY <2>2, <4>1, PlainNoCut, PlainAnyCut
      <4> QED
        BY <1>15, <3>2, <4>2
    <3> QED
      BY <3>1, <3>2
  <2>4. RestsPlain(d.view, Len(d.suffix))
    BY <1>11, <1>12, <2>3 DEF RestsPlain
  <2> QED
    BY <2>1, <2>4 DEF Ends
<1>17. PartedPart(d, c, i, view, p)
  BY <1>2, <1>3, <1>5, <1>12, <1>14, <1>16 DEF PartedPart, ClausePart
<1> QED
  BY <1>8, <1>17

\* The clause at the end of what is typed is told by a fresh answer.
LEMMA EndedFresher ==
  ASSUME NEW p, Frame(p), NEW c, ClausePart(c, p), c.suffix = <<>>, NEW view,
         AnswerPart(view, Len(c.reading), p), NEW i \in DOMAIN view.items
  PROVE Fresher(c, view, i, Len(c.reading), p)
<1> DEFINE m == Len(c.reading)  item == c.view.items[c.sel]
<1>1. /\ c \in Clauses /\ Base(c, p) /\ Ends(c) /\ c.view \in Views /\ c.suffix \in Text
      /\ ClauseBase(c, p)
  BY ClauseFields DEF ClausePart, ClauseBase
<1>2. m \in 1..Len(p.whole) /\ c.raw = Rear(Keys * m + p.extra, p.keys)
      /\ Kana(c.reading) = Rear(m, p.whole)
  BY <1>1, BaseIs DEF Base
<1>3. view \in Views /\ ViewPart(view, m, p) /\ RestsPlain(view, 0)
  BY Zenon DEF AnswerPart
<1>4. ClausePreview(c) = item.text /\ Kana(item.text) \o Kana(item.rest) = Kana(c.reading)
      /\ Kana(item.text) \in Kanas /\ item \in Items
  BY <1>1, PreviewIs
<1>5. item.rest = <<>>
  BY <1>1, EndsIs
<1>6. Kana(item.text) = Rear(m, p.whole)
  <2>1. Kana(item.rest) = <<>>
    BY <1>5 DEF Kana
  <2>2. Kana(item.text) \o <<>> = Kana(item.text)
    BY Zenon, <1>4, KanasCat
  <2> QED
    BY <1>2, <1>4, <2>1, <2>2
<1>7. item.text \in Text
  BY <1>4 DEF Items
<1>8. ShowsLast(c, m, p)
  BY <1>4, <1>6 DEF ShowsLast
<1>9. p.base \o (Kana(c.fixed) \o Rear(m, p.whole)) = p.whole
  BY <1>1, <1>2 DEF ClauseBase
<1> HIDE DEF m, item
<1>10. Fresher(c, view, i, m, p)
  BY <1>1, <1>2, <1>3, <1>4, <1>7, <1>8, <1>9 DEF Fresher
<1> QED
  BY <1>10 DEF m

\* Recording that nothing was done changes nothing.
LEMMA SkippedIs ==
  ASSUME NEW p, NEW n, Good(n, p)
  PROVE Good(Skipped(n), p) /\ Skipped(n).effect = "skipped"
<1> DEFINE q == Skipped(n)  skip == "skipped"
<1>1. n \in Bundles
  BY DEF Good, Light
<1>2. q = [n EXCEPT !.effect = skip] /\ skip \in Effects
  BY DEF Skipped, Effects
<1> HIDE DEF q, skip
<1>3. /\ q \in Bundles /\ q.clause = n.clause /\ q.snaps = n.snaps /\ q.futures = n.futures
      /\ q.server = n.server /\ q.effect = skip
  BY <1>1, <1>2 DEF Bundles
<1>4. Good(q, p)
  BY <1>3 DEF Good, Light
<1> QED
  BY <1>3, <1>4 DEF q, skip

\* The clause d is shown with the clauses found ahead of it.
LEMMA JoinedIs ==
  ASSUME NEW p, Frame(p), NEW n, Light(n, p), n.clause.suffix # <<>>, NEW q, NEW fs,
         Refound(n, q, fs, p)
  PROVE Good(Joined(q), p) /\ Joined(q).effect = "applied"
<1> DEFINE c == n.clause  sn == n.snaps  w == n.server  e == n.effect  d == ShowAhead(c, fs)
           rest == c.view.items[c.sel].rest
<1>1. /\ n \in Bundles /\ c \in Clauses /\ ClausePart(c, p) /\ ClauseBase(c, p) /\ Base(c, p)
         /\ Ends(c)
      /\ c.view \in Views /\ c.suffix \in Text /\ sn \in Seq(Clauses) /\ w \in Servers
      /\ Trail(sn, w.stack, p) /\ After(c, sn) /\ Place(w, c)
  BY BundleFields, ClauseFields DEF Light, ClausePart, ClauseBase
<1>2. q = [clause |-> c, snaps |-> sn, futures |-> fs, server |-> w, effect |-> e]
      /\ Row(fs, p) /\ fs # <<>> /\ Len(Last(fs).reading) = Len(c.suffix)
  BY DEF Refound
<1>3. /\ Len(c.suffix) \in 0..Len(c.reading) - 1 /\ Len(rest) = Len(c.suffix)
      /\ Len(c.reading) \in Nat /\ (c.suffix = <<>> <=> rest = <<>>)
  BY <1>1, EndsIs
<1>4. RestsPlain(c.view, Len(c.suffix))
  BY <1>1 DEF Ends
<1>5. Fits(c, fs)
  <2>1. Len(Last(fs).reading) < Len(c.reading)
    BY <1>2, <1>3
  <2> QED
    BY <1>2, <1>3, <1>4, <2>1 DEF Fits
<1>6. ClausePart(d, p) /\ Before(d, fs) /\ SameClause(c, d)
  <2> HIDE DEF c
  <2> QED
    BY <1>1, <1>2, <1>5, ShowAheadIs
<1> DEFINE out == Joined(q)  yes == "applied"
<1> HIDE DEF c, sn, w, e, d
<1>7. out = [clause |-> d, snaps |-> sn, futures |-> fs, server |-> w, effect |-> yes]
  <2> DEFINE x == [q EXCEPT !.clause = d]
  <2>1. q.clause = c /\ q.futures = fs
    BY <1>2
  <2>2. out = Applied(x)
    BY <2>1 DEF Joined, d
  <2>3. x = [clause |-> d, snaps |-> sn, futures |-> fs, server |-> w, effect |-> e]
    BY ONLY <1>2
  <2> HIDE DEF x, out, yes
  <2>4. Applied(x)
          = [clause |-> d, snaps |-> sn, futures |-> fs, server |-> w, effect |-> "applied"]
    BY ONLY <2>3, AppliedIs
  <2> QED
    BY <2>2, <2>4 DEF yes
<1>8. yes \in Effects
  BY DEF Effects
<1> HIDE DEF out, yes
<1>9. out.clause = d /\ out.snaps = sn /\ out.futures = fs /\ out.server = w /\ out.effect = yes
  BY <1>7
<1>10. d \in Clauses /\ fs \in Seq(Futures)
  BY <1>2, <1>6 DEF ClausePart, ClauseBase, Row
<1>11. out \in Bundles
  BY <1>1, <1>7, <1>8, <1>10 DEF Bundles
<1>12. d.fixed = c.fixed /\ d.reading = c.reading
  BY <1>6 DEF SameClause
<1>13. After(d, sn) /\ Place(w, d)
  BY <1>1, <1>12 DEF After, Behind, Place
<1>14. Chain(d, Last(fs))
  BY <1>2, <1>6 DEF Before
<1>15. Good(out, p)
  BY <1>1, <1>2, <1>6, <1>9, <1>11, <1>13, <1>14 DEF Good, Light
<1> QED
  BY Zenon, <1>9, <1>15 DEF out, yes

\* EnsureClauseNavigationReady
LEMMA EnsureIs ==
  ASSUME NEW p, Frame(p), NEW n, Good(n, p)
  PROVE Good(Ensure(n), p) /\ Ensure(n).effect \in {"applied", "skipped"}
<1> DEFINE q == Ensure(n)  c == n.clause  view == View0(n.server)  i == NavigationItem(c, view)
           d == Parted(c, view, i)
<1>1. /\ n \in Bundles /\ c \in Clauses /\ ClausePart(c, p) /\ Place(n.server, c)
         /\ n.server \in Servers
      /\ Light(n, p) /\ Trail(n.snaps, n.server.stack, p)
  BY BundleFields DEF Good, Light
<1>2. CASE q = Skipped(n)
  BY <1>2, SkippedIs
<1>3. CASE q # Skipped(n)
  <2>1. /\ q = EnsureFrom(n, view) /\ ~Active(n) /\ c.suffix = <<>>
    BY <1>3 DEF Ensure
  <2>2. n.snaps = <<>> /\ n.futures = <<>>
    BY <2>1 DEF Active
  <2>3. AnswerPart(view, Len(c.reading), p)
    <3> DEFINE w == n.server
    <3>1. At(w, w) /\ Place(w, c)
      BY <1>1 DEF At, Place
    <3> HIDE DEF w, c
    <3>2. AnswerPart(View0(w), Len(c.reading), p)
      BY <1>1, <3>1, AnswerAt
    <3> QED
      BY <3>2 DEF w
  <2>4. view # NoView /\ view \in Views
    BY <2>3 DEF AnswerPart
  <2>5. /\ view.items # <<>> /\ view.items[i].rest # <<>>
        /\ q = Joined(Rebuilt([n EXCEPT !.clause = d]))
    BY <1>3, <2>1, <2>4 DEF EnsureFrom, Splits
  <2> HIDE DEF view
  <2>6. i \in DOMAIN view.items
    <3> HIDE DEF c
    <3> QED
      BY <1>1, <2>4, <2>5, NavigationItemIs
  <2> HIDE DEF i
  <2>7. PartedPart(d, c, i, view, p)
    <3> DEFINE m == Len(c.reading)
    <3>1. Fresher(c, view, i, m, p)
      <4> HIDE DEF c
      <4> QED
        BY <1>1, <2>1, <2>3, <2>6, EndedFresher
    <3> HIDE DEF m, c
    <3> QED
      BY <2>5, <3>1, PartedIs
  <2> HIDE DEF d
  <2>8. ClausePart(d, p) /\ d.fixed = c.fixed /\ d.reading = view.reading /\ d.suffix # <<>>
          /\ d \in Clauses
    BY <2>7 DEF PartedPart, ClausePart, ClauseBase
  <2>9. view.reading = c.reading
    <3>1. view.reading = Spelled(0, Rear(Len(c.reading), p.whole))
      BY Zenon, <2>3 DEF AnswerPart, ViewPart
    <3>2. c.reading = Spelled(0, Rear(Len(c.reading), p.whole))
      BY <1>1 DEF ClausePart, ClauseBase, Base
    <3> QED
      BY <3>1, <3>2
  <2> DEFINE x == [n EXCEPT !.clause = d]
  <2>10. x \in Bundles /\ x.clause = d /\ x.snaps = n.snaps /\ x.futures = n.futures
         /\ x.server = n.server /\ x.effect = n.effect
    BY <1>1, <2>8 DEF Bundles
  <2> HIDE DEF x
  <2>11. Light(x, p)
    <3>1. After(x.clause, x.snaps)
      BY <2>2, <2>10 DEF After
    <3>2. Place(x.server, x.clause)
      BY <1>1, <2>8, <2>9, <2>10 DEF Place
    <3> QED
      BY <1>1, <2>2, <2>8, <2>10, <3>1, <3>2, RowEmpty DEF Light
  <2>12. PICK fs : Refound(x, Rebuilt(x), fs, p)
    BY <2>2, <2>8, <2>10, <2>11, RebuiltIs
  <2> DEFINE r == Rebuilt(x)
  <2>13. x.clause.suffix # <<>> /\ Refound(x, r, fs, p)
    BY <2>8, <2>10, <2>12
  <2> HIDE DEF r
  <2>14. Good(Joined(r), p) /\ Joined(r).effect = "applied"
    BY <2>11, <2>13, JoinedIs
  <2> QED
    BY <2>5, <2>14 DEF x, r
<1> QED
  BY <1>2, <1>3

\* The bundle n can take over the answer for the last m kana.
Answerable(n, m, p) ==
  /\ n \in Bundles /\ m \in 1..Len(p.whole)
  /\ n.snaps = <<>> /\ n.futures = <<>> /\ n.server.stack = <<>>
  /\ n.server.input = Rear(m, p.whole) /\ n.server.cursor \in 0..Len(n.server.input)
  /\ n.clause.raw = Rear(Keys * m + p.extra, p.keys) /\ n.clause.group = 0
  /\ p.base \o (Kana(n.clause.fixed) \o Rear(m, p.whole)) = p.whole

\* The candidate of a fresh answer that nothing follows.
LEMMA AnsweredIs ==
  ASSUME NEW p, Frame(p), NEW n, NEW m, Answerable(n, m, p)
  PROVE Good(Answered(n), p) /\ Answered(n).effect = n.effect
        /\ Answered(n).clause.fixed = n.clause.fixed
<1> DEFINE c == n.clause  view == FullView(n.server.input)  i == Clamp(c.sel, view)
           item == view.items[i]  preview == c.fixed \o item.text  q == Answered(n)
           d == [c EXCEPT !.view = view, !.sel = i, !.count = item.count, !.preview = preview,
                          !.suffix = item.rest, !.reading = view.reading]
<1>1. /\ n \in Bundles /\ m \in 1..Len(p.whole)
      /\ n.snaps = <<>> /\ n.futures = <<>> /\ n.server.stack = <<>>
      /\ n.server.input = Rear(m, p.whole) /\ n.server.cursor \in 0..Len(n.server.input)
      /\ c.raw = Rear(Keys * m + p.extra, p.keys) /\ c.group = 0
      /\ p.base \o (Kana(c.fixed) \o Rear(m, p.whole)) = p.whole
  BY DEF Answerable
<1>2. /\ c \in Clauses /\ c.fixed \in Text /\ c.sel \in Int /\ n.server \in Servers
  <2>1. c \in Clauses /\ n.server \in Servers
    BY <1>1, BundleFields
  <2>2. c.fixed \in Text /\ c.sel \in Nat
    BY <2>1, ClauseFields
  <2> QED
    BY <2>1, <2>2
<1>3. view \in Views /\ ViewPart(view, m, p) /\ RestsPlain(view, 0) /\ view.items # <<>>
  <2>1. LET v == FullView(Rear(m, p.whole))
        IN v \in Views /\ ViewPart(v, m, p) /\ RestsPlain(v, 0) /\ v.items # <<>> /\ v # NoView
    BY <1>1, FullViewIs
  <2> QED
    BY <1>1, <2>1
<1> HIDE DEF view
<1>4. i \in DOMAIN view.items
  <2> DEFINE sel == c.sel
  <2>1. sel \in Int
    BY <1>2
  <2> HIDE DEF sel
  <2>2. Clamp(sel, view) \in DOMAIN view.items
    BY <1>3, <2>1, ClampIs
  <2> QED
    BY <2>2 DEF sel
<1> HIDE DEF i
<1>5. item \in Items /\ item.text \in Text /\ item.rest \in Text /\ item.count \in Nat
      /\ view.reading \in Text /\ i \in Nat
  BY <1>3, <1>4, ViewFields
<1>6. preview \in Text
  BY <1>2, <1>5, TextCat
<1>7. view.reading = Spelled(0, Rear(m, p.whole))
  BY <1>3 DEF ViewPart
<1>8. Len(view.reading) = m /\ Kana(view.reading) = Rear(m, p.whole) /\ m \in 0..Len(p.whole)
  <2>1. Len(p.whole) \in Nat
    BY SeqIs DEF Frame, Frames, Kanas
  <2>2. m \in 0..Len(p.whole)
    BY <1>1, <2>1
  <2> QED
    BY <1>7, <2>2, NumIs
<1> DEFINE text == item.text  rest == item.rest  count == item.count
<1>9. q = [n EXCEPT !.clause = d]
  BY DEF Answered, view, i
<1> HIDE DEF preview, item, q
<1>10. /\ d \in Clauses /\ d.view = view /\ d.sel = i /\ d.count = item.count
       /\ d.preview = preview /\ d.suffix = item.rest /\ d.reading = view.reading
       /\ d.fixed = c.fixed /\ d.raw = c.raw /\ d.group = c.group
  BY <1>2, <1>3, <1>5, <1>6 DEF Clauses
<1> HIDE DEF d
<1>11. /\ q \in Bundles /\ q.clause = d /\ q.snaps = n.snaps /\ q.futures = n.futures
       /\ q.server = n.server /\ q.effect = n.effect
  BY <1>1, <1>9, <1>10 DEF Bundles
<1>12. Base(d, p)
  BY <1>1, <1>3, <1>4, <1>7, <1>8, <1>10 DEF Base, item
<1>13. ClauseBase(d, p)
  BY <1>1, <1>8, <1>10, <1>12 DEF ClauseBase, preview, item
<1>14. Ends(d)
  <2> DEFINE k == Len(d.suffix)
  <2>1. k \in Nat
    BY <1>5, <1>10, SeqIs DEF Text
  <2> HIDE DEF k
  <2>2. \A j \in DOMAIN view.items : PlainBefore(k, view.items[j].rest)
    <3> TAKE j \in DOMAIN view.items
    <3>1. view.items[j].rest \in Text /\ PlainBefore(0, view.items[j].rest)
      BY <1>3, ViewFields DEF RestsPlain
    <3> QED
      BY <2>1, <3>1, PlainNoCut, PlainAnyCut
  <2> QED
    BY <1>10, <2>2 DEF Ends, RestsPlain, k, item
<1>15. Place(q.server, q.clause)
  BY <1>1, <1>8, <1>10, <1>11 DEF Place
<1>16. Trail(q.snaps, q.server.stack, p)
  <2> DEFINE stack == q.server.stack
  <2>1. stack = <<>> /\ stack \in Seq(Places)
    BY <1>1, <1>2, <1>11, ServerFields
  <2> HIDE DEF stack
  <2>2. Trail(<<>>, stack, p)
    BY <2>1, TrailEmpty
  <2> QED
    BY <1>1, <1>11, <2>2 DEF stack
<1>17. Good(q, p)
  BY <1>1, <1>3, <1>10, <1>11, <1>13, <1>14, <1>15, <1>16, RowEmpty DEF Good, Light, ClausePart,
     After
<1> QED
  BY <1>10, <1>11, <1>17 DEF q

\* The clause is forgotten by both sides.
Forgotten(n, q) ==
  /\ q \in Bundles /\ q.clause = Unflagged(n.clause) /\ q.snaps = <<>> /\ q.futures = <<>>
  /\ q.server = [input |-> n.server.input, cursor |-> n.server.cursor, stack |-> <<>>]
  /\ q.effect = n.effect

\* Dropping the flags of a clause changes none of its texts.
LEMMA UnflaggedIs ==
  ASSUME NEW c \in Clauses
  PROVE LET d == Unflagged(c)
        IN /\ d \in Clauses /\ d.fixed = c.fixed /\ d.preview = c.preview /\ d.suffix = c.suffix
           /\ d.raw = c.raw /\ d.reading = c.reading /\ d.count = c.count /\ d.sel = c.sel
           /\ d.view = c.view /\ d.group = 0
<1> DEFINE no == FALSE  zero == 0
           d == [c EXCEPT !.derived = no, !.remainder = no, !.neighbor = no, !.group = zero]
<1>1. no \in BOOLEAN /\ zero \in Nat
  OBVIOUS
<1>2. Unflagged(c) = d
  BY DEF Unflagged
<1> HIDE DEF no, zero
<1>3. /\ d \in Clauses /\ d.fixed = c.fixed /\ d.preview = c.preview /\ d.suffix = c.suffix
      /\ d.raw = c.raw /\ d.reading = c.reading /\ d.count = c.count /\ d.sel = c.sel
      /\ d.view = c.view /\ d.group = zero
  BY <1>1 DEF Clauses
<1> QED
  BY <1>2, <1>3 DEF zero

\* Forgetting the navigation leaves the composition as one clause, at the bottom
\* of the stack.
LEMMA ForgetIs ==
  ASSUME NEW n \in Bundles, n.snaps = <<>> <=> n.server.stack = <<>>
  PROVE Forgotten(n, Forget(n))
<1> DEFINE d == Unflagged(n.clause)  none == <<>>  q == Forget(n)
           w == [n.server EXCEPT !.stack = none]
           stack == IF n.snaps = <<>> THEN n.server.stack ELSE <<>>
<1>1. n.clause \in Clauses /\ n.server \in Servers
  BY BundleFields
<1>2. d \in Clauses
  BY <1>1, UnflaggedIs
<1>3. stack = none
  OBVIOUS
<1>4. none \in Seq(Places) /\ none \in Seq(Clauses) /\ none \in Seq(Futures) /\ none = <<>>
  OBVIOUS
<1>5. q = [n EXCEPT !.clause = d, !.snaps = none, !.futures = none, !.server.stack = stack]
  BY DEF Forget
<1> HIDE DEF stack, none, d, q
<1>6. q = [n EXCEPT !.clause = d, !.snaps = none, !.futures = none, !.server.stack = none]
  BY <1>3, <1>5
<1>7. w \in Servers /\ w = [input |-> n.server.input, cursor |-> n.server.cursor, stack |-> none]
  <2> DEFINE s == n.server  a == s.input  b == s.cursor  e == s.stack
             k == [input |-> a, cursor |-> b, stack |-> none]
  <2>1. s \in Servers /\ a \in Kanas /\ b \in Nat /\ s = [input |-> a, cursor |-> b, stack |-> e]
    BY <1>1, ServerFields
  <2> HIDE DEF s, a, b, e
  <2>2. [s EXCEPT !.stack = none] = k
    BY ONLY <2>1
  <2>3. k \in Servers
    BY <1>4, <2>1 DEF Servers
  <2> QED
    BY <2>2, <2>3 DEF s, a, b
<1>8. /\ q \in Bundles /\ q.clause = d /\ q.snaps = none /\ q.futures = none
      /\ q.server = w /\ q.effect = n.effect
  <2>1. q.server = w
    BY <1>6 DEF Bundles
  <2>2. DOMAIN q = {"clause", "snaps", "futures", "server", "effect"}
    BY <1>6 DEF Bundles
  <2>3. /\ q.clause = d /\ q.snaps = none /\ q.futures = none /\ q.effect = n.effect
    BY <1>6 DEF Bundles
  <2>4. q = [clause |-> q.clause, snaps |-> q.snaps, futures |-> q.futures, server |-> q.server,
             effect |-> q.effect]
    <3>1. q = [x \in DOMAIN q |-> q[x]]
      BY <1>6
    <3> QED
      BY ONLY <2>2, <3>1
  <2>5. n.effect \in Effects
    BY BundleFields
  <2> HIDE DEF w
  <2> QED
    BY <1>2, <1>4, <1>7, <2>1, <2>3, <2>4, <2>5 DEF Bundles
<1> QED
  BY <1>4, <1>7, <1>8 DEF Forgotten, q, d

\* One more kana is typed.
Grown(p, kana) ==
  [whole |-> p.whole \o <<kana>>, keys |-> p.keys \o KeysOf(<<kana>>), extra |-> p.extra,
   base |-> p.base]

-----------------------------------------------------------------------------
(* Compositions that grow and shrink.                                      *)

\* The fields of a frame have their types and sizes.
LEMMA FrameFields ==
  ASSUME NEW p, Frame(p)
  PROVE /\ p.whole \in Kanas /\ p.keys \in Text /\ p.extra \in Nat /\ p.base \in Kanas
        /\ Keys \in Nat \ {0} /\ Len(p.whole) \in Nat /\ Len(p.keys) \in Nat
        /\ Len(p.keys) = Keys * Len(p.whole) + p.extra /\ Keys * Len(p.whole) \in Nat
<1>1. p.whole \in Kanas /\ p.keys \in Text /\ p.extra \in Nat /\ p.base \in Kanas
      /\ Keys \in Nat \ {0} /\ Len(p.keys) = Keys * Len(p.whole) + p.extra
  BY DEF Frame, Frames
<1>2. Len(p.whole) \in Nat /\ Len(p.keys) \in Nat
  BY <1>1, SeqIs DEF Kanas, Text
<1> DEFINE n == Len(p.whole)
<1>3. n \in Nat
  BY <1>2
<1> HIDE DEF n
<1>4. Keys * n \in Nat
  BY <1>1, <1>3
<1> QED
  BY <1>1, <1>2, <1>4 DEF n

\* The sizes of one kana and its keys.
LEMMA OneKana ==
  ASSUME Keys \in Nat \ {0}, NEW kana \in Letters
  PROVE /\ <<kana>> \in Kanas /\ Len(<<kana>>) = 1
        /\ KeysOf(<<kana>>) \in Text /\ Len(KeysOf(<<kana>>)) = Keys
<1>1. <<kana>> \in Kanas /\ Len(<<kana>>) = 1
  BY DEF Kanas
<1> DEFINE x == <<kana>>
<1>2. x \in Kanas /\ Len(x) = 1
  BY <1>1
<1> HIDE DEF x
<1>3. KeysOf(x) \in Text /\ Len(KeysOf(x)) = Keys * Len(x)
  BY <1>2, KeysOfIs
<1>4. Len(KeysOf(x)) = Keys
  BY <1>2, <1>3
<1> QED
  BY <1>1, <1>3, <1>4 DEF x

\* A composition that grows by a kana is one.
LEMMA GrownIs ==
  ASSUME NEW p, Frame(p), Len(p.whole) < MaxLen, NEW kana \in Letters
  PROVE /\ Frame(Grown(p, kana)) /\ Len(Grown(p, kana).whole) = Len(p.whole) + 1
<1> DEFINE x == <<kana>>  n == Len(p.whole)  e == p.extra
           whole == p.whole \o x  keys == p.keys \o KeysOf(x)  q == Grown(p, kana)
<1>1. /\ p.whole \in Kanas /\ p.keys \in Text /\ e \in Nat /\ p.base \in Kanas
      /\ Keys \in Nat \ {0} /\ n \in Nat
      /\ Len(p.keys) = Keys * n + e /\ Keys * n \in Nat
  BY FrameFields
<1>2. x \in Kanas /\ Len(x) = 1 /\ KeysOf(x) \in Text /\ Len(KeysOf(x)) = Keys
  BY <1>1, OneKana
<1> HIDE DEF x
<1>3. whole \in Kanas /\ Len(whole) = n + 1
  <2> DEFINE s == p.whole
  <2>1. s \in Kanas /\ x \in Kanas
    BY <1>1, <1>2
  <2> HIDE DEF s
  <2>2. s \o x \in Kanas /\ Len(s \o x) = Len(s) + Len(x)
    BY <2>1, KanasCat
  <2> QED
    BY <1>2, <2>2 DEF s
<1>4. keys \in Text /\ Len(keys) = Len(p.keys) + Keys
  BY <1>1, <1>2, TextCat
<1>5. q = [whole |-> whole, keys |-> keys, extra |-> e, base |-> p.base]
  BY DEF Grown, x
<1>6. n + 1 <= MaxLen
  BY <1>1, MaxLenAssumption
<1>7. Keys = 1 => e = 0
  BY DEF Frame
<1> HIDE DEF whole, keys, n, e, q
<1>8. Keys * (n + 1) = Keys * n + Keys
  BY <1>1
<1>9. Len(keys) = Keys * (n + 1) + e
  BY <1>1, <1>4, <1>8
<1>10. q.whole = whole /\ q.keys = keys /\ q.extra = e /\ q.base = p.base /\ q \in Frames
  BY <1>1, <1>3, <1>4, <1>5 DEF Frames
<1>11. Frame(q)
  BY <1>1, <1>3, <1>6, <1>7, <1>9, <1>10 DEF Frame
<1> QED
  BY <1>3, <1>10, <1>11 DEF q, n

\* The server's cursor is at the end of the last m kana.
Growable(n, m, p) ==
  /\ n \in Bundles /\ (n.snaps = <<>> <=> n.server.stack = <<>>)
  /\ m \in 0..Len(p.whole) /\ n.server.input = Rear(m, p.whole)
  /\ n.server.cursor = Len(n.server.input)
  /\ n.clause.raw = Rear(Keys * m + p.extra, p.keys)
  /\ p.base \o (Kana(n.clause.fixed) \o Rear(m, p.whole)) = p.whole

\* append_text: the clauses are those of the composition with the kana at its
\* end.
LEMMA AppendTextIs ==
  ASSUME NEW p, Frame(p), Len(p.whole) < MaxLen, NEW kana \in Letters, NEW n, NEW m,
         Growable(n, m, p)
  PROVE /\ Good(AppendText(n, kana), Grown(p, kana))
        /\ AppendText(n, kana).effect = n.effect
<1> DEFINE x == <<kana>>  g == Grown(p, kana)  q == Forget(n)  input == Rear(m, p.whole)
           raw == Rear(Keys * m + p.extra, p.keys)
           r == [q EXCEPT !.clause.raw = @ \o KeysOf(<<kana>>), !.server = Insert(kana, @)]
<1>1. /\ n \in Bundles /\ (n.snaps = <<>> <=> n.server.stack = <<>>)
      /\ m \in 0..Len(p.whole) /\ n.server.input = input
      /\ n.server.cursor = Len(input)
      /\ n.clause.raw = raw
      /\ p.base \o (Kana(n.clause.fixed) \o input) = p.whole
  BY DEF Growable
<1>2. /\ p.whole \in Kanas /\ p.keys \in Text /\ p.extra \in Nat /\ p.base \in Kanas
      /\ Keys \in Nat \ {0} /\ Len(p.whole) \in Nat /\ Len(p.keys) \in Nat
  BY FrameFields
<1>3. input \in Kanas /\ Len(input) = m /\ raw \in Text /\ m \in Nat /\ Keys * m \in Nat
      /\ Keys * m + p.extra \in 0..Len(p.keys)
  BY <1>1, NumIs
<1>4. x \in Kanas /\ Len(x) = 1 /\ KeysOf(x) \in Text /\ Len(KeysOf(x)) = Keys
  BY <1>2, OneKana
<1>5. Frame(g) /\ Len(g.whole) = Len(p.whole) + 1
  BY GrownIs
<1>6. g.whole = p.whole \o x /\ g.keys = p.keys \o KeysOf(x) /\ g.extra = p.extra /\ g.base = p.base
  BY DEF Grown
<1> HIDE DEF x, g
<1>7. Rear(m + 1, g.whole) = input \o x
  <2> DEFINE s == p.whole
  <2>1. s \in Seq(Letters) /\ x \in Seq(Letters) /\ m \in 0..Len(s)
    BY <1>1, <1>2, <1>4 DEF Kanas
  <2> HIDE DEF s
  <2>2. Rear(m + Len(x), s \o x) = Rear(m, s) \o x
    BY <2>1, RearAppend
  <2> QED
    BY <1>4, <1>6, <2>2 DEF s
<1>8. Rear(Keys * (m + 1) + g.extra, g.keys) = raw \o KeysOf(x)
  <2> DEFINE s == p.keys  k == Keys * m + p.extra  y == KeysOf(x)
  <2>1. s \in Seq(Letters \X Nat) /\ y \in Seq(Letters \X Nat) /\ k \in 0..Len(s)
    BY <1>2, <1>3, <1>4 DEF Text
  <2>2. Keys * (m + 1) + p.extra = k + Len(y)
    <3>1. Keys * (m + 1) = Keys * m + Keys
      BY <1>2, <1>3
    <3> QED
      BY <1>2, <1>3, <1>4, <3>1
  <2> HIDE DEF s, k, y
  <2>3. Rear(k + Len(y), s \o y) = Rear(k, s) \o y
    BY <2>1, RearAppend
  <2> QED
    BY <1>6, <2>2, <2>3 DEF s, k, y
<1>9. Forgotten(n, q)
  BY <1>1, ForgetIs
<1> HIDE DEF q
<1>10. /\ q \in Bundles /\ q.clause = Unflagged(n.clause) /\ q.snaps = <<>> /\ q.futures = <<>>
       /\ q.server = [input |-> input, cursor |-> m, stack |-> <<>>] /\ q.effect = n.effect
  BY <1>1, <1>3, <1>9 DEF Forgotten
<1>11. n.clause \in Clauses
  BY <1>1, BundleFields
<1>12. /\ q.clause \in Clauses /\ q.clause.fixed = n.clause.fixed /\ q.clause.raw = raw
       /\ q.clause.group = 0
  BY <1>1, <1>10, <1>11, UnflaggedIs
<1> DEFINE c == q.clause  fresh == raw \o KeysOf(x)  d == [c EXCEPT !.raw = fresh]
           longer == input \o x  w == Insert(kana, q.server)  none == <<>>
<1>13. fresh \in Text /\ longer \in Kanas /\ Len(longer) = m + 1
  <2>1. fresh \in Text
    BY <1>3, <1>4, TextCat
  <2>2. longer \in Kanas /\ Len(longer) = Len(input) + Len(x)
    BY <1>3, <1>4, KanasCat
  <2> QED
    BY <1>3, <1>4, <2>1, <2>2
<1>14. none = <<>> /\ none \in Seq(Places)
  OBVIOUS
<1>15. w = [input |-> longer, cursor |-> m + 1, stack |-> none]
  <2> DEFINE s == q.server  t == Take(m, input) \o <<kana>> \o Drop(m, input)
  <2>1. s = [input |-> input, cursor |-> m, stack |-> none]
    BY <1>10
  <2>2. Take(m, input) = input /\ Drop(m, input) = <<>>
    <3>1. input \in Seq(Letters) /\ m >= Len(input) /\ m <= Len(input)
      BY <1>3 DEF Kanas
    <3> HIDE DEF input
    <3>2. Drop(m, input) = <<>>
      BY <1>3, <3>1, DropAll
    <3>3. Take(m, input) \o Drop(m, input) = input /\ Take(m, input) \in Seq(Letters)
      BY <1>3, <3>1, TakeDrop, TakeIs
    <3>4. Take(m, input) \o <<>> = Take(m, input)
      BY <3>3, Cat
    <3> QED
      BY <3>2, <3>3, <3>4
  <2>3. t = longer
    <3>1. t = (input \o x) \o <<>>
      BY <2>2 DEF x
    <3> QED
      BY <1>13, <3>1, KanasCat
  <2>4. w = [s EXCEPT !.input = Take(s.cursor, s.input) \o <<kana>> \o Drop(s.cursor, s.input),
                      !.cursor = s.cursor + 1]
    BY DEF Insert
  <2> HIDE DEF s, input, longer
  <2>5. s.input = input /\ s.cursor = m /\ s.stack = none
    BY <2>1
  <2>6. w = [s EXCEPT !.input = longer, !.cursor = m + 1]
    BY <2>3, <2>4, <2>5
  <2> HIDE DEF w, none
  <2> QED
    BY ONLY <2>1, <2>6
<1>16. r = [q EXCEPT !.clause = d, !.server = w]
  BY <1>10, <1>12 DEF x, Bundles
<1> HIDE DEF fresh, longer, c, w
<1>17. /\ d \in Clauses /\ d.raw = fresh /\ d.fixed = n.clause.fixed /\ d.group = 0
  BY <1>12, <1>13 DEF Clauses, c
<1> HIDE DEF d, none
<1>18. w \in Servers /\ w.input = longer /\ w.cursor = m + 1 /\ w.stack = none
  BY <1>3, <1>13, <1>14, <1>15 DEF Servers
<1> HIDE DEF r
<1>19. /\ r \in Bundles /\ r.clause = d /\ r.server = w /\ r.snaps = <<>> /\ r.futures = <<>>
       /\ r.effect = n.effect
  BY <1>10, <1>16, <1>17, <1>18 DEF Bundles
<1>20. g.base \o (Kana(d.fixed) \o longer) = g.whole
  <2> DEFINE a == p.base  b == Kana(n.clause.fixed)  y == b \o input
  <2>1. /\ a \in Seq(Letters) /\ b \in Seq(Letters) /\ input \in Seq(Letters) /\ x \in Seq(Letters)
    <3>1. n.clause.fixed \in Text
      BY <1>11, ClauseFields
    <3> QED
      BY <1>2, <1>3, <1>4, <3>1, KanaIs DEF Kanas
  <2>2. a \o y = p.whole
    BY <1>1
  <2> HIDE DEF a, b, input
  <2>3. y \in Seq(Letters) /\ b \o (input \o x) = y \o x
    <3>1. y \in Seq(Letters)
      BY ONLY <2>1, Cat
    <3>2. (b \o input) \o x = b \o (input \o x)
      BY ONLY <2>1, CatAssoc
    <3> QED
      BY <3>1, <3>2
  <2> HIDE DEF y
  <2>4. a \o (y \o x) = (a \o y) \o x
    <3>1. (a \o y) \o x = a \o (y \o x)
      BY ONLY <2>1, <2>3, CatAssoc
    <3> QED
      BY <3>1
  <2>5. a \o (b \o (input \o x)) = p.whole \o x
    BY <2>2, <2>3, <2>4
  <2> QED
    BY <1>6, <1>17, <2>5 DEF a, b, longer
<1> DEFINE k == m + 1
<1>21. k \in 1..Len(g.whole) /\ k \in 0..k
  BY <1>1, <1>2, <1>3, <1>5
<1>22. /\ r.server.input = Rear(k, g.whole) /\ r.server.cursor \in 0..Len(r.server.input)
       /\ r.clause.raw = Rear(Keys * k + g.extra, g.keys)
       /\ g.base \o (Kana(r.clause.fixed) \o Rear(k, g.whole)) = g.whole
  BY <1>7, <1>8, <1>13, <1>17, <1>18, <1>19, <1>20, <1>21 DEF longer, fresh
<1> HIDE DEF k
<1>23. Answerable(r, k, g)
  BY <1>14, <1>17, <1>18, <1>19, <1>21, <1>22 DEF Answerable
<1>24. Good(Answered(r), g) /\ Answered(r).effect = r.effect
  BY <1>5, <1>23, AnsweredIs
<1>25. AppendText(n, kana) = Answered(r)
  BY DEF AppendText, r, q, x
<1> QED
  BY <1>19, <1>24, <1>25 DEF g

\* Deleting at the end of two sequences deletes in the second.
LEMMA FrontCat ==
  ASSUME NEW S, NEW a \in Seq(S), NEW c \in Seq(S), c # <<>>
  PROVE Front(a \o c) = a \o Front(c)
<1> DEFINE f == Front(c)  l == Last(c)  e == <<l>>  s == a \o f
<1>1. f \in Seq(S) /\ l \in S /\ c = f \o e
  BY FrontIs
<1>2. e \in Seq(S)
  BY <1>1
<1> HIDE DEF f, l
<1>3. (a \o f) \o e = a \o (f \o e)
  BY ONLY <1>1, <1>2, a \in Seq(S), CatAssoc
<1>4. s \in Seq(S)
  BY ONLY <1>1, a \in Seq(S), Cat
<1> HIDE DEF s
<1>5. Append(s, l) = s \o <<l>>
  BY ONLY <1>1, <1>4, AppendIs
<1>6. Front(Append(s, l)) = s
  BY ONLY <1>1, <1>4, AppendIs
<1> QED
  BY <1>1, <1>3, <1>5, <1>6 DEF s, f

\* The last kana is removed.
Lessened(p) ==
  [whole |-> Front(p.whole), keys |-> Front(p.keys), extra |-> p.extra + Keys - 1,
   base |-> p.base]

\* A composition that shrinks by a kana is one.
LEMMA LessenedIs ==
  ASSUME NEW p, Frame(p), p.whole # <<>>
  PROVE /\ Frame(Lessened(p)) /\ Len(Lessened(p).whole) = Len(p.whole) - 1 /\ p.keys # <<>>
<1> DEFINE n == Len(p.whole)  e == p.extra  k == e + Keys - 1
           whole == Front(p.whole)  keys == Front(p.keys)  q == Lessened(p)
<1>1. /\ p.whole \in Kanas /\ p.keys \in Text /\ e \in Nat /\ p.base \in Kanas
      /\ Keys \in Nat \ {0} /\ n \in Nat
      /\ Len(p.keys) = Keys * n + e /\ Keys * n \in Nat
  BY FrameFields
<1>2. n # 0
  BY <1>1, SeqIs DEF Kanas
<1>3. whole \in Kanas /\ Len(whole) = n - 1
  BY <1>1, FrontIs DEF Kanas
<1>4. n <= MaxLen /\ MaxLen \in Nat /\ (Keys = 1 => e = 0)
  BY MaxLenAssumption DEF Frame
<1>5. q = [whole |-> whole, keys |-> keys, extra |-> k, base |-> p.base]
  BY DEF Lessened
<1> HIDE DEF n, e, whole
<1>6. Keys * (n - 1) = Keys * n - Keys /\ Keys * n >= Keys
  <2> DEFINE j == n - 1
  <2>1. j \in Nat /\ n = j + 1
    BY <1>1, <1>2
  <2> HIDE DEF j
  <2>2. Keys * j \in Nat /\ Keys * (j + 1) = Keys * j + Keys
    BY <1>1, <2>1
  <2> QED
    BY <1>1, <2>1, <2>2 DEF j
<1>7. Len(p.keys) # 0 /\ Len(p.keys) \in Nat
  BY <1>1, <1>6
<1>8. p.keys # <<>>
  BY <1>1, <1>7, SeqIs DEF Text
<1>9. keys \in Text /\ Len(keys) = Len(p.keys) - 1
  BY <1>1, <1>8, FrontIs DEF Text
<1> HIDE DEF keys, q
<1>10. k \in Nat /\ Len(keys) = Keys * (n - 1) + k /\ (Keys = 1 => k = 0)
  BY <1>1, <1>4, <1>6, <1>9
<1>11. n - 1 <= MaxLen
  BY <1>1, <1>4
<1> HIDE DEF k
<1>12. q.whole = whole /\ q.keys = keys /\ q.extra = k /\ q.base = p.base /\ q \in Frames
  BY <1>1, <1>3, <1>5, <1>9, <1>10 DEF Frames
<1>13. Frame(q)
  BY <1>1, <1>3, <1>10, <1>11, <1>12 DEF Frame
<1> QED
  BY <1>3, <1>8, <1>12, <1>13 DEF q, n

\* What is left when the server's cursor was at the end.
Removed(n, x, p) ==
  LET m == Len(n.clause.reading)
  IN /\ x.clause.fixed = n.clause.fixed
     /\ p.base \o (Kana(n.clause.fixed) \o x.server.input) = Front(p.whole)
     /\ x.server.input # <<>> => Answerable(x, m - 1, Lessened(p)) /\ Len(n.clause.raw) > 1
     /\ x.effect = n.effect

\* remove_text with the cursor at the end: the clauses are those of the
\* composition without its last kana, or the composition is empty.
LEMMA RemoveTextIs ==
  ASSUME NEW p, Frame(p), NEW n, Good(n, p), n.server.cursor >= Len(n.server.input)
  PROVE Removed(n, RemoveText(n), p) /\ p.whole # <<>>
<1> DEFINE c == n.clause  m == Len(c.reading)  input == Rear(m, p.whole)
           raw == Rear(Keys * m + p.extra, p.keys)  q == Forget(n)  g == Lessened(p)
           x == RemoveText(n)
<1>1. /\ n \in Bundles /\ c \in Clauses /\ ClausePart(c, p) /\ Base(c, p) /\ n.server \in Servers
      /\ Place(n.server, c) /\ Trail(n.snaps, n.server.stack, p) /\ c.view \in Views
         /\ c.fixed \in Text
  BY BundleFields, ClauseFields DEF Good, Light, ClausePart, ClauseBase
<1>2. /\ p.whole \in Kanas /\ p.keys \in Text /\ p.extra \in Nat /\ p.base \in Kanas
      /\ Keys \in Nat \ {0} /\ Len(p.whole) \in Nat /\ Len(p.keys) \in Nat
  BY FrameFields
<1>3. /\ m \in 1..Len(p.whole) /\ m \in 0..Len(p.whole) /\ m \in Nat /\ c.raw = raw
      /\ Len(c.raw) = Keys * m + p.extra /\ Kana(c.reading) = input
  <2>1. c.raw = raw
    BY <1>1 DEF Base
  <2> QED
    BY <1>1, <2>1, BaseIs
<1>4. input \in Kanas /\ Len(input) = m /\ raw \in Text /\ Keys * m \in Nat
      /\ Keys * m + p.extra \in 0..Len(p.keys)
  BY <1>3, NumIs
<1>5. n.server.input = input /\ n.server.cursor = m
  <2>1. n.server.input = input /\ n.server.cursor \in 0..Len(input)
    BY <1>1, <1>3 DEF Place
  <2>2. n.server.cursor \in 0..m /\ n.server.cursor >= m
    BY <1>4, <2>1
  <2>3. n.server.cursor = m
    BY <1>3, <2>2
  <2> QED
    BY <2>1, <2>3
<1>6. p.whole # <<>> /\ input # <<>> /\ m >= 1
  <2>1. Len(p.whole) # 0 /\ m # 0 /\ m >= 1
    BY <1>2, <1>3
  <2> QED
    BY <1>2, <1>4, <2>1, SeqIs DEF Kanas
<1>7. Frame(g) /\ Len(g.whole) = Len(p.whole) - 1 /\ p.keys # <<>>
  BY <1>6, LessenedIs
<1>8. g.whole = Front(p.whole) /\ g.keys = Front(p.keys) /\ g.extra = p.extra + Keys - 1
      /\ g.base = p.base
  BY DEF Lessened
<1> HIDE DEF g
<1>9. n.snaps = <<>> <=> n.server.stack = <<>>
  BY <1>1, TrailFields
<1>10. Forgotten(n, q)
  BY <1>1, <1>9, ForgetIs
<1> HIDE DEF q
<1>11. /\ q \in Bundles /\ q.clause = Unflagged(c) /\ q.snaps = <<>> /\ q.futures = <<>>
       /\ q.server = [input |-> input, cursor |-> m, stack |-> <<>>] /\ q.effect = n.effect
  BY <1>5, <1>10 DEF Forgotten
<1>12. q.clause \in Clauses /\ q.clause.fixed = c.fixed /\ q.clause.raw = raw /\ q.clause.group = 0
  BY <1>1, <1>3, <1>11, UnflaggedIs
<1> DEFINE b == q.clause  less == Front(raw)  d == [b EXCEPT !.raw = less]
           shorter == Front(input)  none == <<>>  w == DeleteBackward(q.server)
<1>13. raw # <<>> /\ Len(raw) = Keys * m + p.extra
  <2>1. Len(raw) = Keys * m + p.extra
    BY <1>3
  <2>2. Keys * m # 0
    <3>1. m <= Keys * m
      BY <1>2, <1>3, Times
    <3> QED
      BY <1>3, <1>4, <1>6, <3>1
  <2>3. Len(raw) # 0
    BY <1>2, <1>4, <2>1, <2>2
  <2> QED
    BY <1>4, <2>1, <2>3, SeqIs DEF Text
<1>14. less \in Text
  BY <1>4, <1>13, FrontIs DEF Text
<1>15. shorter \in Kanas /\ Len(shorter) = m - 1
  BY <1>4, <1>6, FrontIs DEF Kanas
<1>16. none = <<>> /\ none \in Seq(Places)
  OBVIOUS
<1>17. w = [input |-> shorter, cursor |-> m - 1, stack |-> none]
  <2> DEFINE s == q.server  t == Take(m - 1, input) \o Drop(m, input)
  <2>1. s = [input |-> input, cursor |-> m, stack |-> none]
    BY <1>11
  <2>2. t = shorter
    <3>1. Drop(m, input) = <<>>
      <4>1. input \in Seq(Letters) /\ m >= Len(input)
        BY <1>3, <1>4 DEF Kanas
      <4> HIDE DEF input
      <4> QED
        BY <1>3, <4>1, DropAll
    <3>2. Take(m - 1, input) = shorter
      BY <1>3, <1>4, <1>6 DEF Take, Front
    <3> QED
      BY <1>15, <3>1, <3>2, KanasCat
  <2> HIDE DEF s, input, shorter
  <2>3. s.input = input /\ s.cursor = m /\ s.stack = none
    BY <2>1
  <2>4. w = [s EXCEPT !.input = Take(s.cursor - 1, s.input) \o Drop(s.cursor, s.input),
                      !.cursor = s.cursor - 1]
    BY <1>6, <2>3 DEF DeleteBackward, s
  <2>5. w = [s EXCEPT !.input = shorter, !.cursor = m - 1]
    BY <2>2, <2>3, <2>4
  <2> HIDE DEF w, none
  <2> QED
    BY ONLY <2>1, <2>5
<1>18. x = [q EXCEPT !.clause = d, !.server = w]
  <2>1. x = [q EXCEPT !.clause.raw = IF q.clause.raw = <<>> THEN q.clause.raw
          ELSE Front(q.clause.raw),
                      !.server = w]
    BY DEF RemoveText, q
  <2>2. (IF q.clause.raw = <<>> THEN q.clause.raw ELSE Front(q.clause.raw)) = less
    BY <1>12, <1>13
  <2> HIDE DEF less, w
  <2>3. x = [q EXCEPT !.clause.raw = less, !.server = w]
    BY <2>1, <2>2
  <2> QED
    BY <1>11, <2>3
<1> HIDE DEF less, shorter, b, w, x
<1>19. d \in Clauses /\ d.raw = less /\ d.fixed = c.fixed /\ d.group = 0
  BY <1>12, <1>14 DEF Clauses, b
<1> HIDE DEF d, none
<1>20. w \in Servers /\ w.input = shorter /\ w.cursor = m - 1 /\ w.stack = none
  <2>1. m - 1 \in Nat
    BY <1>3, <1>6
  <2> QED
    BY <1>15, <1>16, <1>17, <2>1 DEF Servers
<1>21. /\ x \in Bundles /\ x.clause = d /\ x.server = w /\ x.snaps = <<>> /\ x.futures = <<>>
       /\ x.effect = n.effect
  BY <1>11, <1>18, <1>19, <1>20 DEF Bundles
<1>22. p.base \o (Kana(c.fixed) \o shorter) = Front(p.whole)
  <2> DEFINE a == p.base  f == Kana(c.fixed)  y == f \o input
  <2>1. a \in Seq(Letters) /\ f \in Seq(Letters) /\ input \in Seq(Letters)
    BY Zenon, <1>1, <1>2, <1>4, KanaIs DEF Kanas
  <2>2. a \o y = p.whole
    BY <1>1, <1>3 DEF ClausePart, ClauseBase
  <2>3. input # <<>> /\ shorter = Front(input)
    BY <1>6 DEF shorter
  <2> HIDE DEF a, f, input
  <2>4. Front(y) = f \o shorter
    BY <2>1, <2>3, FrontCat
  <2>5. y \in Seq(Letters) /\ Len(y) = Len(f) + Len(input)
    BY <2>1, Cat
  <2>6. y # <<>>
    BY <2>1, <2>3, <2>5, SeqIs
  <2> HIDE DEF y
  <2>7. Front(a \o y) = a \o Front(y)
    BY <2>1, <2>5, <2>6, FrontCat
  <2> QED
    BY <2>2, <2>4, <2>7 DEF a, f
<1>23. Rear(m - 1, g.whole) = shorter
  <2> DEFINE s == p.whole
  <2>1. s \in Seq(Letters) /\ m \in 1..Len(s)
    BY <1>2, <1>3 DEF Kanas
  <2> HIDE DEF s, m
  <2>2. Front(Rear(m, s)) = Rear(m - 1, Front(s))
    BY <2>1, RearFront
  <2> QED
    BY <1>8, <2>2 DEF s, shorter, input
<1>24. Rear(Keys * (m - 1) + g.extra, g.keys) = less
  <2> DEFINE s == p.keys  k == Keys * m + p.extra
  <2>1. s \in Seq(Letters \X Nat) /\ k \in 1..Len(s)
    <3>1. k # 0
      BY <1>4, <1>13, SeqIs DEF Text
    <3>2. k \in 0..Len(s)
      BY <1>4
    <3> HIDE DEF k
    <3>3. k \in 1..Len(s)
      BY <1>2, <3>1, <3>2
    <3> QED
      BY <1>2, <3>3 DEF Text
  <2>2. Keys * (m - 1) + g.extra = k - 1
    <3> DEFINE j == m - 1
    <3>1. j \in Nat /\ m = j + 1
      BY <1>3, <1>6
    <3> HIDE DEF j
    <3>2. Keys * (j + 1) = Keys * j + Keys /\ Keys * j \in Nat
      BY <1>2, <3>1
    <3>3. Keys * j + (p.extra + Keys - 1) = Keys * m + p.extra - 1
      BY <1>2, <1>4, <3>1, <3>2
    <3> DEFINE i == Keys * j  h == Keys * (m - 1)  a == Keys * m
    <3>4. j = m - 1 /\ h = i
      BY <3>1 DEF j
    <3>5. g.extra = p.extra + Keys - 1 /\ p.extra \in Nat /\ Keys \in Nat /\ i \in Nat /\ a \in Nat
          /\ i + (p.extra + Keys - 1) = a + p.extra - 1 /\ k = a + p.extra
      BY <1>2, <1>4, <1>8, <3>2, <3>3
    <3> HIDE DEF i, h, a, k
    <3>6. h + g.extra = k - 1
      BY <3>4, <3>5
    <3> QED
      BY <3>6 DEF h
  <2> HIDE DEF s, k
  <2>3. Front(Rear(k, s)) = Rear(k - 1, Front(s))
    BY <2>1, RearFront
  <2> QED
    BY <1>8, <2>2, <2>3 DEF s, k, less
<1> DEFINE j == m - 1
<1>25. ASSUME x.server.input # <<>> PROVE Answerable(x, j, g) /\ Len(c.raw) > 1
  <2>1. shorter # <<>>
    BY <1>20, <1>21, <1>25
  <2>2. j # 0
    BY <1>15, <2>1, SeqIs DEF Kanas
  <2>3. j \in 1..Len(g.whole) /\ j \in 0..Len(shorter)
    <3> DEFINE a == Len(p.whole)  l == Len(g.whole)  e == Len(shorter)
    <3>1. a \in Nat /\ m \in 1..a /\ m - 1 # 0 /\ l = a - 1 /\ e = m - 1
      BY <1>2, <1>3, <1>7, <1>15, <2>2
    <3> HIDE DEF a, l, e, m
    <3>2. m - 1 \in 1..l /\ m - 1 \in 0..e
      BY <3>1
    <3> QED
      BY <3>2 DEF l, e
  <2>4. Len(c.raw) > 1
    <3>1. m <= Keys * m
      BY <1>2, <1>3, Times
    <3> HIDE DEF m
    <3>2. m > 1
      BY <1>3, <1>6, <2>2
    <3> QED
      BY <1>2, <1>3, <1>4, <3>1, <3>2
  <2>5. Rear(j, g.whole) = shorter /\ Rear(Keys * j + g.extra, g.keys) = less
    BY <1>23, <1>24
  <2>6. w.cursor = j
    BY <1>20
  <2> HIDE DEF j, shorter
  <2>7. /\ x.server.input = Rear(j, g.whole) /\ x.server.cursor \in 0..Len(x.server.input)
        /\ x.clause.raw = Rear(Keys * j + g.extra, g.keys) /\ x.clause.group = 0
        /\ x.server.stack = <<>>
    BY <1>16, <1>19, <1>20, <1>21, <2>3, <2>5, <2>6
  <2>8. g.base \o (Kana(x.clause.fixed) \o Rear(j, g.whole)) = g.whole
    BY <1>8, <1>19, <1>21, <1>22, <2>5
  <2> QED
    BY <1>21, <2>3, <2>4, <2>7, <2>8 DEF Answerable
<1>26. Removed(n, x, p)
  BY <1>19, <1>20, <1>21, <1>22, <1>25 DEF Removed, g
<1> QED
  BY <1>6, <1>26 DEF x

\* Where a kana takes one key, the keys are still those of the kana.
LEMMA KeysOfFront ==
  ASSUME Keys = 1, NEW s \in Kanas, s # <<>>
  PROVE Front(KeysOf(s)) = KeysOf(Front(s))
<1> DEFINE f == Front(s)  l == Last(s)  e == <<l>>  a == KeysOf(f)  b == KeysOf(e)
<1>0. Keys \in Nat \ {0}
  OBVIOUS
<1>1. f \in Kanas /\ l \in Letters /\ s = f \o e
  BY FrontIs DEF Kanas
<1>2. e \in Kanas /\ b \in Text /\ Len(b) = 1
  BY <1>0, <1>1, OneKana
<1>3. a \in Text
  BY <1>0, <1>1, KeysOfIs
<1> HIDE DEF f, l, e
<1>4. KeysOf(s) = a \o b
  BY <1>0, <1>1, <1>2, KeysOfCat
<1>5. b # <<>>
  BY <1>2, SeqIs DEF Text
<1> HIDE DEF a, b
<1>6. Front(a \o b) = a \o Front(b)
  BY <1>2, <1>3, <1>5, FrontCat DEF Text
<1>7. Front(b) = <<>>
  <2> DEFINE y == Front(b)
  <2>1. y \in Text /\ Len(y) = Len(b) - 1
    BY <1>2, <1>5, FrontIs DEF Text
  <2> HIDE DEF y
  <2>2. Len(y) = 0
    BY <1>2, <2>1
  <2>3. y = <<>>
    BY <2>1, <2>2, SeqIs DEF Text
  <2> QED
    BY <2>3 DEF y
<1>8. a \o <<>> = a
  BY <1>3, TextCat
<1> QED
  BY <1>4, <1>6, <1>7, <1>8 DEF a, f

\* What is shown of the clause is committed.
Kept(p, text) ==
  [whole |-> p.whole, keys |-> p.keys, extra |-> p.extra, base |-> p.base \o Kana(text)]

\* What is left behind a committed text is a composition.
LEMMA KeptIs ==
  ASSUME NEW p, Frame(p), NEW text \in Text
  PROVE Frame(Kept(p, text))
<1> DEFINE b == p.base \o Kana(text)  q == Kept(p, text)
<1>1. p.whole \in Kanas /\ p.keys \in Text /\ p.extra \in Nat /\ p.base \in Kanas
  BY FrameFields
<1>2. Kana(text) \in Kanas
  BY KanaIs
<1>3. b \in Kanas
  BY <1>1, <1>2, KanasCat
<1>4. q = [whole |-> p.whole, keys |-> p.keys, extra |-> p.extra, base |-> b]
  BY DEF Kept
<1> HIDE DEF b, q
<1>5. q \in Frames /\ q.whole = p.whole /\ q.keys = p.keys /\ q.extra = p.extra
  BY <1>1, <1>3, <1>4 DEF Frames
<1>6. Frame(q)
  BY <1>5 DEF Frame
<1> QED
  BY <1>6 DEF q

\* The bundle x after the first clause of n left the composition.
Shrunk(n, x, p) ==
  /\ Frame(Kept(p, n.clause.preview))
  /\ Answerable(x, Len(n.clause.suffix), Kept(p, n.clause.preview))
  /\ x.server.input # <<>> /\ x.effect = n.effect

\* shrink_text: the clauses are those of what is left.
LEMMA ShrinkTextIs ==
  ASSUME NEW p, Frame(p), NEW n, Good(n, p), n.clause.suffix # <<>>
  PROVE Shrunk(n, ShrinkText(n), p)
<1> DEFINE c == n.clause  m == Len(c.reading)  r == Len(c.suffix)  item == c.view.items[c.sel]
           t == Len(item.text)  input == Rear(m, p.whole)  rest == Rear(r, p.whole)
           raw == Rear(Keys * r + p.extra, p.keys)  q == Forget(n)  g == Kept(p, c.preview)
           x == ShrinkText(n)
<1>1. /\ n \in Bundles /\ c \in Clauses /\ ClausePart(c, p) /\ ClauseBase(c, p) /\ Base(c, p)
         /\ Ends(c)
      /\ n.server \in Servers /\ Place(n.server, c) /\ Trail(n.snaps, n.server.stack, p)
      /\ c.view \in Views /\ c.fixed \in Text /\ c.suffix \in Text /\ c.preview \in Text
  BY BundleFields, ClauseFields DEF Good, Light, ClausePart, ClauseBase
<1>2. p.whole \in Kanas /\ p.base \in Kanas /\ Keys \in Nat \ {0} /\ Len(p.whole) \in Nat
  BY FrameFields
<1>3. m \in 0..Len(p.whole) /\ m \in 1..Len(p.whole) /\ m \in Nat /\ Kana(c.reading) = input
      /\ item \in Items
  BY <1>1, BaseIs
<1>4. r \in 0..m-1 /\ r \in Nat /\ r # 0 /\ t + r = m /\ t \in 1..m /\ c.count = Keys * t
      /\ Kana(c.suffix) = rest
  BY <1>1, EndsIs
<1>5. /\ Drop(c.count, c.raw) = raw /\ r \in 1..Len(p.whole)
  BY <1>1, LeftBehindIs
<1>6. n.snaps = <<>> <=> n.server.stack = <<>>
  BY <1>1, TrailFields
<1>7. Forgotten(n, q)
  BY <1>1, <1>6, ForgetIs
<1>8. Frame(g) /\ g.whole = p.whole /\ g.keys = p.keys /\ g.extra = p.extra
      /\ g.base = p.base \o Kana(c.preview)
  BY <1>1, KeptIs DEF Kept
<1> HIDE DEF q, g
<1> DEFINE s == q.server  w == Shrink(c.count, s)  none == <<>>
<1>9. /\ q \in Bundles /\ q.clause = Unflagged(c) /\ q.snaps = <<>> /\ q.futures = <<>>
      /\ q.effect = n.effect /\ s \in Servers /\ s.input = n.server.input
      /\ s.cursor = n.server.cursor /\ s.stack = none
  BY <1>7, BundleFields DEF Forgotten
<1>10. q.clause \in Clauses /\ q.clause.raw = c.raw /\ q.clause.group = 0
  BY <1>1, <1>9, UnflaggedIs
<1>11. s.input = input /\ s.cursor \in 0..Len(input) /\ Len(input) = m /\ input \in Kanas
  BY <1>1, <1>3, <1>9, NumIs DEF Place
<1> HIDE DEF s
<1>12. w \in Servers /\ w.input = Drop(t, input) /\ w.cursor \in 0..Len(w.input) /\ w.stack = none
  <2> DEFINE k == c.count
  <2>1. t \in Nat /\ t <= Len(s.input) /\ s.cursor <= Len(s.input)
    <3> DEFINE a == Len(input)  e == Len(s.input)
    <3>1. t \in 1..m /\ m \in Nat /\ a = m /\ e = a /\ s.cursor \in 0..a
      BY <1>3, <1>4, <1>11
    <3> HIDE DEF t, a, e, m
    <3>2. t \in Nat /\ t <= e /\ s.cursor <= e
      BY <3>1
    <3> QED
      BY <3>2 DEF e
  <2>2. k = Keys * t
    BY <1>4
  <2> HIDE DEF t, k, input
  <2>3. LET after == Shrink(k, s)
        IN /\ after \in Servers /\ after.input = Drop(t, s.input)
           /\ after.cursor \in 0..Len(after.input) /\ after.stack = s.stack
    BY ONLY <2>1, <2>2, <1>2, <1>9, ShrinkIs
  <2> QED
    BY <1>9, <1>11, <2>3 DEF k
<1>13. Drop(t, input) = rest
  <2> DEFINE a == p.whole
  <2>1. a \in Seq(Letters) /\ m \in 0..Len(a) /\ r \in 0..m /\ m - r = t
    <3>1. a \in Seq(Letters) /\ m \in 0..Len(a)
      BY <1>2, <1>3 DEF Kanas
    <3>2. r \in 0..m-1 /\ m \in Nat /\ t \in 1..m /\ t + r = m
      BY <1>3, <1>4
    <3> HIDE DEF m, r, t
    <3>3. r \in 0..m /\ m - r = t
      BY <3>2
    <3> QED
      BY <3>1, <3>3
  <2> HIDE DEF a, m, r, t
  <2>2. Drop(m - r, Rear(m, a)) = Rear(r, a)
    BY <2>1, RearOfRear
  <2> QED
    BY <2>1, <2>2 DEF a, input, rest
<1>14. raw \in Text /\ rest \in Kanas /\ Len(rest) = r
  <2>1. r \in 0..Len(p.whole)
    BY <1>5
  <2> QED
    BY <2>1, NumIs
<1>15. rest # <<>>
  BY <1>4, <1>14, SeqIs DEF Kanas
<1> DEFINE b == q.clause  d == [b EXCEPT !.fixed = none, !.sel = 1, !.raw = raw]
<1>16. x = [q EXCEPT !.clause = d, !.server = w]
  <2>1. x = [q EXCEPT !.clause = [b EXCEPT !.fixed = <<>>, !.sel = 1, !.raw = Drop(c.count, @)],
                      !.server = Shrink(c.count, @)]
    BY DEF ShrinkText, q
  <2>2. Drop(c.count, b.raw) = raw
    BY <1>5, <1>10
  <2> QED
    BY <2>1, <2>2 DEF s
<1>17. none \in Text
  BY DEF Text
<1> HIDE DEF raw, rest, x, w, b
<1>18. d \in Clauses /\ d.fixed = none /\ d.raw = raw /\ d.group = 0
  BY <1>10, <1>14, <1>17 DEF Clauses, b
<1> HIDE DEF d
<1>19. /\ x \in Bundles /\ x.clause = d /\ x.server = w /\ x.snaps = <<>> /\ x.futures = <<>>
       /\ x.effect = n.effect
  BY <1>9, <1>12, <1>16, <1>18 DEF Bundles
<1>20. g.base \o (Kana(none) \o rest) = g.whole
  <2> DEFINE a == p.base  e == Kana(c.preview)  z == Kana(c.suffix)
  <2>1. a \in Seq(Letters) /\ e \in Seq(Letters) /\ z \in Seq(Letters)
    BY <1>1, <1>2, KanaIs DEF Kanas
  <2>2. a \o Kana(c.preview \o c.suffix) = p.whole /\ Kana(c.preview \o c.suffix) = e \o z
    BY <1>1, ShownIs
  <2>3. z = rest
    BY <1>4 DEF rest
  <2>4. Kana(none) = <<>>
    <3>1. Kana(none) \in Kanas /\ Len(Kana(none)) = 0
      BY <1>17, KanaIs
    <3> QED
      BY <3>1, SeqIs DEF Kanas
  <2> HIDE DEF a, e, z
  <2>5. (a \o e) \o z = a \o (e \o z)
    BY ONLY <2>1, CatAssoc
  <2>6. <<>> \o rest = rest
    BY <1>14, KanasCat
  <2> QED
    BY <1>8, <2>2, <2>3, <2>4, <2>5, <2>6 DEF a, e
<1> HIDE DEF r
<1>21. Answerable(x, r, g)
  <2>1. /\ x.server.input = Rear(r, g.whole) /\ x.server.cursor \in 0..Len(x.server.input)
        /\ x.clause.raw = Rear(Keys * r + g.extra, g.keys) /\ x.clause.group = 0
        /\ x.server.stack = <<>> /\ r \in 1..Len(g.whole)
    BY <1>5, <1>8, <1>12, <1>13, <1>18, <1>19 DEF rest, raw
  <2>2. g.base \o (Kana(x.clause.fixed) \o Rear(r, g.whole)) = g.whole
    BY <1>8, <1>18, <1>19, <1>20 DEF rest
  <2> QED
    BY <1>19, <2>1, <2>2 DEF Answerable
<1>22. x.server.input # <<>> /\ x.effect = n.effect
  BY <1>12, <1>13, <1>15, <1>19
<1> QED
  BY Zenon, <1>8, <1>21, <1>22 DEF Shrunk, g, x, r

-----------------------------------------------------------------------------
(* All the way to the left.                                                *)

\* The bundles of up to n moves to the left.
Lefts(n, start, f) == f = [i \in 0..n |-> IF i = 0 THEN start ELSE MoveLeft(f[i - 1])]

\* The bundles of repeated moves to the left, as a function of their number.
LEMMA LeftsExist ==
  ASSUME NEW n \in Nat, NEW start
  PROVE \E f : Lefts(n, start, f)
<1> DEFINE S == {m \in Nat : \E f : Lefts(m, start, f)}
<1>1. 0 \in S
  <2>1. Lefts(0, start, [i \in 0..0 |-> start])
    BY DEF Lefts
  <2> QED
    BY <2>1
<1>2. \A m \in S : m + 1 \in S
  <2> TAKE m \in S
  <2>1. PICK f : Lefts(m, start, f)
    OBVIOUS
  <2> DEFINE g == [i \in 0..m+1 |-> IF i = m + 1 THEN MoveLeft(f[m]) ELSE f[i]]
  <2>2. m \in Nat
    OBVIOUS
  <2>3. \A i \in 0..m : f[i] = IF i = 0 THEN start ELSE MoveLeft(f[i - 1])
    BY <2>1 DEF Lefts
  <2>4. \A i \in 0..m+1 : g[i] = IF i = 0 THEN start ELSE MoveLeft(g[i - 1])
    BY <2>2, <2>3
  <2>5. Lefts(m + 1, start, g)
    BY <2>4 DEF Lefts
  <2> QED
    BY <2>2, <2>5
<1>3. S = Nat
  <2> HIDE DEF S
  <2>1. S \in SUBSET Nat
    BY DEF S
  <2> QED
    BY <1>1, <1>2, <2>1, SetInduction
<1> QED
  BY <1>3

\* Iterated(MoveLeft) is what that function ends with.
LEMMA LeftsAre ==
  ASSUME NEW n \in Nat, NEW start
  PROVE \E f : Lefts(n, start, f) /\ Iterated(MoveLeft, n, start) = f[n]
<1>1. Lefts(n, start, CHOOSE f : Lefts(n, start, f))
  BY LeftsExist
<1>2. Iterated(MoveLeft, n, start) = (CHOOSE f : Lefts(n, start, f))[n]
  BY DEF Iterated, Lefts
<1> QED
  BY <1>1, <1>2

\* j clauses left behind are gone back to.
GoneBack(n, j, x, p) ==
  /\ Good(x, p) /\ Len(x.snaps) = Len(n.snaps) - j
  /\ Append(x.snaps, x.clause)[1] = Append(n.snaps, n.clause)[1]
  /\ x.effect \in {n.effect, "applied"}

\* One more move to the left.
LEMMA GoneBackStep ==
  ASSUME NEW p, Frame(p), NEW n, NEW j, j \in Nat, Len(n.snaps) \in Nat, j < Len(n.snaps),
         NEW x, GoneBack(n, j, x, p)
  PROVE GoneBack(n, j + 1, MoveLeft(x), p)
<1> DEFINE q == MoveLeft(x)  s == x.snaps  k == Len(s)  l == Len(n.snaps)  y == q.snaps
           c == q.clause
<1>1. Good(x, p) /\ k = l - j /\ Append(s, x.clause)[1] = Append(n.snaps, n.clause)[1]
      /\ x.clause \in Clauses /\ s \in Seq(Clauses)
  BY BundleFields DEF GoneBack, Good, Light
<1>2. k \in 1..k /\ k \in Nat /\ 1 \in 1..k /\ k - 1 = l - (j + 1)
  <2> HIDE DEF k, l
  <2>1. l \in Nat /\ j < l
    BY DEF l
  <2> QED
    BY <1>1, <2>1
<1>3. s # <<>>
  BY <1>1, <1>2, SeqIs
<1>4. MovedLeft(x, q, p)
  BY <1>1, <1>3, MoveLeftIs
<1> HIDE DEF q
<1>5. Good(q, p) /\ q.effect = "applied" /\ c = Last(s) /\ y = Front(s)
  BY <1>4 DEF MovedLeft
<1>6. Len(y) = k - 1 /\ Append(y, c) = s
  BY <1>1, <1>3, <1>5, FrontIs
<1> HIDE DEF c, y
<1>7. Append(s, x.clause)[1] = s[1]
  BY <1>1, <1>2, AppendIs
<1>8. Append(y, c)[1] = Append(n.snaps, n.clause)[1]
  BY <1>1, <1>6, <1>7
<1>9. Len(y) = l - (j + 1)
  BY <1>2, <1>6
<1> QED
  BY <1>5, <1>8, <1>9 DEF GoneBack, q, y, c

\* The first clause is the current one.
AtFirst(n, x, p) ==
  /\ Good(x, p) /\ x.snaps = <<>> /\ x.clause = Head(Append(n.snaps, n.clause))
  /\ x.effect \in {n.effect, "applied"}

\* Moving left as often as there are clauses behind ends on the first clause,
\* with all others ahead.
LEMMA FirstIs ==
  ASSUME NEW p, Frame(p), NEW n, Good(n, p)
  PROVE AtFirst(n, Iterated(MoveLeft, Len(n.snaps), n), p)
<1> DEFINE l == Len(n.snaps)
<1>1. n.snaps \in Seq(Clauses) /\ n.clause \in Clauses /\ l \in Nat
  BY BundleFields, SeqIs DEF Good, Light
<1>2. PICK f : Lefts(l, n, f) /\ Iterated(MoveLeft, l, n) = f[l]
  BY <1>1, LeftsAre
<1>3. \A i \in 0..l : f[i] = IF i = 0 THEN n ELSE MoveLeft(f[i - 1])
  BY <1>2 DEF Lefts
<1> DEFINE S == {i \in Nat : i <= l => GoneBack(n, i, f[i], p)}
<1>4. 0 \in S
  <2>1. f[0] = n
    BY <1>1, <1>3
  <2>2. l - 0 = l
    BY <1>1
  <2>3. GoneBack(n, 0, n, p)
    BY <2>2 DEF GoneBack
  <2> QED
    BY <2>1, <2>3
<1>5. \A i \in S : i + 1 \in S
  <2> TAKE i \in S
  <2>1. CASE i + 1 <= l
    <3>1. i \in Nat /\ i + 1 \in 0..l /\ i + 1 # 0 /\ (i + 1) - 1 = i /\ i <= l /\ i < l
      BY <1>1, <2>1
    <3>2. f[i + 1] = MoveLeft(f[i])
      BY <1>3, <3>1
    <3>3. GoneBack(n, i, f[i], p)
      BY <3>1
    <3> DEFINE x == f[i]
    <3>4. l \in Nat /\ GoneBack(n, i, x, p)
      BY <1>1, <3>3
    <3> HIDE DEF x
    <3>5. GoneBack(n, i + 1, MoveLeft(x), p)
      BY <3>1, <3>4, GoneBackStep
    <3> QED
      BY <3>1, <3>2, <3>5 DEF x
  <2> QED
    BY <2>1
<1>6. S = Nat
  <2> HIDE DEF S
  <2>1. S \in SUBSET Nat
    BY DEF S
  <2> QED
    BY <1>4, <1>5, <2>1, SetInduction
<1> DEFINE x == f[l]
<1>7. GoneBack(n, l, x, p)
  BY <1>1, <1>6
<1> HIDE DEF x
<1>8. /\ Good(x, p) /\ Len(x.snaps) = 0 /\ x.effect \in {n.effect, "applied"}
      /\ Append(x.snaps, x.clause)[1] = Append(n.snaps, n.clause)[1]
  <2>1. l - l = 0
    BY <1>1
  <2> QED
    BY <1>7, <2>1 DEF GoneBack
<1>9. x.snaps = <<>> /\ x.snaps \in Seq(Clauses) /\ x.clause \in Clauses
  <2>1. x.snaps \in Seq(Clauses) /\ x.clause \in Clauses
    BY <1>8, BundleFields DEF Good, Light
  <2> QED
    BY <1>8, <2>1, SeqIs
<1>10. Append(x.snaps, x.clause)[1] = x.clause
  BY <1>8, <1>9, AppendIs
<1>11. Head(Append(n.snaps, n.clause)) = Append(n.snaps, n.clause)[1]
  OBVIOUS
<1>12. AtFirst(n, x, p)
  BY Zenon, <1>8, <1>9, <1>10, <1>11 DEF AtFirst
<1> QED
  BY <1>2, <1>12 DEF x

-----------------------------------------------------------------------------
(* The invariant.                                                          *)

\* Base speaks of a state only through Keys, which no step changes.
LEMMA BaseNext ==
  ASSUME NEW CONSTANT x, NEW CONSTANT p, Keys' = Keys, Base(x, p)
  PROVE Base(x, p)'
  BY DEF Base, ViewPart, Tells

\* The same for a clause.
LEMMA ClausePartNext ==
  ASSUME NEW CONSTANT c, NEW CONSTANT p, Keys' = Keys, ClausePart(c, p)
  PROVE ClausePart(c, p)'
  BY BaseNext DEF ClausePart, ClauseBase

\* The same for a remembered clause.
LEMMA FuturePartNext ==
  ASSUME NEW CONSTANT f, NEW CONSTANT p, Keys' = Keys, FuturePart(f, p)
  PROVE FuturePart(f, p)'
  BY BaseNext DEF FuturePart

\* The same for the clauses ahead.
LEMMA RowNext ==
  ASSUME NEW CONSTANT fs, NEW CONSTANT p, Keys' = Keys, Row(fs, p)
  PROVE Row(fs, p)'
  BY FuturePartNext DEF Row

\* The same for the clauses behind.
LEMMA TrailNext ==
  ASSUME NEW CONSTANT snaps, NEW CONSTANT stack, NEW CONSTANT p, Keys' = Keys,
         Trail(snaps, stack, p)
  PROVE Trail(snaps, stack, p)'
  BY ClausePartNext DEF Trail

\* The same for the bundle.
LEMMA GoodNext ==
  ASSUME NEW CONSTANT n, NEW CONSTANT p, Keys' = Keys, Good(n, p)
  PROVE Good(n, p)'
  BY ClausePartNext, RowNext, TrailNext DEF Good, Light


\* The states of the client, and the flags of the history.
States == {"none", "composing", "previewing"}

Flags  == {"typed", "committed", "inner", "recut", "refused", "fellback", "removed"}

\* What holds in every state, judged or not.
Shape ==
  /\ Keys \in Nat \ {0}
  /\ client.state \in States
  /\ pc \in {"idle", "last"}
  /\ DOMAIN ghost = Flags

\* What is composed is told by p.
Holding(p) ==
  /\ Frame(p) /\ Good(Bundle, p)
  /\ p.whole = ghost.typed /\ p.base = ghost.committed
  /\ Keys = 1 \/ ~ghost.removed => p.keys = KeysOf(p.whole) /\ p.extra = 0

\* Nothing is composed: all that was typed is committed.
Empty ==
  /\ client = NoComposition /\ server = Cleared
  /\ ghost.typed \in Kanas /\ ghost.committed = ghost.typed
  /\ pc = "idle"

\* What holds while every change was one the model judges: no composition and
\* nothing left of one, or clauses of one.
Story == Judged => IF client.state = "none" THEN Empty ELSE \E p : Holding(p)

\* The inductive invariant.
IInv == Shape /\ Story

\* What is stored is the bundle of the next state.
LEMMA StoreIs ==
  ASSUME NEW CONSTANT n, NEW CONSTANT p, NEW CONSTANT state, Good(n, p),
         n.effect \in {"applied", "skipped"}, Store(n, state)
  PROVE /\ client' = [state |-> state, clause |-> n.clause, snaps |-> n.snaps,
                      futures |-> n.futures]
        /\ server' = n.server /\ Bundle' = Skipped(n) /\ Good(Skipped(n), p)
<1>1. client' = [state |-> state, clause |-> n.clause, snaps |-> n.snaps, futures |-> n.futures]
      /\ server' = n.server
  BY DEF Store
<1>2. n = [clause |-> n.clause, snaps |-> n.snaps, futures |-> n.futures,
           server |-> n.server, effect |-> n.effect]
  BY BundleFields DEF Good, Light
<1>3. Good(Skipped(n), p)
  BY SkippedIs
<1>4. Bundle' = [clause |-> n.clause, snaps |-> n.snaps, futures |-> n.futures,
                 server |-> n.server, effect |-> "skipped"]
  BY <1>1 DEF Bundle
<1> DEFINE c == n.clause  s == n.snaps  f == n.futures  w == n.server  e == n.effect
<1>5. n = [clause |-> c, snaps |-> s, futures |-> f, server |-> w, effect |-> e]
  BY <1>2
<1> HIDE DEF c, s, f, w, e
<1>6. Skipped(n) = [clause |-> c, snaps |-> s, futures |-> f, server |-> w, effect |-> "skipped"]
  BY <1>5 DEF Skipped
<1> QED
  BY <1>1, <1>3, <1>4, <1>6 DEF c, s, f, w

\* A good bundle that is stored with the history that belongs to it is what the
\* invariant asks for.
LEMMA HoldingNext ==
  ASSUME NEW CONSTANT n, NEW CONSTANT p, Keys' = Keys, Bundle' = n, Frame(p), Good(n, p),
         p.whole = ghost'.typed, p.base = ghost'.committed,
         Keys = 1 \/ ~ghost'.removed => p.keys = KeysOf(p.whole) /\ p.extra = 0
  PROVE Holding(p)'
<1>1. Frame(p)'
  BY DEF Frame
<1>2. Good(n, p)'
  BY GoodNext
<1>3. Good(Bundle, p)'
  BY ONLY <1>2, Bundle' = n
<1>4. (Keys = 1 \/ ~ghost.removed => p.keys = KeysOf(p.whole) /\ p.extra = 0)'
  BY DEF KeysOf
<1> QED
  BY <1>1, <1>3, <1>4 DEF Holding

-----------------------------------------------------------------------------
(* The actions, one by one.                                                *)

\* A judged composition in progress has a frame.
LEMMA Held ==
  ASSUME IInv, Ready, Judged
  PROVE \E p : Holding(p)
  BY DEF IInv, Story, Ready

\* What a handler starts from.
BundleAt(b, p) ==
  /\ Frame(p) /\ Good(b, p) /\ b = Bundle
  /\ b.clause = client.clause /\ b.snaps = client.snaps /\ b.futures = client.futures
  /\ b.server = server /\ b.effect = "skipped"
  /\ p.whole = ghost.typed /\ p.base = ghost.committed
  /\ Keys = 1 \/ ~ghost.removed => p.keys = KeysOf(p.whole) /\ p.extra = 0

\* The bundle the code works on, under that frame.
LEMMA BundleIs ==
  ASSUME NEW p, Holding(p)
  PROVE BundleAt(Bundle, p)
  BY DEF Holding, BundleAt, Bundle

\* A typed kana grows the composition, in every state it can be typed in.
LEMMA TypeHolds ==
  ASSUME IInv, NEW kana \in Letters, Type(kana), Judged'
  PROVE client'.state # "none" /\ \E p : Holding(p)'
<1>1. /\ Ready /\ Store(AppendText(Bundle, kana), "composing") /\ Keys' = Keys
      /\ Len(ghost.typed) < MaxLen
      /\ ghost' = [ghost EXCEPT !.typed = Append(@, kana), !.inner = @ \/ Inside]
  BY DEF Type
<1>2. DOMAIN ghost = Flags
  BY DEF IInv, Shape
<1>3. /\ ghost'.typed = Append(ghost.typed, kana) /\ ghost'.committed = ghost.committed
      /\ ghost'.removed = ghost.removed
  BY <1>1, <1>2 DEF Flags
<1>4. Judged /\ ~Inside
  BY <1>1, <1>2 DEF Flags, Judged
<1>5. PICK p : Holding(p)
  BY <1>1, <1>4, Held
<1>6. PICK b : b = Bundle
  OBVIOUS
<1>7. BundleAt(b, p)
  BY ONLY <1>5, <1>6, BundleIs
<1> DEFINE m == Len(b.clause.reading)  g == Grown(p, kana)
<1>8. Frame(p) /\ Good(b, p) /\ Len(p.whole) < MaxLen /\ b.server = server /\ b.effect = "skipped"
  BY Zenon, <1>1, <1>7 DEF BundleAt
<1>9. /\ b \in Bundles /\ ClausePart(b.clause, p) /\ ClauseBase(b.clause, p) /\ Base(b.clause, p)
      /\ Place(b.server, b.clause)
      /\ Trail(b.snaps, b.server.stack, p) /\ b.clause.view \in Views
  BY <1>8, BundleFields, ClauseFields DEF Good, Light, ClausePart, ClauseBase
<1>10. m \in 0..Len(p.whole) /\ Kana(b.clause.reading) = Rear(m, p.whole)
       /\ b.clause.raw = Rear(Keys * m + p.extra, p.keys)
  <2>1. b.clause.raw = Rear(Keys * m + p.extra, p.keys)
    BY <1>9 DEF Base
  <2> QED
    BY <1>8, <1>9, <2>1, BaseIs
<1>11. b.server.input = Rear(m, p.whole) /\ b.server.cursor = Len(b.server.input)
  <2> DEFINE k == b.server.cursor  l == Len(b.server.input)
  <2>1. b.server.input = Rear(m, p.whole) /\ k \in 0..l
    BY <1>9, <1>10 DEF Place
  <2>2. ~(k < l)
    BY <1>4, <1>8 DEF Inside
  <2>3. l \in Nat
    <3>1. b.server \in Servers
      BY <1>9, BundleFields
    <3> QED
      BY <3>1, ServerFields
  <2> HIDE DEF k, l
  <2>4. k = l
    BY <2>1, <2>2, <2>3
  <2> QED
    BY <2>1, <2>4 DEF k, l
<1>12. b.snaps = <<>> <=> b.server.stack = <<>>
  BY <1>9, TrailFields
<1>13. p.base \o (Kana(b.clause.fixed) \o Rear(m, p.whole)) = p.whole
  BY <1>9, <1>10 DEF ClauseBase
<1> HIDE DEF m
<1>14. Growable(b, m, p)
  BY <1>9, <1>10, <1>11, <1>12, <1>13 DEF Growable
<1>15. PICK n : n = AppendText(b, kana)
  OBVIOUS
<1>16. Good(n, g) /\ n.effect = "skipped"
  <2>1. Good(AppendText(b, kana), Grown(p, kana)) /\ AppendText(b, kana).effect = b.effect
    BY ONLY <1>8, <1>14, kana \in Letters, AppendTextIs
  <2> QED
    BY <1>8, <1>15, <2>1
<1>17. Frame(g) /\ g.whole = Append(p.whole, kana) /\ g.base = p.base
       /\ g.keys = p.keys \o KeysOf(<<kana>>) /\ g.extra = p.extra
  <2>1. Append(p.whole, kana) = p.whole \o <<kana>>
    <3>1. p.whole \in Seq(Letters)
      BY <1>8, FrameFields DEF Kanas
    <3> HIDE DEF g
    <3> QED
      BY <3>1, AppendIs
  <2> QED
    BY <1>8, <2>1, GrownIs DEF Grown
<1> HIDE DEF g
<1>18. Store(n, "composing")
  BY <1>1, <1>6, <1>15
<1>19. client'.state = "composing" /\ Bundle' = Skipped(n) /\ Good(Skipped(n), g)
  BY <1>16, <1>18, StoreIs
<1>20. ASSUME Keys = 1 \/ ~ghost'.removed
       PROVE g.keys = KeysOf(g.whole) /\ g.extra = 0
  <2>1. p.keys = KeysOf(p.whole) /\ p.extra = 0
    BY <1>3, <1>7, <1>20 DEF BundleAt
  <2> DEFINE x == <<kana>>
  <2>2. p.whole \in Kanas /\ Keys \in Nat \ {0} /\ x \in Kanas
    BY <1>8, FrameFields, OneKana
  <2>3. Append(p.whole, kana) = p.whole \o x
    BY <2>2, AppendIs DEF Kanas
  <2> HIDE DEF x
  <2>4. KeysOf(p.whole \o x) = KeysOf(p.whole) \o KeysOf(x)
    BY <2>2, KeysOfCat
  <2> QED
    BY <1>17, <2>1, <2>3, <2>4 DEF x
<1>21. g.whole = ghost'.typed /\ g.base = ghost'.committed
  BY <1>3, <1>7, <1>17 DEF BundleAt
<1>22. PICK q : q = Skipped(n)
  OBVIOUS
<1>23. PICK h : h = g
  OBVIOUS
<1>24. Holding(h)'
  <2>1. Bundle' = q /\ Good(q, h)
    BY <1>19, <1>22, <1>23
  <2>2. Frame(h) /\ h.whole = ghost'.typed /\ h.base = ghost'.committed
    BY <1>17, <1>21, <1>23
  <2>3. Keys = 1 \/ ~ghost'.removed => h.keys = KeysOf(h.whole) /\ h.extra = 0
    BY <1>20, <1>23
  <2> QED
    BY ONLY <1>1, <2>1, <2>2, <2>3, HoldingNext
<1> QED
  BY <1>19, <1>24

\* Nothing is typed yet.
Nothing == [whole |-> <<>>, keys |-> <<>>, extra |-> 0, base |-> <<>>]

\* The bundle of a composition that has just begun.
Start == [clause |-> Blank, snaps |-> <<>>, futures |-> <<>>, server |-> Cleared,
          effect |-> "skipped"]

\* An empty composition can grow.
LEMMA StartIs ==
  ASSUME Keys \in Nat \ {0}
  PROVE Frame(Nothing) /\ Growable(Start, 0, Nothing)
<1> DEFINE none == <<>>  no == FALSE
<1>1. /\ none \in Text /\ none \in Kanas /\ none \in Seq(Items) /\ none \in Seq(Places)
      /\ none \in Seq(Clauses) /\ none \in Seq(Futures) /\ Len(none) = 0 /\ no \in BOOLEAN
      /\ none = <<>> /\ no = FALSE
  BY DEF Text, Kanas
<1> HIDE DEF no
<1>2. NoView \in Views
  <2> HIDE DEF none
  <2>1. NoView = [reading |-> none, items |-> none]
    BY <1>1 DEF NoView
  <2> QED
    BY <1>1, <2>1 DEF Views
<1>3. Blank \in Clauses /\ Blank.raw = <<>> /\ Blank.fixed = <<>>
  <2> DEFINE view == NoView
  <2> HIDE DEF none, view
  <2>1. Blank = [fixed |-> none, preview |-> none, suffix |-> none, raw |-> none,
                 reading |-> none, count |-> 0, sel |-> 1, view |-> view,
                 derived |-> no, remainder |-> no, neighbor |-> no, group |-> 0]
    BY <1>1 DEF Blank, view
  <2>2. view \in Views
    BY <1>2 DEF view
  <2> QED
    BY <1>1, <2>1, <2>2 DEF Clauses
<1>4. Cleared \in Servers /\ Cleared.input = <<>> /\ Cleared.cursor = 0 /\ Cleared.stack = <<>>
  <2> HIDE DEF none
  <2>1. Cleared = [input |-> none, cursor |-> 0, stack |-> none]
    BY <1>1 DEF Cleared
  <2> QED
    BY <1>1, <2>1 DEF Servers
<1>5. Nothing \in Frames /\ Nothing.whole = <<>> /\ Nothing.keys = <<>> /\ Nothing.extra = 0
      /\ Nothing.base = <<>>
  <2> HIDE DEF none
  <2>1. Nothing = [whole |-> none, keys |-> none, extra |-> 0, base |-> none]
    BY <1>1 DEF Nothing
  <2> QED
    BY <1>1, <2>1 DEF Frames
<1>6. Frame(Nothing)
  BY <1>1, <1>5, MaxLenAssumption DEF Frame
<1>7. Start \in Bundles /\ Start.clause = Blank /\ Start.server = Cleared /\ Start.snaps = <<>>
  <2> DEFINE b == Blank  w == Cleared
  <2> HIDE DEF none, b, w
  <2>1. Start = [clause |-> b, snaps |-> none, futures |-> none, server |-> w, effect |-> "skipped"]
    BY <1>1 DEF Start, b, w
  <2>2. b \in Clauses /\ w \in Servers
    BY <1>3, <1>4 DEF b, w
  <2> QED
    BY <1>1, <2>1, <2>2 DEF Bundles, Effects, b, w
<1>8. Rear(0, none) = <<>>
  <2>1. Rear(0, none) \in Seq(Letters) /\ Len(Rear(0, none)) = 0
    <3>1. none \in Seq(Letters) /\ 0 \in 0..Len(none)
      BY <1>1 DEF Kanas
    <3> HIDE DEF none
    <3> QED
      BY <3>1, RearIs
  <2> QED
    BY <2>1, SeqIs
<1>9. Kana(none) = <<>>
  <2>1. Kana(none) \in Kanas /\ Len(Kana(none)) = 0
    BY <1>1, KanaIs
  <2> QED
    BY <2>1, SeqIs DEF Kanas
<1>10. <<>> \o (<<>> \o <<>>) = <<>>
  OBVIOUS
<1>11. Keys * 0 + 0 = 0
  OBVIOUS
<1>12. /\ Start.server.input = Rear(0, Nothing.whole)
       /\ Start.server.cursor = Len(Start.server.input)
       /\ Start.clause.raw = Rear(Keys * 0 + Nothing.extra, Nothing.keys)
       /\ Start.snaps = <<>> /\ Start.server.stack = <<>> /\ 0 \in 0..Len(Nothing.whole)
  BY <1>1, <1>3, <1>4, <1>5, <1>7, <1>8, <1>11
<1>13. Nothing.base \o (Kana(Start.clause.fixed) \o Rear(0, Nothing.whole)) = Nothing.whole
  BY <1>3, <1>5, <1>7, <1>8, <1>9, <1>10
<1> QED
  BY <1>6, <1>7, <1>12, <1>13 DEF Growable

\* The first kana starts a composition.
LEMMA BeginHolds ==
  ASSUME IInv, NEW kana \in Letters, Begin(kana)
  PROVE client'.state # "none" /\ \E p : Holding(p)'
<1>1. Keys \in Nat \ {0} /\ Keys' = Keys /\ Store(AppendText(Start, kana), "composing")
      /\ ghost' = Fresh(<<kana>>)
  BY DEF IInv, Shape, Begin, Start
<1>2. Frame(Nothing) /\ Growable(Start, 0, Nothing)
  BY <1>1, StartIs
<1>3. PICK p : p = Nothing
  OBVIOUS
<1>4. PICK n : n = AppendText(Start, kana)
  OBVIOUS
<1>5. PICK g : g = Grown(p, kana)
  OBVIOUS
<1>6. p.whole = <<>> /\ p.keys = <<>> /\ p.extra = 0 /\ p.base = <<>> /\ Len(p.whole) < MaxLen
  <2>1. p.whole = <<>> /\ p.keys = <<>> /\ p.extra = 0 /\ p.base = <<>>
    BY <1>3 DEF Nothing
  <2> QED
    BY <2>1, MaxLenAssumption
<1>7. Good(n, g) /\ n.effect = "skipped"
  <2> DEFINE s == Start  m == 0
  <2>1. Frame(p) /\ Growable(s, m, p) /\ s.effect = "skipped"
    BY <1>2, <1>3 DEF Start
  <2> HIDE DEF s, m
  <2>2. Good(AppendText(s, kana), Grown(p, kana)) /\ AppendText(s, kana).effect = s.effect
    BY ONLY <1>6, <2>1, kana \in Letters, AppendTextIs
  <2> QED
    BY <1>4, <1>5, <2>1, <2>2 DEF s
<1>8. Frame(g)
  BY <1>2, <1>3, <1>5, <1>6, GrownIs
<1>9. g.whole = <<kana>> /\ g.base = <<>> /\ g.keys = KeysOf(<<kana>>) /\ g.extra = 0
  <2> DEFINE x == <<kana>>  k == KeysOf(x)
  <2>1. x \in Kanas /\ k \in Text
    BY <1>1, OneKana
  <2> HIDE DEF x, k
  <2>2. <<>> \o x = x /\ <<>> \o k = k
    BY <2>1, KanasCat, TextCat
  <2>3. g = [whole |-> p.whole \o x, keys |-> p.keys \o k, extra |-> p.extra, base |-> p.base]
    BY <1>5 DEF Grown, x, k
  <2> QED
    BY <1>6, <2>2, <2>3 DEF x, k
<1>10. ghost'.typed = <<kana>> /\ ghost'.committed = <<>>
  BY <1>1 DEF Fresh
<1>11. client'.state = "composing" /\ Bundle' = Skipped(n) /\ Good(Skipped(n), g)
  <2>1. Store(n, "composing")
    BY <1>1, <1>4
  <2> QED
    BY <1>7, <2>1, StoreIs
<1>12. PICK q : q = Skipped(n)
  OBVIOUS
<1>13. Holding(g)'
  <2>1. Bundle' = q /\ Good(q, g)
    BY <1>11, <1>12
  <2>2. g.whole = ghost'.typed /\ g.base = ghost'.committed
    BY <1>9, <1>10
  <2>3. Keys = 1 \/ ~ghost'.removed => g.keys = KeysOf(g.whole) /\ g.extra = 0
    BY <1>9
  <2> QED
    BY ONLY <1>1, <1>8, <2>1, <2>2, <2>3, HoldingNext
<1> QED
  BY <1>11, <1>13

\* A deletion at the end shrinks the composition, and ends it with its last
\* kana.
LEMMA BackspaceHolds ==
  ASSUME IInv, Backspace, Judged'
  PROVE IF client'.state = "none" THEN Empty' ELSE \E p : Holding(p)'
<1> DEFINE n == RemoveText(Bundle)  m == Answered(n)
           text == IF n.server.input = <<>> THEN Kana(n.clause.fixed) ELSE Shown(m)
           last == n.server.input = <<>> \/ Len(client.clause.raw) <= 1
<1>1. /\ Ready /\ pc' = pc /\ Keys' = Keys
      /\ IF last THEN client' = NoComposition /\ server' = Cleared ELSE Store(m, "composing")
      /\ ghost' = [ghost EXCEPT !.typed     = Front(@),
                                !.committed = IF last THEN @ \o text ELSE @,
                                !.inner     = @ \/ Inside,
                                !.removed   = Keys > 1]
  BY DEF Backspace
<1>2. DOMAIN ghost = Flags /\ pc = "idle"
  BY <1>1 DEF IInv, Shape, Ready
<1> HIDE DEF n, m, text, last
<1>3. /\ ghost'.typed = Front(ghost.typed) /\ ghost'.removed = (Keys > 1)
      /\ ghost'.committed = IF last THEN ghost.committed \o text ELSE ghost.committed
  BY <1>1, <1>2 DEF Flags
<1>4. Judged /\ ~Inside
  BY <1>1, <1>2 DEF Flags, Judged
<1>5. PICK p : Holding(p)
  BY <1>1, <1>4, Held
<1>6. PICK b : b = Bundle
  OBVIOUS
<1>7. BundleAt(b, p)
  BY ONLY <1>5, <1>6, BundleIs
<1>8. Frame(p) /\ Good(b, p) /\ b.server = server /\ b.clause = client.clause
        /\ b.effect = "skipped"
      /\ p.whole = ghost.typed /\ p.base = ghost.committed /\ b.clause.fixed \in Text
  BY <1>7, BundleFields, ClauseFields DEF BundleAt, Good, Light
<1>9. b.server.cursor >= Len(b.server.input)
  <2> DEFINE k == b.server.cursor  l == Len(b.server.input)
  <2>1. b.server \in Servers
    BY <1>8, BundleFields DEF Good, Light
  <2>2. k \in Nat /\ l \in Nat
    BY <2>1, ServerFields
  <2>3. ~(k < l)
    BY <1>4, <1>8 DEF Inside
  <2> HIDE DEF k, l
  <2>4. k >= l
    BY <2>2, <2>3
  <2> QED
    BY <2>4 DEF k, l
<1>10. PICK x : x = RemoveText(b)
  OBVIOUS
<1>11. Removed(b, x, p) /\ p.whole # <<>>
  BY <1>8, <1>9, <1>10, RemoveTextIs
<1>12. x = n /\ Answered(x) = m
  BY <1>6, <1>10 DEF n, m
<1>13. CASE n.server.input = <<>>
  <2>1. last /\ text = Kana(n.clause.fixed)
    BY <1>13 DEF last, text
  <2>2. client' = NoComposition /\ server' = Cleared
    BY <1>1, <2>1
  <2>3. n.clause.fixed = b.clause.fixed /\ p.base \o (Kana(b.clause.fixed) \o <<>>) = Front(p.whole)
    BY <1>11, <1>12, <1>13 DEF Removed
  <2>4. Kana(b.clause.fixed) \o <<>> = Kana(b.clause.fixed)
    BY <1>8, KanaIs, KanasCat
  <2>5. ghost'.committed = ghost'.typed
    BY <1>3, <1>8, <2>1, <2>3, <2>4
  <2>6. ghost'.typed \in Kanas
    <3>1. p.whole \in Seq(Letters) /\ p.whole # <<>>
      BY <1>8, <1>11, FrameFields DEF Kanas
    <3>2. Front(p.whole) \in Seq(Letters)
      BY ONLY <3>1, FrontIs
    <3> QED
      BY <1>3, <1>8, <3>2 DEF Kanas
  <2>7. Empty'
    BY <1>1, <1>2, <2>2, <2>5, <2>6 DEF Empty, NoComposition, Cleared
  <2> QED
    BY <2>2, <2>7 DEF NoComposition
<1>14. CASE n.server.input # <<>>
  <2>1. Answerable(x, Len(b.clause.reading) - 1, Lessened(p)) /\ Len(b.clause.raw) > 1
        /\ x.effect = "skipped"
    BY <1>8, <1>11, <1>12, <1>14 DEF Removed
  <2>2. ~last
    <3> DEFINE k == Len(b.clause.raw)
    <3>1. k \in Nat
      <4>1. b.clause.raw \in Text
        BY <1>8, BundleFields, ClauseFields DEF Good, Light
      <4> QED
        BY <4>1, SeqIs DEF Text
    <3>2. k > 1 /\ k = Len(client.clause.raw)
      BY <1>8, <2>1
    <3> HIDE DEF k
    <3>3. ~(k <= 1)
      BY <3>1, <3>2
    <3> QED
      BY <1>14, <3>2, <3>3 DEF last
  <2>3. PICK g : g = Lessened(p)
    OBVIOUS
  <2>4. Frame(g)
    BY <1>8, <1>11, <2>3, LessenedIs
  <2>5. PICK y : y = Answered(x)
    OBVIOUS
  <2>6. Good(y, g) /\ y.effect = "skipped"
    <3> DEFINE j == Len(b.clause.reading) - 1
    <3>1. Answerable(x, j, g)
      BY <2>1, <2>3
    <3> HIDE DEF j
    <3>2. Good(Answered(x), g) /\ Answered(x).effect = x.effect
      BY ONLY <2>4, <3>1, AnsweredIs
    <3> QED
      BY <2>1, <2>5, <3>2
  <2>7. client'.state = "composing" /\ Bundle' = Skipped(y) /\ Good(Skipped(y), g)
    <3>1. Store(y, "composing")
      BY <1>1, <1>12, <2>2, <2>5
    <3> QED
      BY <2>6, <3>1, StoreIs
  <2>8. g.whole = Front(p.whole) /\ g.keys = Front(p.keys) /\ g.extra = p.extra + Keys - 1
        /\ g.base = p.base
    BY <2>3 DEF Lessened
  <2>9. g.whole = ghost'.typed /\ g.base = ghost'.committed
    BY <1>3, <1>8, <2>2, <2>8
  <2>10. ASSUME Keys = 1 \/ ~ghost'.removed
         PROVE g.keys = KeysOf(g.whole) /\ g.extra = 0
    <3>1. Keys = 1
      <4>1. Keys \in Nat \ {0}
        BY <1>8, FrameFields
      <4>2. Keys = 1 \/ ~(Keys > 1)
        BY <1>3, <2>10, Zenon
      <4> QED
        BY <4>1, <4>2
    <3>2. p.keys = KeysOf(p.whole) /\ p.extra = 0 /\ p.whole \in Kanas
      BY <1>7, <1>8, <3>1, FrameFields DEF BundleAt
    <3>3. Front(KeysOf(p.whole)) = KeysOf(Front(p.whole))
      BY <1>11, <3>1, <3>2, KeysOfFront
    <3> QED
      BY <2>8, <3>1, <3>2, <3>3
  <2>11. PICK q : q = Skipped(y)
    OBVIOUS
  <2>12. Holding(g)'
    <3>1. Bundle' = q /\ Good(q, g)
      BY <2>7, <2>11
    <3> QED
      BY ONLY <1>1, <2>4, <2>9, <2>10, <3>1, HoldingNext
  <2> QED
    BY <2>7, <2>12
<1> QED
  BY <1>13, <1>14

\* What the user did is told by p.
Recorded(p) ==
  /\ Frame(p) /\ p.whole = ghost.typed /\ p.base = ghost.committed
  /\ Keys = 1 \/ ~ghost.removed => p.keys = KeysOf(p.whole) /\ p.extra = 0

\* Storing a good bundle of the same composition.
LEMMA StoreHolds ==
  ASSUME NEW CONSTANT n, NEW CONSTANT p, NEW CONSTANT state, Keys' = Keys, Frame(p), Good(n, p),
         p.whole = ghost'.typed, p.base = ghost'.committed,
         Keys = 1 \/ ~ghost'.removed => p.keys = KeysOf(p.whole) /\ p.extra = 0,
         n.effect \in {"applied", "skipped"}, Store(n, state)
  PROVE client'.state = state /\ Holding(p)'
<1>1. client'.state = state /\ Bundle' = Skipped(n) /\ Good(Skipped(n), p)
  BY StoreIs
<1>2. PICK q : q = Skipped(n)
  OBVIOUS
<1>3. Bundle' = q /\ Good(q, p)
  BY <1>1, <1>2
<1>4. Holding(p)'
  BY <1>3, HoldingNext
<1> QED
  BY <1>1, <1>4

\* Everything that is shown is left in the document.
LEMMA EndHolds ==
  ASSUME IInv, Ready, NEW b, NEW p, Recorded(p), Good(b, p), End(Shown(b)), pc' = pc
  PROVE client'.state = "none" /\ Empty'
<1>1. client' = NoComposition /\ server' = Cleared
      /\ ghost' = [ghost EXCEPT !.committed = @ \o Shown(b)]
  BY DEF End
<1>2. DOMAIN ghost = Flags /\ pc = "idle"
  BY DEF IInv, Shape, Ready
<1>3. ghost'.typed = ghost.typed /\ ghost'.committed = ghost.committed \o Shown(b)
  BY <1>1, <1>2 DEF Flags
<1>4. p.base \o Shown(b) = p.whole
  BY ShownIs DEF Recorded, Good, Light, Shown
<1>5. ghost.typed \in Kanas
  BY FrameFields DEF Recorded
<1>6. Empty'
  BY <1>1, <1>2, <1>3, <1>4, <1>5 DEF Empty, Recorded, NoComposition, Cleared
<1> QED
  BY <1>1, <1>6 DEF NoComposition

\* The first clause is left in the document.
LEMMA CommitHolds ==
  ASSUME IInv, Ready, NEW CONSTANT b, NEW CONSTANT p, Recorded(p), Good(b, p),
         b.effect \in {"applied", "skipped"}, Commit(b), pc' = pc, Keys' = Keys
  PROVE /\ IF client'.state = "none" THEN Empty' ELSE \E q : Holding(q)'
        /\ b.clause.suffix # <<>> => ghost'.committed = ghost.committed \o Kana(b.clause.preview)
<1> DEFINE m == ShrinkText(b)  c == b.clause
<1>1. IF c.suffix = <<>> THEN End(Shown(b))
      ELSE IF m.server.input = <<>> THEN Reset /\ UNCHANGED ghost
      ELSE /\ Store(Answered(m), "composing")
           /\ ghost' = [ghost EXCEPT !.committed = @ \o Kana(c.preview)]
  BY DEF Commit
<1> HIDE DEF m
<1>2. Frame(p) /\ p.whole = ghost.typed /\ p.base = ghost.committed
      /\ (Keys = 1 \/ ~ghost.removed => p.keys = KeysOf(p.whole) /\ p.extra = 0)
  BY DEF Recorded
<1>3. CASE c.suffix = <<>>
  <2>1. client'.state = "none" /\ Empty'
    BY <1>1, <1>3, EndHolds
  <2> QED
    BY <1>3, <2>1
<1>4. CASE c.suffix # <<>>
  <2>1. PICK x : x = m
    OBVIOUS
  <2>2. Shrunk(b, x, p)
    BY <1>2, <1>4, <2>1, ShrinkTextIs DEF m
  <2>3. PICK g : g = Kept(p, c.preview)
    OBVIOUS
  <2> DEFINE j == Len(c.suffix)
  <2>4. Frame(g) /\ Answerable(x, j, g) /\ x.server.input # <<>> /\ x.effect = b.effect
    BY <2>2, <2>3 DEF Shrunk
  <2> HIDE DEF j
  <2>5. Store(Answered(x), "composing")
          /\ ghost' = [ghost EXCEPT !.committed = @ \o Kana(c.preview)]
    BY <1>1, <1>4, <2>1, <2>4
  <2>6. Good(Answered(x), g) /\ Answered(x).effect = x.effect
    BY ONLY <2>4, AnsweredIs
  <2>7. PICK y : y = Answered(x)
    OBVIOUS
  <2>8. Good(y, g) /\ y.effect \in {"applied", "skipped"} /\ Store(y, "composing")
    BY <2>4, <2>5, <2>6, <2>7
  <2>9. DOMAIN ghost = Flags
    BY DEF IInv, Shape
  <2>10. ghost'.typed = ghost.typed /\ ghost'.removed = ghost.removed
         /\ ghost'.committed = ghost.committed \o Kana(c.preview)
    BY <2>5, <2>9 DEF Flags
  <2>11. g.whole = p.whole /\ g.keys = p.keys /\ g.extra = p.extra
         /\ g.base = p.base \o Kana(c.preview)
    BY <2>3 DEF Kept
  <2>12. g.whole = ghost'.typed /\ g.base = ghost'.committed
    BY <1>2, <2>10, <2>11
  <2>13. Keys = 1 \/ ~ghost'.removed => g.keys = KeysOf(g.whole) /\ g.extra = 0
    BY <1>2, <2>10, <2>11
  <2> DEFINE state == "composing"
  <2>14. Store(y, state)
    BY <2>8
  <2> HIDE DEF state
  <2>15. client'.state = state /\ Holding(g)'
    BY ONLY <2>4, <2>8, <2>12, <2>13, <2>14, Keys' = Keys, StoreHolds
  <2> QED
    BY <2>10, <2>15 DEF state
<1> QED
  BY <1>3, <1>4

\* A bundle that nothing was done to yet.
LEMMA RecordedIs ==
  ASSUME NEW p, NEW b, BundleAt(b, p)
  PROVE Recorded(p) /\ Good(b, p) /\ b.effect \in {"applied", "skipped"}
  BY DEF BundleAt, Recorded

\* What a step holds that leaves what the user did as it is.
LEMMA NavigationHolds ==
  ASSUME NEW CONSTANT n, NEW CONSTANT p, NEW CONSTANT state, Keys' = Keys, ghost' = ghost,
         Recorded(p), Good(n, p), n.effect \in {"applied", "skipped"}, Store(n, state)
  PROVE client'.state = state /\ \E q : Holding(q)'
<1>1. /\ Frame(p) /\ p.whole = ghost'.typed /\ p.base = ghost'.committed
      /\ (Keys = 1 \/ ~ghost'.removed => p.keys = KeysOf(p.whole) /\ p.extra = 0)
  BY DEF Recorded
<1>2. client'.state = state /\ Holding(p)'
  BY <1>1, StoreHolds
<1> QED
  BY <1>2

\* A move to the right stays in the composition, whether there is a clause there
\* or not.
LEMMA RightIs ==
  ASSUME NEW p, Frame(p), NEW n, Good(n, p)
  PROVE Good(MoveRight(n), p) /\ MoveRight(n).effect \in {"applied", "skipped"}
<1>1. CASE n.clause.suffix = <<>>
  <2>1. MoveRight(n) = Skipped(n)
    BY <1>1 DEF MoveRight
  <2> QED
    BY <2>1, SkippedIs
<1>2. CASE n.clause.suffix # <<>>
  BY <1>2, MoveRightIs DEF MovedRight, Good
<1> QED
  BY <1>1, <1>2

\* A move to the left too.
LEMMA LeftIs ==
  ASSUME NEW p, Frame(p), NEW n, Good(n, p)
  PROVE Good(MoveLeft(n), p) /\ MoveLeft(n).effect \in {"applied", "skipped"}
<1>1. CASE n.snaps = <<>>
  <2>1. MoveLeft(n) = Skipped(n)
    BY <1>1 DEF MoveLeft
  <2> QED
    BY <2>1, SkippedIs
<1>2. CASE n.snaps # <<>>
  BY <1>2, MoveLeftIs DEF MovedLeft
<1> QED
  BY <1>1, <1>2

\* Enter and the commit of one clause, which commit the text up to the clause
\* and go on with the rest.
LEMMA EnterHolds ==
  ASSUME IInv, Enter \/ CommitAndNextClause, Judged'
  PROVE IF client'.state = "none" THEN Empty' ELSE \E p : Holding(p)'
<1>1. Ready /\ pc' = pc /\ Keys' = Keys /\ (End(Shown(Bundle)) \/ Commit(Bundle))
  BY DEF Enter, CommitAndNextClause
<1>2. DOMAIN ghost = Flags
  BY DEF IInv, Shape
<1>3. Judged
  <2>1. CASE End(Shown(Bundle))
    BY <1>2, <2>1 DEF End, Judged, Flags
  <2>2. CASE Commit(Bundle)
    BY <1>2, <2>2 DEF Commit, End, Judged, Flags
  <2> QED
    BY <1>1, <2>1, <2>2
<1>4. PICK p : Holding(p)
  BY <1>1, <1>3, Held
<1>5. PICK b : b = Bundle
  OBVIOUS
<1>6. BundleAt(b, p)
  BY ONLY <1>4, <1>5, BundleIs
<1>7. Recorded(p) /\ Good(b, p) /\ b.effect \in {"applied", "skipped"}
  BY <1>6, RecordedIs
<1>8. CASE End(Shown(Bundle))
  <2>1. End(Shown(b))
    BY <1>5, <1>8
  <2>2. client'.state = "none" /\ Empty'
    BY ONLY IInv, <1>1, <1>7, <2>1, EndHolds
  <2> QED
    BY <2>2
<1>9. CASE Commit(Bundle)
  <2>1. Commit(b)
    BY <1>5, <1>9
  <2> QED
    BY <1>1, <1>7, <2>1, CommitHolds
<1> QED
  BY <1>1, <1>8, <1>9

\* The commit of the first clause commits its preview.
LEMMA CommitFirstHolds ==
  ASSUME IInv, CommitFirstClause, Judged
  PROVE /\ IF client'.state = "none" THEN Empty' ELSE \E p : Holding(p)'
        /\ ghost'.committed
             = ghost.committed \o Kana(Head(Append(client.snaps, client.clause)).preview)
<1> DEFINE first == Iterated(MoveLeft, Len(client.snaps), Bundle)
           head == Head(Append(client.snaps, client.clause))
<1>1. /\ Ready /\ pc' = pc /\ Keys' = Keys
      /\ IF head.suffix = <<>> THEN End(Shown(first)) ELSE Commit(first)
  BY DEF CommitFirstClause
<1>2. DOMAIN ghost = Flags
  BY DEF IInv, Shape
<1>3. PICK p : Holding(p)
  BY <1>1, Held
<1>4. PICK b : b = Bundle
  OBVIOUS
<1>5. BundleAt(b, p)
  BY ONLY <1>3, <1>4, BundleIs
<1>6. Recorded(p) /\ Frame(p) /\ Good(b, p) /\ b.effect = "skipped" /\ b.snaps = client.snaps
      /\ b.clause = client.clause
  BY <1>5, RecordedIs DEF BundleAt
<1>7. PICK x : x = Iterated(MoveLeft, Len(b.snaps), b)
  OBVIOUS
<1>8. AtFirst(b, x, p)
  BY <1>6, <1>7, FirstIs
<1>9. Good(x, p) /\ x.clause = head /\ x.effect \in {"applied", "skipped"} /\ x = first
  BY <1>4, <1>6, <1>7, <1>8 DEF AtFirst
<1> HIDE DEF first, head
<1>10. CASE head.suffix = <<>>
  <2>1. End(Shown(x))
    BY <1>1, <1>9, <1>10
  <2>2. client'.state = "none" /\ Empty'
    BY ONLY IInv, <1>1, <1>6, <1>9, <2>1, EndHolds
  <2>3. ghost'.committed = ghost.committed \o Shown(x)
    BY <1>2, <2>1 DEF End, Flags
  <2>4. Shown(x) = Kana(head.preview)
    <3>1. head.preview \in Text
      BY <1>9, BundleFields, ClauseFields DEF Good, Light
    <3>2. head.preview \o <<>> = head.preview
      BY <3>1, TextCat
    <3> QED
      BY <1>9, <1>10, <3>2 DEF Shown
  <2> QED
    BY <2>2, <2>3, <2>4 DEF head
<1>11. CASE head.suffix # <<>>
  <2>1. Commit(x)
    BY <1>1, <1>9, <1>11
  <2>2. /\ IF client'.state = "none" THEN Empty' ELSE \E q : Holding(q)'
        /\ x.clause.suffix # <<>> => ghost'.committed = ghost.committed \o Kana(x.clause.preview)
    BY ONLY IInv, <1>1, <1>6, <1>9, <2>1, CommitHolds
  <2> QED
    BY <1>9, <1>11, <2>2 DEF head
<1> QED
  BY <1>10, <1>11

\* The Right key.
LEMMA RightHolds ==
  ASSUME IInv, Right, Judged'
  PROVE client'.state # "none" /\ \E p : Holding(p)'
<1> DEFINE n == IF Active(Bundle) \/ client.clause.suffix # <<>> THEN MoveRight(Bundle)
                ELSE Ensure(Bundle)
<1>1. Ready /\ ghost' = ghost /\ Keys' = Keys /\ Store(n, "composing")
  BY DEF Right
<1>2. Judged
  BY <1>1 DEF Judged
<1>3. PICK p : Holding(p)
  BY <1>1, <1>2, Held
<1>4. PICK b : b = Bundle
  OBVIOUS
<1>5. BundleAt(b, p)
  BY ONLY <1>3, <1>4, BundleIs
<1>6. Recorded(p) /\ Frame(p) /\ Good(b, p)
  BY <1>5, RecordedIs DEF BundleAt
<1>7. n = MoveRight(b) \/ n = Ensure(b)
  BY <1>4
<1> HIDE DEF n
<1>8. PICK x : x = n
  OBVIOUS
<1>9. Good(x, p) /\ x.effect \in {"applied", "skipped"}
  BY <1>6, <1>7, <1>8, RightIs, EnsureIs
<1> DEFINE state == "composing"
<1>10. Store(x, state)
  BY <1>1, <1>8
<1> HIDE DEF state
<1>11. client'.state = state /\ \E q : Holding(q)'
  BY ONLY <1>1, <1>6, <1>9, <1>10, NavigationHolds
<1> QED
  BY <1>11 DEF state

\* The Left key.
LEMMA LeftHolds ==
  ASSUME IInv, Left, Judged'
  PROVE client'.state # "none" /\ \E p : Holding(p)'
<1> DEFINE n == IF Active(Bundle) \/ client.clause.suffix # <<>> THEN MoveLeft(Bundle)
                ELSE Ensure(Bundle)
<1>1. Ready /\ ghost' = ghost /\ Keys' = Keys /\ Store(n, "composing")
  BY DEF Left
<1>2. Judged
  BY <1>1 DEF Judged
<1>3. PICK p : Holding(p)
  BY <1>1, <1>2, Held
<1>4. PICK b : b = Bundle
  OBVIOUS
<1>5. BundleAt(b, p)
  BY ONLY <1>3, <1>4, BundleIs
<1>6. Recorded(p) /\ Frame(p) /\ Good(b, p)
  BY <1>5, RecordedIs DEF BundleAt
<1>7. n = MoveLeft(b) \/ n = Ensure(b)
  BY <1>4
<1> HIDE DEF n
<1>8. PICK x : x = n
  OBVIOUS
<1>9. Good(x, p) /\ x.effect \in {"applied", "skipped"}
  BY <1>6, <1>7, <1>8, LeftIs, EnsureIs
<1> DEFINE state == "composing"
<1>10. Store(x, state)
  BY <1>1, <1>8
<1> HIDE DEF state
<1>11. client'.state = state /\ \E q : Holding(q)'
  BY ONLY <1>1, <1>6, <1>9, <1>10, NavigationHolds
<1> QED
  BY <1>11 DEF state

\* In the middle of MoveToLast too.
LEMMA HeldInLoop ==
  ASSUME IInv, pc = "last", Judged
  PROVE client.state # "none" /\ \E p : Holding(p)
  BY DEF IInv, Story, Empty

\* MoveToLast, step by step.
LEMMA MoveToLastHolds ==
  ASSUME IInv, MoveToLast, Judged'
  PROVE client'.state # "none" /\ \E p : Holding(p)'
<1> DEFINE n == MoveRight(Bundle)  state == client.state
<1>1. pc = "last" /\ ghost' = ghost /\ Keys' = Keys /\ Store(n, state)
  BY DEF MoveToLast
<1>2. Judged
  BY <1>1 DEF Judged
<1>3. state # "none" /\ \E p : Holding(p)
  BY <1>1, <1>2, HeldInLoop
<1>4. PICK p : Holding(p)
  BY <1>3
<1>5. PICK b : b = Bundle
  OBVIOUS
<1>6. BundleAt(b, p)
  BY ONLY <1>4, <1>5, BundleIs
<1>7. Recorded(p) /\ Frame(p) /\ Good(b, p)
  BY <1>6, RecordedIs DEF BundleAt
<1>8. PICK x : x = n
  OBVIOUS
<1>9. Good(x, p) /\ x.effect \in {"applied", "skipped"}
  BY <1>5, <1>7, <1>8, RightIs
<1>10. PICK y : y = state
  OBVIOUS
<1>11. Store(x, y)
  BY <1>1, <1>8, <1>10
<1>12. client'.state = y /\ \E q : Holding(q)'
  BY ONLY <1>1, <1>7, <1>9, <1>11, NavigationHolds
<1> QED
  BY <1>3, <1>10, <1>12

\* The two keys that move a boundary.
LEMMA AdjustHolds ==
  ASSUME IInv, NEW d \in {-1, 1}, AdjustBoundary(d), Judged'
  PROVE client'.state # "none" /\ \E p : Holding(p)'
<1> DEFINE n == Adjust(Bundle, d)  state == client.state
           blocked == n.effect = "skipped" /\ n.clause.view # client.clause.view
           taken == /\ Keys > 1 /\ client.futures # <<>> /\ n.effect = "applied"
                    /\ View0(Turned(Bundle, d)).items = <<>>
<1>1. /\ Ready /\ Keys' = Keys /\ Store(n, state)
      /\ ghost' = [ghost EXCEPT !.refused = @ \/ blocked, !.fellback = @ \/ taken]
  BY DEF AdjustBoundary
<1>2. DOMAIN ghost = Flags
  BY DEF IInv, Shape
<1> HIDE DEF n, blocked, taken
<1>3. ghost'.typed = ghost.typed /\ ghost'.committed = ghost.committed
      /\ ghost'.removed = ghost.removed
  BY <1>1, <1>2 DEF Flags
<1>4. Judged /\ ~blocked /\ ~taken
  BY <1>1, <1>2 DEF Judged, Flags
<1>5. PICK p : Holding(p)
  BY <1>1, <1>4, Held
<1>6. PICK b : b = Bundle
  OBVIOUS
<1>7. BundleAt(b, p)
  BY ONLY <1>5, <1>6, BundleIs
<1>8. Recorded(p) /\ Frame(p) /\ Good(b, p) /\ b.clause = client.clause
        /\ b.futures = client.futures
  BY <1>7, RecordedIs DEF BundleAt
<1>9. PICK x : x = n
  OBVIOUS
<1>10. Adjusted(b, d, x, p)
  <2>1. x = Adjust(b, d)
    BY <1>6, <1>9 DEF n
  <2> QED
    BY <1>8, <2>1, AdjustIs
<1>11. Good(x, p) /\ x.effect \in {"applied", "skipped"}
  <2>1. x.effect = "skipped" => x.clause.view = b.clause.view
    BY <1>4, <1>8, <1>9 DEF blocked
  <2>2. Keys > 1 /\ b.futures # <<>> /\ x.effect = "applied" => View0(Turned(b, d)).items # <<>>
    BY <1>4, <1>6, <1>8, <1>9 DEF taken
  <2> QED
    BY <1>10, <2>1, <2>2 DEF Adjusted
<1>12. PICK y : y = state
  OBVIOUS
<1>13. Store(x, y) /\ y # "none"
  BY <1>1, <1>9, <1>12 DEF Ready
<1>14. /\ p.whole = ghost'.typed /\ p.base = ghost'.committed
       /\ (Keys = 1 \/ ~ghost'.removed => p.keys = KeysOf(p.whole) /\ p.extra = 0)
  BY <1>3, <1>8 DEF Recorded
<1>15. client'.state = y /\ Holding(p)'
  BY ONLY <1>1, <1>8, <1>11, <1>13, <1>14, StoreHolds
<1> QED
  BY <1>13, <1>15

\* The keys that choose a candidate.
LEMMA SelectHolds ==
  ASSUME IInv, NEW d \in {-1, 1}, Select(d), Judged'
  PROVE client'.state # "none" /\ \E p : Holding(p)'
<1> DEFINE i == client.clause.sel + d  n == SetSelection(Bundle, i)
           cut == client.futures # <<>> /\ n.clause.count # client.clause.count
<1>1. /\ Ready /\ Keys' = Keys /\ Store(n, "previewing")
      /\ ghost' = [ghost EXCEPT !.recut = @ \/ cut]
  BY DEF Select
<1>2. DOMAIN ghost = Flags
  BY DEF IInv, Shape
<1> HIDE DEF n, cut
<1>3. ghost'.typed = ghost.typed /\ ghost'.committed = ghost.committed
      /\ ghost'.removed = ghost.removed
  BY <1>1, <1>2 DEF Flags
<1>4. Judged /\ ~cut
  BY <1>1, <1>2 DEF Judged, Flags
<1>5. PICK p : Holding(p)
  BY <1>1, <1>4, Held
<1>6. PICK b : b = Bundle
  OBVIOUS
<1>7. BundleAt(b, p)
  BY ONLY <1>5, <1>6, BundleIs
<1>8. Recorded(p) /\ Frame(p) /\ Good(b, p) /\ b.clause = client.clause
        /\ b.futures = client.futures
  BY <1>7, RecordedIs DEF BundleAt
<1>9. i \in Int
  <2>1. client.clause.sel \in Nat
    BY <1>8, BundleFields, ClauseFields DEF Good, Light
  <2> QED
    BY <2>1
<1>10. PICK k : k = i
  OBVIOUS
<1> HIDE DEF i
<1>11. PICK x : x = n
  OBVIOUS
<1>12. x = SetSelection(b, k)
  BY <1>6, <1>10, <1>11 DEF n
<1>13. k \in Int
  BY <1>9, <1>10
<1>14. LET q == SetSelection(b, k)
       IN /\ q.effect = "applied"
          /\ (b.futures # <<>> => q.clause.count = b.clause.count) => Good(q, p)
  <2>1. Frame(p) /\ Good(b, p)
    BY <1>8
  <2> QED
    BY ONLY <1>13, <2>1, SetSelectionIs
<1>15. Good(x, p) /\ x.effect \in {"applied", "skipped"}
  BY <1>4, <1>8, <1>11, <1>12, <1>14 DEF cut
<1>16. /\ p.whole = ghost'.typed /\ p.base = ghost'.committed
       /\ (Keys = 1 \/ ~ghost'.removed => p.keys = KeysOf(p.whole) /\ p.extra = 0)
  BY <1>3, <1>8 DEF Recorded
<1> DEFINE state == "previewing"
<1>17. Store(x, state)
  BY <1>1, <1>11
<1> HIDE DEF state
<1>18. client'.state = state /\ Holding(p)'
  BY ONLY <1>1, <1>8, <1>15, <1>16, <1>17, StoreHolds
<1> QED
  BY <1>18 DEF state

\* A store leaves a state of the client.
LEMMA StoreState ==
  ASSUME NEW n, NEW state \in States, Store(n, state)
  PROVE client'.state \in States
<1>1. CASE n.effect = "reset"
  BY <1>1 DEF Store, Reset, NoComposition, States
<1>2. CASE n.effect # "reset"
  BY <1>2 DEF Store
<1> QED
  BY <1>1, <1>2

\* So does a commit.
LEMMA CommitState ==
  ASSUME NEW n, Commit(n)
  PROVE client'.state \in States /\ DOMAIN ghost' = DOMAIN ghost
<1>1. CASE End(Shown(n))
  BY <1>1 DEF End, NoComposition, States
<1>2. CASE Reset /\ UNCHANGED ghost
  BY <1>2 DEF Reset, NoComposition, States
<1>3. CASE /\ Store(Answered(ShrinkText(n)), "composing")
           /\ ghost' = [ghost EXCEPT !.committed = @ \o Kana(n.clause.preview)]
  <2> DEFINE x == Answered(ShrinkText(n))  state == "composing"
  <2>1. state \in States /\ Store(x, state)
    BY <1>3 DEF States
  <2> HIDE DEF x, state
  <2>2. client'.state \in States
    BY ONLY <2>1, StoreState
  <2> QED
    BY <1>3, <2>2
<1> QED
  BY <1>1, <1>2, <1>3 DEF Commit

\* Every step keeps the shape of the state.
LEMMA ShapeNext ==
  ASSUME Shape, [Next]_vars
  PROVE Shape'
<1>1. Keys \in Nat \ {0} /\ client.state \in States /\ pc \in {"idle", "last"}
        /\ DOMAIN ghost = Flags
  BY DEF Shape
<1>2. "composing" \in States /\ "previewing" \in States
  BY DEF States
<1>3. ASSUME NEW kana \in Letters, Begin(kana) PROVE Shape'
  <2>1. client'.state \in States
    BY <1>2, <1>3, StoreState DEF Begin
  <2> QED
    BY <1>1, <1>3, <2>1 DEF Begin, Shape, Fresh, Flags
<1>4. ASSUME NEW kana \in Letters, Type(kana) PROVE Shape'
  <2>1. client'.state \in States
    BY <1>2, <1>4, StoreState DEF Type
  <2> QED
    BY <1>1, <1>4, <2>1 DEF Type, Shape
<1>5. CASE Backspace
  <2> DEFINE n == RemoveText(Bundle)  m == Answered(n)
             text == IF n.server.input = <<>> THEN Kana(n.clause.fixed) ELSE Shown(m)
             last == n.server.input = <<>> \/ Len(client.clause.raw) <= 1
  <2>1. /\ IF last THEN client' = NoComposition /\ server' = Cleared ELSE Store(m, "composing")
        /\ ghost' = [ghost EXCEPT !.typed     = Front(@),
                                  !.committed = IF last THEN @ \o text ELSE @,
                                  !.inner     = @ \/ Inside,
                                  !.removed   = Keys > 1]
        /\ pc' = pc /\ Keys' = Keys
    BY <1>5 DEF Backspace
  <2> HIDE DEF n, m, text, last
  <2>2. client'.state \in States
    BY <1>2, <2>1, StoreState DEF NoComposition, States
  <2> QED
    BY <1>1, <2>1, <2>2 DEF Shape
<1>6. CASE CommitFirstClause
  <2> DEFINE first == Iterated(MoveLeft, Len(client.snaps), Bundle)
  <2>1. (End(Shown(first)) \/ Commit(first)) /\ pc' = pc /\ Keys' = Keys
    BY <1>6 DEF CommitFirstClause
  <2> HIDE DEF first
  <2>2. client'.state \in States /\ DOMAIN ghost' = DOMAIN ghost
    BY <2>1, CommitState DEF End, NoComposition, States
  <2> QED
    BY <1>1, <2>1, <2>2 DEF Shape
<1>7. CASE Enter \/ CommitAndNextClause
  <2>1. (End(Shown(Bundle)) \/ Commit(Bundle)) /\ pc' = pc /\ Keys' = Keys
    BY <1>7 DEF Enter, CommitAndNextClause
  <2>2. client'.state \in States /\ DOMAIN ghost' = DOMAIN ghost
    BY <2>1, CommitState DEF End, NoComposition, States
  <2> QED
    BY <1>1, <2>1, <2>2 DEF Shape
<1>8. CASE Right
  <2>1. client'.state \in States
    BY <1>2, <1>8, StoreState DEF Right
  <2> QED
    BY <1>1, <1>8, <2>1 DEF Right, Shape
<1>9. CASE Left
  <2>1. client'.state \in States /\ pc' \in {"idle", "last"}
    BY <1>1, <1>2, <1>9, StoreState DEF Left
  <2> QED
    BY <1>1, <1>9, <2>1 DEF Left, Shape
<1>10. CASE MoveToLast
  <2>1. client'.state \in States /\ pc' \in {"idle", "last"}
    BY <1>1, <1>10, StoreState DEF MoveToLast
  <2> QED
    BY <1>1, <1>10, <2>1 DEF MoveToLast, Shape
<1>11. ASSUME NEW d \in {-1, 1}, AdjustBoundary(d) PROVE Shape'
  <2>1. client'.state \in States
    BY <1>1, <1>11, StoreState DEF AdjustBoundary
  <2> QED
    BY <1>1, <1>11, <2>1 DEF AdjustBoundary, Shape
<1>12. ASSUME NEW d \in {-1, 1}, Select(d) PROVE Shape'
  <2>1. client'.state \in States
    BY <1>2, <1>12, StoreState DEF Select
  <2> QED
    BY <1>1, <1>12, <2>1 DEF Select, Shape
<1>13. CASE UNCHANGED vars
  BY <1>1, <1>13 DEF vars, Shape
<1> QED
  BY <1>3, <1>4, <1>5, <1>6, <1>7, <1>8, <1>9, <1>10, <1>11, <1>12, <1>13 DEF Next

\* A step that changes nothing keeps the story.
LEMMA StoryStutters ==
  ASSUME Story, UNCHANGED vars
  PROVE Story'
<1>1. client' = client /\ server' = server /\ pc' = pc /\ ghost' = ghost /\ Keys' = Keys
  BY DEF vars
<1>2. ASSUME NEW p, Holding(p) PROVE Holding(p)'
  <2>1. PICK b : b = Bundle
    OBVIOUS
  <2>2. BundleAt(b, p)
    BY ONLY <1>2, <2>1, BundleIs
  <2>3. Bundle' = b
    BY <1>1, <2>1 DEF Bundle
  <2>4. Frame(p) /\ Good(b, p) /\ p.whole = ghost'.typed /\ p.base = ghost'.committed
        /\ (Keys = 1 \/ ~ghost'.removed => p.keys = KeysOf(p.whole) /\ p.extra = 0)
    BY <1>1, <2>2 DEF BundleAt
  <2> QED
    BY ONLY <1>1, <2>3, <2>4, HoldingNext
<1>3. Judged' => Judged
  BY <1>1 DEF Judged
<1>4. Empty => Empty'
  BY <1>1 DEF Empty, NoComposition, Cleared
<1> QED
  BY <1>1, <1>2, <1>3, <1>4 DEF Story

\* Every action keeps the story: one step for each.
LEMMA StoryNext ==
  ASSUME IInv, Next
  PROVE Story'
<1> SUFFICES ASSUME Judged'
             PROVE IF client'.state = "none" THEN Empty' ELSE \E p : Holding(p)'
  BY DEF Story
<1>1. ASSUME NEW kana \in Letters, Begin(kana) PROVE client'.state # "none" /\ \E p : Holding(p)'
  BY <1>1, BeginHolds
<1>2. ASSUME NEW kana \in Letters, Type(kana) PROVE client'.state # "none" /\ \E p : Holding(p)'
  BY <1>2, TypeHolds
<1>3. ASSUME Backspace PROVE IF client'.state = "none" THEN Empty' ELSE \E p : Holding(p)'
  BY <1>3, BackspaceHolds
<1>4. ASSUME CommitFirstClause PROVE IF client'.state = "none" THEN Empty' ELSE \E p : Holding(p)'
  <2> DEFINE first == Iterated(MoveLeft, Len(client.snaps), Bundle)
  <2>1. End(Shown(first)) \/ Commit(first)
    BY <1>4 DEF CommitFirstClause
  <2>2. DOMAIN ghost = Flags
    BY DEF IInv, Shape
  <2> HIDE DEF first
  <2>3. Judged
    <3>1. CASE End(Shown(first))
      BY <2>2, <3>1 DEF End, Judged, Flags
    <3>2. CASE Commit(first)
      BY <2>2, <3>2 DEF Commit, End, Judged, Flags
    <3> QED
      BY <2>1, <3>1, <3>2
  <2> QED
    BY <1>4, <2>3, CommitFirstHolds
<1>5. ASSUME Enter \/ CommitAndNextClause
      PROVE IF client'.state = "none" THEN Empty' ELSE \E p : Holding(p)'
  BY <1>5, EnterHolds
<1>6. ASSUME Right PROVE client'.state # "none" /\ \E p : Holding(p)'
  BY <1>6, RightHolds
<1>7. ASSUME Left PROVE client'.state # "none" /\ \E p : Holding(p)'
  BY <1>7, LeftHolds
<1>8. ASSUME MoveToLast PROVE client'.state # "none" /\ \E p : Holding(p)'
  BY <1>8, MoveToLastHolds
<1>9. ASSUME NEW d \in {-1, 1}, AdjustBoundary(d)
      PROVE client'.state # "none" /\ \E p : Holding(p)'
  BY <1>9, AdjustHolds
<1>10. ASSUME NEW d \in {-1, 1}, Select(d) PROVE client'.state # "none" /\ \E p : Holding(p)'
  BY <1>10, SelectHolds
<1> QED
  BY <1>1, <1>2, <1>3, <1>4, <1>5, <1>6, <1>7, <1>8, <1>9, <1>10 DEF Next

\* Before the first key there is no composition.
LEMMA IInvInit ==
  ASSUME Init
  PROVE IInv
<1>1. Keys \in Nat \ {0} /\ client = NoComposition /\ server = Cleared /\ pc = "idle"
      /\ ghost = Fresh(<<>>)
  BY KeysAssumption DEF Init
<1>2. Shape
  BY <1>1 DEF Shape, NoComposition, States, Fresh, Flags
<1>3. Empty /\ client.state = "none"
  BY <1>1 DEF Empty, Fresh, NoComposition, Kanas
<1> QED
  BY <1>2, <1>3 DEF IInv, Story

\* Every step keeps the invariant.
LEMMA IInvNext ==
  ASSUME IInv, [Next]_vars
  PROVE IInv'
<1>1. Shape'
  BY ShapeNext DEF IInv
<1>2. Story'
  BY StoryNext, StoryStutters DEF IInv
<1> QED
  BY <1>1, <1>2 DEF IInv

\* As long as every change of the composition was one the model judges, the
\* clauses on both stacks, the current clause, the server and what the user
\* typed are one composition: the strengthening that every clause action of
\* composition.rs keeps.
THEOREM Composed == Spec => []IInv
<1>1. Init => IInv
  BY IInvInit
<1>2. IInv /\ [Next]_vars => IInv'
  BY IInvNext
<1> QED
  BY <1>1, <1>2, PTL DEF Spec


\* Nothing is shown, and nobody remembers a clause.
Idle ==
  /\ client.clause = Blank /\ client.snaps = <<>> /\ client.futures = <<>>
  /\ server.input = <<>> /\ server.stack = <<>>
  /\ Shown(Bundle) = <<>>

-----------------------------------------------------------------------------
(* What the invariant says of every state.                                 *)

\* Without a composition the server holds nothing.
LEMMA EmptyIsIdle ==
  ASSUME Empty
  PROVE Idle
<1>1. /\ client.clause = Blank /\ client.snaps = <<>> /\ client.futures = <<>>
      /\ server.input = <<>> /\ server.stack = <<>>
  BY DEF Empty, NoComposition, Cleared
<1>2. Bundle.clause.preview = <<>> /\ Bundle.clause.suffix = <<>>
  BY <1>1 DEF Bundle, Blank
<1>3. Kana(<<>>) = <<>>
  <2> DEFINE none == <<>>
  <2>1. none \in Text
    BY DEF Text
  <2> HIDE DEF none
  <2>2. Kana(none) \in Kanas /\ Len(Kana(none)) = Len(none)
    BY <2>1, KanaIs
  <2>3. Len(none) = 0
    BY DEF none
  <2>4. Kana(none) = <<>>
    BY <2>2, <2>3, SeqIs DEF Kanas
  <2> QED
    BY <2>4 DEF none
<1>4. <<>> \o <<>> = <<>>
  OBVIOUS
<1>5. Shown(Bundle) = <<>>
  BY <1>2, <1>3, <1>4 DEF Shown
<1> QED
  BY <1>1, <1>5 DEF Idle

\* A judged state has no composition, or one with a frame.
LEMMA Told ==
  ASSUME IInv, Judged
  PROVE (client.state = "none" /\ Empty /\ Idle) \/ (client.state # "none" /\ \E p : Holding(p))
  BY Zenon, EmptyIsIdle DEF IInv, Story

\* The parts of what is composed.
Parts(b, p) ==
  /\ Frame(p) /\ b \in Bundles /\ ClausePart(b.clause, p) /\ ClauseBase(b.clause, p)
  /\ Base(b.clause, p) /\ Ends(b.clause) /\ b.clause \in Clauses /\ b.clause.view \in Views
  /\ b.clause.suffix \in Text
  /\ Place(b.server, b.clause) /\ Trail(b.snaps, b.server.stack, p) /\ Row(b.futures, p)
  /\ b.futures # <<>> => Chain(b.clause, Last(b.futures))

\* The parts of a bundle, for the theorems below.
LEMMA PartsAre ==
  ASSUME NEW b, NEW p, BundleAt(b, p)
  PROVE Parts(b, p)
  BY BundleFields, ClauseFields DEF BundleAt, Good, Light, ClausePart, ClauseBase, Parts

\* The clauses show what was typed, behind what was committed.
LEMMA HoldingShows ==
  ASSUME NEW p, Holding(p)
  PROVE /\ ghost.committed \o Shown(Bundle) = ghost.typed
        /\ Shown(Bundle) \in Kanas /\ ghost.committed \in Kanas
<1>1. PICK b : b = Bundle
  OBVIOUS
<1>2. BundleAt(b, p)
  BY ONLY <1>1, Holding(p), BundleIs
<1>3. Parts(b, p)
  BY <1>2, PartsAre
<1> DEFINE c == b.clause  t == c.preview \o c.suffix
<1>4. t \in Text /\ p.base \o Kana(t) = p.whole
  BY <1>3, ShownIs DEF Parts
<1>5. Shown(Bundle) = Kana(t)
  BY <1>1 DEF Shown
<1>6. Kana(t) \in Kanas /\ p.base \in Kanas
  BY <1>3, <1>4, KanaIs, FrameFields DEF Parts
<1> QED
  BY <1>2, <1>4, <1>5, <1>6 DEF BundleAt

\* No clause key loses or repeats a kana: what was committed and what the
\* clauses show is what was typed.
THEOREM TextIsWhole == Spec => []WholeText
<1>1. IInv => WholeText
  <2> SUFFICES ASSUME IInv, Judged PROVE ghost.committed \o Shown(Bundle) = ghost.typed
    BY DEF WholeText, TypedIsShown
  <2>1. CASE Empty /\ Idle
    <3> DEFINE s == ghost.committed
    <3>1. s \in Kanas /\ s = ghost.typed /\ Shown(Bundle) = <<>>
      BY <2>1 DEF Empty, Idle
    <3>2. s \o <<>> = s
      BY <3>1, KanasCat
    <3> QED
      BY <3>1, <3>2
  <2>2. CASE \E p : Holding(p)
    BY <2>2, HoldingShows
  <2> QED
    BY <2>1, <2>2, Told
<1> QED
  BY <1>1, Composed, PTL

\* Each clause behind has in front of it what the ones before it show, and reads
\* what the last one left over.
THEOREM ClausesBehindAreTold == Spec => []BehindIsShown
<1>1. IInv => BehindIsShown
  <2> SUFFICES ASSUME IInv, Judged, NEW i \in DOMAIN client.snaps
               PROVE Kana(client.snaps[i].preview \o client.snaps[i].suffix) = Shown(Bundle)
    BY DEF BehindIsShown
  <2>1. CASE Empty /\ Idle
    BY <2>1 DEF Idle
  <2>2. CASE \E p : Holding(p)
    <3>1. PICK p : Holding(p)
      BY <2>2
    <3>2. PICK b : b = Bundle
      OBVIOUS
    <3>3. BundleAt(b, p)
      BY ONLY <3>1, <3>2, BundleIs
    <3>4. Parts(b, p) /\ b.snaps = client.snaps
      BY <3>3, PartsAre DEF BundleAt
    <3> DEFINE s == client.snaps[i]  t == s.preview \o s.suffix  x == Kana(t)  y == Shown(Bundle)
               base == p.base
    <3>5. ClausePart(s, p)
      <4>1. i \in 1..Len(b.snaps)
        BY <3>4, TrailFields DEF Parts
      <4> QED
        BY <3>4, <4>1 DEF Parts, Trail
    <3>6. t \in Text /\ base \o x = p.whole
      BY <3>4, <3>5, ShownIs DEF Parts
    <3>7. base = ghost.committed /\ p.whole = ghost.typed
      BY <3>3 DEF BundleAt
    <3>8. base \o y = p.whole /\ y \in Kanas /\ base \in Kanas
      BY <3>1, <3>7, HoldingShows
    <3>9. x \in Kanas
      BY <3>6, KanaIs
    <3> HIDE DEF x, y, base
    <3>10. base \o x = base \o y
      BY <3>6, <3>8
    <3>11. x = y
      BY <3>8, <3>9, <3>10, CatSplitLeft DEF Kanas
    <3> QED
      BY <3>11 DEF x, y
  <2> QED
    BY <2>1, <2>2, Told
<1> QED
  BY <1>1, Composed, PTL

\* The snapshots of the client and the places that the server pushed are as
\* many, and belong together one by one.
THEOREM StacksAreOne == Spec => []StacksAgree
<1>1. IInv => StacksAgree
  <2> SUFFICES ASSUME IInv, Judged
               PROVE /\ Len(client.snaps) = Len(server.stack)
                     /\ \A i \in DOMAIN client.snaps :
                          client.snaps[i].reading = Spelled(0, server.stack[i].input)
    BY DEF StacksAgree
  <2>1. CASE Empty /\ Idle
    BY <2>1 DEF Idle
  <2>2. CASE \E p : Holding(p)
    <3>1. PICK p : Holding(p)
      BY <2>2
    <3>2. PICK b : b = Bundle
      OBVIOUS
    <3>3. BundleAt(b, p)
      BY ONLY <3>1, <3>2, BundleIs
    <3>4. Parts(b, p) /\ b.snaps = client.snaps /\ b.server = server
      BY <3>3, PartsAre DEF BundleAt
    <3>5. Trail(client.snaps, server.stack, p) /\ Frame(p)
      BY <3>4 DEF Parts
    <3>6. Len(client.snaps) = Len(server.stack) /\ DOMAIN client.snaps = 1..Len(client.snaps)
      BY <3>5, TrailFields
    <3>7. ASSUME NEW i \in DOMAIN client.snaps
          PROVE client.snaps[i].reading = Spelled(0, server.stack[i].input)
      <4> DEFINE s == client.snaps[i]  w == server.stack[i]
      <4>1. ClausePart(s, p) /\ Place(w, s)
        BY Zenon, <3>5, <3>6, <3>7 DEF Trail
      <4>2. Base(s, p) /\ s.view \in Views /\ w.input = Kana(s.reading)
        BY Zenon, <4>1, ClauseFields DEF ClausePart, ClauseBase, Place
      <4> HIDE DEF s, w
      <4>3. s.reading = Spelled(0, w.input)
        BY <3>5, <4>2, BaseIs
      <4> QED
        BY <4>3 DEF s, w
    <3> QED
      BY <3>6, <3>7
  <2> QED
    BY <2>1, <2>2, Told
<1> QED
  BY <1>1, Composed, PTL

\* Nothing is spelled with nothing.
LEMMA NothingSpelled ==
  ASSUME Keys \in Nat \ {0}
  PROVE Spelled(0, <<>>) = <<>> /\ KeysOf(<<>>) = <<>>
<1> DEFINE none == <<>>
<1>1. Len(none) = 0 /\ none \in Kanas
  BY DEF Kanas
<1> HIDE DEF none
<1>2. Spelled(0, none) \in Text /\ Len(Spelled(0, none)) = 0
  BY <1>1, SpelledIs
<1>3. KeysOf(none) \in Text /\ Len(KeysOf(none)) = Keys * Len(none)
  BY <1>1, KeysOfIs
<1>4. Spelled(0, none) = <<>>
  BY <1>2, SeqIs DEF Text
<1>5. Keys * Len(none) = 0
  BY <1>1
<1>6. KeysOf(none) = <<>>
  BY <1>3, <1>5, SeqIs DEF Text
<1> QED
  BY <1>4, <1>6 DEF none

\* What the current clause has read is what the server's input holds.
THEOREM CurrentIsTheServers == Spec => []CurrentAgrees
<1>1. IInv => CurrentAgrees
  <2> SUFFICES ASSUME IInv, Judged
               PROVE client.clause.reading = Spelled(0, server.input)
    BY DEF CurrentAgrees
  <2>1. CASE Empty /\ Idle
    BY <2>1, NothingSpelled DEF Idle, Blank, IInv, Shape
  <2>2. CASE \E p : Holding(p)
    <3>1. PICK p : Holding(p)
      BY <2>2
    <3>2. PICK b : b = Bundle
      OBVIOUS
    <3>3. BundleAt(b, p)
      BY ONLY <3>1, <3>2, BundleIs
    <3>4. Parts(b, p) /\ b.clause = client.clause /\ b.server = server
      BY <3>3, PartsAre DEF BundleAt
    <3> DEFINE c == b.clause
    <3>5. Frame(p) /\ Base(c, p) /\ c.view \in Views /\ server.input = Kana(c.reading)
      BY <3>4 DEF Parts, Place
    <3> HIDE DEF c
    <3>6. c.reading = Spelled(0, server.input)
      BY <3>5, BaseIs
    <3> QED
      BY <3>4, <3>6 DEF c
  <2> QED
    BY <2>1, <2>2, Told
<1> QED
  BY <1>1, Composed, PTL

\* So are the keys that the client keeps for it, kana by kana.
THEOREM RawIsTheServers == Spec => []RawAgrees
<1>1. IInv => RawAgrees
  <2> SUFFICES ASSUME IInv, Judged, Keys = 1 \/ ~ghost.removed
               PROVE client.clause.raw = KeysOf(server.input)
    BY DEF RawAgrees
  <2>1. CASE Empty /\ Idle
    BY <2>1, NothingSpelled DEF Idle, Blank, IInv, Shape
  <2>2. CASE \E p : Holding(p)
    <3>1. PICK p : Holding(p)
      BY <2>2
    <3>2. PICK b : b = Bundle
      OBVIOUS
    <3>3. BundleAt(b, p)
      BY ONLY <3>1, <3>2, BundleIs
    <3>4. Parts(b, p) /\ b.clause = client.clause /\ b.server = server
      BY <3>3, PartsAre DEF BundleAt
    <3> DEFINE c == b.clause  m == Len(c.reading)  s == p.whole
    <3>5. Frame(p) /\ Base(c, p) /\ c.view \in Views /\ server.input = Kana(c.reading)
      BY <3>4 DEF Parts, Place
    <3>6. p.keys = KeysOf(s) /\ p.extra = 0
      BY <3>3 DEF BundleAt
    <3>7. c.raw = Rear(Keys * m + p.extra, p.keys)
      BY <3>5 DEF Base
    <3>8. m \in 0..Len(s) /\ m \in Nat /\ Kana(c.reading) = Rear(m, s)
      BY <3>5, BaseIs
    <3>9. Keys \in Nat \ {0} /\ s \in Kanas
      BY <3>5, FrameFields
    <3> HIDE DEF c, m, s
    <3>10. Keys * m + p.extra = Keys * m
      BY <3>6, <3>8, <3>9
    <3>11. Rear(Keys * m, KeysOf(s)) = KeysOf(Rear(m, s))
      BY <3>8, <3>9, KeysOfRear
    <3>12. c.raw = KeysOf(server.input)
      BY <3>5, <3>6, <3>7, <3>8, <3>10, <3>11
    <3> QED
      BY <3>4, <3>12 DEF c
  <2> QED
    BY <2>1, <2>2, Told
<1> QED
  BY <1>1, Composed, PTL

\* A clause, or one ahead, and the one ahead of it.
Precedes(x, f) ==
  /\ IsSuffix(f.reading, x.reading)
  /\ Kana(Display(f)) = Kana(f.reading)
  /\ x.suffix # <<>> => Kana(x.suffix) = Kana(Display(f)) /\ f.raw = Drop(x.count, x.raw)

\* A clause that reads on into another one shows it at its end.
LEMMA PrecedesIs ==
  ASSUME NEW p, Frame(p), NEW x, x.view \in Views, x.suffix \in Text, Base(x, p), Ends(x),
         NEW f, FuturePart(f, p), Chain(x, f)
  PROVE Precedes(x, f)
<1> DEFINE m == Len(x.reading)  k == Len(f.reading)  r == Len(x.suffix)
           item == x.view.items[x.sel]  s == p.whole
<1>1. /\ m \in 1..Len(s) /\ m \in 0..Len(s) /\ m \in Nat
      /\ x.reading = Spelled(0, Rear(m, s)) /\ item \in Items /\ Tells(item, m, p)
  BY BaseIs
<1>2. f.view \in Views /\ Base(f, p)
  BY FutureFields DEF FuturePart
<1>3. k \in Nat /\ f.reading = Spelled(0, Rear(k, s)) /\ Kana(f.reading) = Rear(k, s)
      /\ f.raw = Rear(Keys * k + p.extra, p.keys)
  <2>1. f.raw = Rear(Keys * k + p.extra, p.keys)
    BY <1>2 DEF Base
  <2> QED
    BY <1>2, <2>1, BaseIs
<1>4. k < m /\ (x.suffix # <<>> => k = r)
  BY DEF Chain
<1>5. Kana(x.suffix) = Rear(r, s) /\ Len(item.rest) = r /\ (x.suffix = <<>> <=> item.rest = <<>>)
  BY EndsIs
<1>6. x.raw = Rear(Keys * m + p.extra, p.keys) /\ x.count = item.count
  BY DEF Base
<1>7. Kana(Display(f)) = Kana(f.reading)
  BY DisplayIs
<1> HIDE DEF item
<1>8. x.suffix # <<>> => Kana(x.suffix) = Kana(Display(f))
  BY <1>3, <1>4, <1>5, <1>7
<1> HIDE DEF m, k, r, s
<1>9. k \in 0..m
  BY <1>1, <1>3, <1>4
<1>10. IsSuffix(f.reading, x.reading)
  <2>1. m \in 0..Len(p.whole)
    BY <1>1 DEF s
  <2>2. IsSuffix(Spelled(0, Rear(k, p.whole)), Spelled(0, Rear(m, p.whole)))
    BY <1>9, <2>1, RearsAreSuffixes
  <2> QED
    BY <1>1, <1>3, <2>2 DEF s
<1>11. ASSUME x.suffix # <<>> PROVE f.raw = Drop(x.count, x.raw)
  <2>1. item.rest # <<>> /\ k = Len(item.rest)
    BY <1>4, <1>5, <1>11
  <2> DEFINE raw == x.raw
  <2>2. raw = Rear(Keys * m + p.extra, p.keys) /\ m \in 1..Len(p.whole)
    BY <1>1, <1>6 DEF s
  <2> HIDE DEF raw
  <2>3. Drop(item.count, raw) = Rear(Keys * Len(item.rest) + p.extra, p.keys)
    BY <1>1, <2>1, <2>2, RawRestIs
  <2> QED
    BY <1>3, <1>6, <2>1, <2>3 DEF raw
<1> QED
  BY <1>7, <1>8, <1>10, <1>11 DEF Precedes

\* The current clause shows the clauses ahead at its end, and each of them the
\* next, so that going right finds what going left remembered.
THEOREM ClausesAheadAreTold == Spec => []AheadIsShown
<1>1. IInv => AheadIsShown
  <2> SUFFICES ASSUME IInv, Judged, NEW i \in DOMAIN client.futures
               PROVE Precedes(IF i = Len(client.futures) THEN client.clause
                              ELSE client.futures[i + 1], client.futures[i])
    BY DEF AheadIsShown, Precedes
  <2>1. CASE Empty /\ Idle
    BY <2>1 DEF Idle
  <2>2. CASE \E p : Holding(p)
    <3>1. PICK p : Holding(p)
      BY <2>2
    <3>2. PICK b : b = Bundle
      OBVIOUS
    <3>3. BundleAt(b, p)
      BY ONLY <3>1, <3>2, BundleIs
    <3>4. Parts(b, p) /\ b.clause = client.clause /\ b.futures = client.futures
      BY <3>3, PartsAre DEF BundleAt
    <3> DEFINE fs == client.futures  c == client.clause  l == Len(fs)  f == fs[i]  d == fs[i + 1]
    <3>5. /\ Frame(p) /\ Base(c, p) /\ Ends(c) /\ c.view \in Views /\ c.suffix \in Text
          /\ Row(fs, p) /\ (fs # <<>> => Chain(c, Last(fs)))
      BY <3>4 DEF Parts
    <3>6. fs \in Seq(Futures) /\ l \in Nat /\ i \in 1..l
      BY <3>5, SeqIs DEF Row
    <3>7. FuturePart(f, p)
      BY <3>5, <3>6 DEF Row
    <3>8. CASE i = l
      <4>1. fs # <<>>
        BY <3>6, SeqIs
      <4>2. f = Last(fs)
        BY <3>6, <3>8, <4>1, FrontIs
      <4>3. Chain(c, f)
        BY <3>5, <4>1, <4>2
      <4> HIDE DEF c, f, fs
      <4>4. Precedes(c, f)
        BY <3>5, <3>7, <4>3, PrecedesIs
      <4> QED
        BY <3>8, <4>4 DEF c, f, fs
    <3>9. CASE i # l
      <4>1. i \in 1..l - 1 /\ i + 1 \in 1..l
        BY <3>6, <3>9
      <4>2. FuturePart(d, p) /\ Chain(d, f)
        BY Zenon, <3>5, <4>1 DEF Row
      <4>3. Base(d, p) /\ Ends(d) /\ d.view \in Views /\ d.suffix \in Text
        BY <4>2, FutureFields DEF FuturePart
      <4> HIDE DEF d, f, fs
      <4>4. Precedes(d, f)
        BY <3>5, <3>7, <4>2, <4>3, PrecedesIs
      <4> QED
        BY <3>9, <4>4 DEF d, f, fs
    <3> QED
      BY <3>8, <3>9
  <2> QED
    BY <2>1, <2>2, Told
<1> QED
  BY <1>1, Composed, PTL

-----------------------------------------------------------------------------
(* What the invariant says of the steps.                                   *)

\* The fields that two clauses share.
Alike(a, b) ==
  /\ a \in Clauses /\ b \in Clauses
  /\ a.fixed = b.fixed /\ a.preview = b.preview /\ Kana(a.suffix) = Kana(b.suffix)
  /\ a.raw = b.raw /\ a.reading = b.reading /\ a.count = b.count /\ a.sel = b.sel
  /\ a.derived = b.derived /\ a.remainder = b.remainder /\ a.neighbor = b.neighbor
  /\ a.group = b.group

\* Alike in every field that is compared, and in the kana of the suffix.
LEMMA AlikeIsSame ==
  ASSUME NEW a, NEW b, Alike(a, b)
  PROVE Same(a, b)
<1> DEFINE s == Kana(a.suffix)  t == Kana(b.suffix)  none == NoView
<1>1. s = t
  BY DEF Alike
<1> HIDE DEF s, t, none
<1>2. [a EXCEPT !.suffix = s, !.view = none] = [b EXCEPT !.suffix = t, !.view = none]
  BY <1>1 DEF Alike, Clauses
<1> QED
  BY <1>2 DEF Same, s, t, none

\* A move to the left and one to the right give the clause back, with the
\* candidate that was chosen, both stacks and the server's place.
THEOREM LeftAndRight == Spec => []RoundTrip
<1>1. IInv => RoundTrip
  <2> DEFINE back == MoveRight(MoveLeft(Bundle))
  <2> SUFFICES ASSUME IInv, Judged, client.snaps # <<>>
               PROVE /\ Same(back.clause, client.clause)
                     /\ back.snaps = client.snaps
                     /\ back.futures = client.futures
                     /\ back.server.input = server.input
                     /\ back.server.stack = server.stack
    BY DEF RoundTrip
  <2>1. PICK p : Holding(p)
    BY Told DEF Idle
  <2>2. PICK b : b = Bundle
    OBVIOUS
  <2>3. BundleAt(b, p)
    BY ONLY <2>1, <2>2, BundleIs
  <2>4. /\ Frame(p) /\ Good(b, p) /\ b.clause = client.clause /\ b.snaps = client.snaps
        /\ b.futures = client.futures /\ b.server = server /\ b.clause \in Clauses
    BY <2>3, PartsAre DEF BundleAt, Parts
  <2>5. PICK x : x = MoveRight(MoveLeft(b))
    OBVIOUS
  <2>6. /\ x.snaps = b.snaps /\ x.futures = b.futures /\ x.server.input = b.server.input
        /\ x.server.stack = b.server.stack /\ Alike(x.clause, b.clause)
    BY <2>4, <2>5, RoundTripIs DEF Alike
  <2>7. x = back
    BY <2>2, <2>5
  <2> HIDE DEF back
  <2> QED
    BY <2>4, <2>6, <2>7, AlikeIsSame
<1> QED
  BY <1>1, Composed, PTL


\* One turn of the loop of MoveToLast.
LEMMA TurnIs ==
  ASSUME IInv, Judged, pc = "last", [Next]_vars, ~UNCHANGED vars
  PROVE /\ pc' = "idle" => client'.clause.suffix = <<>>
        /\ pc' = "last" => /\ Len(client'.snaps) > Len(client.snaps)
                           /\ Len(client'.clause.reading) < Len(client.clause.reading)
<1>1. MoveToLast
  <2>1. ASSUME Ready PROVE FALSE
    BY <2>1 DEF Ready
  <2>2. ASSUME NEW kana \in Letters, Begin(kana) PROVE FALSE
    BY <2>2 DEF Begin
  <2>3. ASSUME NEW kana \in Letters, Type(kana) PROVE FALSE
    BY <2>1, <2>3 DEF Type
  <2>4. ASSUME Backspace \/ CommitFirstClause \/ Enter \/ CommitAndNextClause \/ Right \/ Left
        PROVE FALSE
    BY <2>1, <2>4 DEF Backspace, CommitFirstClause, Enter, CommitAndNextClause, Right, Left
  <2>5. ASSUME NEW d \in {-1, 1}, AdjustBoundary(d) \/ Select(d) PROVE FALSE
    BY <2>1, <2>5 DEF AdjustBoundary, Select
  <2> QED
    BY <2>2, <2>3, <2>4, <2>5 DEF Next
<1> DEFINE n == MoveRight(Bundle)  stops == \/ n.effect # "applied"
                                            \/ Marker(n) = Marker(Bundle)
                                            \/ n.clause.suffix = <<>>
<1>2. Store(n, client.state) /\ pc' = IF stops THEN "idle" ELSE "last"
  BY <1>1 DEF MoveToLast
<1>3. PICK p : Holding(p)
  BY HeldInLoop
<1>4. PICK b : b = Bundle
  OBVIOUS
<1>5. BundleAt(b, p)
  BY ONLY <1>3, <1>4, BundleIs
<1>6. Frame(p) /\ Good(b, p) /\ Light(b, p) /\ b.clause = client.clause /\ b.snaps = client.snaps
  BY <1>5 DEF BundleAt, Good
<1>7. PICK x : x = MoveRight(b)
  OBVIOUS
<1>8. x = n /\ b = Bundle
  BY <1>4, <1>7
<1> HIDE DEF n
<1>9. Good(x, p) /\ x.effect \in {"applied", "skipped"}
  BY <1>6, <1>7, RightIs
<1>10. PICK y : y = client.state
  OBVIOUS
<1>11. client'.clause = x.clause /\ client'.snaps = x.snaps
  <2>1. Store(x, y)
    BY <1>2, <1>8, <1>10
  <2>2. client' = [state |-> y, clause |-> x.clause, snaps |-> x.snaps, futures |-> x.futures]
    BY ONLY <1>9, <2>1, StoreIs
  <2> QED
    BY <2>2
<1>12. CASE b.clause.suffix = <<>>
  <2>1. x = Skipped(b)
    BY <1>7, <1>12 DEF MoveRight
  <2>2. x.effect = "skipped" /\ x.clause = b.clause
    <3>1. b \in Bundles
      BY <1>6 DEF Light
    <3> QED
      BY <2>1, <3>1 DEF Skipped, Bundles
  <2>3. stops
    BY <1>8, <2>2
  <2> QED
    BY <1>2, <1>11, <1>12, <2>2, <2>3
<1>13. CASE b.clause.suffix # <<>>
  <2>1. MovedRight(b, x, p)
    BY <1>6, <1>7, <1>13, MoveRightIs
  <2>2. x.effect = "applied" /\ x.snaps = Append(b.snaps, b.clause)
        /\ Len(x.clause.reading) = Len(b.clause.suffix)
    BY <2>1 DEF MovedRight
  <2>3. Len(x.snaps) = Len(b.snaps) + 1 /\ Len(b.snaps) \in Nat
    <3>1. b.snaps \in Seq(Clauses) /\ b.clause \in Clauses
      BY <1>6, BundleFields DEF Light
    <3> QED
      BY <2>2, <3>1, AppendIs, SeqIs
  <2>4. Marker(x) # Marker(b)
    <3> DEFINE k == Len(x.snaps)  l == Len(b.snaps)
    <3>1. Marker(x)[2] = k /\ Marker(b)[2] = l
      BY DEF Marker
    <3>2. k # l
      BY <2>3
    <3> QED
      BY <3>1, <3>2
  <2>5. stops <=> x.clause.suffix = <<>>
    BY <1>8, <2>2, <2>4
  <2>6. Len(b.clause.suffix) < Len(b.clause.reading)
    <3> DEFINE c == b.clause  r == Len(c.suffix)  m == Len(c.reading)
    <3>1. Base(c, p) /\ Ends(c) /\ c.view \in Views /\ c.suffix \in Text
      BY <1>5, PartsAre DEF Parts
    <3>2. r \in 0..m-1 /\ m \in Nat
      BY <1>6, <3>1, EndsIs
    <3> HIDE DEF r, m
    <3>3. r < m
      BY <3>2
    <3> QED
      BY <3>3 DEF r, m
  <2>7. /\ Len(client'.snaps) > Len(client.snaps)
        /\ Len(client'.clause.reading) < Len(client.clause.reading)
    BY <1>6, <1>11, <2>2, <2>3, <2>6
  <2> HIDE DEF stops
  <2> QED
    BY <1>2, <1>11, <2>5, <2>7
<1> QED
  BY <1>12, <1>13

\* MoveToLast stops only on a clause that leaves nothing over.
THEOREM LoopEndsAtLast == Spec => LastIsLast
<1>1. IInv /\ [Next]_vars
        => [Judged /\ pc = "last" /\ pc' = "idle" => client'.clause.suffix = <<>>]_vars
  BY TurnIs
<1> QED
  BY <1>1, Composed, PTL DEF Spec, LastIsLast

\* And every step of its loop leaves fewer kana over, so that it cannot run for
\* ever.
THEOREM LoopEnds == Spec => LoopAdvances
<1>1. IInv /\ [Next]_vars
        => [Judged /\ pc = "last" /\ pc' = "last" =>
              /\ Len(client'.snaps) > Len(client.snaps)
              /\ Len(client'.clause.reading) < Len(client.clause.reading)]_vars
  BY TurnIs
<1> QED
  BY <1>1, Composed, PTL DEF Spec, LoopAdvances

\* The commit of the first clause commits what that clause shows, with the
\* prefix before it, from whichever clause it is given, and nothing else.
THEOREM FirstIsCommitted == Spec => CommitsFirst
<1>1. IInv /\ [Next]_vars
        => [LET first == Head(Append(client.snaps, client.clause))
            IN Judged /\ CommitFirstClause =>
                 ghost'.committed = ghost.committed \o Kana(first.preview)]_vars
  BY CommitFirstHolds
<1> QED
  BY <1>1, Composed, PTL DEF Spec, CommitsFirst

\* But for the server's cursor after one of the flags.
THEOREM TypesWhileJudged == Spec => [](Judged => TypeOK)
<1>1. IInv => (Judged => TypeOK)
  <2> SUFFICES ASSUME IInv, Judged PROVE TypeOK
    OBVIOUS
  <2>1. client.state \in States /\ pc \in {"idle", "last"}
    BY DEF IInv, Shape
  <2>2. CASE client.state = "none" /\ Empty
    <3>1. server = Cleared
      BY <2>2 DEF Empty
    <3>2. server.cursor \in 0..Len(server.input)
      BY <3>1 DEF Cleared
    <3> QED
      BY <2>1, <2>2, <3>2 DEF TypeOK, States
  <2>3. CASE \E p : Holding(p)
    <3>1. PICK p : Holding(p)
      BY <2>3
    <3>2. PICK b : b = Bundle
      OBVIOUS
    <3>3. BundleAt(b, p)
      BY ONLY <3>1, <3>2, BundleIs
    <3>4. Parts(b, p) /\ b.clause = client.clause /\ b.server = server
      BY <3>3, PartsAre DEF BundleAt
    <3> DEFINE c == client.clause  item == c.view.items[c.sel]  m == Len(c.reading)
    <3>5. /\ Frame(p) /\ ClauseBase(c, p) /\ Base(c, p) /\ c.view \in Views
          /\ server.cursor \in 0..Len(server.input)
      BY <3>4 DEF Parts, Place
    <3>6. c.sel \in DOMAIN c.view.items /\ c.count = item.count
      BY Zenon, <3>5 DEF Base
    <3>7. ClausePreview(c) = item.text
      BY <3>5, PreviewIs
    <3>8. /\ m \in 0..Len(p.whole) /\ item \in Items /\ Tells(item, m, p)
          /\ Len(c.raw) = Keys * m + p.extra
      BY <3>5, BaseIs
    <3>9. c.count \in 1..Len(c.raw)
      BY <3>5, <3>6, <3>8, TellsIs
    <3> QED
      BY <2>1, <3>5, <3>6, <3>7, <3>9 DEF TypeOK, States
  <2> QED
    BY <2>2, <2>3, Told
<1> QED
  BY <1>1, Composed, PTL
===============================================================================
