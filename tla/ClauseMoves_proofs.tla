-------------------------- MODULE ClauseMoves_proofs --------------------------
(***************************************************************************)
(* What the texts, the clauses and the moves between them are made of: the *)
(* facts about ClauseData's and ClauseFutures' operators that the proof of *)
(* ClauseNavigation rests on. A frame p is the composition the clauses are *)
(* told against: its kana, its keys, the keys that belong to no kana yet,  *)
(* and the kana the composition started from. ClausePart, FuturePart, Row, *)
(* Trail and Good say what a clause, a remembered clause, the stack ahead, *)
(* the stack behind and the whole bundle are under a frame.                *)
(***************************************************************************)
EXTENDS ClauseNavigation, SequenceTheorems, FiniteSetTheorems, WellFoundedInduction, TLAPS

-----------------------------------------------------------------------------
(* Numbers.                                                                *)

\* Induction over a set of naturals, from the well-foundedness of Nat.
LEMMA SetInduction ==
  ASSUME NEW S \in SUBSET Nat, 0 \in S, \A m \in S : m + 1 \in S
  PROVE  S = Nat
<1>1. SUFFICES ASSUME Nat \ S # {} PROVE FALSE
  OBVIOUS
<1>2. PICK x \in Nat \ S : \A y \in Nat \ S : ~ (<<y, x>> \in OpToRel(<, Nat))
  BY <1>1, NatLessThanWellFounded, WFMin
<1>3. x # 0 /\ x - 1 \in Nat /\ x - 1 < x
  OBVIOUS
<1>4. x - 1 \in S
  BY <1>2, <1>3 DEF OpToRel
<1> QED
  BY <1>3, <1>4

\* The quotient and the rest of a division are the only ones.
LEMMA DivUnique ==
  ASSUME NEW K \in Nat \ {0}, NEW q \in Int, NEW r \in 0..K-1
  PROVE (q * K + r) \div K = q /\ (q * K + r) % K = r
  BY SMTT(30)

\* A number is its quotient and its rest.
LEMMA DivMod ==
  ASSUME NEW K \in Nat \ {0}, NEW a \in Nat
  PROVE a = ((a \div K) * K) + (a % K) /\ a % K \in 0..K-1 /\ a \div K \in Nat
  BY SMTT(30)

\* Whole multiples move through a division.
LEMMA DivAdd ==
  ASSUME NEW K \in Nat \ {0}, NEW a \in Nat, NEW n \in Nat
  PROVE (a + K*n) \div K = (a \div K) + n /\ (a + K*n) % K = a % K
<1>1. DEFINE q == a \div K  r == a % K
<1>2. a = q * K + r /\ r \in 0..K-1 /\ q \in Nat
  BY DivMod
<1> HIDE DEF q, r
<1>3. a + K*n = (q + n) * K + r /\ q + n \in Int
  BY <1>2, SMTT(30)
<1>4. ((q + n) * K + r) \div K = q + n /\ ((q + n) * K + r) % K = r
  BY <1>2, <1>3, DivUnique
<1> QED
  BY <1>3, <1>4 DEF q, r

\* A multiple divides evenly.
LEMMA DivTimes ==
  ASSUME NEW K \in Nat \ {0}, NEW n \in Nat
  PROVE (K*n) \div K = n
  BY DivUnique, SMTT(30)

\* The quotient of a key's place is the place of its kana.
LEMMA DivBound ==
  ASSUME NEW K \in Nat \ {0}, NEW n \in Nat, NEW a \in 0..K*n-1
  PROVE a \div K \in 0..n-1 /\ a % K \in 0..K-1
<1> DEFINE q == a \div K  r == a % K
<1>1. a \in Nat
  BY SMTT(30)
<1>2. a = q * K + r /\ r \in 0..K-1 /\ q \in Nat
  BY <1>1, DivMod
<1> HIDE DEF q, r
<1>3. q < n
  BY <1>2, SMTT(30)
<1> QED
  BY <1>2, <1>3 DEF q, r

\* Keys per kana: products of naturals keep order, sums and differences.
LEMMA Times ==
  ASSUME NEW K \in Nat \ {0}, NEW n \in Nat, NEW m \in Nat
  PROVE /\ K*n \in Nat /\ K*m \in Nat
        /\ K*(n+m) = K*n + K*m
        /\ n <= m => K*n <= K*m /\ K*(m-n) = K*m - K*n
        /\ n < m => K*n < K*m /\ K*n + K <= K*m
        /\ K*n = K*m => n = m
        /\ K*n <= K*m => n <= m
        /\ n <= K*n
  BY SMTT(30)

-----------------------------------------------------------------------------
(* Sequences.                                                              *)

\* What a sequence is.
LEMMA SeqIs ==
  ASSUME NEW S, NEW s \in Seq(S)
  PROVE /\ Len(s) \in Nat /\ DOMAIN s = 1..Len(s) /\ \A i \in 1..Len(s) : s[i] \in S
        /\ s = <<>> <=> Len(s) = 0
  BY LenProperties, ElementOfSeq, EmptySeq

\* What a concatenation is.
LEMMA Cat ==
  ASSUME NEW S, NEW a \in Seq(S), NEW b \in Seq(S)
  PROVE /\ a \o b \in Seq(S) /\ Len(a \o b) = Len(a) + Len(b)
        /\ \A i \in 1..Len(a) : (a \o b)[i] = a[i]
        /\ \A i \in 1..Len(b) : (a \o b)[Len(a) + i] = b[i]
        /\ <<>> \o a = a /\ a \o <<>> = a /\ <<>> \in Seq(S)
<1>1. a \o b \in Seq(S) /\ Len(a \o b) = Len(a) + Len(b)
  BY ConcatProperties
<1>2. \A i \in 1..Len(a)+Len(b) : (a \o b)[i] = IF i <= Len(a) THEN a[i] ELSE b[i - Len(a)]
  BY ConcatProperties
<1>3. \A i \in 1..Len(b) : (a \o b)[Len(a) + i] = b[i]
  BY <1>2, SeqIs
<1>4. \A i \in 1..Len(a) : (a \o b)[i] = a[i]
  BY <1>2, SeqIs
<1> QED
  BY <1>1, <1>3, <1>4, ConcatEmptySeq, EmptySeq

\* Concatenation is associative.
LEMMA CatAssoc ==
  ASSUME NEW S, NEW a \in Seq(S), NEW b \in Seq(S), NEW c \in Seq(S)
  PROVE (a \o b) \o c = a \o (b \o c)
  BY ConcatAssociative

\* Concatenations of parts of the same lengths are equal only part by part.
LEMMA CatSplitBoth ==
  ASSUME NEW S, NEW a \in Seq(S), NEW b \in Seq(S), NEW c \in Seq(S), NEW d \in Seq(S),
         a \o b = c \o d, Len(a) = Len(c), Len(b) = Len(d)
  PROVE  a = c /\ b = d
<1>2. Len(a) \in Nat /\ Len(b) \in Nat /\ Len(c) \in Nat /\ Len(d) \in Nat
  BY SeqIs
<1>3. Len(a) = Len(c) /\ Len(b) = Len(d)
  OBVIOUS
<1>4. \A i \in 1..Len(a) : a[i] = c[i]
  BY <1>3, Cat
<1>5. ASSUME NEW i \in 1..Len(b) PROVE b[i] = d[i]
  <2>1. (a \o b)[Len(a) + i] = b[i]
    BY Cat
  <2>2. i \in 1..Len(d)
    BY <1>3
  <2>3. (c \o d)[Len(c) + i] = d[i]
    BY <2>2, Cat
  <2> QED
    BY <2>1, <2>3, <1>3
<1> QED
  BY <1>3, <1>4, <1>5, SeqEqual

\* And so are equal concatenations whose first parts have the same length.
LEMMA CatSplitLeft ==
  ASSUME NEW S, NEW a \in Seq(S), NEW b \in Seq(S), NEW c \in Seq(S), NEW d \in Seq(S),
         a \o b = c \o d, Len(a) = Len(c)
  PROVE  a = c /\ b = d
<1>0. Len(a \o b) = Len(a) + Len(b)
  BY ONLY Cat, a \in Seq(S), b \in Seq(S)
<1>1. Len(c \o d) = Len(c) + Len(d)
  BY ONLY Cat, c \in Seq(S), d \in Seq(S)
<1>2. Len(a) \in Nat /\ Len(b) \in Nat /\ Len(c) \in Nat /\ Len(d) \in Nat
  BY SeqIs
<1>3. Len(a) = Len(c) /\ Len(b) = Len(d)
  BY <1>0, <1>1, <1>2
<1> QED
  BY <1>3, CatSplitBoth

\* What is left behind the first k elements.
LEMMA DropIs ==
  ASSUME NEW S, NEW s \in Seq(S), NEW k \in Nat, k <= Len(s)
  PROVE /\ Drop(k, s) \in Seq(S) /\ Len(Drop(k, s)) = Len(s) - k
        /\ \A i \in 1..Len(s)-k : Drop(k, s)[i] = s[k + i]
<1>0. Len(s) \in Nat
  BY SeqIs
<1>1. k + 1 \in 1..Len(s)+1 /\ Len(s) \in 0..Len(s)
  BY <1>0
<1>2. CASE k = Len(s)
  BY <1>0, <1>1, <1>2, SubSeqProperties, EmptySeq, SubSeqEmpty DEF Drop
<1>3. CASE k < Len(s)
  BY <1>0, <1>1, <1>3, SubSeqProperties DEF Drop
<1> QED
  BY <1>0, <1>2, <1>3

\* Nothing is left behind all of them.
LEMMA DropAll ==
  ASSUME NEW S, NEW s \in Seq(S), NEW k \in Nat, k >= Len(s)
  PROVE Drop(k, s) = <<>>
  BY SeqIs, SubSeqEmpty DEF Drop

\* What the first k elements are.
LEMMA TakeIs ==
  ASSUME NEW S, NEW s \in Seq(S), NEW k \in Nat, k <= Len(s)
  PROVE /\ Take(k, s) \in Seq(S) /\ Len(Take(k, s)) = k
        /\ \A i \in 1..k : Take(k, s)[i] = s[i]
<1>0. Len(s) \in Nat
  BY SeqIs
<1>1. Take(k, s) = SubSeq(s, 1, k)
  BY <1>0 DEF Take
<1> QED
  BY <1>0, <1>1, SubSeqProperties, SubSeqEmpty, EmptySeq

\* The two parts of a cut make up the sequence.
LEMMA TakeDrop ==
  ASSUME NEW S, NEW s \in Seq(S), NEW k \in Nat, k <= Len(s)
  PROVE Take(k, s) \o Drop(k, s) = s
<1>0. Len(s) \in Nat
  BY SeqIs
<1>1. /\ Take(k, s) \in Seq(S) /\ Drop(k, s) \in Seq(S)
      /\ Len(Take(k, s)) = k /\ Len(Drop(k, s)) = Len(s) - k
  BY TakeIs, DropIs
<1>2. Take(k, s) \o Drop(k, s) \in Seq(S) /\ Len(Take(k, s) \o Drop(k, s)) = Len(s)
  BY <1>0, <1>1, Cat
<1>3. ASSUME NEW i \in 1..Len(s) PROVE (Take(k, s) \o Drop(k, s))[i] = s[i]
  <2>1. CASE i <= k
    <3>1. i \in 1..Len(Take(k, s)) /\ i \in 1..k
      BY <1>0, <1>1, <2>1
    <3>2. (Take(k, s) \o Drop(k, s))[i] = Take(k, s)[i]
      BY <1>1, <3>1, Cat
    <3>3. Take(k, s)[i] = s[i]
      BY <3>1, TakeIs
    <3> QED
      BY <3>2, <3>3
  <2>2. CASE i > k
    <3>1. i - k \in 1..Len(s)-k /\ i = k + (i - k)
      BY <1>0, <2>2
    <3>2. (Take(k, s) \o Drop(k, s))[Len(Take(k, s)) + (i - k)] = Drop(k, s)[i - k]
      BY <1>1, <3>1, Cat
    <3>3. Drop(k, s)[i - k] = s[k + (i - k)]
      BY <3>1, DropIs
    <3> QED
      BY <1>1, <3>1, <3>2, <3>3
  <2>3. i <= k \/ i > k
    BY <1>0
  <2> QED
    BY ONLY <2>1, <2>2, <2>3
<1> QED
  BY <1>2, <1>3, SeqEqual

\* A cut where two sequences meet gives them back.
LEMMA TakeDropCat ==
  ASSUME NEW S, NEW a \in Seq(S), NEW b \in Seq(S)
  PROVE Take(Len(a), a \o b) = a /\ Drop(Len(a), a \o b) = b
<1>1. Len(a) \in Nat /\ Len(b) \in Nat /\ a \o b \in Seq(S) /\ Len(a \o b) = Len(a) + Len(b)
  BY Cat, SeqIs
<1> DEFINE s == a \o b  k == Len(a)
<1>0. s \in Seq(S) /\ k \in Nat /\ k <= Len(s)
  BY <1>1
<1> HIDE DEF s, k
<1>2. Take(k, s) \o Drop(k, s) = s
  BY <1>0, TakeDrop
<1>3. Take(k, s) \in Seq(S) /\ Drop(k, s) \in Seq(S) /\ Len(Take(k, s)) = k
  BY <1>0, TakeIs, DropIs
<1>4. Take(k, s) = a /\ Drop(k, s) = b
  <2>1. Take(k, s) \o Drop(k, s) = a \o b
    BY <1>2 DEF s
  <2>2. Len(Take(k, s)) = Len(a)
    BY <1>3 DEF k
  <2> HIDE DEF s, k
  <2> QED
    BY <2>1, <2>2, <1>3, CatSplitLeft
<1> QED
  BY <1>4 DEF s, k

\* The end of a sequence.
Rear(m, s) == Drop(Len(s) - m, s)

\* What the last m elements are.
LEMMA RearIs ==
  ASSUME NEW S, NEW s \in Seq(S), NEW m \in 0..Len(s)
  PROVE /\ Rear(m, s) \in Seq(S) /\ Len(Rear(m, s)) = m
        /\ \A i \in 1..m : Rear(m, s)[i] = s[Len(s) - m + i]
<1>0. Len(s) \in Nat
  BY SeqIs
<1> DEFINE k == Len(s) - m
<1>1. k \in Nat /\ k <= Len(s) /\ Len(s) - k = m
  BY <1>0
<1>2. Rear(m, s) = Drop(k, s)
  BY DEF Rear
<1> HIDE DEF k
<1>3. /\ Drop(k, s) \in Seq(S) /\ Len(Drop(k, s)) = Len(s) - k
      /\ \A i \in 1..Len(s)-k : Drop(k, s)[i] = s[k + i]
  BY <1>1, DropIs
<1> QED
  BY <1>1, <1>2, <1>3 DEF k

\* The rear of a concatenation is its second part.
LEMMA RearOfCat ==
  ASSUME NEW S, NEW p \in Seq(S), NEW t \in Seq(S)
  PROVE Rear(Len(t), p \o t) = t
<1>1. Len(p \o t) - Len(t) = Len(p)
  BY Cat, SeqIs
<1> QED
  BY <1>1, TakeDropCat DEF Rear

\* A sequence is what stands before its rear, and its rear.
LEMMA RearSplit ==
  ASSUME NEW S, NEW s \in Seq(S), NEW m \in 0..Len(s)
  PROVE Take(Len(s) - m, s) \in Seq(S) /\ s = Take(Len(s) - m, s) \o Rear(m, s)
<1>0. Len(s) \in Nat
  BY SeqIs
<1>1. Len(s) - m \in Nat /\ Len(s) - m <= Len(s)
  BY <1>0
<1> QED
  BY <1>1, TakeDrop, TakeIs DEF Rear

\* The rear of a rear is a rear of the sequence: clauses are nested tails.
LEMMA RearOfRear ==
  ASSUME NEW S, NEW s \in Seq(S), NEW m \in 0..Len(s), NEW k \in 0..m
  PROVE Rear(k, Rear(m, s)) = Rear(k, s) /\ Drop(m - k, Rear(m, s)) = Rear(k, s)
<1>0. Len(s) \in Nat
  BY SeqIs
<1> DEFINE t == Rear(m, s)
<1>1. t \in Seq(S) /\ Len(t) = m /\ s = Take(Len(s) - m, s) \o t /\ Take(Len(s) - m, s) \in Seq(S)
  BY RearIs, RearSplit
<1>2. Rear(k, t) \in Seq(S) /\ Len(Rear(k, t)) = k /\ t = Take(m - k, t) \o Rear(k, t)
        /\ Take(m - k, t) \in Seq(S)
  BY <1>1, RearIs, RearSplit
<1> HIDE DEF t
<1> DEFINE a == Take(Len(s) - m, s)  b == Take(m - k, t)  c == Rear(k, t)
<1>3. a \in Seq(S) /\ b \in Seq(S) /\ c \in Seq(S) /\ Len(c) = k
  BY <1>1, <1>2
<1>3a. s = a \o t /\ t = b \o c
  BY <1>1, <1>2
<1> HIDE DEF a, b, c
<1>4. s = (a \o b) \o c
  <2>1. (a \o b) \o c = a \o (b \o c)
    BY ONLY <1>3, CatAssoc
  <2> QED
    BY ONLY <1>3a, <2>1, Zenon
<1>5. Rear(k, s) = c
  BY <1>3, <1>4, Cat, RearOfCat
<1>6. Drop(m - k, t) = Rear(k, t)
  BY <1>1 DEF Rear
<1> QED
  BY <1>5, <1>6 DEF c, t

\* Typing behind a sequence lengthens its rears.
LEMMA RearAppend ==
  ASSUME NEW S, NEW s \in Seq(S), NEW m \in 0..Len(s), NEW x \in Seq(S)
  PROVE Rear(m + Len(x), s \o x) = Rear(m, s) \o x
<1> DEFINE a == Take(Len(s) - m, s)  b == Rear(m, s)
<1>1. a \in Seq(S) /\ b \in Seq(S) /\ Len(b) = m /\ s = a \o b
  BY RearIs, RearSplit
<1> HIDE DEF a, b
<1>2. s \o x = a \o (b \o x)
  <2>1. (a \o b) \o x = a \o (b \o x)
    BY ONLY <1>1, x \in Seq(S), CatAssoc
  <2> QED
    BY ONLY <1>1, <2>1, Zenon
<1>2a. b \o x \in Seq(S) /\ Len(b \o x) = m + Len(x)
  BY <1>1, Cat
<1>3. Rear(m + Len(x), s \o x) = b \o x
  BY <1>1, <1>2, <1>2a, RearOfCat
<1> QED
  BY <1>3 DEF b

\* A sequence is its front and its last element: the stacks are popped at the
\* back.
LEMMA FrontIs ==
  ASSUME NEW S, NEW s \in Seq(S), s # <<>>
  PROVE /\ Front(s) \in Seq(S) /\ Len(Front(s)) = Len(s) - 1 /\ Last(s) \in S
        /\ \A i \in 1..Len(s) - 1 : Front(s)[i] = s[i]
        /\ s = Front(s) \o <<Last(s)>>
        /\ Append(Front(s), Last(s)) = s
        /\ Last(s) = s[Len(s)] /\ Len(s) \in 1..Len(s)
<1>0. Len(s) \in Nat \ {0}
  BY SeqIs
<1>1. Front(s) = Take(Len(s) - 1, s)
  BY <1>0 DEF Front, Take
<1>2. /\ Front(s) \in Seq(S) /\ Len(Front(s)) = Len(s) - 1
      /\ \A i \in 1..Len(s) - 1 : Front(s)[i] = s[i]
  <2> DEFINE k == Len(s) - 1
  <2>1. k \in Nat /\ k <= Len(s) /\ Front(s) = Take(k, s)
    BY <1>0, <1>1
  <2> HIDE DEF k
  <2>2. /\ Front(s) \in Seq(S) /\ Len(Front(s)) = k /\ \A i \in 1..k : Front(s)[i] = s[i]
    BY <2>1, TakeIs
  <2> QED
    BY <2>2 DEF k
<1>3. Last(s) \in S /\ Last(s) = s[Len(s)] /\ Len(s) \in 1..Len(s)
  BY <1>0, SeqIs DEF Last
<1>4. Append(Front(s), Last(s)) \in Seq(S) /\ Len(Append(Front(s), Last(s))) = Len(s)
  BY <1>0, <1>2, <1>3, AppendProperties
<1>5. \A i \in 1..Len(s) : Append(Front(s), Last(s))[i] = s[i]
  BY <1>0, <1>2, <1>3, AppendProperties
<1>6. Append(Front(s), Last(s)) = s
  BY <1>4, <1>5, SeqEqual
<1>7. Append(Front(s), Last(s)) = Front(s) \o <<Last(s)>>
  BY <1>2, <1>3, AppendIsConcat
<1> QED
  BY <1>2, <1>3, <1>6, <1>7

\* What an extended sequence is: the stacks are pushed at the back.
LEMMA AppendIs ==
  ASSUME NEW S, NEW s \in Seq(S), NEW x \in S
  PROVE /\ Append(s, x) \in Seq(S) /\ Len(Append(s, x)) = Len(s) + 1
        /\ \A i \in 1..Len(s) : Append(s, x)[i] = s[i]
        /\ Append(s, x)[Len(s) + 1] = x
        /\ Append(s, x) # <<>> /\ Last(Append(s, x)) = x /\ Front(Append(s, x)) = s
        /\ Append(s, x) = s \o <<x>>
<1>0. Len(s) \in Nat
  BY SeqIs
<1>1. Append(s, x) \in Seq(S) /\ Len(Append(s, x)) = Len(s) + 1
  BY AppendProperties
<1>2. (\A i \in 1..Len(s) : Append(s, x)[i] = s[i]) /\ Append(s, x)[Len(s) + 1] = x
  BY AppendProperties
<1>3. Append(s, x) # <<>> /\ Last(Append(s, x)) = x
  BY <1>0, <1>1, <1>2, SeqIs DEF Last
<1>4. Front(Append(s, x)) \in Seq(S) /\ Len(Front(Append(s, x))) = Len(s)
      /\ \A i \in 1..Len(s) : Front(Append(s, x))[i] = s[i]
  <2> DEFINE t == Append(s, x)
  <2>1. t \in Seq(S) /\ t # <<>> /\ Len(t) - 1 = Len(s)
    BY <1>0, <1>1, <1>3
  <2>2. \A i \in 1..Len(s) : t[i] = s[i]
    BY <1>2
  <2> HIDE DEF t
  <2>3. Front(t) \in Seq(S) /\ Len(Front(t)) = Len(t) - 1
          /\ \A i \in 1..Len(t) - 1 : Front(t)[i] = t[i]
    BY <2>1, FrontIs
  <2> QED
    BY <2>1, <2>2, <2>3 DEF t
<1>5. Front(Append(s, x)) = s
  BY <1>4, SeqEqual
<1> QED
  BY <1>1, <1>2, <1>3, <1>5, AppendIsConcat

\* The parts of the lemma above that are cited one at a time.
LEMMA AppendSome ==
  ASSUME NEW S, NEW s \in Seq(S), NEW x \in S
  PROVE Append(s, x) # <<>>
  BY ONLY s \in Seq(S), x \in S, AppendIs

\* The last element of an extended sequence.
LEMMA AppendLast ==
  ASSUME NEW S, NEW s \in Seq(S), NEW x \in S
  PROVE Last(Append(s, x)) = x
  BY ONLY s \in Seq(S), x \in S, AppendIs

\* What was extended is in front of it.
LEMMA AppendFront ==
  ASSUME NEW S, NEW s \in Seq(S), NEW x \in S
  PROVE Front(Append(s, x)) = s
  BY ONLY s \in Seq(S), x \in S, AppendIs

\* Deleting the last element shortens the rears.
LEMMA RearFront ==
  ASSUME NEW S, NEW s \in Seq(S), NEW m \in 1..Len(s)
  PROVE Front(Rear(m, s)) = Rear(m - 1, Front(s)) /\ Len(Front(s)) = Len(s) - 1
<1>0. Len(s) \in Nat /\ s # <<>>
  BY SeqIs
<1>1. Front(s) \in Seq(S) /\ Len(Front(s)) = Len(s) - 1
        /\ \A i \in 1..Len(s) - 1 : Front(s)[i] = s[i]
  BY <1>0, FrontIs
<1>2. /\ Rear(m, s) \in Seq(S) /\ Len(Rear(m, s)) = m /\ Rear(m, s) # <<>>
      /\ \A i \in 1..m : Rear(m, s)[i] = s[Len(s) - m + i]
  BY <1>0, RearIs, SeqIs
<1>3. /\ Front(Rear(m, s)) \in Seq(S) /\ Len(Front(Rear(m, s))) = m - 1
      /\ \A i \in 1..m-1 : Front(Rear(m, s))[i] = Rear(m, s)[i]
  BY <1>2, FrontIs
<1>4. /\ Rear(m - 1, Front(s)) \in Seq(S) /\ Len(Rear(m - 1, Front(s))) = m - 1
      /\ \A i \in 1..m-1 : Rear(m - 1, Front(s))[i] = Front(s)[(Len(s) - 1) - (m - 1) + i]
  <2> DEFINE u == Front(s)  j == m - 1
  <2>1. u \in Seq(S) /\ j \in 0..Len(u) /\ Len(u) = Len(s) - 1
    BY <1>0, <1>1
  <2> HIDE DEF u, j
  <2>2. /\ Rear(j, u) \in Seq(S) /\ Len(Rear(j, u)) = j
        /\ \A i \in 1..j : Rear(j, u)[i] = u[Len(u) - j + i]
    BY <2>1, RearIs
  <2> QED
    BY <2>1, <2>2 DEF u, j
<1>5. ASSUME NEW i \in 1..m-1 PROVE Front(Rear(m, s))[i] = Rear(m - 1, Front(s))[i]
  <2>1. (Len(s) - 1) - (m - 1) + i = Len(s) - m + i /\ Len(s) - m + i \in 1..Len(s)-1 /\ i \in 1..m
    BY <1>0
  <2> QED
    BY <2>1, <1>1, <1>2, <1>3, <1>4
<1> QED
  BY <1>1, <1>3, <1>4, <1>5, SeqEqual

-----------------------------------------------------------------------------
(* Prefixes and suffixes.                                                  *)

\* What AfterPrefix leaves behind a prefix.
LEMMA PrefixIs ==
  ASSUME NEW S, NEW p \in Seq(S), NEW s \in Seq(S), IsPrefix(p, s)
  PROVE Len(p) <= Len(s) /\ AfterPrefix(p, s) \in Seq(S) /\ s = p \o AfterPrefix(p, s)
<1>0. Len(p) \in Nat /\ Len(s) \in Nat
  BY SeqIs
<1>1. Len(p) <= Len(s) /\ SubSeq(p, 1, Len(p)) = SubSeq(s, 1, Len(p))
  BY DEF IsPrefix
<1>2. SubSeq(p, 1, Len(p)) = p
  BY SubSeqFull
<1>3. Take(Len(p), s) = p
  BY <1>0, <1>1, <1>2 DEF Take
<1>4. AfterPrefix(p, s) = Drop(Len(p), s)
  BY DEF AfterPrefix
<1> QED
  BY <1>0, <1>1, <1>3, <1>4, TakeDrop, DropIs

\* What AfterPrefix leaves of a text that starts with the prefix.
LEMMA PrefixOfCat ==
  ASSUME NEW S, NEW p \in Seq(S), NEW t \in Seq(S)
  PROVE IsPrefix(p, p \o t) /\ AfterPrefix(p, p \o t) = t
<1>0. Len(p) \in Nat /\ Len(t) \in Nat /\ p \o t \in Seq(S) /\ Len(p \o t) = Len(p) + Len(t)
  BY SeqIs, Cat
<1>1. Take(Len(p), p \o t) = p /\ Drop(Len(p), p \o t) = t
  BY TakeDropCat
<1>2. SubSeq(p, 1, Len(p)) = p
  BY SubSeqFull
<1>3. IsPrefix(p, p \o t)
  BY <1>0, <1>1, <1>2 DEF IsPrefix, Take
<1> QED
  BY <1>1, <1>3 DEF AfterPrefix

\* What a reversed sequence is.
LEMMA ReverseIs ==
  ASSUME NEW S, NEW s \in Seq(S)
  PROVE /\ Reverse(s) \in Seq(S) /\ Len(Reverse(s)) = Len(s)
        /\ \A i \in 1..Len(s) : Reverse(s)[i] = s[Len(s) - i + 1]
<1>0. Len(s) \in Nat /\ \A i \in 1..Len(s) : s[i] \in S
  BY SeqIs
<1>1. \A i \in 1..Len(s) : s[(Len(s) - i) + 1] \in S
  BY <1>0
<1> QED
  BY <1>0, <1>1, IsASeq, LenProperties DEF Reverse

\* What BeforeSuffix leaves of a text that ends with the suffix.
LEMMA SuffixIs ==
  ASSUME NEW S, NEW t \in Seq(S), NEW s \in Seq(S), IsSuffix(t, s)
  PROVE /\ Len(t) <= Len(s) /\ BeforeSuffix(t, s) \in Seq(S) /\ s = BeforeSuffix(t, s) \o t
        /\ t = Rear(Len(t), s)
<1>0. Len(t) \in Nat /\ Len(s) \in Nat
  BY SeqIs
<1> DEFINE p == Reverse(t)  q == Reverse(s)
<1>1. p \in Seq(S) /\ q \in Seq(S) /\ Len(p) = Len(t) /\ Len(q) = Len(s)
      /\ (\A i \in 1..Len(t) : p[i] = t[Len(t) - i + 1])
         /\ (\A i \in 1..Len(s) : q[i] = s[Len(s) - i + 1])
  BY ReverseIs
<1>2. IsPrefix(p, q)
  BY DEF IsSuffix
<1> HIDE DEF p, q
<1>3. Len(p) <= Len(q) /\ q = p \o AfterPrefix(p, q) /\ AfterPrefix(p, q) \in Seq(S)
  BY <1>1, <1>2, PrefixIs
<1>4. \A i \in 1..Len(p) : q[i] = p[i]
  BY <1>1, <1>3, Cat
<1>5. ASSUME NEW i \in 1..Len(t) PROVE t[i] = s[Len(s) - Len(t) + i]
  <2>1. Len(t) - i + 1 \in 1..Len(t) /\ Len(t) - i + 1 \in 1..Len(s)
          /\ Len(t) - (Len(t) - i + 1) + 1 = i
        /\ Len(s) - (Len(t) - i + 1) + 1 = Len(s) - Len(t) + i
    BY <1>0, <1>1, <1>3
  <2>2. q[Len(t) - i + 1] = p[Len(t) - i + 1]
    BY <2>1, <1>1, <1>4
  <2> QED
    BY <2>1, <2>2, <1>1
<1>6. Len(t) \in 0..Len(s)
  BY <1>0, <1>1, <1>3
<1>7. Rear(Len(t), s) = t
  BY <1>5, <1>6, RearIs, SeqEqual
<1>8. BeforeSuffix(t, s) = Take(Len(s) - Len(t), s)
  BY DEF BeforeSuffix
<1>9. Take(Len(s) - Len(t), s) \in Seq(S) /\ s = Take(Len(s) - Len(t), s) \o Rear(Len(t), s)
  BY <1>6, RearSplit
<1> QED
  BY <1>6, <1>7, <1>8, <1>9

\* The same for a text that is put together.
LEMMA SuffixOfCat ==
  ASSUME NEW S, NEW p \in Seq(S), NEW t \in Seq(S)
  PROVE IsSuffix(t, p \o t) /\ BeforeSuffix(t, p \o t) = p
<1> DEFINE s == p \o t
<1>0. Len(p) \in Nat /\ Len(t) \in Nat /\ s \in Seq(S) /\ Len(s) = Len(p) + Len(t)
      /\ \A i \in 1..Len(t) : s[Len(p) + i] = t[i]
  BY SeqIs, Cat
<1> DEFINE a == Reverse(t)  b == Reverse(s)
<1>1. a \in Seq(S) /\ b \in Seq(S) /\ Len(a) = Len(t) /\ Len(b) = Len(s)
      /\ (\A i \in 1..Len(t) : a[i] = t[Len(t) - i + 1])
         /\ (\A i \in 1..Len(s) : b[i] = s[Len(s) - i + 1])
  BY <1>0, ReverseIs
<1>2. ASSUME NEW i \in 1..Len(t) PROVE a[i] = b[i]
  <2>1. i \in 1..Len(s) /\ Len(s) - i + 1 = Len(p) + (Len(t) - i + 1)
          /\ Len(t) - i + 1 \in 1..Len(t)
    BY <1>0
  <2> QED
    BY <2>1, <1>0, <1>1
<1> HIDE DEF a, b, s
<1>3. SubSeq(a, 1, Len(a)) = a
  BY <1>1, SubSeqFull
<1>4. SubSeq(b, 1, Len(a)) = Take(Len(a), b) /\ Len(a) <= Len(b) /\ Len(a) \in Nat
  BY <1>0, <1>1 DEF Take
<1>5. Take(Len(a), b) \in Seq(S) /\ Len(Take(Len(a), b)) = Len(a)
        /\ \A i \in 1..Len(a) : Take(Len(a), b)[i] = b[i]
  BY <1>1, <1>4, TakeIs
<1>6. Take(Len(a), b) = a
  BY <1>1, <1>2, <1>5, SeqEqual
<1>7. IsPrefix(a, b)
  BY <1>3, <1>4, <1>6 DEF IsPrefix
<1>8. IsSuffix(t, s)
  BY <1>7 DEF IsSuffix, a, b
<1>9. BeforeSuffix(t, s) = Take(Len(s) - Len(t), s) /\ Len(s) - Len(t) = Len(p)
  BY <1>0, <1>8 DEF BeforeSuffix
<1> QED
  BY <1>8, <1>9, TakeDropCat DEF s

\* A shorter rear is a suffix of a longer one.
LEMMA RearIsSuffix ==
  ASSUME NEW S, NEW s \in Seq(S), NEW m \in 0..Len(s), NEW k \in 0..m
  PROVE IsSuffix(Rear(k, s), Rear(m, s))
<1>0. Len(s) \in Nat
  BY SeqIs
<1>1. Rear(m, s) \in Seq(S) /\ Len(Rear(m, s)) = m
  BY RearIs
<1>2. Rear(k, Rear(m, s)) = Rear(k, s) /\ k \in 0..Len(Rear(m, s))
  BY <1>1, RearOfRear
<1>3. Rear(m, s) = Take(m - k, Rear(m, s)) \o Rear(k, s) /\ Take(m - k, Rear(m, s)) \in Seq(S)
  BY <1>1, <1>2, RearSplit
<1>4. Rear(k, s) \in Seq(S)
  BY <1>1, <1>2, RearIs
<1> QED
  BY <1>3, <1>4, SuffixOfCat

-----------------------------------------------------------------------------
(* Texts and their spelling.                                               *)

\* What is typed is spelled: a letter is a kana and its spelling, 0 the plain
\* one.
Text == Seq(Letters \X Nat)

\* Texts without their spelling, as the server holds them.
Kanas == Seq(Letters)

\* Text in plain spelling.
Plain(text) == \A i \in DOMAIN text : text[i][2] = 0

\* The kana of a text, one for each of its letters.
LEMMA KanaIs ==
  ASSUME NEW t \in Text
  PROVE Kana(t) \in Kanas /\ Len(Kana(t)) = Len(t) /\ \A i \in 1..Len(t) : Kana(t)[i] = t[i][1]
<1>1. Len(t) \in Nat /\ DOMAIN t = 1..Len(t) /\ \A i \in 1..Len(t) : t[i] \in Letters \X Nat
  BY SeqIs DEF Text
<1>2. \A i \in 1..Len(t) : t[i][1] \in Letters
  BY <1>1
<1>3. Kana(t) = [i \in 1..Len(t) |-> t[i][1]]
  BY <1>1 DEF Kana
<1> QED
  BY <1>1, <1>2, <1>3, IsASeq, LenProperties DEF Kanas

\* A text spelled in one spelling, one letter for each kana.
LEMMA SpelledIs ==
  ASSUME NEW x \in Kanas, NEW k \in Nat
  PROVE Spelled(k, x) \in Text /\ Len(Spelled(k, x)) = Len(x)
        /\ \A i \in 1..Len(x) : Spelled(k, x)[i] = <<x[i], k>>
<1>1. Len(x) \in Nat /\ DOMAIN x = 1..Len(x) /\ \A i \in 1..Len(x) : x[i] \in Letters
  BY SeqIs DEF Kanas
<1>2. \A i \in 1..Len(x) : <<x[i], k>> \in Letters \X Nat
  BY <1>1
<1>3. Spelled(k, x) = [i \in 1..Len(x) |-> <<x[i], k>>]
  BY <1>1 DEF Spelled
<1> QED
  BY <1>1, <1>2, <1>3, IsASeq, LenProperties DEF Text

\* Spelling kana does not change them.
LEMMA KanaSpelled ==
  ASSUME NEW x \in Kanas, NEW k \in Nat
  PROVE Kana(Spelled(k, x)) = x
<1>1. Spelled(k, x) \in Text /\ Len(Spelled(k, x)) = Len(x)
        /\ \A i \in 1..Len(x) : Spelled(k, x)[i] = <<x[i], k>>
  BY SpelledIs
<1>2. Kana(Spelled(k, x)) \in Kanas /\ Len(Kana(Spelled(k, x))) = Len(x)
      /\ \A i \in 1..Len(x) : Kana(Spelled(k, x))[i] = Spelled(k, x)[i][1]
  BY <1>1, KanaIs
<1>3. \A i \in 1..Len(x) : Kana(Spelled(k, x))[i] = x[i]
  BY <1>1, <1>2
<1> QED
  BY <1>2, <1>3, SeqEqual DEF Kanas

\* Cat for texts.
LEMMA TextCat ==
  ASSUME NEW a \in Text, NEW b \in Text
  PROVE /\ a \o b \in Text /\ Len(a \o b) = Len(a) + Len(b)
        /\ \A i \in 1..Len(a) : (a \o b)[i] = a[i]
        /\ \A i \in 1..Len(b) : (a \o b)[Len(a) + i] = b[i]
        /\ <<>> \o a = a /\ a \o <<>> = a /\ <<>> \in Text
  BY Cat DEF Text

\* Cat for kana.
LEMMA KanasCat ==
  ASSUME NEW a \in Kanas, NEW b \in Kanas
  PROVE /\ a \o b \in Kanas /\ Len(a \o b) = Len(a) + Len(b)
        /\ \A i \in 1..Len(a) : (a \o b)[i] = a[i]
        /\ \A i \in 1..Len(b) : (a \o b)[Len(a) + i] = b[i]
        /\ <<>> \o a = a /\ a \o <<>> = a /\ <<>> \in Kanas
  BY Cat DEF Kanas

\* The kana of two texts are those of the one and then of the other.
LEMMA KanaCat ==
  ASSUME NEW a \in Text, NEW b \in Text
  PROVE Kana(a \o b) = Kana(a) \o Kana(b) /\ a \o b \in Text
<1>1. a \o b \in Text /\ Len(a \o b) = Len(a) + Len(b)
  BY Cat DEF Text
<1>2. /\ Kana(a) \in Kanas /\ Len(Kana(a)) = Len(a) /\ \A i \in 1..Len(a) : Kana(a)[i] = a[i][1]
  BY KanaIs
<1>3. /\ Kana(b) \in Kanas /\ Len(Kana(b)) = Len(b) /\ \A i \in 1..Len(b) : Kana(b)[i] = b[i][1]
  BY KanaIs
<1>4. /\ Kana(a \o b) \in Kanas /\ Len(Kana(a \o b)) = Len(a) + Len(b)
      /\ \A i \in 1..Len(a) + Len(b) : Kana(a \o b)[i] = (a \o b)[i][1]
  BY <1>1, KanaIs
<1>5. Kana(a) \o Kana(b) \in Kanas /\ Len(Kana(a) \o Kana(b)) = Len(a) + Len(b)
  BY <1>2, <1>3, KanasCat
<1>6. Len(a) \in Nat /\ Len(b) \in Nat
  BY SeqIs DEF Text
<1>7. ASSUME NEW i \in 1..Len(a) + Len(b) PROVE Kana(a \o b)[i] = (Kana(a) \o Kana(b))[i]
  <2>1. CASE i <= Len(a)
    <3>1. i \in 1..Len(a) /\ i \in 1..Len(Kana(a))
      BY <2>1, <1>6, <1>2
    <3>2. (Kana(a) \o Kana(b))[i] = Kana(a)[i]
      BY <3>1, <1>2, <1>3, Cat DEF Kanas
    <3>3. (a \o b)[i] = a[i]
      BY <3>1, Cat DEF Text
    <3> QED
      BY <3>1, <3>2, <3>3, <1>2, <1>4
  <2>2. CASE i > Len(a)
    <3> DEFINE j == i - Len(a)
    <3>1. j \in 1..Len(b) /\ j \in 1..Len(Kana(b)) /\ i = Len(a) + j
      BY <2>2, <1>6, <1>3
    <3> HIDE DEF j
    <3>2. (Kana(a) \o Kana(b))[Len(Kana(a)) + j] = Kana(b)[j]
      BY <3>1, <1>2, <1>3, Cat DEF Kanas
    <3>3. (a \o b)[Len(a) + j] = b[j]
      BY <3>1, Cat DEF Text
    <3> QED
      BY <3>1, <3>2, <3>3, <1>2, <1>3, <1>4
  <2>3. i <= Len(a) \/ i > Len(a)
    BY <1>6
  <2> QED
    BY ONLY <2>1, <2>2, <2>3
<1> QED
  BY <1>1, <1>4, <1>5, <1>7, SeqEqual DEF Kanas

\* Two runs of kana are spelled one after the other.
LEMMA SpelledCat ==
  ASSUME NEW x \in Kanas, NEW y \in Kanas, NEW k \in Nat
  PROVE Spelled(k, x \o y) = Spelled(k, x) \o Spelled(k, y)
<1>1. x \o y \in Kanas /\ Len(x \o y) = Len(x) + Len(y)
  BY Cat DEF Kanas
<1>2. /\ Spelled(k, x) \in Text /\ Len(Spelled(k, x)) = Len(x)
      /\ \A i \in 1..Len(x) : Spelled(k, x)[i] = <<x[i], k>>
  BY SpelledIs
<1>3. /\ Spelled(k, y) \in Text /\ Len(Spelled(k, y)) = Len(y)
      /\ \A i \in 1..Len(y) : Spelled(k, y)[i] = <<y[i], k>>
  BY SpelledIs
<1>4. /\ Spelled(k, x \o y) \in Text /\ Len(Spelled(k, x \o y)) = Len(x) + Len(y)
      /\ \A i \in 1..Len(x) + Len(y) : Spelled(k, x \o y)[i] = <<(x \o y)[i], k>>
  BY <1>1, SpelledIs
<1>5. Spelled(k, x) \o Spelled(k, y) \in Text
        /\ Len(Spelled(k, x) \o Spelled(k, y)) = Len(x) + Len(y)
  BY <1>2, <1>3, TextCat
<1>6. Len(x) \in Nat /\ Len(y) \in Nat
  BY SeqIs DEF Kanas
<1>7. ASSUME NEW i \in 1..Len(x) + Len(y)
             PROVE Spelled(k, x \o y)[i] = (Spelled(k, x) \o Spelled(k, y))[i]
  <2>1. CASE i <= Len(x)
    <3>1. i \in 1..Len(x) /\ i \in 1..Len(Spelled(k, x))
      BY <2>1, <1>6, <1>2
    <3>2. (Spelled(k, x) \o Spelled(k, y))[i] = Spelled(k, x)[i]
      BY <3>1, <1>2, <1>3, Cat DEF Text
    <3>3. (x \o y)[i] = x[i]
      BY <3>1, Cat DEF Kanas
    <3> QED
      BY <3>1, <3>2, <3>3, <1>2, <1>4
  <2>2. CASE i > Len(x)
    <3> DEFINE j == i - Len(x)
    <3>1. j \in 1..Len(y) /\ j \in 1..Len(Spelled(k, y)) /\ i = Len(x) + j
      BY <2>2, <1>6, <1>3
    <3> HIDE DEF j
    <3>2. (Spelled(k, x) \o Spelled(k, y))[Len(Spelled(k, x)) + j] = Spelled(k, y)[j]
      BY <3>1, <1>2, <1>3, Cat DEF Text
    <3>3. (x \o y)[Len(x) + j] = y[j]
      BY <3>1, Cat DEF Kanas
    <3> QED
      BY <3>1, <3>2, <3>3, <1>2, <1>3, <1>4
  <2>3. i <= Len(x) \/ i > Len(x)
    BY <1>6
  <2> QED
    BY ONLY <2>1, <2>2, <2>3
<1> QED
  BY <1>4, <1>5, <1>7, SeqEqual DEF Text

\* So is the rear of a run.
LEMMA SpelledRear ==
  ASSUME NEW x \in Kanas, NEW k \in Nat, NEW m \in 0..Len(x)
  PROVE Spelled(k, Rear(m, x)) = Rear(m, Spelled(k, x))
<1>1. x = Take(Len(x) - m, x) \o Rear(m, x) /\ Take(Len(x) - m, x) \in Kanas
      /\ Rear(m, x) \in Kanas /\ Len(Rear(m, x)) = m
  BY RearSplit, RearIs DEF Kanas
<1> DEFINE a == Take(Len(x) - m, x)  b == Rear(m, x)
<1>2. x = a \o b /\ a \in Kanas /\ b \in Kanas /\ Len(b) = m
  BY <1>1
<1> HIDE DEF a, b
<1>3. Spelled(k, x) = Spelled(k, a) \o Spelled(k, b)
  BY <1>2, SpelledCat
<1>4. Spelled(k, a) \in Text /\ Spelled(k, b) \in Text /\ Len(Spelled(k, b)) = m
  BY <1>2, SpelledIs
<1>5. Rear(m, Spelled(k, x)) = Spelled(k, b)
  BY <1>3, <1>4, RearOfCat DEF Text
<1> QED
  BY <1>5 DEF b

\* A text of plain letters is its kana, spelled plainly.
LEMMA PlainIs ==
  ASSUME NEW t \in Text
  PROVE Plain(t) <=> t = Spelled(0, Kana(t))
<1>1. Kana(t) \in Kanas /\ Len(Kana(t)) = Len(t) /\ \A i \in 1..Len(t) : Kana(t)[i] = t[i][1]
  BY KanaIs
<1>2. /\ Spelled(0, Kana(t)) \in Text /\ Len(Spelled(0, Kana(t))) = Len(t)
      /\ \A i \in 1..Len(t) : Spelled(0, Kana(t))[i] = <<Kana(t)[i], 0>>
  BY <1>1, SpelledIs
<1>3. Len(t) \in Nat /\ DOMAIN t = 1..Len(t) /\ \A i \in 1..Len(t) : t[i] \in Letters \X Nat
  BY SeqIs DEF Text
<1>4. ASSUME Plain(t) PROVE t = Spelled(0, Kana(t))
  <2>1. \A i \in 1..Len(t) : t[i] = Spelled(0, Kana(t))[i]
    BY <1>1, <1>2, <1>3, <1>4 DEF Plain
  <2> QED
    BY <2>1, <1>2, SeqEqual DEF Text
<1>5. ASSUME t = Spelled(0, Kana(t)) PROVE Plain(t)
  BY <1>2, <1>3, <1>5 DEF Plain
<1> QED
  BY <1>4, <1>5

\* Kana spelled plainly are plain.
LEMMA PlainSpelled ==
  ASSUME NEW x \in Kanas
  PROVE Plain(Spelled(0, x))
  BY SpelledIs, KanaSpelled, PlainIs

\* Two texts are plain together when each is.
LEMMA PlainCat ==
  ASSUME NEW a \in Text, NEW b \in Text
  PROVE Plain(a \o b) <=> Plain(a) /\ Plain(b)
<1>1. Kana(a) \in Kanas /\ Kana(b) \in Kanas /\ Kana(a \o b) = Kana(a) \o Kana(b) /\ a \o b \in Text
      /\ Len(Kana(a)) = Len(a) /\ Len(Kana(b)) = Len(b)
  BY KanaIs, KanaCat
<1>2. Spelled(0, Kana(a \o b)) = Spelled(0, Kana(a)) \o Spelled(0, Kana(b))
  BY <1>1, SpelledCat
<1>3. Spelled(0, Kana(a)) \in Text /\ Spelled(0, Kana(b)) \in Text
        /\ Len(Spelled(0, Kana(a))) = Len(a)
  BY <1>1, SpelledIs
<1>4. ASSUME Plain(a \o b) PROVE Plain(a) /\ Plain(b)
  <2>1. a \o b = Spelled(0, Kana(a)) \o Spelled(0, Kana(b))
    BY <1>1, <1>2, <1>4, PlainIs
  <2>2. a = Spelled(0, Kana(a)) /\ b = Spelled(0, Kana(b))
    BY <2>1, <1>3, CatSplitLeft DEF Text
  <2> QED
    BY <2>2, PlainIs
<1>5. ASSUME Plain(a), Plain(b) PROVE Plain(a \o b)
  <2>1. a = Spelled(0, Kana(a)) /\ b = Spelled(0, Kana(b))
    BY <1>5, PlainIs
  <2> QED
    BY <1>1, <1>2, <2>1, PlainIs
<1> QED
  BY <1>4, <1>5

\* The keys of kana: Keys of them for each.
LEMMA KeysOfIs ==
  ASSUME Keys \in Nat \ {0}, NEW x \in Kanas
  PROVE KeysOf(x) \in Text /\ Len(KeysOf(x)) = Keys * Len(x)
        /\ \A i \in 1..Keys * Len(x) : KeysOf(x)[i]
           = <<x[(i - 1) \div Keys + 1], 2 + ((i - 1) % Keys)>>
<1>1. Len(x) \in Nat /\ \A i \in 1..Len(x) : x[i] \in Letters
  BY SeqIs DEF Kanas
<1>2. Keys * Len(x) \in Nat
  BY <1>1, Times
<1>3. ASSUME NEW i \in 1..Keys * Len(x)
      PROVE <<x[(i - 1) \div Keys + 1], 2 + ((i - 1) % Keys)>> \in Letters \X Nat
  <2> DEFINE a == i - 1  n == Len(x)  q == a \div Keys  r == a % Keys
  <2>1. a \in 0..Keys*n - 1 /\ n \in Nat
    BY <1>1, <1>2
  <2> HIDE DEF a, n
  <2>2. q \in 0..n-1 /\ r \in 0..Keys-1
    BY <2>1, DivBound
  <2> HIDE DEF q, r
  <2>3. q + 1 \in 1..n /\ 2 + r \in Nat
    BY <2>1, <2>2
  <2>4. x[q + 1] \in Letters
    BY <2>3, <1>1 DEF n
  <2>5. <<x[q + 1], 2 + r>> \in Letters \X Nat
    BY <2>3, <2>4
  <2> QED
    BY <2>5 DEF q, r, a
<1> DEFINE f(i) == <<x[(i - 1) \div Keys + 1], 2 + ((i - 1) % Keys)>>  k == Keys * Len(x)
<1>4. \A i \in 1..k : f(i) \in Letters \X Nat
  BY <1>3
<1>5. KeysOf(x) = [i \in 1..k |-> f(i)]
  BY DEF KeysOf
<1>6. k \in Nat
  BY <1>2
<1> HIDE DEF f, k
<1>7. KeysOf(x) \in Seq(Letters \X Nat) /\ Len(KeysOf(x)) = k /\ \A i \in 1..k : KeysOf(x)[i] = f(i)
  BY <1>4, <1>5, <1>6, IsASeq, LenProperties
<1> QED
  BY <1>7 DEF f, k, Text

\* Two runs of kana are typed one after the other.
LEMMA KeysOfCat ==
  ASSUME Keys \in Nat \ {0}, NEW x \in Kanas, NEW y \in Kanas
  PROVE KeysOf(x \o y) = KeysOf(x) \o KeysOf(y)
<1> DEFINE n == Len(x)  m == Len(y)
<1>1. n \in Nat /\ m \in Nat /\ x \o y \in Kanas /\ Len(x \o y) = n + m
  BY Cat, SeqIs DEF Kanas
<1>2. /\ KeysOf(x) \in Text /\ Len(KeysOf(x)) = Keys * n
      /\ \A i \in 1..Keys * n : KeysOf(x)[i] = <<x[(i - 1) \div Keys + 1], 2 + ((i - 1) % Keys)>>
  BY KeysOfIs
<1>3. /\ KeysOf(y) \in Text /\ Len(KeysOf(y)) = Keys * m
      /\ \A i \in 1..Keys * m : KeysOf(y)[i] = <<y[(i - 1) \div Keys + 1], 2 + ((i - 1) % Keys)>>
  BY KeysOfIs
<1>4. /\ KeysOf(x \o y) \in Text /\ Len(KeysOf(x \o y)) = Keys * (n + m)
      /\ \A i \in 1..Keys * (n + m) : KeysOf(x \o y)[i]
         = <<(x \o y)[(i - 1) \div Keys + 1], 2 + ((i - 1) % Keys)>>
  BY <1>1, KeysOfIs
<1>4a. (\A i \in 1..n : (x \o y)[i] = x[i]) /\ (\A i \in 1..m : (x \o y)[n + i] = y[i])
  BY Cat DEF Kanas
<1> HIDE DEF n, m
<1>5. Keys * n \in Nat /\ Keys * m \in Nat /\ Keys * (n + m) = Keys * n + Keys * m
  BY <1>1, Times
<1> DEFINE kn == Keys * n  km == Keys * m
<1>6. kn \in Nat /\ km \in Nat /\ Keys * (n + m) = kn + km
  BY <1>5
<1>7. KeysOf(x) \o KeysOf(y) \in Text /\ Len(KeysOf(x) \o KeysOf(y)) = kn + km
  BY <1>2, <1>3, TextCat
<1>8. ASSUME NEW i \in 1..kn+km PROVE KeysOf(x \o y)[i] = (KeysOf(x) \o KeysOf(y))[i]
  <2>1. CASE i <= kn
    <3>1. i \in 1..kn /\ i - 1 \in 0..Keys * n - 1
      BY <1>6, <2>1
    <3>2. (KeysOf(x) \o KeysOf(y))[i] = KeysOf(x)[i]
      BY <3>1, <1>2, <1>3, Cat DEF Text
    <3> DEFINE q == (i - 1) \div Keys
    <3>3. q \in 0..n-1
      BY <3>1, <1>1, DivBound
    <3>4. (x \o y)[q + 1] = x[q + 1]
      <4> HIDE DEF q
      <4>1. q + 1 \in 1..n
        BY <3>3, <1>1
      <4> QED
        BY <4>1, <1>4a
    <3>5. KeysOf(x)[i] = <<x[q + 1], 2 + ((i - 1) % Keys)>>
      BY <3>1, <1>2
    <3>6. KeysOf(x \o y)[i] = <<(x \o y)[q + 1], 2 + ((i - 1) % Keys)>>
      BY <1>4, <1>6
    <3> QED
      BY <3>2, <3>4, <3>5, <3>6
  <2>2. CASE i > kn
    <3> DEFINE j == i - kn
    <3>1. j \in 1..km /\ i = kn + j /\ j - 1 \in 0..Keys * m - 1 /\ j - 1 \in Nat
            /\ i - 1 = (j - 1) + Keys * n
      BY <1>6, <2>2
    <3> HIDE DEF j
    <3>2. (KeysOf(x) \o KeysOf(y))[Len(KeysOf(x)) + j] = KeysOf(y)[j]
      <4>1. j \in 1..Len(KeysOf(y))
        BY <3>1, <1>3
      <4> QED
        BY <4>1, <1>2, <1>3, TextCat
    <3> DEFINE q == (j - 1) \div Keys  r == (j - 1) % Keys
    <3>3. q \in 0..m-1
      BY <3>1, <1>1, DivBound
    <3>4. (i - 1) \div Keys = q + n /\ (i - 1) % Keys = r
      <4> DEFINE a == j - 1
      <4>1. a \in Nat /\ i - 1 = a + Keys * n
        BY <3>1
      <4> HIDE DEF a
      <4>2. (a + Keys * n) \div Keys = (a \div Keys) + n /\ (a + Keys * n) % Keys = a % Keys
        BY <4>1, <1>1, DivAdd
      <4> QED
        BY <4>1, <4>2 DEF a
    <3>5. KeysOf(y)[j] = <<y[q + 1], 2 + r>>
      BY <3>1, <1>3
    <3>6. KeysOf(x \o y)[i] = <<(x \o y)[(i - 1) \div Keys + 1], 2 + ((i - 1) % Keys)>>
      BY <1>4, <1>6
    <3> HIDE DEF q, r
    <3>7. (x \o y)[n + (q + 1)] = y[q + 1]
      <4>1. q + 1 \in 1..m
        BY <3>3, <1>1
      <4> QED
        BY <4>1, <1>4a
    <3>8. q + n + 1 = n + (q + 1)
      BY <3>3, <1>1
    <3>9. KeysOf(x \o y)[i] = <<(x \o y)[n + (q + 1)], 2 + r>>
      BY <3>4, <3>6, <3>8
    <3> QED
      BY <3>1, <3>2, <3>5, <3>7, <3>9, <1>2
  <2>3. i <= kn \/ i > kn
    BY <1>6
  <2> QED
    BY ONLY <2>1, <2>2, <2>3
<1>9. Len(KeysOf(x \o y)) = kn + km
  BY <1>4, <1>6
<1> QED
  BY <1>4, <1>7, <1>8, <1>9, SeqEqual DEF Text

\* The keys of the rear of a run are the rear of its keys.
LEMMA KeysOfRear ==
  ASSUME Keys \in Nat \ {0}, NEW x \in Kanas, NEW m \in 0..Len(x)
  PROVE Rear(Keys * m, KeysOf(x)) = KeysOf(Rear(m, x))
<1> DEFINE a == Take(Len(x) - m, x)  b == Rear(m, x)
<1>1. x = a \o b /\ a \in Kanas /\ b \in Kanas /\ Len(b) = m
  BY RearSplit, RearIs DEF Kanas
<1> HIDE DEF a, b
<1>2. KeysOf(x) = KeysOf(a) \o KeysOf(b)
  BY <1>1, KeysOfCat
<1>3. KeysOf(a) \in Text /\ KeysOf(b) \in Text /\ Len(KeysOf(b)) = Keys * m
  BY <1>1, KeysOfIs
<1>4. Rear(Keys * m, KeysOf(x)) = KeysOf(b)
  BY <1>2, <1>3, RearOfCat DEF Text
<1> QED
  BY <1>4 DEF b

-----------------------------------------------------------------------------
(* Frames, and what is told under one.                                     *)

\* The types of the model's records; ClauseNavigation's TypeOK says the same of
\* its variables.
Items      == [text : Text, rest : Text, count : Nat]

Views      == [reading : Text, items : Seq(Items)]

Clauses    == [fixed : Text, preview : Text, suffix : Text, raw : Text, reading : Text,
               count : Nat, sel : Nat, view : Views, derived : BOOLEAN,
               remainder : BOOLEAN, neighbor : BOOLEAN, group : Nat]

Futures    == [preview : Text, suffix : Text, raw : Text, reading : Text,
               conservative : BOOLEAN, count : Nat, sel : Nat, text : Text, rest : Text,
               view : Views, derived : BOOLEAN, remainder : BOOLEAN, neighbor : BOOLEAN,
               group : Nat]

Places     == [input : Kanas, cursor : Nat]

Servers    == [input : Kanas, cursor : Nat, stack : Seq(Places)]

Effects    == {"skipped", "applied", "reset"}

Bundles    == [clause : Clauses, snaps : Seq(Clauses), futures : Seq(Futures),
               server : Servers, effect : Effects]

Frames     == [whole : Kanas, keys : Text, extra : Nat, base : Kanas]

\* A composition that the clauses may be told against.
Frame(p) ==
  /\ p \in Frames /\ Keys \in Nat \ {0}
  /\ Len(p.keys) = Keys * Len(p.whole) + p.extra
  /\ Len(p.whole) <= MaxLen
  /\ Keys = 1 => p.extra = 0

\* The text is plain except for its last cut letters.
PlainBefore(cut, text) == \A j \in 1..Len(text) : j + cut <= Len(text) => text[j][2] = 0

\* A candidate tells the last m kana of the composition: its text and its rest
\* are those kana, and its count of keys is that of its text, or more where it
\* leaves nothing over.
Tells(item, m, p) ==
  /\ item.text # <<>>
  /\ Kana(item.text) \o Kana(item.rest) = Rear(m, p.whole)
  /\ Keys * Len(item.text) <= item.count /\ item.count <= Keys * m + p.extra
  /\ item.rest # <<>> => item.count = Keys * Len(item.text)

\* The candidates of an answer for the last m kana.
ViewPart(view, m, p) ==
  /\ view.reading = Spelled(0, Rear(m, p.whole))
  /\ \A i \in DOMAIN view.items : Tells(view.items[i], m, p)
  /\ \A i, j \in DOMAIN view.items : i # j => view.items[i].text # view.items[j].text

\* What the candidates leave is kana, but for the last `cut` letters.
RestsPlain(view, cut) == \A i \in DOMAIN view.items : PlainBefore(cut, view.items[i].rest)

\* A clause, or one remembered ahead, but for its suffix.
Base(x, p) ==
  /\ Len(x.reading) \in 1..Len(p.whole)
  /\ x.reading = Spelled(0, Rear(Len(x.reading), p.whole))
  /\ x.raw = Rear(Keys * Len(x.reading) + p.extra, p.keys)
  /\ ViewPart(x.view, Len(x.reading), p)
  /\ x.sel \in DOMAIN x.view.items
  /\ x.count = x.view.items[x.sel].count
  /\ x.group # 0 => x.derived

\* The suffix is the selected candidate's rest, and no candidate's rest has
\* another spelling in front of it.
Ends(x) ==
  /\ Kana(x.suffix) = Kana(x.view.items[x.sel].rest)
  /\ RestsPlain(x.view, Len(x.suffix))

\* The clause reads a tail of the composition; what it shows is its prefix and
\* its candidate, and the prefix and the tail are the composition.
ClauseBase(c, p) ==
  /\ c \in Clauses /\ Base(c, p)
  /\ c.preview = c.fixed \o c.view.items[c.sel].text
  /\ p.base \o (Kana(c.fixed) \o Kana(c.reading)) = p.whole

\* A clause of the composition.
ClausePart(c, p) == ClauseBase(c, p) /\ Ends(c)

\* A clause ahead of the composition's current one.
FuturePart(f, p) ==
  /\ f \in Futures /\ Base(f, p) /\ Ends(f)
  /\ f.preview = f.text
  /\ f.text = f.view.items[f.sel].text
  /\ f.rest = f.view.items[f.sel].rest
  /\ f.conservative => f.remainder

\* Every candidate of the view reads to the end.
Ended(view) == \A i \in DOMAIN view.items : view.items[i].rest = <<>>

\* f is the clause ahead of c.
Chain(c, f) ==
  /\ Len(f.reading) < Len(c.reading)
  /\ c.suffix # <<>> => Len(f.reading) = Len(c.suffix)
  /\ c.suffix = <<>> => Ended(c.view)
  /\ c.remainder => c.suffix # <<>>

\* The sizes of a tail of m kana of a frame, and of the keys that go with it.
LEMMA NumIs ==
  ASSUME NEW p, Frame(p), NEW m \in 0..Len(p.whole)
  PROVE /\ Keys \in Nat \ {0} /\ Keys * m \in Nat /\ p.extra \in Nat
           /\ Keys * m + p.extra \in 0..Len(p.keys)
        /\ p.whole \in Kanas /\ p.keys \in Text /\ p.base \in Kanas /\ Len(p.whole) \in Nat
        /\ Rear(m, p.whole) \in Kanas /\ Len(Rear(m, p.whole)) = m
        /\ Rear(Keys * m + p.extra, p.keys) \in Text
        /\ Len(Rear(Keys * m + p.extra, p.keys)) = Keys * m + p.extra
        /\ Spelled(0, Rear(m, p.whole)) \in Text /\ Len(Spelled(0, Rear(m, p.whole))) = m
        /\ Kana(Spelled(0, Rear(m, p.whole))) = Rear(m, p.whole)
<1>1. p \in Frames /\ Keys \in Nat \ {0} /\ Len(p.keys) = Keys * Len(p.whole) + p.extra
  BY DEF Frame
<1>2. p.whole \in Kanas /\ p.keys \in Text /\ p.base \in Kanas /\ p.extra \in Nat
  BY <1>1 DEF Frames
<1>3. Len(p.whole) \in Nat /\ Len(p.keys) \in Nat
  BY <1>2, SeqIs DEF Kanas, Text
<1>4. Keys * m \in Nat /\ Keys * m <= Keys * Len(p.whole) /\ Keys * Len(p.whole) \in Nat
  BY <1>1, <1>3, Times
<1>5. Keys * m + p.extra \in 0..Len(p.keys)
  BY <1>1, <1>2, <1>4
<1>6. Rear(m, p.whole) \in Kanas /\ Len(Rear(m, p.whole)) = m
  BY <1>2, RearIs DEF Kanas
<1> DEFINE k == Keys * m + p.extra
<1>7. k \in 0..Len(p.keys)
  BY <1>5
<1> HIDE DEF k
<1>8. Rear(k, p.keys) \in Text /\ Len(Rear(k, p.keys)) = k
  BY <1>2, <1>7, RearIs DEF Text
<1>9. Spelled(0, Rear(m, p.whole)) \in Text /\ Len(Spelled(0, Rear(m, p.whole))) = m
      /\ Kana(Spelled(0, Rear(m, p.whole))) = Rear(m, p.whole)
  BY <1>6, SpelledIs, KanaSpelled
<1> QED
  BY <1>1, <1>2, <1>3, <1>4, <1>5, <1>6, <1>8, <1>9 DEF k

\* Lengths of the parts of a clause.
LEMMA TellsIs ==
  ASSUME NEW p, Frame(p), NEW m \in 0..Len(p.whole), NEW item \in Items, Tells(item, m, p)
  PROVE /\ Len(item.text) \in 1..m /\ Len(item.rest) \in 0..m-1
        /\ Len(item.text) + Len(item.rest) = m
        /\ Kana(item.rest) = Rear(Len(item.rest), p.whole)
        /\ Kana(item.text \o item.rest) = Rear(m, p.whole)
        /\ item.count \in 1..Keys * m + p.extra
        /\ item.rest # <<>> => item.count < Keys * m
        /\ item.rest = <<>> => item.count >= Keys * m
<1>1. item.text \in Text /\ item.rest \in Text /\ item.count \in Nat
  BY DEF Items
<1>2. Len(item.text) \in Nat /\ Len(item.rest) \in Nat /\ (item.text = <<>> <=> Len(item.text) = 0)
      /\ (item.rest = <<>> <=> Len(item.rest) = 0)
  BY <1>1, SeqIs DEF Text
<1>3. Kana(item.text) \in Kanas /\ Kana(item.rest) \in Kanas
      /\ Len(Kana(item.text)) = Len(item.text) /\ Len(Kana(item.rest)) = Len(item.rest)
  BY <1>1, KanaIs
<1>4. Rear(m, p.whole) \in Kanas /\ Len(Rear(m, p.whole)) = m /\ p.whole \in Kanas
      /\ Keys \in Nat \ {0} /\ p.extra \in Nat /\ Len(p.whole) \in Nat
  BY NumIs
<1>5. Kana(item.text) \o Kana(item.rest) = Rear(m, p.whole) /\ item.text # <<>>
      /\ Keys * Len(item.text) <= item.count /\ item.count <= Keys * m + p.extra
      /\ (item.rest # <<>> => item.count = Keys * Len(item.text))
  BY DEF Tells
<1>6. Len(Kana(item.text) \o Kana(item.rest)) = Len(item.text) + Len(item.rest)
  <2>1. Len(Kana(item.text) \o Kana(item.rest)) = Len(Kana(item.text)) + Len(Kana(item.rest))
    BY <1>3, KanasCat
  <2> QED
    BY <2>1, <1>3
<1>7. Len(item.text) + Len(item.rest) = m
  BY <1>4, <1>5, <1>6
<1>0. m \in Nat
  BY <1>4
<1>8. Len(item.text) \in 1..m /\ Len(item.rest) \in 0..m-1
  <2> DEFINE t == Len(item.text)  r == Len(item.rest)
  <2>1. t \in Nat /\ r \in Nat /\ t # 0 /\ t + r = m
    BY <1>2, <1>5, <1>7
  <2> HIDE DEF t, r
  <2>2. t \in 1..m /\ r \in 0..m-1
    BY <2>1, <1>0
  <2> QED
    BY <2>2 DEF t, r
<1>9. Kana(item.rest) = Rear(Len(item.rest), p.whole)
  <2> DEFINE a == Kana(item.text)  b == Kana(item.rest)
  <2>0. a \in Kanas /\ b \in Kanas /\ Len(b) = Len(item.rest)
    BY <1>3
  <2> HIDE DEF a, b
  <2>1. Rear(Len(b), a \o b) = b
    BY <2>0, RearOfCat DEF Kanas
  <2>2. Len(item.rest) \in 0..m
    BY <1>0, <1>8
  <2>3. Rear(Len(item.rest), Rear(m, p.whole)) = Rear(Len(item.rest), p.whole)
    BY <1>4, <2>2, RearOfRear DEF Kanas
  <2> QED
    BY <2>0, <2>1, <2>3, <1>5 DEF a, b
<1>10. Kana(item.text \o item.rest) = Rear(m, p.whole)
  BY <1>1, <1>5, KanaCat
<1>11. item.count \in 1..Keys * m + p.extra /\ (item.rest # <<>> => item.count < Keys * m)
       /\ (item.rest = <<>> => item.count >= Keys * m)
  <2> DEFINE t == Len(item.text)
  <2> DEFINE r == Len(item.rest)
  <2>0. t \in 1..m /\ r \in 0..m-1 /\ t + r = m /\ (item.rest = <<>> <=> r = 0)
    BY <1>2, <1>7, <1>8
  <2> HIDE DEF t, r
  <2>1. t \in Nat /\ t >= 1 /\ t <= m /\ (item.rest # <<>> => t < m) /\ (item.rest = <<>> => t = m)
    BY <2>0, <1>0
  <2>2. Keys * t <= item.count /\ (item.rest # <<>> => item.count = Keys * t)
    BY <1>5 DEF t
  <2>3. t <= Keys * t /\ (t < m => Keys * t < Keys * m) /\ Keys * t \in Nat /\ Keys * m \in Nat
    BY <1>0, <1>4, <2>1, Times
  <2>4. item.count \in Nat /\ p.extra \in Nat /\ item.count <= Keys * m + p.extra
    BY <1>1, <1>4, <1>5
  <2> DEFINE kt == Keys * t  km == Keys * m  q == item.count  x == p.extra
  <2>5. kt \in Nat /\ km \in Nat /\ q \in Nat /\ x \in Nat /\ t <= kt /\ kt <= q /\ q <= km + x
        /\ (t < m => kt < km) /\ (item.rest # <<>> => q = kt) /\ (t = m => kt = km)
    BY <2>2, <2>3, <2>4
  <2> HIDE DEF kt, km, q, x
  <2>6. q \in 1..km + x /\ (item.rest # <<>> => q < km) /\ (item.rest = <<>> => q >= km)
    BY <2>1, <2>5
  <2> QED
    BY <2>6 DEF kt, km, q, x
<1> QED
  BY <1>7, <1>8, <1>9, <1>10, <1>11

\* A candidate made of n kana and the rest, both spelled as kana or the first converted.
LEMMA FirstOfIs ==
  ASSUME NEW p, Frame(p), NEW m \in 1..Len(p.whole), NEW n \in 1..m, NEW k \in {0, 1}
  PROVE /\ FirstOf(n, Rear(m, p.whole), k) \in Items
        /\ Tells(FirstOf(n, Rear(m, p.whole), k), m, p)
        /\ FirstOf(n, Rear(m, p.whole), k).text = Spelled(k, Take(n, Rear(m, p.whole)))
        /\ Len(FirstOf(n, Rear(m, p.whole), k).text) = n
        /\ FirstOf(n, Rear(m, p.whole), k).rest = Spelled(0, Drop(n, Rear(m, p.whole)))
        /\ Plain(FirstOf(n, Rear(m, p.whole), k).rest)
        /\ FirstOf(n, Rear(m, p.whole), k).count = Keys * n
<1> DEFINE s == Rear(m, p.whole)  i == FirstOf(n, s, k)
<1>0. m \in 0..Len(p.whole) /\ Len(p.whole) \in Nat
  BY NumIs, SeqIs DEF Frame, Frames, Kanas
<1>1. s \in Kanas /\ Len(s) = m /\ Keys \in Nat \ {0} /\ p.extra \in Nat
  BY <1>0, NumIs
<1> HIDE DEF s
<1>2. n \in Nat /\ n <= Len(s) /\ k \in Nat
  BY <1>1
<1>3. Take(n, s) \in Kanas /\ Drop(n, s) \in Kanas /\ Len(Take(n, s)) = n /\ Len(Drop(n, s)) = m - n
      /\ Take(n, s) \o Drop(n, s) = s
  BY <1>1, <1>2, TakeIs, DropIs, TakeDrop DEF Kanas
<1>4. Spelled(k, Take(n, s)) \in Text /\ Len(Spelled(k, Take(n, s))) = n
      /\ Kana(Spelled(k, Take(n, s))) = Take(n, s)
  BY <1>2, <1>3, SpelledIs, KanaSpelled
<1>5. Spelled(0, Drop(n, s)) \in Text /\ Kana(Spelled(0, Drop(n, s))) = Drop(n, s)
      /\ Plain(Spelled(0, Drop(n, s)))
  BY <1>3, SpelledIs, KanaSpelled, PlainSpelled
<1>6. i.text = Spelled(k, Take(n, s)) /\ i.rest = Spelled(0, Drop(n, s)) /\ i.count = Keys * n
  BY DEF FirstOf, Item
<1>7. Keys * n \in Nat /\ Keys * m \in Nat /\ Keys * n <= Keys * m
  BY <1>1, Times
<1>8. i \in Items
  BY <1>4, <1>5, <1>7 DEF FirstOf, Item, Items
<1> HIDE DEF i
<1>9. i.text # <<>>
  BY <1>4, <1>6, SeqIs DEF Text
<1>10. Kana(i.text) \o Kana(i.rest) = s
  BY <1>3, <1>4, <1>5, <1>6
<1>11. Tells(i, m, p)
  <2>1. Kana(i.text) \o Kana(i.rest) = Rear(m, p.whole)
    BY <1>10 DEF s
  <2>2. Len(i.text) = n /\ i.count = Keys * n
    BY <1>4, <1>6
  <2>3. Keys * n \in Nat /\ Keys * m + p.extra \in Nat /\ Keys * n <= Keys * m + p.extra
    BY <1>1, <1>7
  <2> QED
    BY <1>9, <2>1, <2>2, <2>3 DEF Tells
<1> QED
  BY <1>4, <1>5, <1>6, <1>8, <1>11 DEF i, s

\* A plain text is plain before any cut.
LEMMA PlainAnyCut ==
  ASSUME NEW t \in Text, NEW cut \in Nat, Plain(t)
  PROVE PlainBefore(cut, t)
  BY SeqIs DEF Plain, PlainBefore, Text

\* Plain before no cut is plain.
LEMMA PlainNoCut ==
  ASSUME NEW t \in Text
  PROVE PlainBefore(0, t) <=> Plain(t)
  BY SeqIs DEF Plain, PlainBefore, Text

\* A nonempty set of naturals has a least member.
LEMMA MinIs ==
  ASSUME NEW S \in SUBSET Nat, S # {}
  PROVE Min(S) \in S /\ \A y \in S : Min(S) <= y
<1>1. \E x \in S : \A y \in S : ~(y < x)
  <2>1. PICK x \in S : \A y \in Nat : <<y, x>> \in OpToRel(<, Nat) => y \notin S
    BY NatLessThanWellFounded, WFMin
  <2> QED
    BY <2>1 DEF OpToRel
<1>2. \E x \in S : \A y \in S : x <= y
  BY <1>1
<1> QED
  BY <1>2 DEF Min

\* A bounded one has a greatest.
LEMMA MaxIs ==
  ASSUME NEW N \in Nat, NEW S \in SUBSET (0..N), S # {}
  PROVE Max(S) \in S /\ \A y \in S : Max(S) >= y
<1> DEFINE T == {N - x : x \in S}
<1>1. T \in SUBSET Nat /\ T # {}
  <2>1. \A x \in S : N - x \in Nat
    OBVIOUS
  <2>2. PICK x \in S : TRUE
    OBVIOUS
  <2> QED
    BY <2>1, <2>2
<1>2. Min(T) \in T /\ \A y \in T : Min(T) <= y
  BY <1>1, MinIs
<1>3. \E x \in S : \A y \in S : x >= y
  <2>1. PICK x \in S : Min(T) = N - x
    BY <1>2
  <2>2. \A y \in S : N - x <= N - y
    BY <1>2, <2>1
  <2> QED
    BY <2>1, <2>2
<1> QED
  BY <1>3 DEF Max

\* A clamped index is one of a candidate, and the index itself when it was one.
LEMMA ClampIs ==
  ASSUME NEW view \in Views, NEW i \in Int, view.items # <<>>
  PROVE Clamp(i, view) \in DOMAIN view.items /\ (i \in DOMAIN view.items => Clamp(i, view) = i)
<1>1. view.items \in Seq(Items)
  BY DEF Views
<1>2. Len(view.items) \in Nat /\ DOMAIN view.items = 1..Len(view.items) /\ Len(view.items) # 0
  BY <1>1, SeqIs
<1> QED
  BY <1>2 DEF Clamp

\* The fields of a candidate list have their types.
LEMMA ViewFields ==
  ASSUME NEW view \in Views
  PROVE /\ view.reading \in Text /\ view.items \in Seq(Items) /\ Len(view.items) \in Nat
        /\ DOMAIN view.items = 1..Len(view.items) /\ (view.items = <<>> <=> Len(view.items) = 0)
        /\ \A i \in DOMAIN view.items :
             /\ view.items[i] \in Items /\ view.items[i].text \in Text
             /\ view.items[i].rest \in Text /\ view.items[i].count \in Nat
<1>1. view.reading \in Text /\ view.items \in Seq(Items)
  BY DEF Views
<1>2. Len(view.items) \in Nat /\ DOMAIN view.items = 1..Len(view.items)
      /\ (view.items = <<>> <=> Len(view.items) = 0)
         /\ \A i \in 1..Len(view.items) : view.items[i] \in Items
  BY <1>1, SeqIs
<1> QED
  BY <1>1, <1>2 DEF Items

\* The fields of a clause have their types.
LEMMA ClauseFields ==
  ASSUME NEW c \in Clauses
  PROVE /\ c.fixed \in Text /\ c.preview \in Text /\ c.suffix \in Text /\ c.raw \in Text
        /\ c.reading \in Text /\ c.count \in Nat /\ c.sel \in Nat /\ c.view \in Views
        /\ c.derived \in BOOLEAN /\ c.remainder \in BOOLEAN /\ c.neighbor \in BOOLEAN
        /\ c.group \in Nat
  BY DEF Clauses

\* The fields of a remembered clause have their types.
LEMMA FutureFields ==
  ASSUME NEW f \in Futures
  PROVE /\ f.preview \in Text /\ f.suffix \in Text /\ f.raw \in Text /\ f.reading \in Text
        /\ f.conservative \in BOOLEAN /\ f.count \in Nat /\ f.sel \in Nat
        /\ f.text \in Text /\ f.rest \in Text /\ f.view \in Views
        /\ f.derived \in BOOLEAN /\ f.remainder \in BOOLEAN /\ f.neighbor \in BOOLEAN
        /\ f.group \in Nat
  BY DEF Futures

\* What ConverterAssumption says of one input.
LEMMA ConverterIs ==
  ASSUME NEW s \in Kanas, s # <<>>, Len(s) <= MaxLen
  PROVE /\ FirstClause(s) \in 1..Len(s)
        /\ Lengths(s) \in Seq(1..Len(s)) /\ Lengths(s) # <<>>
        /\ \A i, j \in 2..Len(Lengths(s)) : i # j => Lengths(s)[i] # Lengths(s)[j]
<1>1. Len(s) \in Nat /\ Len(s) # 0 /\ DOMAIN s = 1..Len(s) /\ \A i \in 1..Len(s) : s[i] \in Letters
  BY SeqIs DEF Kanas
<1>2. Len(s) \in 1..MaxLen
  BY <1>1, MaxLenAssumption
<1>3. s \in [1..Len(s) -> Letters]
  BY LenProperties DEF Kanas
<1> QED
  BY <1>2, <1>3, ConverterAssumption

\* GetComposedText for the last m kana.
LEMMA FullViewIs ==
  ASSUME NEW p, Frame(p), NEW m \in 1..Len(p.whole)
  PROVE LET view == FullView(Rear(m, p.whole))
        IN /\ view \in Views /\ ViewPart(view, m, p) /\ RestsPlain(view, 0)
           /\ view.items # <<>> /\ view # NoView
<1> DEFINE s == Rear(m, p.whole)  l == Lengths(s)  view == FullView(s)
           i(k) == FirstOf(l[k], s, IF k = 1 THEN 1 ELSE 0)
<1>0. m \in 0..Len(p.whole) /\ Len(p.whole) \in Nat /\ Len(p.whole) <= MaxLen /\ MaxLen \in Nat
  BY NumIs, SeqIs, MaxLenAssumption DEF Frame, Frames, Kanas
<1>1. s \in Kanas /\ Len(s) = m /\ Spelled(0, s) \in Text
  BY <1>0, NumIs
<1>2. s # <<>> /\ Len(s) <= MaxLen
  BY <1>0, <1>1, SeqIs DEF Kanas
<1>3. l \in Seq(1..m) /\ l # <<>> /\ \A a, b \in 2..Len(l) : a # b => l[a] # l[b]
  BY <1>1, <1>2, ConverterIs
<1>4. Len(l) \in Nat /\ Len(l) # 0 /\ DOMAIN l = 1..Len(l) /\ \A k \in 1..Len(l) : l[k] \in 1..m
  BY <1>3, SeqIs
<1>5. \A k \in 1..Len(l) :
        /\ i(k) \in Items /\ Tells(i(k), m, p) /\ Plain(i(k).rest) /\ Len(i(k).text) = l[k]
        /\ i(k).text = Spelled(IF k = 1 THEN 1 ELSE 0, Take(l[k], s))
  <2> TAKE k \in 1..Len(l)
  <2> DEFINE q == IF k = 1 THEN 1 ELSE 0
  <2>1. q \in {0, 1} /\ l[k] \in 1..m
    BY <1>4
  <2> HIDE DEF q, l
  <2> QED
    BY <2>1, FirstOfIs
<1>6. view = [reading |-> Spelled(0, s), items |-> [k \in 1..Len(l) |-> i(k)]]
  BY <1>2, <1>4 DEF FullView
<1> HIDE DEF i, l, view
<1>7. [k \in 1..Len(l) |-> i(k)] \in Seq(Items) /\ DOMAIN view.items = 1..Len(l)
      /\ Len([k \in 1..Len(l) |-> i(k)]) = Len(l)
      /\ \A k \in 1..Len(l) : view.items[k] = i(k)
  BY <1>4, <1>5, <1>6, IsASeq, LenProperties
<1>8. view \in Views /\ view.items # <<>>
  BY <1>1, <1>4, <1>6, <1>7, SeqIs DEF Views
<1>9. RestsPlain(view, 0)
  BY <1>5, <1>7, PlainNoCut DEF RestsPlain, Items
<1>10. \A a, b \in 1..Len(l) : a # b => i(a).text # i(b).text
  <2>1. SUFFICES ASSUME NEW a \in 1..Len(l), NEW b \in 1..Len(l), a # b, b # 1,
                        i(a).text = i(b).text
                 PROVE FALSE
    OBVIOUS
  <2>2. CASE a = 1
    <3>1. Take(l[a], s) \in Kanas /\ Take(l[b], s) \in Kanas /\ Len(Take(l[a], s)) = l[a]
          /\ Len(Take(l[b], s)) = l[b] /\ l[a] \in 1..m /\ l[b] \in 1..m
      <4>1. l[a] \in Nat /\ l[b] \in Nat /\ l[a] <= Len(s) /\ l[b] <= Len(s)
        BY <1>1, <1>4
      <4> QED
        BY <4>1, <1>1, <1>4, TakeIs DEF Kanas
    <3>2. i(a).text[1] = <<Take(l[a], s)[1], 1>> /\ i(b).text[1] = <<Take(l[b], s)[1], 0>>
      BY <1>5, <2>1, <2>2, <3>1, SpelledIs
    <3> QED
      BY <2>1, <3>2
  <2>3. CASE a # 1
    <3>1. a \in 2..Len(l) /\ b \in 2..Len(l)
      BY <1>4, <2>1, <2>3
    <3> QED
      BY <1>3, <1>5, <2>1, <3>1
  <2> QED
    BY <2>2, <2>3
<1>11. ViewPart(view, m, p)
  BY <1>5, <1>6, <1>7, <1>10 DEF ViewPart, s
<1>12. view # NoView
  BY <1>8 DEF NoView
<1> QED
  BY <1>8, <1>9, <1>11, <1>12 DEF view, s

\* GetComposedTextForCursorPrefix for the last m kana.
LEMMA PrefixViewIs ==
  ASSUME NEW p, Frame(p), NEW m \in 1..Len(p.whole), NEW cursor \in 0..m
  PROVE LET view == PrefixView(Rear(m, p.whole), cursor)
        IN /\ view \in Views /\ view # NoView /\ ViewPart(view, m, p) /\ RestsPlain(view, 0)
           /\ view.items = <<>> <=> cursor = 0
           /\ \A a, b \in DOMAIN view.items : view.items[a].rest = view.items[b].rest
<1> DEFINE s == Rear(m, p.whole)  n == FirstClause(Take(cursor, s))  view == PrefixView(s, cursor)
<1>0. m \in 0..Len(p.whole) /\ Len(p.whole) \in Nat /\ Len(p.whole) <= MaxLen /\ MaxLen \in Nat
      /\ cursor \in Nat
  BY NumIs, SeqIs, MaxLenAssumption DEF Frame, Frames, Kanas
<1>1. s \in Kanas /\ Len(s) = m /\ Spelled(0, s) \in Text /\ Len(Spelled(0, s)) = m
  BY <1>0, NumIs
<1>2. view.reading = Spelled(0, s) /\ view.reading # <<>>
  BY <1>0, <1>1, SeqIs DEF PrefixView, Text
<1>3. CASE cursor = 0
  <2>1. view = [reading |-> Spelled(0, s), items |-> <<>>]
    BY <1>3 DEF PrefixView
  <2>2. view \in Views
    BY <1>1, <2>1 DEF Views
  <2> QED
    BY <1>2, <1>3, <2>1, <2>2 DEF ViewPart, RestsPlain, NoView
<1>4. CASE cursor # 0
  <2> DEFINE t == Take(cursor, s)
  <2>1. t \in Kanas /\ Len(t) = cursor
    BY <1>0, <1>1, TakeIs DEF Kanas
  <2>2. t # <<>> /\ Len(t) <= MaxLen
    BY <1>0, <1>4, <2>1, SeqIs DEF Kanas
  <2>3. n \in 1..m
    <3>1. FirstClause(t) \in 1..cursor
      BY <2>1, <2>2, ConverterIs
    <3> QED
      BY <3>1, <1>0
  <2> HIDE DEF n
  <2> DEFINE a == FirstOf(n, s, 1)  b == FirstOf(n, s, 0)
  <2>4. view = [reading |-> Spelled(0, s), items |-> <<a, b>>]
    BY <1>4 DEF PrefixView, n
  <2>5. a \in Items /\ Tells(a, m, p) /\ Plain(a.rest) /\ a.rest = Spelled(0, Drop(n, s))
        /\ a.text = Spelled(1, Take(n, s))
    BY <2>3, FirstOfIs
  <2>6. b \in Items /\ Tells(b, m, p) /\ Plain(b.rest) /\ b.rest = Spelled(0, Drop(n, s))
        /\ b.text = Spelled(0, Take(n, s))
    BY <2>3, FirstOfIs
  <2>7. a.text # b.text
    <3>0. n \in Nat /\ n <= Len(s)
      BY <1>1, <2>3
    <3>1. Take(n, s) \in Kanas /\ Len(Take(n, s)) = n
      BY <1>1, <3>0, TakeIs DEF Kanas
    <3>2. a.text[1] = <<Take(n, s)[1], 1>> /\ b.text[1] = <<Take(n, s)[1], 0>>
      BY <2>3, <2>5, <2>6, <3>1, SpelledIs
    <3> QED
      BY <3>2
  <2> HIDE DEF a, b, view
  <2>8. view.items = <<a, b>> /\ DOMAIN view.items = {1, 2} /\ view.items[1] = a
          /\ view.items[2] = b
        /\ view.items # <<>> /\ view \in Views
    BY <1>1, <2>4, <2>5, <2>6 DEF Views
  <2>9. RestsPlain(view, 0)
    BY <2>5, <2>6, <2>8, PlainNoCut DEF RestsPlain, Items
  <2>10. ViewPart(view, m, p)
    BY <1>2, <2>5, <2>6, <2>7, <2>8 DEF ViewPart, s
  <2> QED
    BY <1>2, <1>4, <2>5, <2>6, <2>8, <2>9, <2>10 DEF view, s, NoView
<1> QED
  BY <1>3, <1>4

\* What a clause, or one ahead, reads and would send again.
LEMMA BaseIs ==
  ASSUME NEW p, Frame(p), NEW x, x.view \in Views, Base(x, p)
  PROVE LET m == Len(x.reading)  item == x.view.items[x.sel]
        IN /\ m \in 1..Len(p.whole) /\ m \in 0..Len(p.whole) /\ m \in Nat /\ x.reading \in Text
           /\ x.reading # <<>> /\ Plain(x.reading)
           /\ Kana(x.reading) = Rear(m, p.whole) /\ x.reading = Spelled(0, Rear(m, p.whole))
           /\ x.raw \in Text /\ Len(x.raw) = Keys * m + p.extra
           /\ x.view.items # <<>> /\ item \in Items /\ Tells(item, m, p)
<1> DEFINE m == Len(x.reading)
<1>1. m \in 1..Len(p.whole) /\ x.reading = Spelled(0, Rear(m, p.whole))
      /\ x.raw = Rear(Keys * m + p.extra, p.keys) /\ x.sel \in DOMAIN x.view.items
      /\ ViewPart(x.view, m, p)
  BY DEF Base
<1> HIDE DEF m
<1>2. Len(p.whole) \in Nat /\ p.whole \in Kanas
  BY NumIs, SeqIs DEF Frame, Frames, Kanas
<1>3. m \in 0..Len(p.whole) /\ m \in Nat /\ m # 0
  BY <1>1, <1>2
<1>4. Rear(m, p.whole) \in Kanas /\ x.reading \in Text /\ Kana(x.reading) = Rear(m, p.whole)
      /\ Len(x.reading) = m /\ x.raw \in Text /\ Len(x.raw) = Keys * m + p.extra
  BY <1>1, <1>3, NumIs
<1>5. Plain(x.reading) /\ x.reading # <<>>
  BY <1>1, <1>3, <1>4, PlainSpelled, SeqIs DEF Text
<1>6. x.view.items # <<>> /\ x.view.items[x.sel] \in Items /\ Tells(x.view.items[x.sel], m, p)
  BY <1>1, ViewFields DEF ViewPart
<1> QED
  BY <1>1, <1>3, <1>4, <1>5, <1>6 DEF m

\* What the suffix of a clause is: the kana its candidate leaves over, fewer
\* than it has read.
LEMMA EndsIs ==
  ASSUME NEW p, Frame(p), NEW x, x.view \in Views, x.suffix \in Text, Base(x, p), Ends(x)
  PROVE LET m == Len(x.reading)  r == Len(x.suffix)  item == x.view.items[x.sel]
        IN /\ r \in 0..m-1 /\ Len(item.rest) = r /\ r \in Nat /\ m \in Nat
           /\ Kana(x.suffix) = Rear(r, p.whole)
           /\ x.suffix = <<>> <=> item.rest = <<>>
           /\ x.suffix = <<>> <=> r = 0
           /\ Len(item.text) \in 1..m /\ Len(item.text) + r = m
           /\ Kana(item.text) \o Kana(x.suffix) = Kana(x.reading)
           /\ x.suffix # <<>> => x.count = Keys * Len(item.text)
<1> DEFINE m == Len(x.reading)  item == x.view.items[x.sel]
<1>1. m \in 0..Len(p.whole) /\ m \in Nat /\ item \in Items /\ Tells(item, m, p)
      /\ Kana(x.reading) = Rear(m, p.whole)
  BY BaseIs
<1> HIDE DEF m, item
<1>2. /\ Len(item.text) \in 1..m /\ Len(item.rest) \in 0..m-1
      /\ Len(item.text) + Len(item.rest) = m
      /\ Kana(item.rest) = Rear(Len(item.rest), p.whole)
  BY <1>1, TellsIs
<1>3. Kana(x.suffix) = Kana(item.rest) /\ x.count = item.count
  BY DEF Ends, Base, item
<1>4. item.rest \in Text
  BY <1>1 DEF Items
<1>5. Len(x.suffix) = Len(item.rest)
  BY <1>3, <1>4, KanaIs
<1>6. Len(x.suffix) \in Nat /\ (x.suffix = <<>> <=> Len(x.suffix) = 0)
      /\ (item.rest = <<>> <=> Len(item.rest) = 0)
  BY <1>4, SeqIs DEF Text
<1>7. Kana(item.text) \o Kana(item.rest) = Rear(m, p.whole)
      /\ (item.rest # <<>> => item.count = Keys * Len(item.text))
  BY <1>1 DEF Tells
<1> QED
  BY Zenon, <1>1, <1>2, <1>3, <1>5, <1>6, <1>7 DEF m, item

\* Candidates that take equally many keys leave equally many kana.
LEMMA SameRest ==
  ASSUME NEW p, Frame(p), NEW m \in 0..Len(p.whole), NEW a \in Items, NEW b \in Items,
         Tells(a, m, p), Tells(b, m, p), a.count = b.count
  PROVE Len(a.rest) = Len(b.rest)
<1>1. Len(a.text) + Len(a.rest) = m /\ Len(a.text) \in 1..m /\ Len(a.rest) \in 0..m-1
      /\ (a.rest # <<>> => a.count < Keys * m) /\ (a.rest = <<>> => a.count >= Keys * m)
  BY TellsIs
<1>2. Len(b.text) + Len(b.rest) = m /\ Len(b.text) \in 1..m /\ Len(b.rest) \in 0..m-1
      /\ (b.rest # <<>> => b.count < Keys * m) /\ (b.rest = <<>> => b.count >= Keys * m)
  BY TellsIs
<1>3. a.count \in Nat /\ Keys \in Nat \ {0} /\ Keys * m \in Nat /\ m \in Nat
  BY NumIs DEF Items
<1>4. a.rest \in Text /\ b.rest \in Text
  BY DEF Items
<1>5. CASE a.rest = <<>> /\ b.rest = <<>>
  BY <1>5
<1>6. CASE a.rest # <<>> /\ b.rest # <<>>
  <2>1. Keys * Len(a.text) = Keys * Len(b.text)
    BY <1>6 DEF Tells
  <2> DEFINE x == Len(a.text)  y == Len(b.text)
  <2>2. x \in Nat /\ y \in Nat /\ Keys * x = Keys * y
    BY <1>1, <1>2, <1>3, <2>1
  <2> HIDE DEF x, y
  <2>3. x = y
    BY <1>3, <2>2, Times
  <2> QED
    <3> DEFINE r == Len(a.rest)  v == Len(b.rest)
    <3>1. x + r = m /\ y + v = m /\ r \in 0..m-1 /\ v \in 0..m-1
      BY <1>1, <1>2 DEF x, y
    <3> HIDE DEF r, v
    <3>2. r = v
      BY <1>3, <2>2, <2>3, <3>1
    <3> QED
      BY <3>2 DEF r, v
<1>7. (a.rest = <<>>) <=> (b.rest = <<>>)
  <2> DEFINE k == Keys * m  q == a.count
  <2>1. k \in Nat /\ q \in Nat /\ (a.rest # <<>> => q < k) /\ (a.rest = <<>> => q >= k)
        /\ (b.rest # <<>> => q < k) /\ (b.rest = <<>> => q >= k)
    BY <1>1, <1>2, <1>3
  <2> HIDE DEF k, q
  <2> QED
    BY <2>1
<1> QED
  BY <1>5, <1>6, <1>7

\* Where a kana takes one key, a candidate that takes fewer keys leaves more.
LEMMA ShorterRest ==
  ASSUME NEW p, Frame(p), NEW m \in 0..Len(p.whole), NEW a \in Items, NEW b \in Items,
         Tells(a, m, p), Tells(b, m, p), Keys = 1, a.count < b.count
  PROVE Len(b.rest) < Len(a.rest) /\ a.rest # <<>>
<1>0. Keys = 1 /\ p.extra = 0 /\ m \in Nat /\ Keys * m = m
  BY NumIs DEF Frame
<1>1. Len(a.text) + Len(a.rest) = m /\ Len(a.text) \in 1..m /\ Len(a.rest) \in 0..m-1
  BY TellsIs
<1>2. Len(b.text) + Len(b.rest) = m /\ Len(b.text) \in 1..m /\ Len(b.rest) \in 0..m-1
  BY TellsIs
<1>3. Len(a.text) <= a.count /\ b.count <= m /\ (b.rest # <<>> => b.count = Len(b.text))
      /\ a.count \in Nat /\ b.count \in Nat
  <2> DEFINE t == Len(a.text)  u == Len(b.text)
  <2>1. t \in Nat /\ u \in Nat
    BY <1>0, <1>1, <1>2
  <2>2. 1 * t <= a.count /\ b.count <= 1 * m + 0 /\ (b.rest # <<>> => b.count = 1 * u)
        /\ a.count \in Nat /\ b.count \in Nat
    BY <1>0 DEF Tells, Items
  <2> HIDE DEF t, u
  <2>3. t <= a.count /\ b.count <= m /\ (b.rest # <<>> => b.count = u)
    BY <1>0, <2>1, <2>2
  <2> QED
    BY <2>2, <2>3 DEF t, u
<1>4. b.rest \in Text /\ a.rest \in Text /\ (b.rest = <<>> <=> Len(b.rest) = 0)
      /\ (a.rest = <<>> <=> Len(a.rest) = 0)
  BY SeqIs DEF Items, Text
<1> DEFINE t == Len(a.text)  r == Len(a.rest)  u == Len(b.text)  v == Len(b.rest)
           q == a.count  k == b.count
<1>5. /\ t \in 1..m /\ r \in 0..m-1 /\ t + r = m /\ u \in 1..m /\ v \in 0..m-1 /\ u + v = m
      /\ t <= q /\ k <= m /\ (v # 0 => k = u) /\ q < k /\ q \in Nat /\ k \in Nat
  BY <1>1, <1>2, <1>3, <1>4
<1> HIDE DEF t, r, u, v, q, k
<1>6. v < r /\ r # 0
  BY <1>0, <1>5
<1> QED
  BY <1>4, <1>6 DEF v, r

\* Plain before a cut is plain in front of the text that is cut off.
LEMMA PlainBeforeCat ==
  ASSUME NEW a \in Text, NEW b \in Text
  PROVE PlainBefore(Len(b), a \o b) <=> Plain(a)
<1>1. a \o b \in Text /\ Len(a \o b) = Len(a) + Len(b) /\ Len(a) \in Nat /\ Len(b) \in Nat
      /\ DOMAIN a = 1..Len(a) /\ \A i \in 1..Len(a) : (a \o b)[i] = a[i]
  BY TextCat, SeqIs DEF Text
<1>2. (\A j \in 1..Len(a \o b) : j + Len(b) <= Len(a \o b) => (a \o b)[j][2] = 0)
      <=> (\A j \in 1..Len(a) : a[j][2] = 0)
  <2> DEFINE n == Len(a)  m == Len(b)  c == a \o b
  <2>1. n \in Nat /\ m \in Nat /\ Len(c) = n + m /\ \A i \in 1..n : c[i] = a[i]
    BY <1>1
  <2> HIDE DEF n, m, c
  <2>2. (\A j \in 1..n + m : j + m <= n + m => c[j][2] = 0) <=> (\A j \in 1..n : a[j][2] = 0)
    <3>1. \A j \in 1..n + m : j + m <= n + m <=> j \in 1..n
      BY <2>1
    <3>2. \A j \in 1..n : j \in 1..n + m
      BY <2>1
    <3> QED
      BY <3>1, <3>2, <2>1
  <2> QED
    BY <2>1, <2>2 DEF n, m, c
<1> QED
  BY <1>1, <1>2 DEF PlainBefore, Plain

\* Plain before a cut is plain before a wider one.
LEMMA PlainBeforeMore ==
  ASSUME NEW t \in Text, NEW cut \in Nat, NEW more \in Nat, cut <= more, PlainBefore(cut, t)
  PROVE PlainBefore(more, t)
<1>1. Len(t) \in Nat
  BY SeqIs DEF Text
<1>2. \A j \in 1..Len(t) : j + more <= Len(t) => j + cut <= Len(t)
  BY <1>1
<1> QED
  BY <1>2 DEF PlainBefore

\* What a clause ahead shows.
LEMMA DisplayIs ==
  ASSUME NEW p, Frame(p), NEW f, FuturePart(f, p)
  PROVE /\ Display(f) \in Text /\ Kana(Display(f)) = Kana(f.reading)
        /\ Len(Display(f)) = Len(f.reading) /\ Display(f) # <<>>
<1>1. f \in Futures /\ Base(f, p) /\ Ends(f) /\ f.preview = f.view.items[f.sel].text
  BY DEF FuturePart
<1>2. f.preview \in Text /\ f.suffix \in Text /\ f.view \in Views /\ f.reading \in Text
  BY Zenon, <1>1, FutureFields
<1>3. Kana(f.preview) \o Kana(f.suffix) = Kana(f.reading) /\ Len(f.reading) \in Nat
        /\ Len(f.reading) # 0
  <2>1. Kana(f.view.items[f.sel].text) \o Kana(f.suffix) = Kana(f.reading)
    BY <1>1, <1>2, EndsIs
  <2>2. Len(f.reading) \in Nat /\ f.reading # <<>>
    BY <1>1, <1>2, BaseIs
  <2> QED
    BY Zenon, <1>1, <1>2, <2>1, <2>2, SeqIs DEF Text
<1>4. Display(f) \in Text /\ Kana(Display(f)) = Kana(f.reading)
  BY <1>2, <1>3, KanaCat DEF Display
<1>5. Len(Display(f)) = Len(f.reading)
  BY <1>2, <1>4, KanaIs
<1> QED
  BY <1>3, <1>4, <1>5, SeqIs DEF Text

\* show_future changes the spelling of a rest, never its kana.
LEMMA ShowFutureIs ==
  ASSUME NEW p, Frame(p), NEW f, FuturePart(f, p), NEW rest \in Text
  PROVE LET out == ShowFuture(rest, f)
        IN /\ out \in Text /\ Kana(out) = Kana(rest) /\ Len(out) = Len(rest)
           /\ PlainBefore(Len(f.reading), rest) => PlainBefore(Len(f.reading), out)
<1>1. Display(f) \in Text /\ Kana(Display(f)) = Kana(f.reading) /\ Len(Display(f)) = Len(f.reading)
      /\ f.reading \in Text
  BY DisplayIs, FutureFields DEF FuturePart
<1>2. CASE ~IsSuffix(f.reading, rest)
  BY <1>2 DEF ShowFuture
<1>3. CASE IsSuffix(f.reading, rest)
  <2> DEFINE a == BeforeSuffix(f.reading, rest)  d == Display(f)
  <2>1. a \in Text /\ rest = a \o f.reading /\ ShowFuture(rest, f) = a \o d
    BY <1>1, <1>3, SuffixIs DEF ShowFuture, Text
  <2>2. d \in Text /\ Kana(d) = Kana(f.reading) /\ Len(d) = Len(f.reading)
    BY <1>1
  <2> HIDE DEF a, d
  <2>3. a \o d \in Text /\ Kana(a \o d) = Kana(a \o f.reading)
    <3>1. a \o d \in Text /\ Kana(a \o d) = Kana(a) \o Kana(d)
      BY <2>1, <2>2, KanaCat
    <3>2. Kana(a \o f.reading) = Kana(a) \o Kana(f.reading)
      BY <1>1, <2>1, KanaCat
    <3> QED
      BY <2>2, <3>1, <3>2
  <2>4. Len(a \o d) = Len(rest)
    BY <2>1, <2>3, KanaIs
  <2>5. PlainBefore(Len(f.reading), rest) => PlainBefore(Len(d), a \o d)
    BY <1>1, <2>1, <2>2, PlainBeforeCat
  <2> QED
    BY <2>1, <2>2, <2>3, <2>4, <2>5
<1> QED
  BY <1>2, <1>3

\* Nor does read_future, which spells the remembered clause plainly where it
\* finds it.
LEMMA ReadFutureIs ==
  ASSUME NEW p, Frame(p), NEW f, FuturePart(f, p), NEW rest \in Text
  PROVE LET out == ReadFuture(rest, f)
        IN /\ out \in Text /\ Kana(out) = Kana(rest) /\ Len(out) = Len(rest)
           /\ IsSuffix(Display(f), rest) /\ PlainBefore(Len(f.reading), rest) => Plain(out)
           /\ ~IsSuffix(Display(f), rest) => out = rest
<1>1. Display(f) \in Text /\ Kana(Display(f)) = Kana(f.reading) /\ Len(Display(f)) = Len(f.reading)
      /\ f.reading \in Text
  BY DisplayIs, FutureFields DEF FuturePart
<1>2. CASE ~IsSuffix(Display(f), rest)
  BY <1>2 DEF ReadFuture
<1>3. CASE IsSuffix(Display(f), rest)
  <2> DEFINE a == BeforeSuffix(Display(f), rest)  d == Display(f)
  <2>1. a \in Text /\ rest = a \o d /\ ReadFuture(rest, f) = a \o f.reading
    BY <1>1, <1>3, SuffixIs DEF ReadFuture, Text
  <2>2. d \in Text /\ Kana(d) = Kana(f.reading) /\ Len(d) = Len(f.reading)
    BY <1>1
  <2> HIDE DEF a, d
  <2>3. a \o f.reading \in Text /\ Kana(a \o d) = Kana(a \o f.reading)
    <3>1. a \o d \in Text /\ Kana(a \o d) = Kana(a) \o Kana(d)
      BY <2>1, <2>2, KanaCat
    <3>2. a \o f.reading \in Text /\ Kana(a \o f.reading) = Kana(a) \o Kana(f.reading)
      BY <1>1, <2>1, KanaCat
    <3> QED
      BY <2>2, <3>1, <3>2
  <2>4. Len(a \o f.reading) = Len(rest)
    BY <2>1, <2>3, KanaIs
  <2>5. Plain(f.reading)
    BY BaseIs, FutureFields DEF FuturePart
  <2>6. PlainBefore(Len(d), a \o d) => Plain(a \o f.reading)
    BY <1>1, <2>1, <2>2, <2>5, PlainBeforeCat, PlainCat
  <2> QED
    BY <1>3, <2>1, <2>2, <2>3, <2>4, <2>6
<1> QED
  BY <1>2, <1>3

-----------------------------------------------------------------------------
(* The clauses ahead.                                                      *)

\* The clauses remembered ahead, nearest last.
Row(fs, p) ==
  /\ fs \in Seq(Futures)
  /\ \A i \in 1..Len(fs) : FuturePart(fs[i], p)
  /\ \A i \in 1..Len(fs) - 1 : Chain(fs[i + 1], fs[i])
  /\ fs # <<>> => /\ RestsPlain(fs[1].view, 0)
                  /\ fs[1].conservative => fs[1].suffix = <<>>

\* The clause reads on into the nearest of the clauses ahead.
Before(x, fs) ==
  /\ fs # <<>> => Chain(x, Last(fs))
  /\ fs = <<>> => RestsPlain(x.view, 0)

\* Nothing ahead is a row.
LEMMA RowEmpty == ASSUME NEW p PROVE Row(<<>>, p)
<1>1. <<>> \in Seq(Futures) /\ Len(<<>>) = 0
  BY SeqIs
<1> QED
  BY <1>1 DEF Row

\* A row without its next clause is a row.
LEMMA RowFront ==
  ASSUME NEW p, NEW fs, Row(fs, p), fs # <<>>
  PROVE /\ Row(Front(fs), p) /\ FuturePart(Last(fs), p) /\ Before(Last(fs), Front(fs))
        /\ Front(fs) = <<>> /\ Last(fs).conservative => Last(fs).suffix = <<>>
<1>1. fs \in Seq(Futures) /\ \A i \in 1..Len(fs) : FuturePart(fs[i], p)
  BY DEF Row
<1>2. /\ Front(fs) \in Seq(Futures) /\ Len(Front(fs)) = Len(fs) - 1
      /\ \A i \in 1..Len(fs) - 1 : Front(fs)[i] = fs[i]
      /\ Last(fs) = fs[Len(fs)] /\ Len(fs) \in 1..Len(fs) /\ Len(fs) \in Nat
      /\ (Front(fs) = <<>> <=> Len(Front(fs)) = 0)
  <2>1. Front(fs) \in Seq(Futures) /\ Len(fs) \in Nat
    BY <1>1, FrontIs, SeqIs
  <2> QED
    BY <1>1, <2>1, FrontIs, SeqIs
<1> DEFINE n == Len(fs)  g == Front(fs)
<1>3. n \in Nat \ {0} /\ Len(g) = n - 1 /\ \A i \in 1..n-1 : g[i] = fs[i]
  BY <1>2
<1>4. \A i \in 1..n - 1 : Chain(fs[i + 1], fs[i])
  BY DEF Row
<1>5. RestsPlain(fs[1].view, 0) /\ (fs[1].conservative => fs[1].suffix = <<>>)
  BY DEF Row
<1> HIDE DEF n, g
<1>6. \A i \in 1..Len(g) - 1 : Chain(g[i + 1], g[i])
  <2> TAKE i \in 1..Len(g) - 1
  <2>1. i \in 1..n-1 /\ i + 1 \in 1..n-1
    BY <1>3
  <2> QED
    BY <1>3, <1>4, <2>1
<1>7. Row(g, p)
  <2>1. \A i \in 1..Len(g) : FuturePart(g[i], p)
    BY <1>1, <1>3 DEF n
  <2>2. g # <<>> => g[1] = fs[1]
    BY <1>2, <1>3 DEF g
  <2> QED
    BY <1>2, <1>5, <1>6, <2>1, <2>2 DEF Row, g
<1>8. FuturePart(Last(fs), p)
  BY <1>1, <1>2
<1>9. g # <<>> => Last(g) = fs[n - 1] /\ n - 1 \in 1..n-1
  <2>1. Last(g) = g[Len(g)]
    BY DEF Last
  <2> QED
    BY <2>1, <1>2, <1>3 DEF g
<1>10. g = <<>> => Last(fs) = fs[1]
  <2> SUFFICES ASSUME g = <<>> PROVE Last(fs) = fs[1]
    OBVIOUS
  <2>1. Len(g) = 0
    BY <1>2 DEF g
  <2>2. n = 1
    BY <1>3, <2>1
  <2> QED
    BY <1>2, <2>2 DEF n
<1>11. Last(fs) = fs[n] /\ (n - 1) + 1 = n
  BY <1>2, <1>3 DEF n
<1>12. Before(Last(fs), g)
  <2>1. g # <<>> => Chain(fs[(n - 1) + 1], fs[n - 1])
    BY <1>4, <1>9
  <2> QED
    BY <1>5, <1>9, <1>10, <1>11, <2>1 DEF Before
<1> QED
  BY <1>5, <1>7, <1>8, <1>10, <1>12 DEF g

\* A row grows at the back by a clause that reads on into it.
LEMMA RowAppend ==
  ASSUME NEW p, NEW fs, Row(fs, p), NEW f, FuturePart(f, p), Before(f, fs),
         fs = <<>> /\ f.conservative => f.suffix = <<>>
  PROVE Row(Append(fs, f), p) /\ Append(fs, f) # <<>> /\ Last(Append(fs, f)) = f
<1>1. fs \in Seq(Futures) /\ (\A i \in 1..Len(fs) : FuturePart(fs[i], p)) /\ f \in Futures
      /\ \A i \in 1..Len(fs) - 1 : Chain(fs[i + 1], fs[i])
  BY DEF Row, FuturePart
<1> DEFINE n == Len(fs)  g == Append(fs, f)
<1>2. /\ g \in Seq(Futures) /\ Len(g) = n + 1 /\ \A i \in 1..n : g[i] = fs[i]
      /\ g[n + 1] = f /\ g # <<>> /\ Last(g) = f
  <2>1. fs \in Seq(Futures) /\ f \in Futures
    BY <1>1
  <2>2. Append(fs, f) \in Seq(Futures) /\ Len(Append(fs, f)) = Len(fs) + 1
    BY ONLY <2>1, AppendIs
  <2>3. (\A i \in 1..Len(fs) : Append(fs, f)[i] = fs[i]) /\ Append(fs, f)[Len(fs) + 1] = f
    BY ONLY <2>1, AppendIs
  <2>4. Append(fs, f) # <<>>
    BY ONLY <2>1, AppendIs
  <2>5. Last(Append(fs, f)) = f
    BY ONLY <2>1, AppendIs
  <2> QED
    BY ONLY <2>2, <2>3, <2>4, <2>5 DEF n, g
<1>3. n \in Nat /\ (fs = <<>> <=> n = 0) /\ Last(fs) = fs[n]
  BY <1>1, SeqIs DEF Last
<1> HIDE DEF n, g
<1>4. \A i \in 1..Len(g) : FuturePart(g[i], p)
  <2> TAKE i \in 1..Len(g)
  <2>1. i \in 1..n \/ i = n + 1
    BY <1>2, <1>3
  <2> QED
    BY <1>1, <1>2, <2>1 DEF n
<1>5. \A i \in 1..Len(g) - 1 : Chain(g[i + 1], g[i])
  <2> TAKE i \in 1..Len(g) - 1
  <2>1. CASE i \in 1..n-1
    <3>1. i \in 1..n /\ i + 1 \in 1..n
      BY <1>3, <2>1
    <3> QED
      BY <1>1, <1>2, <2>1, <3>1 DEF n
  <2>2. CASE i = n
    <3>1. n \in 1..n /\ fs # <<>>
      BY <1>2, <1>3, <2>2
    <3> QED
      BY <1>2, <1>3, <2>2, <3>1 DEF Before
  <2> QED
    BY <1>2, <1>3, <2>1, <2>2
<1>6. RestsPlain(g[1].view, 0) /\ (g[1].conservative => g[1].suffix = <<>>)
  <2>1. CASE n = 0
    BY <1>2, <1>3, <2>1 DEF Before
  <2>2. CASE n # 0
    <3>1. 1 \in 1..n
      BY <1>3, <2>2
    <3> QED
      BY <1>2, <1>3, <2>2, <3>1 DEF Row
  <2> QED
    BY <2>1, <2>2
<1> QED
  BY <1>2, <1>4, <1>5, <1>6 DEF Row, g

\* The farther part of a row is a row.
LEMMA RowCut ==
  ASSUME NEW p, NEW fs, Row(fs, p), NEW k \in 1..Len(fs)
  PROVE LET g == SubSeq(fs, 1, k)
        IN Row(g, p) /\ g # <<>> /\ Last(g) = fs[k] /\ Len(g) = k
<1>1. fs \in Seq(Futures) /\ (\A i \in 1..Len(fs) : FuturePart(fs[i], p))
      /\ \A i \in 1..Len(fs) - 1 : Chain(fs[i + 1], fs[i])
  BY DEF Row
<1>2. Len(fs) \in Nat
  BY <1>1, SeqIs
<1> DEFINE n == Len(fs)  g == SubSeq(fs, 1, k)
<1>3. n \in Nat /\ k \in 1..n
  BY <1>2
<1>4. g \in Seq(Futures) /\ Len(g) = k /\ \A i \in 1..k : g[i] = fs[i]
  <2>1. \A i \in 1..k : fs[i] \in Futures
    BY <1>1, <1>3, SeqIs
  <2>2. 1 \in Int /\ k \in Int /\ 1 <= k /\ k <= Len(fs)
    BY <1>3
  <2> QED
    BY <1>1, <2>1, <2>2, SubSeqProperties
<1>5. g # <<>> /\ Last(g) = fs[k]
  <2>1. Last(g) = g[k]
    BY <1>4 DEF Last
  <2> QED
    BY <1>3, <1>4, <2>1, SeqIs
<1> HIDE DEF g
<1>6. \A i \in 1..k : FuturePart(g[i], p)
  BY <1>1, <1>3, <1>4
<1>7. \A i \in 1..k - 1 : Chain(g[i + 1], g[i])
  <2> TAKE i \in 1..k - 1
  <2>1. i \in 1..k /\ i + 1 \in 1..k /\ i \in 1..n-1
    BY <1>3
  <2> QED
    BY <1>1, <1>4, <2>1
<1>8. g[1] = fs[1] /\ fs # <<>>
  BY <1>1, <1>3, <1>4, SeqIs
<1> QED
  BY <1>4, <1>5, <1>6, <1>7, <1>8 DEF Row, g

\* A clause whose candidates can be shown with the clauses ahead.
Fits(c, fs) ==
  LET rest == c.view.items[c.sel].rest
  IN /\ fs = <<>> => RestsPlain(c.view, 0)
     /\ fs # <<>> => /\ RestsPlain(c.view, Len(Last(fs).reading))
                     /\ Len(Last(fs).reading) < Len(c.reading)
                     /\ rest # <<>> => Len(rest) = Len(Last(fs).reading)
                     /\ rest = <<>> => Ended(c.view) /\ ~c.remainder

\* Two clauses that differ in how the text ahead is spelled.
SameClause(c, d) ==
  /\ d.fixed = c.fixed /\ d.preview = c.preview /\ d.raw = c.raw /\ d.reading = c.reading
  /\ d.count = c.count /\ d.sel = c.sel /\ d.derived = c.derived /\ d.remainder = c.remainder
  /\ d.neighbor = c.neighbor /\ d.group = c.group

\* A clause whose candidates are spelled as the clauses ahead is told as before,
\* with them behind it.
LEMMA ShowAheadIs ==
  ASSUME NEW p, Frame(p), NEW c, ClauseBase(c, p), NEW fs, Row(fs, p), Fits(c, fs)
  PROVE LET d == ShowAhead(c, fs)
        IN /\ ClausePart(d, p) /\ Before(d, fs) /\ SameClause(c, d)
           /\ Len(d.suffix) = Len(c.view.items[c.sel].rest)
<1>1. c \in Clauses /\ Base(c, p) /\ c.preview = c.fixed \o c.view.items[c.sel].text
      /\ p.base \o (Kana(c.fixed) \o Kana(c.reading)) = p.whole
  BY DEF ClauseBase
<1> DEFINE view == c.view  sel == c.sel  f == Last(fs)  n == Len(view.items)
           m == Len(c.reading)
           Shown0(i) == IF fs = <<>> THEN view.items[i].rest ELSE ShowFuture(view.items[i].rest, f)
           items == [i \in 1..n |-> [view.items[i] EXCEPT !.rest = Shown0(i)]]
           d == [c EXCEPT !.view = [reading |-> view.reading, items |-> items],
                          !.suffix = items[sel].rest]
<1>2. /\ view \in Views /\ view.reading \in Text /\ view.items \in Seq(Items) /\ n \in Nat
      /\ DOMAIN view.items = 1..n /\ sel \in 1..n
      /\ \A i \in 1..n : /\ view.items[i] \in Items /\ view.items[i].text \in Text
                         /\ view.items[i].rest \in Text /\ view.items[i].count \in Nat
  BY <1>1, ClauseFields, ViewFields DEF Base
<1>3. ViewPart(view, m, p) /\ m \in 0..Len(p.whole)
  BY <1>1, <1>2, BaseIs DEF Base
<1> HIDE DEF n, m
<1>4. ShowAhead(c, fs) = d
  <2>1. CASE fs = <<>>
    <3>1. view.items = [i \in 1..n |-> view.items[i]]
      BY <1>2, LenProperties
    <3>2. \A i \in 1..n : [view.items[i] EXCEPT !.rest = view.items[i].rest] = view.items[i]
      BY <1>2 DEF Items
    <3>3. items = view.items
      BY <2>1, <3>1, <3>2
    <3>4. sel \in DOMAIN view.items /\ view = [reading |-> view.reading, items |-> view.items]
      BY <1>2 DEF Views
    <3>5. ShowAhead(c, fs) = [c EXCEPT !.view.items = view.items, !.suffix = view.items[sel].rest]
      BY <2>1, <3>4 DEF ShowAhead
    <3> HIDE DEF items
    <3>6. c.view = view
      OBVIOUS
    <3> QED
      BY <1>1, <1>2, <3>3, <3>4, <3>5 DEF Clauses, Views
  <2>2. CASE fs # <<>>
    <3>1. items = [i \in DOMAIN view.items |-> [view.items[i] EXCEPT !.rest = ShowFuture(@, f)]]
      BY <1>2, <2>2
    <3>2. sel \in DOMAIN items
      BY <1>2
    <3>3. ShowAhead(c, fs) = [c EXCEPT !.view.items = items, !.suffix = items[sel].rest]
      BY <2>2, <3>1, <3>2 DEF ShowAhead
    <3> HIDE DEF items
    <3> QED
      BY <1>1, <1>2, <3>3 DEF Clauses, Views
  <2> QED
    BY <2>1, <2>2
<1>5. \A i \in 1..n : /\ Shown0(i) \in Text /\ Kana(Shown0(i)) = Kana(view.items[i].rest)
                      /\ Len(Shown0(i)) = Len(view.items[i].rest)
                      /\ (Shown0(i) = <<>> <=> view.items[i].rest = <<>>)
                      /\ fs # <<>> => PlainBefore(Len(f.reading), Shown0(i))
                      /\ fs = <<>> => PlainBefore(0, Shown0(i))
  <2> TAKE i \in 1..n
  <2>1. view.items[i].rest \in Text
    BY <1>2
  <2>2. CASE fs = <<>>
    BY <1>2, <2>1, <2>2 DEF Fits, RestsPlain
  <2>3. CASE fs # <<>>
    <3>1. FuturePart(f, p)
      BY <2>3, RowFront
    <3>2. PlainBefore(Len(f.reading), view.items[i].rest)
      BY <1>2, <2>3 DEF Fits, RestsPlain
    <3> HIDE DEF f
    <3>3. /\ Shown0(i) \in Text /\ Kana(Shown0(i)) = Kana(view.items[i].rest)
          /\ Len(Shown0(i)) = Len(view.items[i].rest) /\ PlainBefore(Len(f.reading), Shown0(i))
      BY <2>1, <2>3, <3>1, <3>2, ShowFutureIs
    <3>4. Shown0(i) = <<>> <=> view.items[i].rest = <<>>
      BY <2>1, <3>3, SeqIs DEF Text
    <3> QED
      BY <2>3, <3>3, <3>4
  <2> QED
    BY <2>2, <2>3
<1> HIDE DEF Shown0
<1>6. /\ items \in Seq(Items) /\ Len(items) = n /\ DOMAIN items = 1..n
      /\ \A i \in 1..n : /\ items[i] \in Items /\ items[i].text = view.items[i].text
                         /\ items[i].count = view.items[i].count /\ items[i].rest = Shown0(i)
  <2>1. \A i \in 1..n : [view.items[i] EXCEPT !.rest = Shown0(i)] \in Items
    BY <1>2, <1>5 DEF Items
  <2> DEFINE It(i) == [view.items[i] EXCEPT !.rest = Shown0(i)]
  <2>0. n \in Nat /\ \A i \in 1..n : It(i) \in Items
    BY <1>2, <2>1
  <2> HIDE DEF It
  <2>4. [i \in 1..n |-> It(i)] \in Seq(Items) /\ Len([i \in 1..n |-> It(i)]) = n
    BY ONLY <2>0, IsASeq, LenProperties
  <2>2. items \in Seq(Items) /\ Len(items) = n
    BY <2>4 DEF It, items
  <2>3. \A i \in 1..n : items[i] = [view.items[i] EXCEPT !.rest = Shown0(i)]
    BY DEF items
  <2>5. \A i \in 1..n : /\ items[i].text = view.items[i].text
                         /\ items[i].count = view.items[i].count /\ items[i].rest = Shown0(i)
    BY <1>2, <2>3 DEF Items
  <2> QED
    BY <2>1, <2>2, <2>3, <2>5
<1> HIDE DEF items
<1>7. \A i \in 1..n : Tells(items[i], m, p)
  <2> TAKE i \in 1..n
  <2>1. Tells(view.items[i], m, p)
    BY <1>2, <1>3 DEF ViewPart
  <2> QED
    BY <1>5, <1>6, <2>1 DEF Tells
<1>8. d \in Clauses /\ d.view = [reading |-> view.reading, items |-> items]
      /\ d.suffix = Shown0(sel) /\ SameClause(c, d)
  BY <1>1, <1>2, <1>5, <1>6 DEF Clauses, Views, SameClause
<1> HIDE DEF d
<1>9. ViewPart(d.view, m, p)
  BY <1>2, <1>3, <1>6, <1>7, <1>8 DEF ViewPart
<1>10. Base(d, p)
  <2>1. Len(d.reading) = m /\ d.sel = sel /\ DOMAIN d.view.items = 1..n
    BY <1>6, <1>8 DEF SameClause, m
  <2> QED
    <3>1. d.reading = c.reading /\ d.raw = c.raw /\ d.count = c.count /\ d.group = c.group
          /\ d.derived = c.derived
      BY <1>8 DEF SameClause
    <3>2. d.view.items[sel].count = view.items[sel].count
      BY <1>2, <1>6, <1>8
    <3> QED
      BY <1>1, <1>2, <1>9, <2>1, <3>1, <3>2 DEF Base
<1>11. ClauseBase(d, p)
  <2>1. d.view.items[sel].text = view.items[sel].text
    BY <1>2, <1>6, <1>8
  <2>2. d.fixed = c.fixed /\ d.preview = c.preview /\ d.reading = c.reading /\ d.sel = sel
    BY <1>8 DEF SameClause
  <2> QED
    BY Zenon, <1>1, <1>8, <1>10, <2>1, <2>2 DEF ClauseBase
<1>12. Len(d.suffix) = Len(view.items[sel].rest)
         /\ (d.suffix = <<>> <=> view.items[sel].rest = <<>>)
  BY <1>2, <1>5, <1>8
<1>13. RestsPlain(d.view, Len(d.suffix))
  <2>1. CASE fs = <<>>
    <3>1. \A i \in 1..n : PlainBefore(Len(d.suffix), Shown0(i))
      BY <2>1, <1>2, <1>5, <1>8, PlainNoCut, PlainAnyCut, SeqIs DEF Text
    <3> QED
      BY <1>6, <1>8, <3>1 DEF RestsPlain
  <2>2. CASE fs # <<>> /\ d.suffix # <<>>
    BY <1>5, <1>6, <1>8, <1>12, <2>2 DEF RestsPlain, Fits
  <2>3. CASE fs # <<>> /\ d.suffix = <<>>
    <3>1. \A i \in 1..n : Shown0(i) = <<>>
      BY <1>2, <1>5, <1>12, <2>3 DEF Fits, Ended
    <3>2. \A i \in 1..n : PlainBefore(Len(d.suffix), Shown0(i))
      <4>1. Len(<<>>) = 0
        OBVIOUS
      <4> QED
        BY <3>1, <4>1 DEF PlainBefore
    <3> QED
      BY <1>6, <1>8, <3>2 DEF RestsPlain
  <2> QED
    BY <2>1, <2>2, <2>3
<1>14. Ends(d)
  BY <1>2, <1>5, <1>6, <1>8, <1>13 DEF Ends, SameClause
<1>15. Before(d, fs)
  <2>1. CASE fs = <<>>
    BY <1>5, <1>6, <1>8, <2>1 DEF Before, RestsPlain
  <2>2. CASE fs # <<>>
    <3>1. Len(f.reading) < Len(d.reading) /\ (d.suffix # <<>> => Len(f.reading) = Len(d.suffix))
      BY <1>8, <1>12, <2>2 DEF Fits, SameClause
    <3>2. d.suffix = <<>> => Ended(d.view) /\ ~d.remainder
      <4> HAVE d.suffix = <<>>
      <4>1. Ended(view) /\ ~c.remainder
        BY <1>12, <2>2 DEF Fits
      <4> QED
        BY <1>2, <1>5, <1>6, <1>8, <4>1 DEF Ended, SameClause
    <3> QED
      BY <2>2, <3>1, <3>2 DEF Before, Chain
  <2> QED
    BY <2>1, <2>2
<1> QED
  BY <1>4, <1>8, <1>11, <1>12, <1>14, <1>15 DEF ClausePart

-----------------------------------------------------------------------------
(* What a boundary leaves over, and how the clauses ahead are cut to it.   *)

\* What a split leaves, as the last r kana.
LeftPart(preview, suffix, raw, reading, count, group, r, p) ==
  /\ r \in 1..Len(p.whole) /\ preview \in Text /\ suffix \in Text /\ preview # <<>>
  /\ Kana(preview) \o Kana(suffix) = Rear(r, p.whole)
  /\ raw = Rear(Keys * r + p.extra, p.keys)
  /\ reading = Spelled(0, Rear(r, p.whole))
  /\ count \in Nat /\ Keys * Len(preview) <= count /\ count <= Keys * r + p.extra
  /\ suffix # <<>> => count = Keys * Len(preview)
  /\ group \in Nat

\* A remainder tells the kana it was made of.
LEMMA RemainderIs ==
  ASSUME NEW p, Frame(p), NEW r, NEW preview, NEW suffix, NEW raw, NEW reading, NEW count,
         NEW group, LeftPart(preview, suffix, raw, reading, count, group, r, p)
  PROVE LET f == Remainder(preview, suffix, raw, reading, count, group)
        IN FuturePart(f, p) /\ Len(f.reading) = r /\ f.suffix = suffix /\ f.conservative
           /\ f.view.items = <<Item(preview, suffix, count)>> /\ f.remainder
<1>0. /\ r \in 1..Len(p.whole) /\ preview \in Text /\ suffix \in Text /\ preview # <<>>
      /\ Kana(preview) \o Kana(suffix) = Rear(r, p.whole)
      /\ raw = Rear(Keys * r + p.extra, p.keys)
      /\ reading = Spelled(0, Rear(r, p.whole))
      /\ count \in Nat /\ Keys * Len(preview) <= count /\ count <= Keys * r + p.extra
      /\ (suffix # <<>> => count = Keys * Len(preview))
      /\ group \in Nat
  BY DEF LeftPart
<1> DEFINE f == Remainder(preview, suffix, raw, reading, count, group)
           item == Item(preview, suffix, count)
<1>1. Len(p.whole) \in Nat /\ r \in 0..Len(p.whole)
  BY <1>0, NumIs, SeqIs DEF Frame, Frames, Kanas
<1>2. reading \in Text /\ Len(reading) = r /\ raw \in Text
  BY <1>0, <1>1, NumIs
<1>3. item \in Items /\ item.text = preview /\ item.rest = suffix /\ item.count = count
  BY <1>0 DEF Items, Item
<1>4. /\ f.preview = preview /\ f.suffix = suffix /\ f.raw = raw /\ f.reading = reading
      /\ f.conservative = TRUE /\ f.count = count /\ f.sel = 1 /\ f.text = preview
         /\ f.rest = suffix
      /\ f.view = [reading |-> reading, items |-> <<item>>]
      /\ f.derived = TRUE /\ f.remainder = TRUE /\ f.neighbor = TRUE /\ f.group = group
  BY DEF Remainder
<1> HIDE DEF f, item
<1>5. f.view \in Views /\ DOMAIN f.view.items = {1} /\ f.view.items[1] = item
      /\ f.view.items = <<item>> /\ f.view.reading = reading
  BY <1>0, <1>2, <1>3, <1>4 DEF Views
<1>6. f \in Futures
  <2>1. [reading |-> reading, items |-> <<item>>] \in Views
    BY <1>0, <1>4, <1>5
  <2>2. f = [preview |-> preview, suffix |-> suffix, raw |-> raw, reading |-> reading,
             conservative |-> TRUE, count |-> count, sel |-> 1, text |-> preview, rest |-> suffix,
             view |-> [reading |-> reading, items |-> <<item>>],
             derived |-> TRUE, remainder |-> TRUE, neighbor |-> TRUE, group |-> group]
    BY DEF Remainder, item, f
  <2> QED
    BY <1>0, <1>2, <2>1, <2>2 DEF Futures
<1>7. Tells(item, r, p)
  BY <1>0, <1>3 DEF Tells
<1>8. ViewPart(f.view, r, p)
  BY <1>0, <1>5, <1>7 DEF ViewPart
<1>9. Base(f, p)
  BY <1>0, <1>2, <1>3, <1>4, <1>5, <1>8 DEF Base
<1>10. PlainBefore(Len(suffix), suffix)
  BY <1>0, SeqIs DEF PlainBefore, Text
<1>11. Ends(f)
  BY <1>0, <1>3, <1>4, <1>5, <1>10 DEF Ends, RestsPlain
<1>12. FuturePart(f, p)
  BY <1>0, <1>3, <1>4, <1>5, <1>6, <1>9, <1>11 DEF FuturePart
<1> QED
  BY <1>0, <1>2, <1>4, <1>5, <1>12 DEF f, item

\* What is left of the keys.
LEMMA RawRestIs ==
  ASSUME NEW p, Frame(p), NEW m \in 1..Len(p.whole), NEW item \in Items, Tells(item, m, p),
         NEW raw, raw = Rear(Keys * m + p.extra, p.keys)
  PROVE LET left == Drop(item.count, raw)
        IN /\ left \in Text
           /\ item.rest # <<>> => left = Rear(Keys * Len(item.rest) + p.extra, p.keys)
              /\ left # <<>>
           /\ item.rest = <<>> => Len(left) <= p.extra
<1> DEFINE r == Len(item.rest)  t == Len(item.text)  q == item.count  x == p.extra
           km == Keys * m  kr == Keys * r  kt == Keys * t
<1>1. Len(p.whole) \in Nat /\ m \in 0..Len(p.whole)
  BY NumIs, SeqIs DEF Frame, Frames, Kanas
<1>2. Keys \in Nat \ {0} /\ km \in Nat /\ x \in Nat /\ km + x \in 0..Len(p.keys) /\ p.keys \in Text
      /\ raw \in Text /\ Len(raw) = km + x
  BY <1>1, NumIs
<1>3. t \in 1..m /\ r \in 0..m-1 /\ t + r = m /\ q \in 1..km + x /\ (item.rest = <<>> => q >= km)
  BY <1>1, TellsIs
<1>4. kt \in Nat /\ kr \in Nat /\ kt + kr = km /\ kr <= km /\ r <= kr
  <2> HIDE DEF t, r, q, km, x
  <2>1. t \in Nat /\ r \in Nat /\ t + r = m /\ r <= m
    BY <1>1, <1>3
  <2> USE DEF km
  <2>2. Keys * t \in Nat /\ Keys * r \in Nat /\ Keys * (t + r) = Keys * t + Keys * r
          /\ r <= Keys * r
    BY <1>2, <2>1, Times
  <2> QED
    BY <2>1, <2>2
<1>5. item.rest # <<>> => q = kt
  BY DEF Tells
<1>6. item.rest \in Text /\ (item.rest = <<>> <=> r = 0)
  BY SeqIs DEF Items, Text
<1> DEFINE big == km + x  k == big - q
<1>7. big \in 0..Len(p.keys) /\ k \in 0..big /\ q = big - k
  <2> HIDE DEF km, x, q
  <2> QED
    BY <1>2, <1>3
<1>8. raw = Rear(big, p.keys)
  OBVIOUS
<1> HIDE DEF km, kr, kt, q, x, r, t, big, k
<1>9. Drop(big - k, Rear(big, p.keys)) = Rear(k, p.keys)
  BY <1>2, <1>7, RearOfRear DEF Text
<1>10. k \in 0..Len(p.keys)
  BY <1>7
<1>11. Rear(k, p.keys) \in Text /\ Len(Rear(k, p.keys)) = k
  BY <1>2, <1>10, RearIs DEF Text
<1>12. Drop(q, raw) \in Text /\ Drop(q, raw) = Rear(k, p.keys) /\ Len(Drop(q, raw)) = k
  BY <1>7, <1>8, <1>9, <1>11
<1>13. item.rest # <<>> => k = kr + x /\ k # 0
  <2> HAVE item.rest # <<>>
  <2>1. big = km + x /\ k = big - q
    BY DEF big, k
  <2>2. r # 0 /\ r \in Nat
    BY <1>3, <1>6
  <2> QED
    BY <1>2, <1>4, <1>5, <2>1, <2>2
<1>14. item.rest = <<>> => k <= x
  <2>1. big = km + x /\ k = big - q
    BY DEF big, k
  <2> QED
    BY <1>2, <1>3, <2>1
<1>15. item.rest # <<>> => Drop(q, raw) # <<>>
  BY <1>12, <1>13, SeqIs DEF Text
<1> QED
  BY <1>12, <1>13, <1>14, <1>15 DEF q, x, kr, r

\* A rest whose kana the code can read.
Readable(rest, fs) ==
  \/ Plain(rest)
  \/ /\ Keys = 1 /\ fs # <<>>
     /\ PlainBefore(Len(Last(fs).reading), rest) /\ Len(Last(fs).reading) < Len(rest)

\* Only a clause with nothing ahead may make its row from nothing.
OnlyFirst(bootstrap, fs) == bootstrap \in BOOLEAN /\ (bootstrap => fs = <<>>)

\* Text that ends with kana, and is kana before that, is kana.
LEMMA PlainEnd ==
  ASSUME NEW t \in Text, NEW b \in Text, IsSuffix(b, t), Plain(b), PlainBefore(Len(b), t)
  PROVE Plain(t)
<1>1. BeforeSuffix(b, t) \in Text /\ t = BeforeSuffix(b, t) \o b
  BY SuffixIs DEF Text
<1> DEFINE a == BeforeSuffix(b, t)
<1>2. a \in Text /\ t = a \o b
  BY <1>1
<1> HIDE DEF a
<1> QED
  BY <1>2, PlainBeforeCat, PlainCat

\* Plain text of the kana of a tail is the tail, spelled plainly.
LEMMA PlainRear ==
  ASSUME NEW p, Frame(p), NEW t \in Text, Plain(t), NEW r \in 0..Len(p.whole),
         Kana(t) = Rear(r, p.whole)
  PROVE t = Spelled(0, Rear(r, p.whole)) /\ Len(t) = r
<1>1. t = Spelled(0, Kana(t))
  BY PlainIs
<1>2. Len(Rear(r, p.whole)) = r
  BY NumIs
<1> QED
  BY <1>1, <1>2, KanaIs

\* Kana at the end of the whole are a suffix of kana further to the left.
LEMMA RearsAreSuffixes ==
  ASSUME NEW p, Frame(p), NEW m \in 0..Len(p.whole), NEW r \in 0..m
  PROVE /\ IsSuffix(Spelled(0, Rear(r, p.whole)), Spelled(0, Rear(m, p.whole)))
        /\ Spelled(0, Rear(m, p.whole)) =
             BeforeSuffix(Spelled(0, Rear(r, p.whole)), Spelled(0, Rear(m, p.whole)))
               \o Spelled(0, Rear(r, p.whole))
        /\ BeforeSuffix(Spelled(0, Rear(r, p.whole)), Spelled(0, Rear(m, p.whole))) \in Text
        /\ Drop(m - r, Spelled(0, Rear(m, p.whole))) = Spelled(0, Rear(r, p.whole))
<1> DEFINE w == p.whole  s == Spelled(0, w)
<1>1. w \in Kanas /\ Len(w) \in Nat
  BY SeqIs DEF Frame, Frames, Kanas
<1>2. r \in 0..Len(w) /\ m \in 0..Len(w)
  BY <1>1
<1> HIDE DEF w
<1>3. s \in Text /\ Len(s) = Len(w)
  BY <1>1, SpelledIs
<1>4. Spelled(0, Rear(r, w)) = Rear(r, s) /\ Spelled(0, Rear(m, w)) = Rear(m, s)
  BY <1>1, <1>2, SpelledRear
<1> HIDE DEF s
<1>5. m \in 0..Len(s) /\ r \in 0..Len(s)
  BY <1>2, <1>3
<1>6. IsSuffix(Rear(r, s), Rear(m, s)) /\ Drop(m - r, Rear(m, s)) = Rear(r, s)
  BY <1>3, <1>5, RearIsSuffix, RearOfRear DEF Text
<1>7. Rear(r, s) \in Text /\ Rear(m, s) \in Text
  BY <1>3, <1>5, RearIs DEF Text
<1>8. BeforeSuffix(Rear(r, s), Rear(m, s)) \in Text
      /\ Rear(m, s) = BeforeSuffix(Rear(r, s), Rear(m, s)) \o Rear(r, s)
  BY <1>6, <1>7, SuffixIs DEF Text
<1> QED
  BY <1>4, <1>6, <1>8 DEF w, s

\* Conversely, a suffix of kana is kana.
LEMMA SuffixPlain ==
  ASSUME NEW t \in Text, NEW b \in Text, IsSuffix(b, t), Plain(t)
  PROVE Plain(b)
<1>1. BeforeSuffix(b, t) \in Text /\ t = BeforeSuffix(b, t) \o b
  BY SuffixIs DEF Text
<1> DEFINE a == BeforeSuffix(b, t)
<1>2. a \in Text /\ t = a \o b
  BY <1>1
<1> HIDE DEF a
<1> QED
  BY <1>2, PlainCat

\* What read_ahead returns: the kana that a candidate leaves over, plainly
\* spelled, or nothing.
LEMMA ReadAheadIs ==
  ASSUME NEW p, Frame(p), NEW fs, Row(fs, p), NEW m \in 1..Len(p.whole), NEW item \in Items,
         Tells(item, m, p), NEW raw, raw = Rear(Keys * m + p.extra, p.keys),
         NEW reading, reading = Spelled(0, Rear(m, p.whole)), NEW bootstrap,
         OnlyFirst(bootstrap, fs), Readable(item.rest, fs)
  PROVE ReadAhead(fs, raw, reading, item.count, item.rest, bootstrap) =
          IF item.rest = <<>> THEN <<>> ELSE Spelled(0, Rear(Len(item.rest), p.whole))
<1> DEFINE rest == item.rest  r == Len(rest)  x == p.extra  f == Last(fs)
           rawRest == Drop(item.count, raw)
           hinted == IF fs = <<>> THEN rest ELSE ReadFuture(rest, f)
           same == {i \in DOMAIN fs : rawRest # <<>> /\ fs[i].raw = rawRest}
           goal == Spelled(0, Rear(r, p.whole))
           out == ReadAhead(fs, raw, reading, item.count, rest, bootstrap)
<1>1. Len(p.whole) \in Nat /\ m \in 0..Len(p.whole) /\ m \in Nat
  BY NumIs, SeqIs DEF Frame, Frames, Kanas
<1>2. Keys \in Nat \ {0} /\ x \in Nat /\ reading \in Text /\ Len(reading) = m /\ Plain(reading)
  BY <1>1, NumIs, PlainSpelled
<1>3. rest \in Text /\ (rest = <<>> <=> r = 0) /\ r \in Nat
  BY SeqIs DEF Items, Text
<1>4. r \in 0..m-1 /\ Kana(rest) = Rear(r, p.whole) /\ Len(item.text) \in 1..m
        /\ Len(item.text) + r = m
      /\ item.count \in Nat
  BY <1>1, TellsIs DEF Items
<1>5. r \in 0..Len(p.whole) /\ r \in 0..m
  BY <1>1, <1>4
<1>6. /\ rawRest \in Text
      /\ rest # <<>> => rawRest = Rear(Keys * r + x, p.keys) /\ rawRest # <<>>
      /\ rest = <<>> => Len(rawRest) <= x
  BY RawRestIs
<1>7. out = IF same # {} THEN fs[Max(same)].reading
            ELSE IF hinted # <<>> /\ IsSuffix(hinted, reading) THEN hinted
            ELSE IF fs # <<>> /\ IsSuffix(f.reading, hinted) THEN f.reading
            ELSE IF fs # <<>> /\ ~bootstrap THEN Drop(item.count, reading) ELSE <<>>
  BY DEF ReadAhead, RawSuffix
<1> SUFFICES out = IF rest = <<>> THEN <<>> ELSE goal
  OBVIOUS
<1> HIDE DEF out, rawRest
<1>8. fs \in Seq(Futures) /\ Len(fs) \in Nat /\ DOMAIN fs = 1..Len(fs)
      /\ \A i \in 1..Len(fs) : FuturePart(fs[i], p)
  BY SeqIs DEF Row
<1>9. \A i \in same : rest # <<>> /\ fs[i].reading = goal
  <2> TAKE i \in same
  <2> DEFINE g == fs[i]  k == Len(g.reading)
  <2>1. FuturePart(g, p) /\ g.raw = rawRest
    BY <1>8
  <2> HIDE DEF g
  <2>2. k \in 1..Len(p.whole) /\ g.reading = Spelled(0, Rear(k, p.whole))
          /\ Len(g.raw) = Keys * k + x
        /\ k \in 0..Len(p.whole)
    BY <2>1, BaseIs, FutureFields DEF FuturePart
  <2> HIDE DEF k
  <2>3. k \in Nat /\ k # 0 /\ Keys * k \in Nat /\ k <= Keys * k
    BY <1>1, <1>2, <2>2, Times
  <2>4. rest # <<>>
    <3>1. Len(rawRest) > x
      BY <1>2, <2>1, <2>2, <2>3
    <3>2. Len(rawRest) \in Nat
      BY <1>6, SeqIs DEF Text
    <3> QED
      BY <1>2, <1>6, <3>1, <3>2
  <2>5. Len(rawRest) = Keys * r + x
    BY <1>5, <1>6, <2>4, NumIs
  <2>6. k = r
    <3>0. Keys * r \in Nat
      BY <1>2, <1>3, Times
    <3>1. Keys * k = Keys * r
      <4> DEFINE a == Keys * k  b == Keys * r
      <4>1. a \in Nat /\ b \in Nat /\ a + x = b + x
        BY <2>1, <2>2, <2>3, <2>5, <3>0
      <4> HIDE DEF a, b, x
      <4>2. a = b
        BY <1>2, <4>1
      <4> QED
        BY <4>2 DEF a, b
    <3> HIDE DEF r
    <3> QED
      BY <1>2, <1>3, <2>3, <3>1, Times
  <2> QED
    BY <2>2, <2>4, <2>6 DEF g
<1>10. same # {} => Max(same) \in same
  <2>1. same \in SUBSET (0..Len(fs))
    BY <1>8
  <2> HIDE DEF same
  <2> QED
    BY <1>8, <2>1, MaxIs
<1> HIDE DEF same
<1>11. CASE same # {}
  BY <1>7, <1>9, <1>10, <1>11
<1> HIDE DEF goal
<1>12. fs # <<>> => /\ FuturePart(f, p) /\ f.reading \in Text /\ Plain(f.reading)
                       /\ f.reading # <<>>
                    /\ Len(f.reading) \in Nat
  BY RowFront, BaseIs, FutureFields DEF FuturePart
<1> HIDE DEF f
<1>13. hinted \in Text /\ Kana(hinted) = Kana(rest) /\ Len(hinted) = r
  BY <1>3, <1>12, ReadFutureIs
<1>14. Plain(rest) => Plain(hinted)
  <2> SUFFICES ASSUME Plain(rest) PROVE Plain(hinted)
    OBVIOUS
  <2>1. CASE fs = <<>>
    BY <2>1
  <2>2. CASE fs # <<>>
    <3>1. PlainBefore(Len(f.reading), rest)
      BY <1>3, <1>12, <2>2, PlainAnyCut
    <3>2. IsSuffix(Display(f), rest) => Plain(ReadFuture(rest, f))
      BY <1>3, <1>12, <2>2, <3>1, ReadFutureIs
    <3>3. ~IsSuffix(Display(f), rest) => ReadFuture(rest, f) = rest
      BY <1>3, <1>12, <2>2, ReadFutureIs
    <3> QED
      BY <2>2, <3>2, <3>3
  <2> QED
    BY <2>1, <2>2
<1>15. Plain(hinted) => hinted = goal
  BY <1>4, <1>5, <1>13, PlainRear DEF goal
<1>16. IsSuffix(goal, reading) /\ Drop(m - r, reading) = goal
  BY <1>1, <1>5, RearsAreSuffixes DEF goal
<1>17. IsSuffix(hinted, reading) => Plain(hinted)
  BY <1>2, <1>13, SuffixPlain
<1>18. CASE same = {} /\ rest = <<>>
  <2>1. hinted = <<>>
    BY <1>3, <1>13, <1>18, SeqIs DEF Text
  <2>2. ~(fs # <<>> /\ IsSuffix(f.reading, hinted))
    <3> SUFFICES ASSUME fs # <<>>, IsSuffix(f.reading, hinted) PROVE FALSE
      OBVIOUS
    <3>1. Len(f.reading) <= Len(hinted)
      BY <1>12, <1>13, SuffixIs DEF Text
    <3>2. Len(hinted) = 0 /\ Len(f.reading) # 0
      BY <1>3, <1>12, <1>13, <1>18, SeqIs DEF Text
    <3> QED
      BY <1>12, <3>1, <3>2
  <2>3. Drop(item.count, reading) = <<>>
    <3>1. item.count >= Keys * m
      BY <1>1, <1>18, TellsIs
    <3>2. m <= Keys * m /\ Keys * m \in Nat
      BY <1>1, <1>2, Times
    <3>3. item.count >= Len(reading)
      BY <1>1, <1>2, <1>4, <3>1, <3>2
    <3> QED
      BY <1>2, <1>4, <3>3, DropAll DEF Text
  <2> QED
    BY <1>7, <1>18, <2>1, <2>2, <2>3
<1>19. CASE same = {} /\ rest # <<>> /\ Plain(hinted)
  <2>1. hinted # <<>>
    BY <1>3, <1>13, <1>19, SeqIs DEF Text
  <2> QED
    BY <1>7, <1>15, <1>16, <1>19, <2>1
<1>20. CASE same = {} /\ rest # <<>> /\ ~Plain(hinted)
  <2>1. Keys = 1 /\ fs # <<>> /\ PlainBefore(Len(f.reading), rest) /\ ~bootstrap
    BY <1>14, <1>20 DEF Readable, OnlyFirst, f
  <2>2. hinted = rest
    BY <1>3, <1>12, <1>20, <2>1, ReadFutureIs
  <2>3. ~IsSuffix(f.reading, hinted)
    BY <1>3, <1>12, <1>20, <2>1, <2>2, PlainEnd
  <2>4. out = Drop(item.count, reading)
    BY <1>7, <1>17, <1>20, <2>1, <2>3
  <2>5. item.count = m - r
    <3> DEFINE t == Len(item.text)
    <3>1. item.count = Keys * t /\ t \in 1..m /\ t + r = m
      BY <1>4, <1>20 DEF Tells
    <3> HIDE DEF t, r
    <3>2. t \in Nat /\ Keys * t = t
      BY <1>1, <2>1, <3>1
    <3> QED
      BY <1>1, <1>3, <3>1, <3>2 DEF r
  <2> QED
    BY <1>16, <1>20, <2>4, <2>5
<1> QED
  BY <1>11, <1>18, <1>19, <1>20

\* Taking nothing off the end leaves all.
LEMMA NoSuffix ==
  ASSUME NEW S, NEW s \in Seq(S)
  PROVE BeforeSuffix(<<>>, s) = s
<1>1. <<>> \in Seq(S) /\ s \o <<>> = s
  BY Cat
<1>2. BeforeSuffix(<<>>, s \o <<>>) = s
  BY <1>1, SuffixOfCat
<1> QED
  BY <1>1, <1>2

\* What lies between the last r kana and the last k.
LEMMA BetweenIs ==
  ASSUME NEW p, Frame(p), NEW r \in 1..Len(p.whole), NEW k \in 1..Len(p.whole), k < r
  PROVE LET long == Spelled(0, Rear(r, p.whole))  short == Spelled(0, Rear(k, p.whole))
            raw == Rear(Keys * r + p.extra, p.keys)  tail == Rear(Keys * k + p.extra, p.keys)
            between == BeforeSuffix(short, long)
        IN /\ between \in Text /\ between # <<>>
              /\ Kana(between) \o Rear(k, p.whole) = Rear(r, p.whole)
           /\ IsSuffix(short, long) /\ short # long /\ Len(between) = r - k
           /\ IsSuffix(tail, raw) /\ raw \in Text /\ tail \in Text
           /\ Len(BeforeSuffix(tail, raw)) = Keys * Len(between)
           /\ Len(raw) - Len(tail) = Keys * Len(between)
           /\ Keys * Len(between) \in Nat /\ Keys * Len(between) <= Keys * r + p.extra
<1> DEFINE long == Spelled(0, Rear(r, p.whole))  short == Spelled(0, Rear(k, p.whole))
           raw == Rear(Keys * r + p.extra, p.keys)  tail == Rear(Keys * k + p.extra, p.keys)
           between == BeforeSuffix(short, long)  rest == BeforeSuffix(tail, raw)
<1>1. Len(p.whole) \in Nat /\ r \in 0..Len(p.whole) /\ k \in 0..r /\ k \in 0..Len(p.whole)
      /\ r \in Nat /\ k \in Nat
  BY NumIs, SeqIs DEF Frame, Frames, Kanas
<1>2. /\ Keys \in Nat \ {0} /\ Keys * r \in Nat /\ p.extra \in Nat
      /\ Keys * r + p.extra \in 0..Len(p.keys) /\ p.keys \in Text
      /\ long \in Text /\ Len(long) = r /\ Kana(long) = Rear(r, p.whole)
      /\ raw \in Text /\ Len(raw) = Keys * r + p.extra
  BY <1>1, NumIs
<1>3. /\ Keys * k \in Nat /\ Keys * k + p.extra \in 0..Len(p.keys)
      /\ short \in Text /\ Len(short) = k /\ Kana(short) = Rear(k, p.whole)
      /\ tail \in Text /\ Len(tail) = Keys * k + p.extra
  BY <1>1, NumIs
<1>4. Keys * k <= Keys * r /\ Keys * (r - k) = Keys * r - Keys * k
  BY <1>1, <1>2, Times
<1>5. IsSuffix(short, long) /\ between \in Text /\ long = between \o short
  BY <1>1, RearsAreSuffixes
<1>6. IsSuffix(tail, raw)
  <2> DEFINE a == Keys * r + p.extra  b == Keys * k + p.extra
  <2>1. a \in 0..Len(p.keys) /\ b \in 0..a
    <3> DEFINE kr == Keys * r  kk == Keys * k
    <3>1. kr \in Nat /\ kk \in Nat /\ kk <= kr /\ a = kr + p.extra /\ b = kk + p.extra
          /\ p.extra \in Nat /\ a \in 0..Len(p.keys)
      BY <1>2, <1>3, <1>4
    <3> HIDE DEF kr, kk, a, b
    <3> QED
      BY <3>1
  <2> HIDE DEF a, b
  <2>2. IsSuffix(Rear(b, p.keys), Rear(a, p.keys))
    BY <1>2, <2>1, RearIsSuffix DEF Text
  <2> QED
    BY <2>2 DEF a, b
<1> HIDE DEF long, short, raw, tail
<1>7. rest \in Text /\ raw = rest \o tail
  BY <1>2, <1>3, <1>6, SuffixIs DEF Text
<1> HIDE DEF between, rest
<1>8. Len(long) = Len(between) + Len(short) /\ Kana(long) = Kana(between) \o Kana(short)
      /\ Len(between) \in Nat
  <2>1. Len(between \o short) = Len(between) + Len(short)
    BY <1>3, <1>5, TextCat
  <2>2. Kana(between \o short) = Kana(between) \o Kana(short)
    BY <1>3, <1>5, KanaCat
  <2>3. Len(between) \in Nat
    BY <1>5, SeqIs DEF Text
  <2> QED
    BY <1>5, <2>1, <2>2, <2>3
<1>9. Len(raw) = Len(rest) + Len(tail) /\ Len(rest) \in Nat
  <2>1. Len(rest \o tail) = Len(rest) + Len(tail)
    BY <1>3, <1>7, TextCat
  <2>2. Len(rest) \in Nat
    BY <1>7, SeqIs DEF Text
  <2> QED
    BY <1>7, <2>1, <2>2
<1>10. Len(between) = r - k /\ Len(between) # 0
  BY <1>1, <1>2, <1>3, <1>8
<1>11. between # <<>>
  BY <1>5, <1>10, SeqIs DEF Text
<1>12. short # long
  BY <1>2, <1>3
<1>13. Keys * Len(between) = Keys * r - Keys * k
  BY <1>4, <1>10
<1> DEFINE kr == Keys * r  kk == Keys * k  kb == Keys * Len(between)
<1>14. kr \in Nat /\ kk \in Nat /\ kk <= kr /\ kb = kr - kk /\ Len(raw) = kr + p.extra
       /\ Len(tail) = kk + p.extra /\ p.extra \in Nat
  BY <1>2, <1>3, <1>4, <1>13
<1> HIDE DEF kr, kk, kb
<1>15. Len(rest) = kb /\ Len(raw) - Len(tail) = kb /\ kb \in Nat /\ kb <= kr + p.extra
  <2> DEFINE x == p.extra  a == Len(rest)  b == Len(raw)  c == Len(tail)
  <2>1. kr \in Nat /\ kk \in Nat /\ kk <= kr /\ kb = kr - kk /\ b = kr + x /\ c = kk + x
          /\ x \in Nat
        /\ b = a + c /\ a \in Nat
    BY <1>9, <1>14
  <2> HIDE DEF x, a, b, c
  <2>2. a = kb /\ b - c = kb /\ kb \in Nat /\ kb <= kr + x
    BY <2>1
  <2> QED
    BY <2>2 DEF x, a, b, c
<1> QED
  BY <1>2, <1>3, <1>5, <1>6, <1>8, <1>10, <1>11, <1>12, <1>15
     DEF long, short, raw, tail, between, rest, kr, kb

\* A remainder that grows at its front is a row again, up to the new boundary.
LEMMA StretchedIs ==
  ASSUME NEW p, Frame(p), NEW kept, Row(kept, p), kept # <<>>, Last(kept).remainder,
         Front(kept) = <<>> => Last(kept).conservative,
         NEW r \in 1..Len(p.whole), Len(Last(kept).reading) <= r,
         NEW raw, raw = Rear(Keys * r + p.extra, p.keys), NEW group \in Nat
  PROVE LET out == Stretched(kept, raw, Spelled(0, Rear(r, p.whole)), group)
        IN Row(out, p) /\ out # <<>> /\ Len(Last(out).reading) = r
<1> DEFINE f == Last(kept)  g == Front(kept)  b == Last(g)  long == Spelled(0, Rear(r, p.whole))
<1>1. /\ Row(g, p) /\ FuturePart(f, p) /\ Before(f, g)
      /\ g = <<>> /\ f.conservative => f.suffix = <<>>
  BY RowFront
<1>2. /\ kept \in Seq(Futures) /\ g \in Seq(Futures) /\ Len(g) = Len(kept) - 1 /\ Len(kept) \in Nat
      /\ (\A i \in 1..Len(kept) - 1 : g[i] = kept[i]) /\ (g = <<>> <=> Len(g) = 0)
  <2>1. kept \in Seq(Futures)
    BY DEF Row
  <2>2. g \in Seq(Futures) /\ Len(g) = Len(kept) - 1 /\ (\A i \in 1..Len(kept) - 1 : g[i] = kept[i])
    BY <2>1, FrontIs
  <2> QED
    BY <2>1, <2>2, SeqIs
<1>3. Len(p.whole) \in Nat /\ r \in 0..Len(p.whole) /\ r \in Nat
  BY NumIs, SeqIs DEF Frame, Frames, Kanas
<1>4. /\ Keys \in Nat \ {0} /\ Keys * r \in Nat /\ p.extra \in Nat
      /\ long \in Text /\ Len(long) = r /\ Kana(long) = Rear(r, p.whole)
      /\ raw \in Text /\ Len(raw) = Keys * r + p.extra
  BY <1>3, NumIs
<1>5. f.suffix \in Text /\ f.reading \in Text /\ f.view \in Views
  BY <1>1, FutureFields DEF FuturePart
<1> HIDE DEF f, g, long
<1>6. CASE g = <<>>
  <2> DEFINE new == Remainder(long, <<>>, raw, long, Len(raw), group)
  <2>1. Stretched(kept, raw, long, group) = Append(g, new)
    <3>1. ~(Len(kept) > 1)
      <4> DEFINE n == Len(kept)
      <4>1. n - 1 = 0 /\ n \in Nat
        BY <1>2, <1>6
      <4> HIDE DEF n
      <4>2. ~(n > 1)
        BY <4>1
      <4> QED
        BY <4>2 DEF n
    <3>2. BeforeSuffix(<<>>, long) = long /\ BeforeSuffix(<<>>, raw) = raw
      BY <1>4, NoSuffix DEF Text
    <3>3. f.suffix = <<>>
      BY <1>1, <1>6 DEF f, g
    <3> QED
      BY <3>1, <3>2, <3>3 DEF Stretched, f, g
  <2>2. Kana(long) \o Kana(<<>>) = Rear(r, p.whole) /\ <<>> \in Text
    <3> DEFINE none == <<>>
    <3>1. none \in Text /\ long \o none = long
      BY <1>4, TextCat
    <3> HIDE DEF none
    <3>2. Kana(long \o none) = Kana(long) \o Kana(none)
      BY <1>4, <3>1, KanaCat
    <3>3. Kana(long) \o Kana(none) = Rear(r, p.whole)
      BY <1>4, <3>1, <3>2
    <3> QED
      BY <3>1, <3>3 DEF none
  <2>3. long # <<>> /\ Keys * Len(long) <= Len(raw) /\ Len(raw) <= Keys * r + p.extra
    BY <1>3, <1>4, SeqIs DEF Text
  <2>4. Len(raw) \in Nat
    BY <1>3, <1>4, SeqIs DEF Text
  <2> DEFINE count == Len(raw)  none == <<>>
  <2> HIDE DEF count
  <2>5. FuturePart(Remainder(long, none, raw, long, count, group), p)
        /\ Len(Remainder(long, none, raw, long, count, group).reading) = r
        /\ Remainder(long, none, raw, long, count, group).suffix = none
        /\ Remainder(long, none, raw, long, count, group).view.items = <<Item(long, none, count)>>
    <3>1. Keys * Len(long) <= count /\ count <= Keys * r + p.extra /\ count \in Nat
      BY <2>3, <2>4 DEF count
    <3>2. none \in Text /\ Kana(long) \o Kana(none) = Rear(r, p.whole) /\ none = <<>>
      BY <2>2
    <3>3. long = Spelled(0, Rear(r, p.whole)) /\ long \in Text /\ long # <<>>
      BY <1>4, <2>3 DEF long
    <3> HIDE DEF none
    <3>4. none # <<>> => count = Keys * Len(long)
      BY <3>2
    <3>5. LeftPart(long, none, raw, long, count, group, r, p)
      BY <3>1, <3>2, <3>3, <3>4 DEF LeftPart
    <3> QED
      BY <3>5, RemainderIs
  <2>6. FuturePart(new, p) /\ Len(new.reading) = r /\ new.suffix = <<>>
        /\ new.view.items = <<Item(long, <<>>, Len(raw))>>
    BY <2>5 DEF count
  <2> HIDE DEF new
  <2>7. Before(new, g)
    <3>1. \A i \in DOMAIN new.view.items : new.view.items[i].rest = <<>>
      BY <2>6 DEF Item
    <3>2. PlainBefore(0, <<>>)
      BY DEF PlainBefore
    <3> QED
      BY <1>6, <3>1, <3>2 DEF Before, RestsPlain
  <2>8. Row(Append(g, new), p) /\ Append(g, new) # <<>> /\ Last(Append(g, new)) = new
    BY <1>1, <2>6, <2>7, RowAppend DEF g
  <2> QED
    BY <2>1, <2>6, <2>8 DEF long
<1>7. CASE g # <<>>
  <2> DEFINE k == Len(b.reading)
  <2>1. FuturePart(b, p) /\ Chain(f, b)
    BY <1>1, <1>7, RowFront DEF Before, g, f
  <2> HIDE DEF b
  <2>2. f.suffix # <<>> /\ Len(f.suffix) = k /\ k < Len(f.reading) /\ f.remainder
    BY <2>1 DEF Chain, f
  <2>3. k \in 1..Len(p.whole) /\ b.reading = Spelled(0, Rear(k, p.whole))
        /\ b.raw = Rear(Keys * k + p.extra, p.keys)
    BY <2>1, BaseIs, FutureFields DEF FuturePart, Base
  <2>4. k < r
    <3>1. Len(f.reading) \in Nat /\ Len(f.reading) <= r
      BY <1>5, SeqIs DEF Text, f
    <3> QED
      BY <1>3, <2>2, <2>3, <3>1
  <2>5. Kana(f.suffix) = Rear(k, p.whole)
    <3>1. Kana(f.suffix) = Rear(Len(f.suffix), p.whole)
      BY <1>1, <1>5, EndsIs DEF FuturePart, f
    <3> QED
      BY Zenon, <2>2, <3>1
  <2> DEFINE preview == BeforeSuffix(b.reading, long)  count == Len(BeforeSuffix(b.raw, raw))
             new == Remainder(preview, f.suffix, raw, long, count, group)
  <2>6. Stretched(kept, raw, long, group) = Append(g, new)
    <3>1. Len(kept) > 1 /\ kept[Len(kept) - 1] = b
      <4>1. Len(g) # 0 /\ Len(kept) - 1 \in 1..Len(kept)-1 /\ Len(kept) > 1
        BY <1>2, <1>7
      <4>2. b = g[Len(g)]
        BY DEF b, Last
      <4> QED
        BY <1>2, <4>1, <4>2
    <3> QED
      BY <3>1 DEF Stretched, f, g
  <2> HIDE DEF k
  <2>7. /\ preview \in Text /\ preview # <<>>
           /\ Kana(preview) \o Rear(k, p.whole) = Rear(r, p.whole)
        /\ count = Keys * Len(preview) /\ count \in Nat /\ count <= Keys * r + p.extra
    <3> DEFINE lng == Spelled(0, Rear(r, p.whole))  sht == Spelled(0, Rear(k, p.whole))
               rw == Rear(Keys * r + p.extra, p.keys)  tl == Rear(Keys * k + p.extra, p.keys)
               bt == BeforeSuffix(sht, lng)
    <3>1. /\ bt \in Text /\ bt # <<>> /\ Kana(bt) \o Rear(k, p.whole) = Rear(r, p.whole)
          /\ Len(BeforeSuffix(tl, rw)) = Keys * Len(bt)
          /\ Keys * Len(bt) \in Nat /\ Keys * Len(bt) <= Keys * r + p.extra
      BY <2>3, <2>4, BetweenIs
    <3>2. b.reading = sht /\ long = lng /\ b.raw = tl /\ raw = rw
      BY <2>3 DEF long
    <3> HIDE DEF lng, sht, rw, tl
    <3> QED
      BY <3>1, <3>2
  <2> HIDE DEF preview, count
  <2>8. FuturePart(new, p) /\ Len(new.reading) = r /\ new.suffix = f.suffix
    <3>1. Kana(preview) \o Kana(f.suffix) = Rear(r, p.whole) /\ Keys * Len(preview) <= count
          /\ long = Spelled(0, Rear(r, p.whole))
      <4>1. Len(preview) \in Nat
        BY <2>7, SeqIs DEF Text
      <4> QED
        BY <2>5, <2>7, <4>1 DEF long
    <3>2. LeftPart(preview, f.suffix, raw, long, count, group, r, p)
      BY <1>5, <2>7, <3>1 DEF LeftPart
    <3> QED
      BY <3>2, RemainderIs
  <2> HIDE DEF new
  <2>9. Before(new, g)
    <3>1. Chain(new, b)
      BY <2>2, <2>4, <2>8 DEF Chain, k
    <3> QED
      BY <1>7, <3>1 DEF Before, b
  <2>10. Row(Append(g, new), p) /\ Append(g, new) # <<>> /\ Last(Append(g, new)) = new
    BY <1>1, <1>7, <2>8, <2>9, RowAppend DEF g
  <2> QED
    BY <2>6, <2>8, <2>10 DEF long
<1> QED
  BY <1>6, <1>7

\* So is a row that gets a remainder in front of it.
LEMMA InsertedIs ==
  ASSUME NEW p, Frame(p), NEW kept, Row(kept, p), kept # <<>>,
         NEW r \in 1..Len(p.whole), Len(Last(kept).reading) < r,
         NEW raw, raw = Rear(Keys * r + p.extra, p.keys), NEW group \in Nat
  PROVE LET out == Inserted(kept, raw, Spelled(0, Rear(r, p.whole)), group)
        IN Row(out, p) /\ out # <<>> /\ Len(Last(out).reading) = r
<1> DEFINE f == Last(kept)  long == Spelled(0, Rear(r, p.whole))  k == Len(f.reading)
<1>1. FuturePart(f, p)
  BY RowFront
<1>2. Len(p.whole) \in Nat /\ r \in 0..Len(p.whole) /\ r \in Nat
  BY NumIs, SeqIs DEF Frame, Frames, Kanas
<1>3. k < r
  OBVIOUS
<1> HIDE DEF f
<1>4. /\ k \in 1..Len(p.whole) /\ f.reading = Spelled(0, Rear(k, p.whole))
      /\ f.raw = Rear(Keys * k + p.extra, p.keys) /\ Kana(f.reading) = Rear(k, p.whole)
  BY <1>1, BaseIs, FutureFields DEF FuturePart, Base
<1>5. Display(f) \in Text /\ Kana(Display(f)) = Rear(k, p.whole) /\ Len(Display(f)) = k
      /\ Display(f) # <<>>
  BY <1>1, <1>4, DisplayIs
<1> DEFINE between == BeforeSuffix(f.reading, long)  count == Len(raw) - Len(f.raw)
           new == Remainder(between, Display(f), raw, long, count, group)
<1> HIDE DEF k, long
<1>6. /\ between \in Text /\ between # <<>> /\ Kana(between) \o Rear(k, p.whole) = Rear(r, p.whole)
      /\ count = Keys * Len(between) /\ count \in Nat /\ count <= Keys * r + p.extra
      /\ IsSuffix(f.raw, raw)
  <2> DEFINE lng == Spelled(0, Rear(r, p.whole))  sht == Spelled(0, Rear(k, p.whole))
             rw == Rear(Keys * r + p.extra, p.keys)  tl == Rear(Keys * k + p.extra, p.keys)
             bt == BeforeSuffix(sht, lng)
  <2>1. /\ bt \in Text /\ bt # <<>> /\ Kana(bt) \o Rear(k, p.whole) = Rear(r, p.whole)
        /\ Len(rw) - Len(tl) = Keys * Len(bt) /\ IsSuffix(tl, rw)
        /\ Keys * Len(bt) \in Nat /\ Keys * Len(bt) <= Keys * r + p.extra
    BY <1>3, <1>4, BetweenIs
  <2>2. f.reading = sht /\ long = lng /\ f.raw = tl /\ raw = rw
    BY <1>4 DEF long
  <2> HIDE DEF lng, sht, rw, tl
  <2> QED
    BY <2>1, <2>2
<1>7. Inserted(kept, raw, long, group) = Append(kept, new)
  BY <1>6 DEF Inserted, f
<1> HIDE DEF between, count
<1>8. FuturePart(new, p) /\ Len(new.reading) = r /\ new.suffix = Display(f)
  <2>1. Keys * Len(between) <= count
    <3>1. Len(between) \in Nat
      BY <1>6, SeqIs DEF Text
    <3> QED
      BY <1>6, <3>1
  <2>2. LeftPart(between, Display(f), raw, long, count, group, r, p)
    BY <1>5, <1>6, <2>1 DEF LeftPart, long
  <2> QED
    BY <2>2, RemainderIs
<1> HIDE DEF new
<1>9. Before(new, kept)
  <2>1. Chain(new, f)
    BY <1>3, <1>5, <1>8 DEF Chain, k
  <2> QED
    BY <2>1 DEF Before, f
<1>10. Row(Append(kept, new), p) /\ Append(kept, new) # <<>> /\ Last(Append(kept, new)) = new
  BY <1>8, <1>9, RowAppend
<1> QED
  BY <1>7, <1>8, <1>10 DEF long

\* So is either, whichever the kept clause calls for.
LEMMA FitIs ==
  ASSUME NEW p, Frame(p), NEW kept, Row(kept, p), kept # <<>>,
         NEW r \in 1..Len(p.whole), Len(Last(kept).reading) <= r,
         NEW raw, raw = Rear(Keys * r + p.extra, p.keys), NEW group \in Nat
  PROVE LET out == Fit(kept, raw, Spelled(0, Rear(r, p.whole)), group)
        IN Row(out, p) /\ out # <<>> /\ Len(Last(out).reading) = r
<1> DEFINE f == Last(kept)  long == Spelled(0, Rear(r, p.whole))
           stretch == f.conservative \/ (f.remainder /\ f.group = group /\ Len(kept) > 1)
<1>1. FuturePart(f, p)
  BY RowFront
<1>2. Len(p.whole) \in Nat /\ r \in 0..Len(p.whole) /\ r \in Nat
  BY NumIs, SeqIs DEF Frame, Frames, Kanas
<1>3. /\ Len(f.reading) \in 1..Len(p.whole) /\ f.reading = Spelled(0, Rear(Len(f.reading), p.whole))
      /\ Len(f.reading) \in Nat
  BY <1>1, BaseIs, FutureFields DEF FuturePart, Base
<1>4. Len(long) = r
  BY <1>2, NumIs
<1>5. kept \in Seq(Futures) /\ Len(Front(kept)) = Len(kept) - 1 /\ Len(kept) \in Nat
  <2>1. kept \in Seq(Futures)
    BY DEF Row
  <2> QED
    BY <2>1, FrontIs, SeqIs
<1>6. CASE stretch
  <2>1. Fit(kept, raw, long, group) = Stretched(kept, raw, long, group)
    BY <1>6 DEF Fit
  <2>2. Last(kept).remainder
    BY <1>1, <1>6 DEF FuturePart
  <2>3. Front(kept) = <<>> => Last(kept).conservative
    <3> SUFFICES ASSUME Front(kept) = <<>> PROVE Last(kept).conservative
      OBVIOUS
    <3> DEFINE n == Len(kept)
    <3>1. n - 1 = 0 /\ n \in Nat
      BY <1>5
    <3> HIDE DEF n
    <3>2. ~(n > 1)
      BY <3>1
    <3> QED
      BY <1>6, <3>2 DEF n
  <2> QED
    BY <2>1, <2>2, <2>3, StretchedIs
<1>7. CASE ~stretch /\ IsSuffix(f.reading, long) /\ long # f.reading
  <2>1. Fit(kept, raw, long, group) = Inserted(kept, raw, long, group)
    BY <1>7 DEF Fit
  <2>2. Len(Last(kept).reading) < r
    <3>1. Len(f.reading) # r
      BY <1>3, <1>7
    <3> QED
      BY <1>2, <1>3, <3>1
  <2> QED
    BY <2>1, <2>2, InsertedIs
<1>8. CASE ~stretch /\ ~(IsSuffix(f.reading, long) /\ long # f.reading)
  <2>1. Fit(kept, raw, long, group) = kept
    BY <1>8 DEF Fit
  <2>2. IsSuffix(f.reading, long)
    <3> DEFINE k == Len(f.reading)
    <3>1. k \in 0..r /\ f.reading = Spelled(0, Rear(k, p.whole))
      BY <1>2, <1>3
    <3> HIDE DEF k
    <3> QED
      BY <1>2, <3>1, RearsAreSuffixes
  <2> QED
    BY <1>4, <1>8, <2>1, <2>2
<1> QED
  BY <1>6, <1>7, <1>8

\* What a candidate leaves over of a remembered clause's display is the rest's
\* kana, spelled plainly.
LEMMA LeftOverIs ==
  ASSUME NEW p, Frame(p), NEW f, FuturePart(f, p), NEW rest \in Text, rest # <<>>,
         NEW r \in 1..Len(p.whole), Kana(rest) = Rear(r, p.whole),
         PlainBefore(Len(f.reading), rest)
  PROVE LeftOver(f, Spelled(0, Rear(r, p.whole)), rest) = Spelled(0, Rear(r, p.whole))
<1>1. Len(p.whole) \in Nat /\ r \in 0..Len(p.whole)
  BY NumIs, SeqIs DEF Frame, Frames, Kanas
<1>2. f.reading \in Text /\ Plain(f.reading)
  BY BaseIs, FutureFields DEF FuturePart
<1>3. CASE IsSuffix(Display(f), rest)
  <2> DEFINE out == ReadFuture(rest, f)
  <2>1. out \in Text /\ Kana(out) = Rear(r, p.whole) /\ Plain(out)
    BY <1>3, ReadFutureIs
  <2>2. LeftOver(f, Spelled(0, Rear(r, p.whole)), rest) = out
    BY <1>3 DEF LeftOver
  <2> HIDE DEF out
  <2> QED
    BY <1>1, <2>1, <2>2, PlainRear
<1>4. CASE ~IsSuffix(Display(f), rest) /\ rest = f.reading
  <2>1. LeftOver(f, Spelled(0, Rear(r, p.whole)), rest) = rest
    BY <1>4 DEF LeftOver
  <2> QED
    BY <1>1, <1>2, <1>4, <2>1, PlainRear
<1>5. CASE ~IsSuffix(Display(f), rest) /\ rest # f.reading
  BY <1>5 DEF LeftOver
<1> QED
  BY <1>3, <1>4, <1>5

\* The first remainder of a row tells the rest that it is made of.
LEMMA BootstrappedIs ==
  ASSUME NEW p, Frame(p), NEW rest \in Text, rest # <<>>,
         NEW r \in 1..Len(p.whole), Kana(rest) = Rear(r, p.whole),
         NEW raw, raw = Rear(Keys * r + p.extra, p.keys), NEW group \in Nat
  PROVE LET out == Bootstrapped(raw, Spelled(0, Rear(r, p.whole)), rest, group)
        IN Row(out, p) /\ out # <<>> /\ Len(Last(out).reading) = r
<1> DEFINE long == Spelled(0, Rear(r, p.whole))  none == <<>>  count == Len(raw)
           new == Remainder(rest, none, raw, long, count, group)
<1>1. Len(p.whole) \in Nat /\ r \in 0..Len(p.whole) /\ r \in Nat
  BY NumIs, SeqIs DEF Frame, Frames, Kanas
<1>2. /\ Keys \in Nat \ {0} /\ Keys * r \in Nat /\ p.extra \in Nat
      /\ raw \in Text /\ Len(raw) = Keys * r + p.extra
      /\ Len(Rear(r, p.whole)) = r
  BY <1>1, NumIs
<1>3. Len(rest) = r /\ r <= Keys * r /\ count \in Nat
  <2>1. Len(rest) = r
    BY <1>2, KanaIs
  <2> QED
    BY <1>1, <1>2, <2>1, Times
<1>4. raw # <<>>
  <2>1. Len(raw) # 0
    BY <1>1, <1>2, <1>3
  <2> QED
    BY <1>2, <2>1, SeqIs DEF Text
<1>5. Bootstrapped(raw, long, rest, group) = <<new>>
  BY <1>4 DEF Bootstrapped
<1>6. Kana(rest) \o Kana(none) = Rear(r, p.whole) /\ none \in Text
  <2>1. none \in Text /\ rest \o none = rest
    BY TextCat
  <2> HIDE DEF none
  <2>2. Kana(rest \o none) = Kana(rest) \o Kana(none)
    BY <2>1, KanaCat
  <2> QED
    BY <2>1, <2>2
<1>7. LeftPart(rest, none, raw, long, count, group, r, p)
  <2>1. none # <<>> => count = Keys * Len(rest)
    OBVIOUS
  <2>2. Keys * Len(rest) <= count /\ count <= Keys * r + p.extra
    <3>1. Keys * Len(rest) = Keys * r
      BY <1>3
    <3> DEFINE kr == Keys * r
    <3>2. kr \in Nat /\ p.extra \in Nat /\ count = kr + p.extra /\ Keys * Len(rest) = kr
      BY <1>2, <3>1
    <3> HIDE DEF kr, count
    <3>3. kr <= count /\ count <= kr + p.extra
      BY <3>2
    <3> QED
      BY <3>2, <3>3 DEF kr
  <2> HIDE DEF none, count
  <2> QED
    BY <1>3, <1>6, <2>1, <2>2 DEF LeftPart
<1>8. FuturePart(new, p) /\ Len(new.reading) = r /\ new.suffix = none
      /\ new.view.items = <<Item(rest, none, count)>>
  <2> HIDE DEF none, count, long
  <2> QED
    BY <1>7, RemainderIs
<1>9. Before(new, <<>>)
  <2>1. \A i \in DOMAIN new.view.items : new.view.items[i].rest = <<>>
    BY <1>8 DEF Item
  <2>2. PlainBefore(0, <<>>)
    BY DEF PlainBefore
  <2> QED
    BY <2>1, <2>2 DEF Before, RestsPlain
<1> HIDE DEF new
<1>10. Row(Append(<<>>, new), p) /\ Last(Append(<<>>, new)) = new /\ Append(<<>>, new) # <<>>
  <2>1. <<>> = <<>> /\ new.conservative => new.suffix = <<>>
    BY <1>8
  <2> DEFINE e == <<>>
  <2>2. Row(e, p) /\ Before(new, e) /\ (e = <<>> /\ new.conservative => new.suffix = <<>>)
    BY <1>9, <2>1, RowEmpty
  <2> HIDE DEF e
  <2>3. Row(Append(e, new), p) /\ Last(Append(e, new)) = new /\ Append(e, new) # <<>>
    BY <1>8, <2>2, RowAppend
  <2> QED
    BY <2>3 DEF e
<1>11. Append(<<>>, new) = <<new>>
  OBVIOUS
<1> QED
  BY <1>5, <1>8, <1>10, <1>11 DEF long

\* What a boundary move makes of the clauses ahead: a row that begins where the
\* candidate ends.
LEMMA SplitIs ==
  ASSUME NEW p, Frame(p), NEW fs, Row(fs, p), NEW m \in 1..Len(p.whole), NEW item \in Items,
         Tells(item, m, p), NEW raw, raw = Rear(Keys * m + p.extra, p.keys),
         NEW reading, reading = Spelled(0, Rear(m, p.whole)), NEW bootstrap,
         OnlyFirst(bootstrap, fs), Readable(item.rest, fs), NEW group \in Nat
  PROVE LET out == Split(fs, raw, reading, item.count, item.rest, bootstrap, group)
        IN /\ Row(out, p)
           /\ item.rest = <<>> => out = fs
           /\ item.rest # <<>> /\ out # <<>> => Len(Last(out).reading) = Len(item.rest)
           /\ ~Plain(item.rest) \/ (fs # <<>> /\ Len(Last(fs).reading) < Len(item.rest))
                => out # <<>>
<1> DEFINE rest == item.rest  r == Len(rest)  goal == Spelled(0, Rear(r, p.whole))
           left == Drop(item.count, raw)
           ahead == ReadAhead(fs, raw, reading, item.count, rest, bootstrap)
           out == Split(fs, raw, reading, item.count, rest, bootstrap, group)
           fitting == {i \in DOMAIN fs : IsSuffix(fs[i].reading, goal)}
           last == Max({0} \union fitting)
<1>1. Len(p.whole) \in Nat /\ m \in 0..Len(p.whole) /\ m \in Nat
  BY NumIs, SeqIs DEF Frame, Frames, Kanas
<1>2. rest \in Text /\ (rest = <<>> <=> r = 0) /\ r \in Nat
  BY SeqIs DEF Items, Text
<1>3. r \in 0..m-1 /\ Kana(rest) = Rear(r, p.whole) /\ r \in 0..Len(p.whole)
  <2>1. r \in 0..m-1 /\ Kana(rest) = Rear(r, p.whole)
    BY <1>1, TellsIs
  <2> QED
    BY <1>1, <2>1
<1>4. out = Cut(fs, left, ahead, rest, bootstrap, group)
  BY DEF Split
<1>5. ahead = IF rest = <<>> THEN <<>> ELSE goal
  BY ReadAheadIs
<1>6. rest # <<>> => left = Rear(Keys * r + p.extra, p.keys)
  BY RawRestIs
<1>7. fs \in Seq(Futures) /\ Len(fs) \in Nat /\ DOMAIN fs = 1..Len(fs)
      /\ \A i \in 1..Len(fs) : FuturePart(fs[i], p)
  BY SeqIs DEF Row
<1>8. last \in {0} \union fitting /\ \A i \in fitting : last >= i
  <2>1. {0} \union fitting \in SUBSET (0..Len(fs)) /\ {0} \union fitting # {}
    BY <1>7
  <2> DEFINE S == {0} \union fitting
  <2> HIDE DEF fitting
  <2>2. S \in SUBSET (0..Len(fs)) /\ S # {} /\ S = {0} \union fitting
    BY <2>1
  <2> HIDE DEF S
  <2>3. Max(S) \in S /\ \A y \in S : Max(S) >= y
    BY <1>7, <2>2, MaxIs
  <2> QED
    BY <2>2, <2>3
<1> SUFFICES /\ Row(out, p)
             /\ rest = <<>> => out = fs
             /\ rest # <<>> /\ out # <<>> => Len(Last(out).reading) = r
             /\ ~Plain(rest) \/ (fs # <<>> /\ Len(Last(fs).reading) < r) => out # <<>>
  OBVIOUS
<1>9. Plain(<<>>)
  BY DEF Plain
<1> HIDE DEF out, ahead, left
<1>10. CASE rest = <<>>
  <2>1. out = fs
    BY <1>4, <1>5, <1>10 DEF Cut
  <2>2. Plain(rest)
    BY <1>9, <1>10
  <2> QED
    BY <1>10, <2>1, <2>2
<1>11. ASSUME rest # <<>> PROVE r \in 1..Len(p.whole) /\ goal # <<>> /\ ahead = goal
                               /\ left = Rear(Keys * r + p.extra, p.keys)
  <2>1. Len(goal) = r /\ goal \in Text
    BY <1>3, NumIs
  <2>2. r # 0
    BY <1>2, <1>11
  <2> HIDE DEF r
  <2>3. r \in 1..Len(p.whole)
    BY <1>1, <1>2, <1>3, <2>2
  <2> HIDE DEF goal
  <2> QED
    BY <1>5, <1>6, <1>11, <2>1, <2>2, <2>3, SeqIs DEF Text
<1>12. Plain(rest) \/ (Keys = 1 /\ fs # <<>> /\ PlainBefore(Len(Last(fs).reading), rest)
                        /\ Len(Last(fs).reading) < r)
  BY DEF Readable
<1>13. bootstrap => fs = <<>>
  BY DEF OnlyFirst
<1>14. CASE rest # <<>> /\ fs = <<>> /\ bootstrap
  <2>1. out = Bootstrapped(left, goal, rest, group)
    BY <1>4, <1>11, <1>14 DEF Cut
  <2>2. Row(out, p) /\ out # <<>> /\ Len(Last(out).reading) = r
    BY <1>2, <1>3, <1>11, <1>14, <2>1, BootstrappedIs
  <2> QED
    BY <1>14, <2>2
<1>15. CASE rest # <<>> /\ ~(fs = <<>> /\ bootstrap) /\ last = 0
  <2>1. out = <<>>
    BY <1>4, <1>11, <1>15 DEF Cut
  <2>2. Plain(rest) /\ ~(fs # <<>> /\ Len(Last(fs).reading) < r)
    <3> SUFFICES ASSUME ~Plain(rest) \/ (fs # <<>> /\ Len(Last(fs).reading) < r) PROVE FALSE
      OBVIOUS
    <3> DEFINE n == Len(fs)  f == fs[n]  k == Len(f.reading)
    <3>1. Last(fs) = f /\ n \in 1..n /\ k < r
      BY <1>7, <1>12, SeqIs DEF Last
    <3>2. FuturePart(f, p)
      BY <1>7, <3>1
    <3>3. IsSuffix(f.reading, goal)
      <4> HIDE DEF f
      <4>1. k \in 1..Len(p.whole) /\ f.reading = Spelled(0, Rear(k, p.whole))
        BY <3>2, BaseIs, FutureFields DEF FuturePart, Base
      <4> HIDE DEF k
      <4>2. k \in 0..r
        BY <1>1, <1>2, <3>1, <4>1
      <4> HIDE DEF r
      <4> QED
        BY <1>3, <4>1, <4>2, RearsAreSuffixes
    <3>4. n \in fitting
      BY <1>7, <3>1, <3>3
    <3>5. 0 >= n
      BY <1>8, <1>15, <3>4
    <3> QED
      BY <3>1, <3>5
  <2> QED
    BY <1>15, <2>1, <2>2, RowEmpty
<1>16. CASE rest # <<>> /\ ~(fs = <<>> /\ bootstrap) /\ last # 0
  <2> DEFINE f == fs[last]  kept == SubSeq(fs, 1, last)
  <2>1. last \in 1..Len(fs) /\ IsSuffix(f.reading, goal)
    BY <1>7, <1>8, <1>16
  <2>2. out = Fit(kept, left, LeftOver(f, goal, rest), group)
    BY <1>4, <1>11, <1>16 DEF Cut
  <2> HIDE DEF last
  <2>3. FuturePart(f, p) /\ f.reading \in Text /\ Len(f.reading) \in Nat
    <3>1. FuturePart(f, p)
      BY <1>7, <2>1
    <3> HIDE DEF f
    <3> QED
      BY <3>1, FutureFields, SeqIs DEF FuturePart, Text
  <2>4. Row(kept, p) /\ kept # <<>> /\ Last(kept) = f
    BY <2>1, RowCut
  <2>5. Len(f.reading) <= r
    <3>1. goal \in Text /\ Len(goal) = r
      BY <1>3, NumIs
    <3> HIDE DEF goal, f
    <3> QED
      BY <2>1, <2>3, <3>1, SuffixIs DEF Text
  <2>6. PlainBefore(Len(f.reading), rest)
    <3>1. CASE Plain(rest)
      BY <1>2, <2>3, <3>1, PlainAnyCut
    <3>2. CASE ~Plain(rest)
      <4> DEFINE n == Len(fs)  g == fs[n]  k == Len(g.reading)
      <4>1. Last(fs) = g /\ n \in 1..n /\ k < r /\ PlainBefore(k, rest)
        BY <1>7, <1>12, <3>2, SeqIs DEF Last
      <4>2. FuturePart(g, p)
        BY <1>7, <4>1
      <4>3. IsSuffix(g.reading, goal)
        <5> HIDE DEF g
        <5>1. k \in 1..Len(p.whole) /\ g.reading = Spelled(0, Rear(k, p.whole))
          BY <4>2, BaseIs, FutureFields DEF FuturePart, Base
        <5> HIDE DEF k
        <5>2. k \in 0..r
          BY <1>1, <1>2, <4>1, <5>1
        <5> HIDE DEF r
        <5> QED
          BY <1>3, <5>1, <5>2, RearsAreSuffixes
      <4>4. n \in fitting
        BY <1>7, <4>1, <4>3
      <4>5. last >= n
        BY <1>8, <4>4 DEF last
      <4>6. last = n
        <5>1. last \in 1..n /\ n \in Nat
          BY <1>7, <2>1
        <5> HIDE DEF n
        <5> QED
          BY <4>5, <5>1
      <4> QED
        BY <4>1, <4>6
    <3> QED
      BY <3>1, <3>2
  <2> HIDE DEF f, kept
  <2>7. LeftOver(f, goal, rest) = goal
    BY <1>2, <1>3, <1>11, <1>16, <2>3, <2>6, LeftOverIs
  <2>8. Row(out, p) /\ out # <<>> /\ Len(Last(out).reading) = r
    <3>1. Len(Last(kept).reading) <= r
      BY <2>4, <2>5
    <3> HIDE DEF r
    <3>2. out = Fit(kept, left, Spelled(0, Rear(r, p.whole)), group)
      BY <2>2, <2>7
    <3> QED
      BY <1>11, <1>16, <2>4, <3>1, <3>2, FitIs
  <2> QED
    BY <1>16, <2>8
<1> QED
  BY <1>10, <1>14, <1>15, <1>16

-----------------------------------------------------------------------------
(* The server's cursor and stack.                                          *)

\* The places of up to n pops.
Pops(n, start, f) == f = [i \in 0..n |-> IF i = 0 THEN start ELSE PopPlace(f[i - 1])]

\* The places of repeated pops, as a function of the number of pops.
LEMMA PopsExist ==
  ASSUME NEW n \in Nat, NEW start
  PROVE \E f : Pops(n, start, f)
<1> DEFINE S == {m \in Nat : \E f : Pops(m, start, f)}
<1>1. 0 \in S
  <2>1. Pops(0, start, [i \in 0..0 |-> start])
    BY DEF Pops
  <2> QED
    BY <2>1
<1>2. \A m \in S : m + 1 \in S
  <2> TAKE m \in S
  <2>1. PICK f : Pops(m, start, f)
    OBVIOUS
  <2> DEFINE g == [i \in 0..m+1 |-> IF i = m + 1 THEN PopPlace(f[m]) ELSE f[i]]
  <2>2. m \in Nat
    OBVIOUS
  <2>3. \A i \in 0..m : f[i] = IF i = 0 THEN start ELSE PopPlace(f[i - 1])
    BY <2>1 DEF Pops
  <2>4. \A i \in 0..m+1 : g[i] = IF i = 0 THEN start ELSE PopPlace(g[i - 1])
    BY <2>2, <2>3
  <2>5. Pops(m + 1, start, g)
    BY <2>4 DEF Pops
  <2> QED
    BY <2>2, <2>5
<1>3. S = Nat
  <2> HIDE DEF S
  <2>1. S \in SUBSET Nat
    BY DEF S
  <2> QED
    BY <1>1, <1>2, <2>1, SetInduction
<1> QED
  BY <1>3

\* Iterated(PopPlace) is what that function ends with.
LEMMA PopsAre ==
  ASSUME NEW n \in Nat, NEW start
  PROVE \E f : Pops(n, start, f) /\ Iterated(PopPlace, n, start) = f[n]
<1>1. Pops(n, start, CHOOSE f : Pops(n, start, f))
  BY PopsExist
<1>2. Iterated(PopPlace, n, start) = (CHOOSE f : Pops(n, start, f))[n]
  BY DEF Iterated, Pops
<1> QED
  BY <1>1, <1>2

\* The host's composition is read at a clause.
Place(place, c) == place.input = Kana(c.reading) /\ place.cursor \in 0..Len(place.input)

\* Two states of the host that differ in the cursor.
At(host, from) ==
  /\ host \in Servers /\ host.input = from.input /\ host.stack = from.stack
  /\ host.cursor \in 0..Len(host.input)

\* The fields of the server have their types.
LEMMA ServerFields ==
  ASSUME NEW s \in Servers
  PROVE /\ s.input \in Kanas /\ Len(s.input) \in Nat /\ s.cursor \in Nat /\ s.stack \in Seq(Places)
        /\ s = [input |-> s.input, cursor |-> s.cursor, stack |-> s.stack]
  BY SeqIs DEF Servers, Kanas

\* A cursor move leaves input and stack alone and stays inside the input.
LEMMA MoveCursorIs ==
  ASSUME NEW from, NEW s, At(s, from), NEW d \in Int
  PROVE At(MoveCursor(d, s), from)
<1>1. s \in Servers /\ s.input = from.input /\ s.stack = from.stack /\ s.cursor \in 0..Len(s.input)
  BY DEF At
<1>2. Len(s.input) \in Nat /\ s.cursor \in Nat
        /\ s = [input |-> s.input, cursor |-> s.cursor, stack |-> s.stack]
      /\ s.input \in Kanas /\ s.stack \in Seq(Places)
  BY <1>1, ServerFields
<1> DEFINE n == Len(s.input)  k == s.cursor
           q == IF k + d < 0 THEN 0 ELSE IF k + d > n THEN n ELSE k + d
<1>3. q \in 0..n /\ q \in Nat
  <2> HIDE DEF n, k
  <2>1. n \in Nat /\ k \in Nat
    BY <1>2 DEF n, k
  <2> QED
    BY <2>1
<1>4. MoveCursor(d, s) = [s EXCEPT !.cursor = q]
  BY <1>1 DEF MoveCursor, Servers
<1> HIDE DEF q
<1>5. MoveCursor(d, s) = [input |-> s.input, cursor |-> q, stack |-> s.stack]
  BY <1>1, <1>4 DEF Servers
<1> QED
  BY <1>1, <1>2, <1>3, <1>5 DEF At, Servers

\* One step of sync_to's walk of the cursor.
SyncStep(acc, reading, rest, count) ==
  LET moved == MoveCursor(-1, acc.server)
  IN IF acc.done \/ (acc.view.items # <<>> /\ IsTarget(acc.view, reading, rest, count))
       THEN [acc EXCEPT !.done = TRUE]
     ELSE Stepped(acc, moved, View0(moved))

\* The states of up to n of them.
Syncs(n, start, reading, rest, count, f) ==
  f = [i \in 0..n |-> IF i = 0 THEN start ELSE SyncStep(f[i - 1], reading, rest, count)]

\* The steps of a cursor walk, as a function of the number of steps.
LEMMA SyncsExist ==
  ASSUME NEW n \in Nat, NEW start, NEW reading, NEW rest, NEW count
  PROVE \E f : Syncs(n, start, reading, rest, count, f)
<1> DEFINE S == {m \in Nat : \E f : Syncs(m, start, reading, rest, count, f)}
<1>1. 0 \in S
  <2>1. Syncs(0, start, reading, rest, count, [i \in 0..0 |-> start])
    BY DEF Syncs
  <2> QED
    BY <2>1
<1>2. \A m \in S : m + 1 \in S
  <2> TAKE m \in S
  <2>1. PICK f : Syncs(m, start, reading, rest, count, f)
    OBVIOUS
  <2> DEFINE g == [i \in 0..m+1 |-> IF i = m + 1 THEN SyncStep(f[m], reading, rest, count)
                                    ELSE f[i]]
  <2>2. m \in Nat
    OBVIOUS
  <2>3. \A i \in 0..m : f[i] = IF i = 0 THEN start ELSE SyncStep(f[i - 1], reading, rest, count)
    BY <2>1 DEF Syncs
  <2>4. \A i \in 0..m+1 : g[i] = IF i = 0 THEN start ELSE SyncStep(g[i - 1], reading, rest, count)
    BY <2>2, <2>3
  <2>5. Syncs(m + 1, start, reading, rest, count, g)
    BY <2>4 DEF Syncs
  <2> QED
    BY <2>2, <2>5
<1>3. S = Nat
  <2> HIDE DEF S
  <2>1. S \in SUBSET Nat
    BY DEF S
  <2> QED
    BY <1>1, <1>2, <2>1, SetInduction
<1> QED
  BY <1>3

\* A record of a walk with one field replaced (a leaf of its own for the
\* provers).
LEMMA AccIs ==
  ASSUME NEW w, NEW v, NEW d, NEW k, NEW b, NEW a,
         a = [server |-> w, view |-> v, done |-> d, mark |-> k]
  PROVE [a EXCEPT !.done = b] = [server |-> w, view |-> v, done |-> b, mark |-> k]
  OBVIOUS

\* The walk that looks for a candidate only moves the cursor.
LEMMA SyncToIs ==
  ASSUME NEW from, At(from, from), NEW shown \in Views, NEW reading, NEW rest, NEW count
  PROVE At(SyncTo(from, shown, reading, rest, count).server, from)
<1> DEFINE n == IF shown.reading = <<>> THEN 1 ELSE Len(shown.reading)
           start == [server |-> from, view |-> shown, done |-> FALSE, mark |-> <<>>]
           F == CHOOSE f : Syncs(n, start, reading, rest, count, f)
           Held(a) == a = [server |-> a.server, view |-> a.view, done |-> a.done, mark |-> a.mark]
                      /\ At(a.server, from)
<1>1. n \in Nat
  BY ViewFields, SeqIs DEF Text
<1>2. SyncTo(from, shown, reading, rest, count) = F[n]
  BY DEF SyncTo, Iterated, Syncs, SyncStep
<1> HIDE DEF n, start
<1>3. Syncs(n, start, reading, rest, count, F)
  BY <1>1, SyncsExist
<1> HIDE DEF F
<1>4. \A i \in 0..n : F[i] = IF i = 0 THEN start ELSE SyncStep(F[i - 1], reading, rest, count)
  BY <1>3 DEF Syncs
<1>5. ASSUME NEW a, Held(a) PROVE Held(SyncStep(a, reading, rest, count))
  <2> DEFINE moved == MoveCursor(-1, a.server)  back == MoveCursor(1, moved)
             b == SyncStep(a, reading, rest, count)
             mark
               == <<View0(moved).reading, View0(moved).items[1].count, View0(moved).items[1].rest>>
  <2>1. At(moved, from)
    BY <1>5, MoveCursorIs
  <2>2. At(back, from)
    BY <2>1, MoveCursorIs
  <2>3. \/ b = [server |-> a.server, view |-> a.view, done |-> TRUE, mark |-> a.mark]
        \/ b = [server |-> back, view |-> a.view, done |-> TRUE, mark |-> a.mark]
        \/ b = [server |-> moved, view |-> View0(moved), done |-> mark = a.mark, mark |-> mark]
    <3> DEFINE w == a.server  v == a.view  d == a.done  k == a.mark
    <3>1. a = [server |-> w, view |-> v, done |-> d, mark |-> k]
      BY <1>5
    <3> HIDE DEF w, v, d, k, back
    <3> DEFINE t == TRUE
    <3> HIDE DEF t
    <3>5. [a EXCEPT !.done = t] = [server |-> w, view |-> v, done |-> t, mark |-> k]
      BY ONLY <3>1, AccIs
    <3>6. [a EXCEPT !.done = t, !.server = back]
            = [server |-> back, view |-> v, done |-> t, mark |-> k]
      <4> DEFINE l == [a EXCEPT !.done = t, !.server = back]
                 r == [server |-> back, view |-> v, done |-> t, mark |-> k]
      <4>1. DOMAIN l = DOMAIN r /\ l.server = r.server /\ l.view = r.view /\ l.done = r.done
            /\ l.mark = r.mark
        BY ONLY <3>1
      <4> QED
        BY ONLY <4>1
    <3>4. [a EXCEPT !.done = TRUE] = [server |-> w, view |-> v, done |-> TRUE, mark |-> k]
          /\ [a EXCEPT !.done = TRUE, !.server = back]
               = [server |-> back, view |-> v, done |-> TRUE, mark |-> k]
      BY ONLY <3>5, <3>6 DEF t
    <3> USE DEF back
    <3>2. [a EXCEPT !.done = TRUE]
            = [server |-> a.server, view |-> a.view, done |-> TRUE, mark |-> a.mark]
      BY <3>4 DEF w, v, d, k
    <3>3. [a EXCEPT !.done = TRUE, !.server = back]
             = [server |-> back, view |-> a.view, done |-> TRUE, mark |-> a.mark]
      BY <3>4 DEF w, v, d, k
    <3> QED
      BY <3>2, <3>3 DEF SyncStep, Stepped
  <2> HIDE DEF b, moved, back, mark
  <2>4. Held(b)
    BY <1>5, <2>1, <2>2, <2>3
  <2> QED
    BY <2>4 DEF b
<1>6. Held(F[0])
  <2>1. F[0] = start
    BY <1>1, <1>4
  <2> QED
    BY <2>1 DEF start
<1> HIDE DEF Held
<1> DEFINE S == {i \in Nat : i <= n => Held(F[i])}
<1>7. \A i \in S : i + 1 \in S
  <2> TAKE i \in S
  <2>1. CASE i + 1 <= n
    <3>1. i \in Nat /\ i + 1 \in 0..n /\ i + 1 # 0 /\ (i + 1) - 1 = i /\ i <= n
      BY <1>1, <2>1
    <3>2. F[i + 1] = SyncStep(F[i], reading, rest, count)
      BY <1>4, <3>1
    <3> QED
      BY <1>5, <3>1, <3>2
  <2> QED
    BY <2>1
<1>8. S = Nat
  <2>1. 0 \in S
    BY <1>6
  <2> HIDE DEF S
  <2>2. S \in SUBSET Nat
    BY DEF S
  <2> QED
    BY <1>7, <2>1, <2>2, SetInduction
<1>9. Held(F[n])
  BY <1>1, <1>8
<1> QED
  BY <1>2, <1>9 DEF Held

\* One step of MoveRight on the server: the clause is pushed and dropped.
LEMMA ShrinkIs ==
  ASSUME NEW host \in Servers, NEW t \in Nat, t <= Len(host.input), host.cursor <= Len(host.input),
         Keys \in Nat \ {0}, NEW count, count = Keys * t
  PROVE LET after == Shrink(count, host)
        IN /\ after \in Servers /\ after.input = Drop(t, host.input)
           /\ after.cursor \in 0..Len(after.input) /\ after.stack = host.stack
<1> DEFINE input == Drop(t, host.input)  k == host.cursor
           q == IF k > t THEN k - t ELSE Len(input)
<1>1. count \div Keys = t
  BY DivTimes
<1>2. host.input \in Kanas /\ Len(host.input) \in Nat /\ k \in Nat /\ host.stack \in Seq(Places)
  BY ServerFields
<1>3. input \in Kanas /\ Len(input) = Len(host.input) - t
  BY <1>2, DropIs DEF Kanas
<1>4. q \in 0..Len(input) /\ q \in Nat
  <2> DEFINE n == Len(host.input)  j == Len(input)
  <2>1. n \in Nat /\ k \in Nat /\ j = n - t /\ k <= n /\ t <= n
        /\ q = (IF k > t THEN k - t ELSE j)
    BY <1>2, <1>3
  <2> HIDE DEF n, j, k, q
  <2>2. q \in 0..j /\ q \in Nat
    BY <2>1
  <2> USE DEF j
  <2> QED
    BY <2>1
<1>5. Shrink(count, host) = [input |-> input, cursor |-> q, stack |-> host.stack]
  <2>1. Shrink(count, host) = [host EXCEPT !.input = input, !.cursor = q]
    BY <1>1 DEF Shrink, Servers
  <2> HIDE DEF input, q
  <2> QED
    BY <2>1 DEF Servers
<1> HIDE DEF input, q
<1> QED
  BY <1>2, <1>3, <1>4, <1>5 DEF Servers, input

\* A push puts the place on the stack and leaves it current.
LEMMA PushPlaceIs ==
  ASSUME NEW host \in Servers
  PROVE LET pushed == PushPlace(host)  place == [input |-> host.input, cursor |-> host.cursor]
        IN /\ pushed \in Servers /\ pushed.input = host.input /\ pushed.cursor = host.cursor
           /\ pushed.stack = Append(host.stack, place) /\ place \in Places
<1> DEFINE place == [input |-> host.input, cursor |-> host.cursor]
<1>1. host.input \in Kanas /\ host.cursor \in Nat /\ host.stack \in Seq(Places)
  BY ServerFields
<1>2. place \in Places
  BY <1>1 DEF Places
<1> HIDE DEF place
<1>3. Append(host.stack, place) \in Seq(Places)
  BY <1>1, <1>2, AppendIs
<1>4. PushPlace(host) = [host EXCEPT !.stack = Append(host.stack, place)]
  BY DEF PushPlace, place
<1> QED
  BY <1>1, <1>2, <1>3, <1>4 DEF Servers, place

-----------------------------------------------------------------------------
(* The clauses behind, and the bundle.                                     *)

\* c is the clause ahead of s, which is left behind.
Behind(s, c) == c.fixed = s.preview /\ Len(c.reading) = Len(s.suffix)

\* The clauses left behind and the compositions that the host keeps for them.
Trail(snaps, stack, p) ==
  /\ snaps \in Seq(Clauses) /\ stack \in Seq(Places) /\ Len(snaps) = Len(stack)
  /\ \A i \in 1..Len(snaps) : /\ ClausePart(snaps[i], p) /\ snaps[i].suffix # <<>>
                              /\ Place(stack[i], snaps[i])
  /\ \A i \in 1..Len(snaps) - 1 : Behind(snaps[i], snaps[i + 1])

\* The clause follows the last one behind it.
After(c, snaps) == snaps # <<>> => Behind(Last(snaps), c)

\* A bundle while a handler works on it, and between two keys.
Light(n, p) ==
  /\ n \in Bundles
  /\ ClausePart(n.clause, p)
  /\ Trail(n.snaps, n.server.stack, p) /\ After(n.clause, n.snaps)
  /\ Place(n.server, n.clause)
  /\ Row(n.futures, p)
  /\ n.futures # <<>> => Chain(n.clause, Last(n.futures))

\* A bundle of the composition: Light, and with nothing ahead the candidates'
\* rests are plain.
Good(n, p) ==
  Light(n, p) /\ (n.futures = <<>> => RestsPlain(n.clause.view, 0))

\* Nothing behind is a trail.
LEMMA TrailEmpty ==
  ASSUME NEW p, NEW stack \in Seq(Places), stack = <<>>
  PROVE Trail(<<>>, stack, p)
<1> DEFINE none == <<>>
<1>1. none \in Seq(Clauses) /\ Len(none) = 0
  OBVIOUS
<1>2. Len(stack) = 0
  BY SeqIs
<1> HIDE DEF none
<1>3. Trail(none, stack, p)
  BY <1>1, <1>2 DEF Trail
<1> QED
  BY <1>3 DEF none

\* A trail is as long as the server's stack.
LEMMA TrailFields ==
  ASSUME NEW p, NEW snaps, NEW stack, Trail(snaps, stack, p)
  PROVE /\ Len(snaps) \in Nat /\ Len(stack) = Len(snaps) /\ DOMAIN snaps = 1..Len(snaps)
        /\ DOMAIN stack = 1..Len(snaps)
        /\ snaps = <<>> <=> Len(snaps) = 0
        /\ stack = <<>> <=> Len(snaps) = 0
  BY SeqIs DEF Trail

\* Popping both stacks leaves a trail, and the clause that was popped stands at
\* the place that was popped.
LEMMA TrailFront ==
  ASSUME NEW p, NEW snaps, NEW stack, Trail(snaps, stack, p), snaps # <<>>
  PROVE /\ Trail(Front(snaps), Front(stack), p) /\ stack # <<>>
        /\ ClausePart(Last(snaps), p) /\ Last(snaps).suffix # <<>>
        /\ Place(Last(stack), Last(snaps)) /\ Last(stack) \in Places
        /\ After(Last(snaps), Front(snaps))
        /\ Append(Front(snaps), Last(snaps)) = snaps
        /\ Append(Front(stack), Last(stack)) = stack
<1> DEFINE n == Len(snaps)  a == Front(snaps)  b == Front(stack)
<1>1. /\ snaps \in Seq(Clauses) /\ stack \in Seq(Places) /\ Len(stack) = n
      /\ \A i \in 1..n : ClausePart(snaps[i], p) /\ snaps[i].suffix # <<>>
         /\ Place(stack[i], snaps[i])
      /\ \A i \in 1..n - 1 : Behind(snaps[i], snaps[i + 1])
  BY DEF Trail
<1>2. n \in Nat /\ n # 0 /\ stack # <<>>
  BY TrailFields
<1>3. a \in Seq(Clauses) /\ Len(a) = n - 1 /\ (\A i \in 1..n - 1 : a[i] = snaps[i])
      /\ Last(snaps) = snaps[n] /\ Append(a, Last(snaps)) = snaps
  BY <1>1, FrontIs
<1>4. b \in Seq(Places) /\ Len(b) = n - 1 /\ (\A i \in 1..n - 1 : b[i] = stack[i])
      /\ Last(stack) = stack[n] /\ Append(b, Last(stack)) = stack /\ Last(stack) \in Places
  BY <1>1, <1>2, FrontIs
<1> HIDE DEF n, a, b
<1>5. n \in 1..n
  BY <1>2
<1>6. Trail(a, b, p)
  <2>1. \A i \in 1..n - 1 : i \in 1..n
    BY <1>2
  <2>2. \A i \in 1..(n - 1) - 1 : i \in 1..n - 1 /\ i + 1 \in 1..n - 1
    BY <1>2
  <2>3. \A i \in 1..Len(a) : ClausePart(a[i], p) /\ a[i].suffix # <<>> /\ Place(b[i], a[i])
    BY <1>1, <1>3, <1>4, <2>1
  <2>4. \A i \in 1..Len(a) - 1 : Behind(a[i], a[i + 1])
    BY <1>1, <1>3, <2>2
  <2> QED
    BY <1>3, <1>4, <2>3, <2>4 DEF Trail
<1>7. After(snaps[n], a)
  <2> SUFFICES ASSUME a # <<>> PROVE Behind(Last(a), snaps[n])
    BY DEF After
  <2>1. Len(a) # 0 /\ Last(a) = a[n - 1]
    BY <1>3, SeqIs DEF Last
  <2>2. n - 1 \in 1..n - 1 /\ (n - 1) + 1 = n
    BY <1>2, <1>3, <2>1
  <2>3. a[n - 1] = snaps[n - 1] /\ Behind(snaps[n - 1], snaps[(n - 1) + 1])
    BY <1>1, <1>3, <2>2
  <2> QED
    BY <2>1, <2>2, <2>3
<1>8. ClausePart(snaps[n], p) /\ snaps[n].suffix # <<>> /\ Place(stack[n], snaps[n])
  BY <1>1, <1>5
<1> QED
  BY <1>2, <1>3, <1>4, <1>6, <1>7, <1>8 DEF a, b

\* Pushing a clause and its place makes a trail.
LEMMA TrailAppend ==
  ASSUME NEW p, NEW snaps, NEW stack, Trail(snaps, stack, p), NEW c, ClausePart(c, p),
         c.suffix # <<>>, After(c, snaps), NEW place \in Places, Place(place, c)
  PROVE Trail(Append(snaps, c), Append(stack, place), p)
<1> DEFINE n == Len(snaps)  a == Append(snaps, c)  b == Append(stack, place)
<1>1. /\ snaps \in Seq(Clauses) /\ stack \in Seq(Places) /\ Len(stack) = n
      /\ \A i \in 1..n : ClausePart(snaps[i], p) /\ snaps[i].suffix # <<>>
         /\ Place(stack[i], snaps[i])
      /\ \A i \in 1..n - 1 : Behind(snaps[i], snaps[i + 1])
  BY DEF Trail
<1>2. c \in Clauses /\ n \in Nat
  BY TrailFields DEF ClausePart, ClauseBase
<1>3. a \in Seq(Clauses) /\ Len(a) = n + 1
  BY <1>1, <1>2, AppendIs
<1>4. (\A i \in 1..n : a[i] = snaps[i]) /\ a[n + 1] = c
  BY <1>1, <1>2, AppendIs
<1>5. b \in Seq(Places) /\ Len(b) = n + 1
  BY <1>1, AppendIs
<1>6. (\A i \in 1..n : b[i] = stack[i]) /\ b[n + 1] = place
  BY <1>1, AppendIs
<1>7. snaps # <<>> => Behind(snaps[n], c) /\ n # 0
  BY TrailFields DEF After, Last
<1>8. n # 0 => snaps # <<>>
  BY TrailFields
<1> HIDE DEF n, a, b
<1>9. \A i \in 1..Len(a) : ClausePart(a[i], p) /\ a[i].suffix # <<>> /\ Place(b[i], a[i])
  <2> TAKE i \in 1..Len(a)
  <2>1. i \in 1..n \/ i = n + 1
    BY <1>2, <1>3
  <2> QED
    BY <1>1, <1>4, <1>6, <2>1
<1>10. \A i \in 1..Len(a) - 1 : Behind(a[i], a[i + 1])
  <2> TAKE i \in 1..Len(a) - 1
  <2>1. CASE i \in 1..n - 1
    <3>1. i \in 1..n /\ i + 1 \in 1..n
      BY <1>2, <2>1
    <3> QED
      BY <1>1, <1>4, <2>1, <3>1
  <2>2. CASE i = n
    <3>1. n \in 1..n /\ n # 0
      BY <1>2, <1>3, <2>2
    <3> QED
      BY <1>4, <1>7, <1>8, <2>2, <3>1
  <2> QED
    BY <1>2, <1>3, <2>1, <2>2
<1>11. Trail(a, b, p)
  BY <1>3, <1>5, <1>9, <1>10 DEF Trail
<1> QED
  BY <1>11 DEF a, b

\* The fields of a bundle have their types.
LEMMA BundleFields ==
  ASSUME NEW n \in Bundles
  PROVE /\ n.clause \in Clauses /\ n.snaps \in Seq(Clauses) /\ n.futures \in Seq(Futures)
        /\ n.server \in Servers /\ n.effect \in Effects
        /\ n = [clause |-> n.clause, snaps |-> n.snaps, futures |-> n.futures,
                server |-> n.server, effect |-> n.effect]
  BY Zenon DEF Bundles

\* The parts of a clause that shows all it reads in front of its suffix.
LEMMA PreviewIs ==
  ASSUME NEW p, Frame(p), NEW c, ClauseBase(c, p)
  PROVE LET item == c.view.items[c.sel]
        IN /\ ClausePreview(c) = item.text /\ item \in Items
           /\ Kana(c.preview) = Kana(c.fixed) \o Kana(item.text)
           /\ Kana(c.fixed) \in Kanas /\ Kana(item.text) \in Kanas /\ Kana(item.rest) \in Kanas
           /\ Kana(item.text) \o Kana(item.rest) = Kana(c.reading)
           /\ p.base \o (Kana(c.preview) \o Kana(item.rest)) = p.whole
<1> DEFINE item == c.view.items[c.sel]
<1>1. c \in Clauses /\ Base(c, p) /\ c.preview = c.fixed \o item.text
      /\ p.base \o (Kana(c.fixed) \o Kana(c.reading)) = p.whole
  BY DEF ClauseBase
<1>2. item \in Items /\ Tells(item, Len(c.reading), p)
        /\ Kana(c.reading) = Rear(Len(c.reading), p.whole)
  BY <1>1, ClauseFields, BaseIs
<1>3. item.text \in Text /\ item.rest \in Text /\ c.fixed \in Text
  BY Zenon, <1>1, <1>2, ClauseFields DEF Items
<1>4. Kana(item.text) \o Kana(item.rest) = Kana(c.reading)
  BY <1>2 DEF Tells
<1>5. Kana(c.fixed) \in Kanas /\ Kana(item.text) \in Kanas /\ Kana(item.rest) \in Kanas
  BY <1>3, KanaIs
<1>6. AfterPrefix(c.fixed, c.preview) = item.text
  BY <1>1, <1>3, PrefixOfCat DEF Text
<1> HIDE DEF item
<1>7. Kana(c.preview) = Kana(c.fixed) \o Kana(item.text)
  BY <1>1, <1>3, KanaCat
<1>8. Kana(c.preview) \o Kana(item.rest) = Kana(c.fixed) \o (Kana(item.text) \o Kana(item.rest))
  <2> DEFINE x == Kana(c.fixed)  y == Kana(item.text)  z == Kana(item.rest)
  <2>1. x \in Seq(Letters) /\ y \in Seq(Letters) /\ z \in Seq(Letters)
    BY <1>5 DEF Kanas
  <2>2. Kana(c.preview) = x \o y
    BY <1>7
  <2> HIDE DEF x, y, z
  <2>3. (x \o y) \o z = x \o (y \o z)
    BY ONLY <2>1, CatAssoc
  <2>4. Kana(c.preview) \o z = x \o (y \o z)
    BY ONLY <2>2, <2>3, Zenon
  <2> QED
    BY <2>4, Zenon DEF x, y, z
<1> QED
  BY Zenon, <1>1, <1>2, <1>4, <1>5, <1>6, <1>7, <1>8 DEF item, ClausePreview

-----------------------------------------------------------------------------
(* Clauses that are told again.                                            *)

\* d is the remembered clause f again, behind the prefix `fixed`.
Resumes(d, f, fixed) ==
  /\ d.fixed = fixed /\ d.preview = fixed \o f.preview /\ d.raw = f.raw
  /\ d.reading = f.reading /\ d.count = f.count /\ d.sel = f.sel
  /\ d.derived = f.derived /\ d.remainder = f.remainder /\ d.neighbor = f.neighbor
  /\ d.group = f.group /\ Kana(d.suffix) = Kana(f.suffix)

\* A remembered clause is found in its own candidates once.
LEMMA SelectedIs ==
  ASSUME NEW p, Frame(p), NEW f, FuturePart(f, p)
  PROVE {i \in DOMAIN f.view.items : f.view.items[i] = Item(f.text, f.rest, f.count)} = {f.sel}
<1> DEFINE items == f.view.items  j == f.sel
<1>1. f \in Futures /\ Base(f, p) /\ f.text = items[j].text /\ f.rest = items[j].rest
  BY DEF FuturePart
<1>2. j \in DOMAIN items /\ f.count = items[j].count
      /\ \A a, b \in DOMAIN items : a # b => items[a].text # items[b].text
  BY <1>1 DEF Base, ViewPart
<1>3. items[j] \in Items
  BY <1>1, FutureFields, BaseIs
<1>4. items[j] = Item(f.text, f.rest, f.count)
  <2> DEFINE x == items[j]
  <2>1. x \in Items /\ x.text = f.text /\ x.rest = f.rest /\ x.count = f.count
    BY <1>1, <1>2, <1>3
  <2> HIDE DEF x
  <2>2. x = [text |-> f.text, rest |-> f.rest, count |-> f.count]
    BY <2>1 DEF Items
  <2> QED
    BY <2>2 DEF x, Item
<1>5. \A i \in DOMAIN items : items[i] = Item(f.text, f.rest, f.count) => i = j
  <2> SUFFICES ASSUME NEW i \in DOMAIN items, items[i] = Item(f.text, f.rest, f.count), i # j
               PROVE FALSE
    OBVIOUS
  <2>1. items[i].text = items[j].text
    BY <1>1 DEF Item
  <2> QED
    BY <1>2, <2>1
<1> HIDE DEF items, j
<1>6. {i \in DOMAIN items : items[i] = Item(f.text, f.rest, f.count)} = {j}
  BY <1>2, <1>4, <1>5
<1> QED
  BY <1>6 DEF items, j

\* The least member of one.
LEMMA OneIs ==
  ASSUME NEW i \in Nat
  PROVE Min({i}) = i
<1> DEFINE S == {i}
<1>1. S \in SUBSET Nat /\ S # {}
  OBVIOUS
<1> HIDE DEF S
<1>2. Min(S) \in S
  BY <1>1, MinIs
<1> QED
  BY <1>2 DEF S

\* A remembered clause is brought back.
LEMMA RestoredIs ==
  ASSUME NEW p, Frame(p), NEW f, FuturePart(f, p), NEW fs, Row(fs, p), Before(f, fs),
         NEW c, c.fixed \in Text, p.base \o (Kana(c.fixed) \o Kana(f.reading)) = p.whole
  PROVE LET d == ShowAhead(RestoreAhead(f, c), fs)
        IN ClausePart(d, p) /\ Before(d, fs) /\ Resumes(d, f, c.fixed)
<1> DEFINE b == RestoreAhead(f, c)  d == ShowAhead(b, fs)  rest == f.view.items[f.sel].rest
<1>1. f \in Futures /\ Base(f, p) /\ Ends(f) /\ f.preview = f.text
        /\ f.text = f.view.items[f.sel].text
  BY DEF FuturePart
<1>2. /\ f.preview \in Text /\ f.suffix \in Text /\ f.raw \in Text /\ f.reading \in Text
      /\ f.count \in Nat /\ f.sel \in Nat /\ f.view \in Views /\ f.derived \in BOOLEAN
      /\ f.remainder \in BOOLEAN /\ f.neighbor \in BOOLEAN /\ f.group \in Nat
  BY <1>1, FutureFields
<1>3. f.group # 0 => f.derived
  BY <1>1 DEF Base
<1> DEFINE g == IF f.derived THEN f.group ELSE 0
<1>4. g = f.group
  BY <1>2, <1>3
<1> DEFINE preview == c.fixed \o f.preview
<1>5. preview \in Text
  BY <1>2, TextCat
<1>6. b = [fixed |-> c.fixed, preview |-> preview, suffix |-> f.suffix, raw |-> f.raw,
           reading |-> f.reading, count |-> f.count, sel |-> f.sel, view |-> f.view,
           derived |-> f.derived, remainder |-> f.remainder, neighbor |-> f.neighbor,
           group |-> g]
  <2>1. (IF {f.sel} = {} THEN Clamp(f.sel, f.view) ELSE Min({f.sel})) = f.sel
    BY <1>2, OneIs
  <2> QED
    BY <2>1, SelectedIs DEF RestoreAhead
<1> HIDE DEF preview, b, d, g
<1>7. /\ b \in Clauses /\ b.fixed = c.fixed /\ b.preview = preview /\ b.suffix = f.suffix
      /\ b.raw = f.raw /\ b.reading = f.reading /\ b.count = f.count /\ b.sel = f.sel
      /\ b.view = f.view /\ b.derived = f.derived /\ b.remainder = f.remainder
      /\ b.neighbor = f.neighbor /\ b.group = f.group
  BY Zenon, <1>2, <1>4, <1>5, <1>6 DEF Clauses
<1>8. ClauseBase(b, p)
  <2>1. Base(b, p)
    BY <1>1, <1>7 DEF Base
  <2>2. b.preview = b.fixed \o b.view.items[b.sel].text
    BY <1>1, <1>7 DEF preview
  <2> QED
    BY <1>7, <2>1, <2>2 DEF ClauseBase
<1>9. Len(f.suffix) = Len(rest) /\ (f.suffix = <<>> <=> rest = <<>>)
  BY <1>1, <1>2, EndsIs
<1>10. Fits(b, fs)
  <2>1. CASE fs = <<>>
    BY <1>7, <2>1 DEF Fits, Before
  <2>2. CASE fs # <<>>
    <3>1. Chain(f, Last(fs))
      BY <2>2 DEF Before
    <3>2. Len(Last(fs).reading) < Len(b.reading)
      BY <1>7, <3>1 DEF Chain
    <3>3. CASE f.suffix = <<>>
      <4>1. Ended(f.view) /\ f.remainder = FALSE /\ rest = <<>>
        BY <1>2, <1>9, <3>1, <3>3 DEF Chain
      <4>2. RestsPlain(f.view, Len(Last(fs).reading))
        <5>1. \A i \in DOMAIN f.view.items : f.view.items[i].rest = <<>>
          BY <4>1 DEF Ended
        <5> QED
          BY <5>1 DEF RestsPlain, PlainBefore
      <4> QED
        BY <1>7, <2>2, <3>2, <4>1, <4>2 DEF Fits
    <3>4. CASE f.suffix # <<>>
      <4>1. Len(Last(fs).reading) = Len(f.suffix) /\ rest # <<>>
        BY <1>9, <3>1, <3>4 DEF Chain
      <4>2. RestsPlain(f.view, Len(Last(fs).reading))
        BY <1>1, <4>1 DEF Ends
      <4> QED
        BY <1>7, <1>9, <2>2, <3>2, <4>1, <4>2 DEF Fits
    <3> QED
      BY <3>3, <3>4
  <2> QED
    BY <2>1, <2>2
<1>11. ClausePart(d, p) /\ Before(d, fs) /\ SameClause(b, d) /\ Len(d.suffix) = Len(rest)
  BY <1>7, <1>8, <1>10, ShowAheadIs DEF d
<1>12. Kana(d.suffix) = Kana(f.suffix)
  <2>1. Kana(f.suffix) = Rear(Len(f.suffix), p.whole)
    BY <1>1, <1>2, EndsIs
  <2>2. Base(d, p) /\ Ends(d) /\ d.view \in Views /\ d.suffix \in Text
    BY <1>11, ClauseFields DEF ClausePart, ClauseBase
  <2>3. Kana(d.suffix) = Rear(Len(d.suffix), p.whole)
    BY <2>2, EndsIs
  <2> QED
    BY Zenon, <1>9, <1>11, <2>1, <2>3
<1>13. Resumes(d, f, c.fixed)
  BY <1>7, <1>11, <1>12 DEF Resumes, SameClause, preview
<1> QED
  BY <1>11, <1>13 DEF d, b

\* What the clause c shows from its beginning on are the last m kana: as its
\* suffix, or as its preview.
ShowsLast(c, m, p) ==
  \/ ClausePreview(c) = <<>> /\ Kana(c.suffix) = Rear(m, p.whole)
  \/ c.suffix = <<>> /\ Kana(ClausePreview(c)) = Rear(m, p.whole)

\* What follows a candidate in a text of the same kana is the candidate's rest.
LEMMA AfterTextIs ==
  ASSUME NEW p, Frame(p), NEW m \in 0..Len(p.whole), NEW item \in Items, Tells(item, m, p),
         NEW t \in Text, Kana(t) = Rear(m, p.whole), IsPrefix(item.text, t)
  PROVE LET out == AfterPrefix(item.text, t)
        IN out \in Text /\ Kana(out) = Kana(item.rest) /\ Len(out) = Len(item.rest)
<1> DEFINE out == AfterPrefix(item.text, t)
<1>1. item.text \in Text /\ item.rest \in Text
  BY DEF Items
<1>2. out \in Text /\ t = item.text \o out
  BY <1>1, PrefixIs DEF Text
<1>3. Kana(item.text) \o Kana(item.rest) = Kana(t)
  BY DEF Tells
<1> HIDE DEF out
<1>4. Kana(t) = Kana(item.text) \o Kana(out)
  BY <1>1, <1>2, KanaCat
<1>5. Kana(item.text) \in Kanas /\ Kana(item.rest) \in Kanas /\ Kana(out) \in Kanas
      /\ Len(Kana(out)) = Len(out) /\ Len(Kana(item.rest)) = Len(item.rest)
  BY <1>1, <1>2, KanaIs
<1>6. Kana(out) = Kana(item.rest)
  <2> DEFINE a == Kana(item.text)  b == Kana(out)  d == Kana(item.rest)
  <2>1. a \in Seq(Letters) /\ b \in Seq(Letters) /\ d \in Seq(Letters) /\ a \o b = a \o d
    BY <1>3, <1>4, <1>5 DEF Kanas
  <2> HIDE DEF a, b, d
  <2>2. b = d
    BY <2>1, CatSplitLeft
  <2> QED
    BY <2>2 DEF b, d
<1> QED
  BY <1>2, <1>5, <1>6 DEF out

\* No candidate is a prefix of nothing.
LEMMA EmptyPrefix ==
  ASSUME NEW t \in Text, t # <<>>, NEW e, e = <<>>
  PROVE ~IsPrefix(t, e)
<1> SUFFICES ASSUME IsPrefix(t, e) PROVE FALSE
  OBVIOUS
<1>1. t \in Seq(Letters \X Nat) /\ e \in Seq(Letters \X Nat) /\ Len(e) = 0
  BY DEF Text
<1>2. Len(t) <= Len(e)
  BY <1>1, PrefixIs
<1>3. Len(t) \in Nat /\ Len(t) # 0
  BY <1>1, SeqIs
<1> QED
  BY <1>1, <1>2, <1>3

\* suffix_after gives the kana that the candidate leaves over, by whichever
\* branch.
LEMMA SuffixAfterIs ==
  ASSUME NEW p, Frame(p), NEW m \in 0..Len(p.whole), NEW item \in Items, Tells(item, m, p),
         NEW c, c.suffix \in Text, ClausePreview(c) \in Text, ShowsLast(c, m, p)
  PROVE LET out == SuffixAfter(c, item)
        IN out \in Text /\ Kana(out) = Kana(item.rest) /\ Len(out) = Len(item.rest)
<1>1. item.text \in Text /\ item.rest \in Text /\ item.text # <<>>
  BY DEF Items, Tells
<1> DEFINE t == ClausePreview(c)
<1>2. CASE t = <<>> /\ Kana(c.suffix) = Rear(m, p.whole)
  <2>1. ~IsPrefix(item.text, t)
    BY <1>1, <1>2, EmptyPrefix
  <2>2. CASE IsPrefix(item.text, c.suffix)
    BY <1>2, <2>1, <2>2, AfterTextIs DEF SuffixAfter
  <2>3. CASE ~IsPrefix(item.text, c.suffix)
    BY <1>1, <2>1, <2>3 DEF SuffixAfter
  <2> QED
    BY <2>2, <2>3
<1>3. CASE c.suffix = <<>> /\ Kana(t) = Rear(m, p.whole)
  <2>1. ~IsPrefix(item.text, c.suffix)
    BY <1>1, <1>3, EmptyPrefix
  <2>2. CASE IsPrefix(item.text, t)
    BY <1>3, <2>2, AfterTextIs DEF SuffixAfter
  <2>3. CASE ~IsPrefix(item.text, t)
    BY <1>1, <2>1, <2>3 DEF SuffixAfter
  <2> QED
    BY <2>2, <2>3
<1> QED
  BY <1>2, <1>3 DEF ShowsLast

\* The clause c can be told by the candidate i of a fresh answer for the last m kana.
Fresher(c, view, i, m, p) ==
  /\ m \in 1..Len(p.whole) /\ view \in Views /\ ViewPart(view, m, p) /\ RestsPlain(view, 0)
  /\ i \in DOMAIN view.items /\ c \in Clauses /\ c.raw = Rear(Keys * m + p.extra, p.keys)
  /\ ClausePreview(c) \in Text /\ ShowsLast(c, m, p)
  /\ p.base \o (Kana(c.fixed) \o Rear(m, p.whole)) = p.whole

\* A clause as a candidate of a fresh answer tells it.
LEMMA RereadIs ==
  ASSUME NEW p, Frame(p), NEW c, NEW view, NEW i, NEW m, Fresher(c, view, i, m, p)
  PROVE LET d == Reread(c, view, i)
        IN /\ ClausePart(d, p) /\ d.fixed = c.fixed /\ d.view = view /\ d.sel = i
           /\ Len(d.reading) = m /\ Len(d.suffix) = Len(view.items[i].rest)
           /\ d.raw = c.raw /\ Kana(d.suffix) = Kana(view.items[i].rest)
<1>0. /\ m \in 1..Len(p.whole) /\ view \in Views /\ ViewPart(view, m, p) /\ RestsPlain(view, 0)
      /\ i \in DOMAIN view.items /\ c \in Clauses /\ c.raw = Rear(Keys * m + p.extra, p.keys)
      /\ ClausePreview(c) \in Text /\ ShowsLast(c, m, p)
      /\ p.base \o (Kana(c.fixed) \o Rear(m, p.whole)) = p.whole
  BY DEF Fresher
<1> DEFINE item == view.items[i]  s == SuffixAfter(c, item)  preview == c.fixed \o item.text
           d == Reread(c, view, i)
<1>1. m \in 0..Len(p.whole) /\ Len(p.whole) \in Nat /\ Rear(m, p.whole) \in Kanas
  <2>1. Len(p.whole) \in Nat
    BY SeqIs DEF Frame, Frames, Kanas
  <2>2. m \in 0..Len(p.whole)
    BY <1>0, <2>1
  <2> QED
    BY <2>1, <2>2, NumIs
<1>2. c.fixed \in Text /\ c.suffix \in Text /\ c.raw \in Text
  BY <1>0, ClauseFields
<1>3. item \in Items /\ item.text \in Text /\ item.rest \in Text /\ item.count \in Nat
      /\ view.reading \in Text /\ i \in Nat
  BY <1>0, ViewFields
<1>4. Tells(item, m, p) /\ view.reading = Spelled(0, Rear(m, p.whole))
  BY <1>0 DEF ViewPart
<1>5. Len(view.reading) = m /\ Kana(view.reading) = Rear(m, p.whole)
  BY <1>0, <1>1, <1>4, NumIs
<1> HIDE DEF item
<1>6. s \in Text /\ Kana(s) = Kana(item.rest) /\ Len(s) = Len(item.rest)
  BY <1>0, <1>1, <1>2, <1>3, <1>4, SuffixAfterIs
<1>7. preview \in Text
  BY <1>0, <1>2, <1>3, TextCat
<1>8. d = [c EXCEPT !.derived = FALSE, !.remainder = FALSE, !.neighbor = FALSE, !.group = 0,
                    !.view = view, !.sel = i, !.count = item.count, !.preview = preview,
                    !.suffix = s, !.reading = view.reading]
  BY <1>0 DEF Reread, Unflagged, Clauses, item
<1> HIDE DEF s, preview, d
<1>9. /\ d \in Clauses /\ d.view = view /\ d.sel = i /\ d.count = item.count
      /\ d.preview = preview /\ d.suffix = s /\ d.reading = view.reading /\ d.fixed = c.fixed
      /\ d.raw = c.raw /\ d.group = 0
  BY <1>0, <1>2, <1>3, <1>6, <1>7, <1>8 DEF Clauses
<1>10. Base(d, p)
  BY <1>0, <1>1, <1>4, <1>5, <1>9 DEF Base, item
<1>11. ClauseBase(d, p)
  BY <1>0, <1>5, <1>9, <1>10 DEF ClauseBase, preview, item
<1>12. RestsPlain(view, Len(s))
  <2> DEFINE k == Len(s)
  <2>1. k \in Nat
    BY <1>0, <1>6, SeqIs DEF Text
  <2> HIDE DEF k
  <2>2. \A j \in DOMAIN view.items : PlainBefore(k, view.items[j].rest)
    <3> TAKE j \in DOMAIN view.items
    <3>1. view.items[j].rest \in Text /\ PlainBefore(0, view.items[j].rest)
      BY <1>0, ViewFields DEF RestsPlain
    <3> QED
      BY <1>0, <2>1, <3>1, PlainNoCut, PlainAnyCut
  <2> QED
    BY <1>0, <2>2 DEF RestsPlain, k
<1>13. Ends(d)
  BY <1>0, <1>6, <1>9, <1>12 DEF Ends, item
<1> QED
  BY <1>0, <1>5, <1>6, <1>9, <1>11, <1>13 DEF ClausePart, d, item

\* The host when the clause c is pushed and dropped.
LEMMA LeftBehindIs ==
  ASSUME NEW p, Frame(p), NEW c, ClausePart(c, p), c.suffix # <<>>, NEW host \in Servers,
         Place(host, c)
  PROVE LET after == Shrink(c.count, PushPlace(host))
            place == [input |-> host.input, cursor |-> host.cursor]
        IN /\ after \in Servers /\ after.input = Rear(Len(c.suffix), p.whole)
           /\ after.cursor \in 0..Len(after.input) /\ after.stack = Append(host.stack, place)
           /\ place \in Places /\ Place(place, c) /\ At(after, after)
           /\ Drop(c.count, c.raw) = Rear(Keys * Len(c.suffix) + p.extra, p.keys)
           /\ Len(c.suffix) \in 1..Len(p.whole) /\ Len(c.suffix) < Len(c.reading)
<1> DEFINE m == Len(c.reading)  r == Len(c.suffix)  item == c.view.items[c.sel]
           t == Len(item.text)  pushed == PushPlace(host)  after == Shrink(c.count, pushed)
           place == [input |-> host.input, cursor |-> host.cursor]
<1>1. c \in Clauses /\ Base(c, p) /\ Ends(c)
  BY DEF ClausePart, ClauseBase
<1>2. c.view \in Views /\ c.suffix \in Text
  BY <1>1, ClauseFields
<1>3. m \in 1..Len(p.whole) /\ m \in 0..Len(p.whole) /\ m \in Nat
        /\ Kana(c.reading) = Rear(m, p.whole)
      /\ item \in Items /\ Tells(item, m, p)
  BY <1>1, <1>2, BaseIs
<1>4. r \in 0..m-1 /\ r \in Nat /\ r # 0 /\ t \in 1..m /\ t + r = m /\ c.count = Keys * t
      /\ Len(item.rest) = r /\ item.rest # <<>>
  BY <1>1, <1>2, EndsIs
<1>5. Rear(m, p.whole) \in Kanas /\ Len(Rear(m, p.whole)) = m /\ Keys \in Nat \ {0}
      /\ Len(p.whole) \in Nat /\ p.whole \in Kanas
  BY <1>3, NumIs
<1>6. host.input = Rear(m, p.whole) /\ host.cursor \in 0..m /\ host.cursor \in Nat
  BY <1>3, <1>5, ServerFields DEF Place
<1>7. pushed \in Servers /\ pushed.input = host.input /\ pushed.cursor = host.cursor
      /\ pushed.stack = Append(host.stack, place) /\ place \in Places
  BY PushPlaceIs
<1>8. c.count = item.count /\ c.raw = Rear(Keys * m + p.extra, p.keys)
  BY <1>1 DEF Base
<1>9. Drop(c.count, c.raw) = Rear(Keys * r + p.extra, p.keys)
  <2> HIDE DEF item
  <2>1. item.rest # <<>> => Drop(item.count, c.raw) = Rear(Keys * Len(item.rest) + p.extra, p.keys)
    BY <1>3, <1>8, RawRestIs
  <2> QED
    BY <1>4, <1>8, <2>1
<1> HIDE DEF m, r, t, item, pushed, after, place
<1>10. t \in Nat /\ t <= m /\ m - r = t /\ r \in 0..m /\ r \in 1..Len(p.whole) /\ r < m
  BY <1>3, <1>4, <1>5
<1>11. after \in Servers /\ after.input = Drop(t, host.input)
       /\ after.cursor \in 0..Len(after.input) /\ after.stack = pushed.stack
  <2>1. t <= Len(pushed.input) /\ pushed.cursor <= Len(pushed.input)
    BY <1>5, <1>6, <1>7, <1>10
  <2> QED
    <3> DEFINE count == c.count
    <3>1. count = Keys * t /\ Keys \in Nat \ {0} /\ pushed \in Servers /\ t \in Nat
      BY <1>4, <1>5, <1>7, <1>10
    <3> HIDE DEF count
    <3>2. LET a == Shrink(count, pushed)
          IN /\ a \in Servers /\ a.input = Drop(t, pushed.input)
             /\ a.cursor \in 0..Len(a.input) /\ a.stack = pushed.stack
      BY ONLY <2>1, <3>1, ShrinkIs
    <3> QED
      BY <1>7, <3>2 DEF after, count
<1>12. Drop(m - r, Rear(m, p.whole)) = Rear(r, p.whole)
  BY <1>3, <1>5, <1>10, RearOfRear DEF Kanas
<1>13. after.input = Rear(r, p.whole)
  BY <1>6, <1>10, <1>11, <1>12
<1>14. Place(place, c)
  BY DEF Place, place
<1>15. At(after, after)
  BY Zenon, <1>11 DEF At
<1> QED
  BY <1>7, <1>9, <1>10, <1>11, <1>13, <1>14, <1>15 DEF after, place, r, m, pushed

-----------------------------------------------------------------------------
(* One clause to the right, and one to the left.                           *)

\* The clause to the right, before the answer is looked at.
Unseen(c, input, raw) ==
  [c EXCEPT !.view = FullView(input), !.sel = 1, !.raw = raw, !.fixed = @ \o ClausePreview(c)]

\* What a move to the right stands on before the clause has shown anything.
UnseenPart(c, b, input, raw, p) ==
  /\ b \in Clauses /\ b.fixed = c.preview /\ b.view = FullView(input) /\ b.sel = 1
  /\ b.raw = raw /\ ClausePreview(b) = <<>> /\ b.suffix = c.suffix /\ ClausePreview(b) \in Text
  /\ ShowsLast(b, Len(c.suffix), p)
  /\ p.base \o (Kana(b.fixed) \o Rear(Len(c.suffix), p.whole)) = p.whole

\* A clause that is entered for the first time has shown nothing yet.
LEMMA NextClauseIs ==
  ASSUME NEW p, Frame(p), NEW c, ClausePart(c, p), c.suffix # <<>>,
         NEW input, input = Rear(Len(c.suffix), p.whole), NEW raw \in Text
  PROVE UnseenPart(c, Unseen(c, input, raw), input, raw, p)
<1> DEFINE r == Len(c.suffix)  item == c.view.items[c.sel]  view == FullView(input)
           fixed == c.fixed \o ClausePreview(c)
           b == [c EXCEPT !.view = view, !.sel = 1, !.raw = raw, !.fixed = fixed]
<1>1. ClauseBase(c, p) /\ c \in Clauses /\ Base(c, p) /\ Ends(c)
      /\ c.preview = c.fixed \o item.text
  BY DEF ClausePart, ClauseBase
<1>2. c.view \in Views /\ c.suffix \in Text /\ c.preview \in Text
  BY <1>1, ClauseFields
<1>3. r \in Nat /\ r # 0 /\ r \in 0..Len(c.reading)-1 /\ Len(c.reading) \in 1..Len(p.whole)
      /\ Kana(c.suffix) = Rear(r, p.whole) /\ Len(c.reading) \in Nat /\ Len(item.rest) = r
  BY <1>1, <1>2, BaseIs, EndsIs
<1>4. Kana(item.rest) = Kana(c.suffix)
  BY <1>1 DEF Ends
<1>5. ClausePreview(c) = item.text /\ p.base \o (Kana(c.preview) \o Kana(item.rest)) = p.whole
  BY Zenon, <1>1, PreviewIs
<1>6. fixed = c.preview
  BY <1>1, <1>5
<1>7. Len(p.whole) \in Nat
  BY SeqIs DEF Frame, Frames, Kanas
<1> HIDE DEF r
<1>8. r \in 1..Len(p.whole)
  <2> DEFINE m == Len(c.reading)
  <2> HIDE DEF m
  <2> QED
    BY <1>3, <1>7 DEF m
<1>9. view \in Views
  BY Zenon, <1>8, FullViewIs DEF r
<1> HIDE DEF fixed, view
<1>10. /\ b \in Clauses /\ b.fixed = c.preview /\ b.preview = c.preview /\ b.view = view
       /\ b.sel = 1 /\ b.raw = raw /\ b.suffix = c.suffix
  BY Zenon, <1>1, <1>2, <1>6, <1>9 DEF Clauses
<1> HIDE DEF b
<1>11. ClausePreview(b) = <<>>
  <2> DEFINE none == <<>>
  <2>1. none \in Text /\ c.preview \o none = c.preview
    BY <1>2, TextCat
  <2> HIDE DEF none
  <2>2. AfterPrefix(c.preview, c.preview \o none) = none
    BY <1>2, <2>1, PrefixOfCat DEF Text
  <2> QED
    BY <1>10, <2>1, <2>2 DEF ClausePreview, none
<1>12. <<>> \in Text
  BY TextCat, <1>2
<1> QED
  BY Zenon, <1>3, <1>4, <1>5, <1>10, <1>11, <1>12 DEF ShowsLast, r, b, fixed, view, Unseen,
     UnseenPart

\* A bundle that records an effect (a leaf of its own for the provers).
LEMMA AppliedIs ==
  ASSUME NEW c, NEW s, NEW f, NEW w, NEW e, NEW n,
         n = [clause |-> c, snaps |-> s, futures |-> f, server |-> w, effect |-> e]
  PROVE Applied(n) = [clause |-> c, snaps |-> s, futures |-> f, server |-> w, effect |-> "applied"]
<1> DEFINE l == Applied(n)
           k == [clause |-> c, snaps |-> s, futures |-> f, server |-> w, effect |-> "applied"]
<1>1. DOMAIN l = DOMAIN k /\ l.clause = k.clause /\ l.snaps = k.snaps
      /\ l.futures = k.futures /\ l.server = k.server /\ l.effect = k.effect
  BY DEF Applied
<1> QED
  BY <1>1 DEF Applied

\* The bundle n after a move to the right.
MovedRight(n, q, p) ==
  /\ Good(q, p) /\ q.effect = "applied"
  /\ q.snaps = Append(n.snaps, n.clause)
  /\ q.server.input = Rear(Len(n.clause.suffix), p.whole)
  /\ q.server.stack = Append(n.server.stack, [input  |-> n.server.input,
                                              cursor |-> n.server.cursor])
  /\ Len(q.clause.reading) = Len(n.clause.suffix)
  /\ n.futures = <<>> => q.futures = <<>>
  /\ n.futures # <<>> => /\ q.futures = Front(n.futures)
                         /\ Resumes(q.clause, Last(n.futures), n.clause.preview)

\* What is left to show: the clause and the clauses ahead.
LEMMA ArrivesIs ==
  ASSUME NEW p, Frame(p), NEW n, Light(n, p), n.clause.suffix # <<>>,
         NEW d, ClausePart(d, p), d.fixed = n.clause.preview,
         Len(d.reading) = Len(n.clause.suffix), NEW fs, Row(fs, p), Before(d, fs),
         NEW host, At(host, Shrink(n.clause.count, PushPlace(n.server))),
         n.futures = <<>> => fs = <<>>,
         n.futures # <<>> => fs = Front(n.futures)
                             /\ Resumes(d, Last(n.futures), n.clause.preview)
  PROVE MovedRight(n, [clause |-> d, snaps |-> Append(n.snaps, n.clause), futures |-> fs,
                       server |-> host, effect |-> "applied"], p)
<1> DEFINE c == n.clause  after == Shrink(c.count, PushPlace(n.server))
           snaps == Append(n.snaps, c)
           place == [input |-> n.server.input, cursor |-> n.server.cursor]
           q == [clause |-> d, snaps |-> snaps, futures |-> fs, server |-> host,
                 effect |-> "applied"]
<1>1. /\ n \in Bundles /\ ClausePart(c, p) /\ Trail(n.snaps, n.server.stack, p)
      /\ After(c, n.snaps) /\ Place(n.server, c)
  BY DEF Light
<1>2. n.server \in Servers /\ c \in Clauses
  BY <1>1, BundleFields
<1>3. /\ after.input = Rear(Len(c.suffix), p.whole) /\ after.stack = Append(n.server.stack, place)
      /\ place \in Places /\ Place(place, c)
  BY <1>1, <1>2, LeftBehindIs
<1>4. host \in Servers /\ host.input = after.input /\ host.stack = after.stack
      /\ host.cursor \in 0..Len(host.input)
  BY DEF At
<1> HIDE DEF after, place
<1>5. Trail(snaps, host.stack, p)
  BY <1>1, <1>3, <1>4, TrailAppend
<1>6. n.snaps \in Seq(Clauses)
  BY <1>1, BundleFields
<1>7. snaps \in Seq(Clauses) /\ snaps # <<>> /\ Last(snaps) = c
  <2>1. snaps \in Seq(Clauses)
    BY <1>2, <1>6, AppendIs
  <2>2. snaps # <<>>
    BY <1>2, <1>6, AppendIs
  <2>3. Last(snaps) = c
    BY <1>2, <1>6, AppendIs
  <2> QED
    BY <2>1, <2>2, <2>3
<1>8. d \in Clauses /\ Base(d, p) /\ fs \in Seq(Futures)
  BY DEF ClausePart, ClauseBase, Row
<1>9. After(d, snaps)
  BY <1>7 DEF After, Behind
<1>10. Place(host, d)
  <2>1. Kana(d.reading) = Rear(Len(c.suffix), p.whole)
    BY <1>8, ClauseFields, BaseIs
  <2> QED
    BY <1>3, <1>4, <2>1 DEF Place
<1> HIDE DEF snaps, c
<1>11. q \in Bundles
  BY <1>4, <1>7, <1>8 DEF Bundles, Effects
<1>12. Good(q, p)
  BY <1>5, <1>9, <1>10, <1>11 DEF Good, Light, Before
<1> QED
  BY <1>3, <1>4, <1>12 DEF MovedRight, snaps, c, place

\* A move to the right pushes the clause and its place, and stands on what the
\* clause left over.
LEMMA MoveRightIs ==
  ASSUME NEW p, Frame(p), NEW n, Light(n, p), n.clause.suffix # <<>>
  PROVE MovedRight(n, MoveRight(n), p)
<1> DEFINE c == n.clause  after == Shrink(c.count, PushPlace(n.server))  r == Len(c.suffix)
           snaps == Append(n.snaps, c)
           b == [c EXCEPT !.view = FullView(after.input), !.sel = 1, !.raw = Drop(c.count, c.raw),
                          !.fixed = @ \o ClausePreview(c)]
           x == [clause |-> b, snaps |-> snaps, futures |-> n.futures, server |-> after,
                 effect |-> n.effect]
<1>1. /\ n \in Bundles /\ ClausePart(c, p) /\ Place(n.server, c) /\ Row(n.futures, p)
      /\ (n.futures # <<>> => Chain(c, Last(n.futures)))
  BY DEF Light
<1>2. n.server \in Servers /\ c \in Clauses /\ c.suffix \in Text /\ c.raw \in Text
  BY <1>1, BundleFields, ClauseFields
<1>3. /\ after \in Servers /\ after.input = Rear(r, p.whole) /\ after.cursor \in 0..Len(after.input)
      /\ At(after, after) /\ Drop(c.count, c.raw) = Rear(Keys * r + p.extra, p.keys)
      /\ r \in 1..Len(p.whole)
  BY <1>1, <1>2, LeftBehindIs
<1>4. MoveRight(n) = Arrived(x)
  <2>1. [n EXCEPT !.snaps = snaps, !.server = after, !.clause = b] = x
    <3>1. n = [clause |-> n.clause, snaps |-> n.snaps, futures |-> n.futures,
               server |-> n.server, effect |-> n.effect]
      BY <1>1, BundleFields
    <3> HIDE DEF snaps, after, b, c
    <3> DEFINE o == n.clause  s == n.snaps  f == n.futures  w == n.server  e == n.effect
    <3> HIDE DEF o, s, f, w, e
    <3>2. n = [clause |-> o, snaps |-> s, futures |-> f, server |-> w, effect |-> e]
      BY <3>1 DEF o, s, f, w, e
    <3>3. [n EXCEPT !.snaps = snaps, !.server = after, !.clause = b]
            = [clause |-> b, snaps |-> snaps, futures |-> f, server |-> after, effect |-> e]
      <4> DEFINE l == [n EXCEPT !.snaps = snaps, !.server = after, !.clause = b]
                 k == [clause |-> b, snaps |-> snaps, futures |-> f, server |-> after, effect |-> e]
      <4>1. DOMAIN l = DOMAIN k /\ l.clause = k.clause /\ l.snaps = k.snaps
            /\ l.futures = k.futures /\ l.server = k.server /\ l.effect = k.effect
        BY ONLY <3>2
      <4> QED
        BY ONLY <4>1
    <3> QED
      BY <3>3 DEF f, e
  <2> QED
    BY <2>1 DEF MoveRight
<1>5. Len(p.whole) \in Nat /\ r \in 0..Len(p.whole) /\ Len(Rear(r, p.whole)) = r
      /\ Rear(Keys * r + p.extra, p.keys) \in Text /\ Rear(r, p.whole) \in Kanas
  <2>1. Len(p.whole) \in Nat
    BY SeqIs DEF Frame, Frames, Kanas
  <2> HIDE DEF r
  <2>2. r \in 0..Len(p.whole)
    BY <1>3, <2>1
  <2> QED
    BY <2>1, <2>2, NumIs
<1>6. /\ b \in Clauses /\ b.fixed = c.preview /\ b.view = FullView(after.input) /\ b.sel = 1
      /\ b.raw = Rear(Keys * r + p.extra, p.keys) /\ ClausePreview(b) \in Text
      /\ ShowsLast(b, r, p) /\ p.base \o (Kana(b.fixed) \o Rear(r, p.whole)) = p.whole
  <2> DEFINE input == after.input  raw == Drop(c.count, c.raw)
  <2>1. input = Rear(Len(c.suffix), p.whole) /\ raw \in Text
    BY <1>3, <1>5
  <2> HIDE DEF input, raw
  <2>2. UnseenPart(c, Unseen(c, input, raw), input, raw, p)
    <3>1. Frame(p) /\ ClausePart(c, p) /\ c.suffix # <<>>
      BY <1>1
    <3> HIDE DEF c
    <3> QED
      BY ONLY <2>1, <3>1, NextClauseIs
  <2>3. b = Unseen(c, input, raw)
    BY DEF Unseen, input, raw
  <2> HIDE DEF b
  <2> QED
    BY Zenon, <1>3, <2>2, <2>3 DEF UnseenPart, input, raw
<1> HIDE DEF after, r, snaps, b
<1> DEFINE view == FullView(after.input)
<1>7. view \in Views /\ ViewPart(view, r, p) /\ RestsPlain(view, 0) /\ view.items # <<>>
        /\ view # NoView
      /\ view.reading = Spelled(0, Rear(r, p.whole))
  <2>1. view \in Views /\ ViewPart(view, r, p) /\ RestsPlain(view, 0) /\ view.items # <<>>
          /\ view # NoView
    BY <1>3, FullViewIs
  <2> QED
    BY <2>1 DEF ViewPart
<1> HIDE DEF view
<1>8. CASE n.futures # <<>>
  <2> DEFINE f == Last(n.futures)  fs == Front(n.futures)
             host == SyncTo(after, view, f.reading, f.rest, f.count).server
             d == ShowAhead(RestoreAhead(f, b), fs)
  <2>1. Row(fs, p) /\ FuturePart(f, p) /\ Before(f, fs)
    BY <1>1, <1>8, RowFront
  <2>2. Len(f.reading) = r
    BY <1>1, <1>8 DEF Chain, r, c
  <2>3. f.reading = Spelled(0, Rear(r, p.whole)) /\ Kana(f.reading) = Rear(r, p.whole)
    BY <2>1, <2>2, BaseIs, FutureFields DEF FuturePart
  <2>4. Matches(n.futures, view)
    <3>1. IsPrefix(f.reading, view.reading)
      <4>1. f.reading \in Seq(Letters \X Nat) /\ <<>> \in Seq(Letters \X Nat)
        BY <2>1, FutureFields DEF FuturePart, Text
      <4> DEFINE none == <<>>
      <4>2. none \in Seq(Letters \X Nat) /\ f.reading \o none = f.reading
        BY <4>1, Cat
      <4> HIDE DEF none, f
      <4>3. IsPrefix(f.reading, f.reading \o none)
        BY <4>1, <4>2, PrefixOfCat
      <4> QED
        BY <1>7, <2>3, <4>2, <4>3
    <3> QED
      BY <1>8, <3>1 DEF Matches
  <2>5. At(host, after)
    <3> DEFINE a == f.reading  e == f.rest  k == f.count
    <3> HIDE DEF f, a, e, k
    <3>1. At(SyncTo(after, view, a, e, k).server, after)
      BY <1>3, <1>7, SyncToIs
    <3> QED
      BY <3>1 DEF a, e, k
  <2> HIDE DEF f, fs
  <2>6. ClausePart(d, p) /\ Before(d, fs) /\ Resumes(d, f, b.fixed)
    <3>1. b.fixed \in Text /\ p.base \o (Kana(b.fixed) \o Kana(f.reading)) = p.whole
      BY <1>6, <2>3, ClauseFields
    <3> QED
      BY <2>1, <3>1, RestoredIs
  <2>7. d.fixed = c.preview /\ Len(d.reading) = Len(c.suffix)
    BY <1>6, <2>2, <2>6 DEF Resumes, r
  <2>8. Arrived(x) = [clause |-> d, snaps |-> snaps, futures |-> fs, server |-> host,
                      effect |-> "applied"]
    <3>1. Arrived(x) = MoveToFuture(x)
      BY <1>6, <1>7, <2>4 DEF Arrived, view
    <3>2. MoveToFuture(x) = Applied([x EXCEPT !.clause = d, !.futures = fs, !.server = host])
      <4>1. x.clause.view = view
        BY <1>6 DEF view
      <4> QED
        BY <4>1 DEF MoveToFuture, f, fs
    <3> HIDE DEF d, host
    <3> QED
      BY <3>1, <3>2 DEF Applied
  <2> HIDE DEF d, host
  <2>9. Resumes(d, f, c.preview)
    BY <1>6, <2>6
  <2> HIDE DEF x
  <2>10. MovedRight(n, [clause |-> d, snaps |-> Append(n.snaps, n.clause), futures |-> fs,
                        server |-> host, effect |-> "applied"], p)
    BY <1>8, <2>1, <2>5, <2>6, <2>7, <2>9, ArrivesIs DEF after, f, fs
  <2> QED
    BY <1>4, <2>8, <2>10 DEF snaps
<1>9. CASE n.futures = <<>>
  <2> DEFINE nav == View0(after)  v == IF TellsMore(nav, b) THEN nav ELSE view
             i == Clamp(1, v)  d == Reread(b, v, i)  none == <<>>
  <2>1. nav \in Views /\ ViewPart(nav, r, p) /\ RestsPlain(nav, 0)
    BY <1>3, <1>5, PrefixViewIs DEF View0
  <2>2. TellsMore(nav, b) => nav.items # <<>>
    BY DEF TellsMore
  <2> HIDE DEF nav
  <2>3. v \in Views /\ ViewPart(v, r, p) /\ RestsPlain(v, 0) /\ v.items # <<>>
    BY <1>7, <2>1, <2>2
  <2> HIDE DEF v
  <2>4. i \in DOMAIN v.items
    BY <2>3, ClampIs
  <2> HIDE DEF i
  <2>5. ClausePart(d, p) /\ d.fixed = b.fixed /\ d.view = v /\ Len(d.reading) = r
    <3>1. Frame(p) /\ r \in 1..Len(p.whole) /\ b \in Clauses /\ ClausePreview(b) \in Text
          /\ b.raw = Rear(Keys * r + p.extra, p.keys) /\ ShowsLast(b, r, p)
          /\ p.base \o (Kana(b.fixed) \o Rear(r, p.whole)) = p.whole
      BY <1>3, <1>6
    <3>2. Fresher(b, v, i, r, p)
      BY ONLY <2>3, <2>4, <3>1 DEF Fresher
    <3> QED
      BY ONLY <3>1, <3>2, RereadIs
  <2>6. Row(none, p) /\ Before(d, none)
    BY <2>3, <2>5, RowEmpty DEF Before
  <2>7. Arrived(x) = [clause |-> d, snaps |-> snaps, futures |-> none, server |-> after,
                      effect |-> "applied"]
    <3>1. x.clause = b /\ x.server = after /\ x.futures = <<>> /\ b.view = view
      BY <1>6, <1>9 DEF view
    <3>2. ~Matches(x.futures, b.view)
      BY <3>1 DEF Matches
    <3>3. Arrived(x) = MoveToUnknown(x, nav)
      BY <1>7, <3>1, <3>2 DEF Arrived, nav
    <3>4. MoveToUnknown(x, nav) = Entered(x, v)
      BY <3>1 DEF MoveToUnknown, v
    <3>5. Entered(x, v)
            = Applied([x EXCEPT !.futures = <<>>, !.clause = Reread(b, v, Clamp(b.sel, v))])
      BY <2>3, <3>1 DEF Entered
    <3>6. Reread(b, v, Clamp(b.sel, v)) = d
      BY <1>6 DEF i
    <3> HIDE DEF d
    <3>7. Applied([x EXCEPT !.futures = <<>>, !.clause = d])
            = [clause |-> d, snaps |-> snaps, futures |-> <<>>, server |-> after,
               effect |-> "applied"]
      <4> DEFINE f == n.futures  e == n.effect  g == <<>>
      <4> HIDE DEF f, e, g
      <4>1. x = [clause |-> b, snaps |-> snaps, futures |-> f, server |-> after, effect |-> e]
        BY DEF f, e
      <4> HIDE DEF x
      <4>2. [x EXCEPT !.futures = g, !.clause = d]
              = [clause |-> d, snaps |-> snaps, futures |-> g, server |-> after, effect |-> e]
        <5> DEFINE l == [x EXCEPT !.futures = g, !.clause = d]
                   k == [clause |-> d, snaps |-> snaps, futures |-> g, server |-> after,
                         effect |-> e]
        <5>1. DOMAIN l = DOMAIN k /\ l.clause = k.clause /\ l.snaps = k.snaps
              /\ l.futures = k.futures /\ l.server = k.server /\ l.effect = k.effect
          BY ONLY <4>1
        <5> QED
          BY ONLY <5>1
      <4>3. Applied([x EXCEPT !.futures = g, !.clause = d])
              = [clause |-> d, snaps |-> snaps, futures |-> g, server |-> after,
                 effect |-> "applied"]
        BY ONLY <4>2, AppliedIs
      <4> QED
        BY <4>3 DEF g
    <3> QED
      BY <3>3, <3>4, <3>5, <3>6, <3>7
  <2>8. At(after, Shrink(n.clause.count, PushPlace(n.server)))
    BY <1>3 DEF after
  <2> HIDE DEF d, x
  <2> DEFINE a == after
  <2> HIDE DEF a
  <2>9. MovedRight(n, [clause |-> d, snaps |-> Append(n.snaps, n.clause), futures |-> none,
                       server |-> a, effect |-> "applied"], p)
    <3>1. At(a, Shrink(n.clause.count, PushPlace(n.server))) /\ none = <<>>
      BY <2>8 DEF a
    <3>2. d.fixed = n.clause.preview /\ Len(d.reading) = Len(n.clause.suffix)
      BY <1>6, <2>5 DEF r
    <3> HIDE DEF none
    <3> QED
      BY <1>9, <2>5, <2>6, <3>1, <3>2, ArrivesIs
  <2> QED
    BY <1>4, <2>7, <2>9 DEF snaps, a
<1> QED
  BY <1>8, <1>9

\* The remembered clause has every field of the one that was left.
Remembers(f, c) ==
  /\ f.preview = ClausePreview(c) /\ f.suffix = c.suffix /\ f.raw = c.raw
  /\ f.reading = c.reading /\ f.conservative = FALSE /\ f.count = c.count /\ f.sel = c.sel
  /\ f.view = c.view /\ f.derived = c.derived /\ f.remainder = c.remainder
  /\ f.neighbor = c.neighbor /\ f.group = c.group

\* A clause that is left to the right is remembered as it was.
LEMMA FutureIs ==
  ASSUME NEW p, Frame(p), NEW c, ClausePart(c, p)
  PROVE FuturePart(Future(c), p) /\ Remembers(Future(c), c)
<1> DEFINE f == Future(c)  item == c.view.items[c.sel]  k == Clamp(c.sel, c.view)
           preview == ClausePreview(c)
<1>1. ClauseBase(c, p) /\ c \in Clauses /\ Base(c, p) /\ Ends(c)
  BY DEF ClausePart, ClauseBase
<1>2. /\ c.suffix \in Text /\ c.raw \in Text /\ c.reading \in Text /\ c.count \in Nat
         /\ c.sel \in Nat
      /\ c.view \in Views /\ c.derived \in BOOLEAN /\ c.remainder \in BOOLEAN
      /\ c.neighbor \in BOOLEAN /\ c.group \in Nat
  BY Zenon, <1>1, ClauseFields
<1>3. preview = item.text /\ item \in Items
  BY <1>1, PreviewIs
<1>4. item.text \in Text /\ item.rest \in Text
  BY <1>3 DEF Items
<1>5. c.sel \in DOMAIN c.view.items /\ c.view.items # <<>> /\ c.sel \in Int
  BY <1>1, <1>2, BaseIs DEF Base
<1>6. k = c.sel
  BY <1>2, <1>5, ClampIs
<1> DEFINE no == FALSE
<1>7. no \in BOOLEAN /\ no = FALSE
  OBVIOUS
<1>8. f = [preview |-> preview, suffix |-> c.suffix, raw |-> c.raw,
      reading |-> c.reading, conservative |-> no, count |-> c.count,
      sel |-> c.sel, text |-> item.text, rest |-> item.rest, view |-> c.view,
      derived |-> c.derived, remainder |-> c.remainder, neighbor |-> c.neighbor,
      group |-> c.group]
  BY <1>6 DEF Future
<1> HIDE DEF no, f, preview, item, k
<1>9. /\ f \in Futures /\ f.preview = preview /\ f.suffix = c.suffix /\ f.raw = c.raw
      /\ f.reading = c.reading /\ f.conservative = no /\ f.count = c.count /\ f.sel = c.sel
      /\ f.text = item.text /\ f.rest = item.rest /\ f.view = c.view /\ f.derived = c.derived
      /\ f.remainder = c.remainder /\ f.neighbor = c.neighbor /\ f.group = c.group
  BY <1>2, <1>3, <1>4, <1>7, <1>8 DEF Futures
<1>10. Base(f, p) /\ Ends(f)
  BY <1>1, <1>9 DEF Base, Ends
<1>11. FuturePart(f, p)
  BY <1>3, <1>7, <1>9, <1>10 DEF FuturePart, item
<1> QED
  BY <1>7, <1>9, <1>11 DEF f, preview, Remembers

\* The bundle n after a move to the left.
MovedLeft(n, q, p) ==
  /\ Good(q, p) /\ q.effect = "applied"
  /\ q.clause = Last(n.snaps) /\ q.snaps = Front(n.snaps)
  /\ q.futures = Append(n.futures, Future(n.clause))
  /\ q.server.input = Last(n.server.stack).input
  /\ q.server.cursor = Last(n.server.stack).cursor
  /\ q.server.stack = Front(n.server.stack)
  /\ q.clause.suffix # <<>>

\* A move to the left pops the clause and its place, and remembers the one it
\* leaves.
LEMMA MoveLeftIs ==
  ASSUME NEW p, Frame(p), NEW n, Good(n, p), n.snaps # <<>>
  PROVE MovedLeft(n, MoveLeft(n), p)
<1> DEFINE c == n.clause  f == Future(c)  s == Last(n.snaps)  snaps == Front(n.snaps)
           place == Last(n.server.stack)  stack == Front(n.server.stack)
           fs == Append(n.futures, f)
           host == [input |-> place.input, cursor |-> place.cursor, stack |-> stack]
           q == [clause |-> s, snaps |-> snaps, futures |-> fs, server |-> host,
                 effect |-> "applied"]
<1>1. /\ n \in Bundles /\ ClausePart(c, p) /\ Trail(n.snaps, n.server.stack, p)
      /\ After(c, n.snaps) /\ Place(n.server, c) /\ Row(n.futures, p)
      /\ (n.futures # <<>> => Chain(c, Last(n.futures)))
      /\ (n.futures = <<>> => RestsPlain(c.view, 0))
  BY DEF Good, Light
<1>2. /\ Trail(snaps, stack, p) /\ n.server.stack # <<>> /\ ClausePart(s, p) /\ s.suffix # <<>>
      /\ Place(place, s) /\ place \in Places /\ After(s, snaps)
  BY <1>1, TrailFront
<1>3. /\ FuturePart(f, p) /\ f.suffix = c.suffix /\ f.reading = c.reading /\ f.conservative = FALSE
      /\ f.view = c.view /\ f.remainder = c.remainder
  <2>1. FuturePart(f, p) /\ Remembers(f, c)
    BY ONLY <1>1, Frame(p), FutureIs
  <2> HIDE DEF f
  <2> QED
    BY ONLY <2>1 DEF Remembers
<1>4. Before(f, n.futures)
  BY <1>1, <1>3 DEF Before, Chain
<1> HIDE DEF f
<1>5. Row(fs, p) /\ fs # <<>> /\ Last(fs) = f
  BY <1>1, <1>3, <1>4, RowAppend
<1>6. Chain(s, f)
  <2>1. Len(c.reading) = Len(s.suffix)
    BY <1>1 DEF After, Behind
  <2>2. s \in Clauses /\ Base(s, p) /\ Ends(s) /\ s.view \in Views /\ s.suffix \in Text
    BY Zenon, <1>2, ClauseFields DEF ClausePart, ClauseBase
  <2>3. Len(s.suffix) \in 0..Len(s.reading) - 1 /\ Len(s.reading) \in Nat
    BY <2>2, EndsIs
  <2>4. Len(s.suffix) < Len(s.reading)
    <3> DEFINE a == Len(s.suffix)  b == Len(s.reading)
    <3> HIDE DEF a, b
    <3>1. a \in 0..b-1 /\ b \in Nat
      BY <2>3 DEF a, b
    <3>2. a < b
      BY <3>1
    <3> QED
      BY <3>2 DEF a, b
  <2> QED
    BY <1>2, <1>3, <2>1, <2>4 DEF Chain
<1>7. PopPlace(n.server) = host
  BY <1>2 DEF PopPlace
<1>8. MoveLeft(n) = q
  BY <1>7 DEF MoveLeft, f
<1>9. host \in Servers
  <2>1. place.input \in Kanas /\ place.cursor \in Nat /\ stack \in Seq(Places)
    BY <1>2 DEF Places, Trail
  <2> HIDE DEF place, stack
  <2> QED
    BY <2>1 DEF Servers
<1>10. host.input = place.input /\ host.cursor = place.cursor /\ host.stack = stack
  BY Zenon
<1> HIDE DEF host, s, fs, snaps, place, stack
<1>11. q \in Bundles
  BY <1>2, <1>5, <1>9 DEF Bundles, Effects, Trail, ClausePart, ClauseBase, Row
<1>12. Place(host, s)
  BY <1>2, <1>10 DEF Place
<1>13. Good(q, p)
  BY <1>2, <1>5, <1>6, <1>10, <1>11, <1>12 DEF Good, Light
<1>14. MovedLeft(n, q, p)
  BY <1>2, <1>10, <1>13 DEF MovedLeft, s, fs, snaps, place, stack, f, c
<1> QED
  BY <1>8, <1>14

\* Left and then Right.
LEMMA RoundTripIs ==
  ASSUME NEW p, Frame(p), NEW n, Good(n, p), n.snaps # <<>>
  PROVE LET back == MoveRight(MoveLeft(n))
        IN /\ back.snaps = n.snaps /\ back.futures = n.futures
           /\ back.server.input = n.server.input /\ back.server.stack = n.server.stack
           /\ back.clause \in Clauses
           /\ back.clause.fixed = n.clause.fixed /\ back.clause.preview = n.clause.preview
           /\ Kana(back.clause.suffix) = Kana(n.clause.suffix)
           /\ back.clause.raw = n.clause.raw /\ back.clause.reading = n.clause.reading
           /\ back.clause.count = n.clause.count /\ back.clause.sel = n.clause.sel
           /\ back.clause.derived = n.clause.derived
           /\ back.clause.remainder = n.clause.remainder
           /\ back.clause.neighbor = n.clause.neighbor /\ back.clause.group = n.clause.group
<1> DEFINE c == n.clause  q == MoveLeft(n)  back == MoveRight(q)  s == Last(n.snaps)
           f == Future(c)
<1>1. /\ n \in Bundles /\ ClausePart(c, p) /\ Trail(n.snaps, n.server.stack, p)
      /\ After(c, n.snaps) /\ Place(n.server, c) /\ Row(n.futures, p)
  BY DEF Good, Light
<1>2. /\ n.server.stack # <<>> /\ Append(Front(n.snaps), s) = n.snaps
      /\ Append(Front(n.server.stack), Last(n.server.stack)) = n.server.stack
      /\ Last(n.server.stack) \in Places
  BY <1>1, TrailFront
<1>3. MovedLeft(n, q, p)
  BY MoveLeftIs
<1> HIDE DEF q
<1>4. /\ Good(q, p) /\ q.clause = s /\ q.snaps = Front(n.snaps) /\ q.clause.suffix # <<>>
      /\ q.futures = Append(n.futures, f)
      /\ q.server.input = Last(n.server.stack).input
      /\ q.server.cursor = Last(n.server.stack).cursor
      /\ q.server.stack = Front(n.server.stack)
  BY <1>3 DEF MovedLeft
<1>5. MovedRight(q, back, p)
  BY <1>4, MoveRightIs DEF Good
<1> HIDE DEF back
<1>6. n.futures \in Seq(Futures) /\ f \in Futures
  BY <1>1, FutureIs DEF FuturePart, Row
<1>18. Append(n.futures, f) # <<>>
  BY ONLY <1>6, AppendSome
<1>19. Last(Append(n.futures, f)) = f
  BY ONLY <1>6, AppendLast
<1>20. Front(Append(n.futures, f)) = n.futures
  BY ONLY <1>6, AppendFront
<1>7. q.futures # <<>>
  BY <1>4, <1>18
<1>8. Last(q.futures) = f
  BY <1>4, <1>19
<1>9. Front(q.futures) = n.futures
  BY <1>4, <1>20
<1>10. /\ back.snaps = Append(q.snaps, q.clause) /\ Good(back, p)
       /\ back.server.input = Rear(Len(q.clause.suffix), p.whole)
       /\ back.server.stack = Append(q.server.stack, [input  |-> q.server.input,
                                                      cursor |-> q.server.cursor])
       /\ back.futures = Front(q.futures)
       /\ Resumes(back.clause, Last(q.futures), q.clause.preview)
  BY <1>5, <1>7 DEF MovedRight
<1>11. back.snaps = n.snaps /\ back.futures = n.futures
  BY <1>2, <1>4, <1>9, <1>10
<1>12. c.fixed = s.preview /\ Len(c.reading) = Len(s.suffix)
  BY <1>1 DEF After, Behind
<1>13. back.server.input = n.server.input
  <2>1. n.server.input = Kana(c.reading)
    BY Zenon, <1>1 DEF Place
  <2>2. Kana(c.reading) = Rear(Len(c.reading), p.whole)
    BY <1>1, BaseIs, ClauseFields DEF ClausePart, ClauseBase
  <2> QED
    BY <1>4, <1>10, <1>12, <2>1, <2>2
<1>14. back.server.stack = n.server.stack
  <2> DEFINE place == Last(n.server.stack)
  <2>1. place \in Places
    BY <1>2
  <2> HIDE DEF place
  <2>2. [input |-> place.input, cursor |-> place.cursor] = place
    BY <2>1 DEF Places
  <2> QED
    BY <1>2, <1>4, <1>10, <2>2 DEF place
<1>15. Resumes(back.clause, f, c.fixed)
  BY <1>4, <1>8, <1>10, <1>12
<1>16. /\ f.preview = ClausePreview(c) /\ f.suffix = c.suffix
       /\ f.raw = c.raw /\ f.reading = c.reading
       /\ f.count = c.count /\ f.sel = c.sel /\ f.derived = c.derived
       /\ f.remainder = c.remainder /\ f.neighbor = c.neighbor /\ f.group = c.group
  <2>1. Remembers(f, c)
    BY Zenon, <1>1, FutureIs
  <2> HIDE DEF f, c
  <2> QED
    BY <2>1 DEF Remembers
<1>17. c.fixed \o ClausePreview(c) = c.preview
  BY Zenon, <1>1, PreviewIs DEF ClausePart, ClauseBase
<1> HIDE DEF f, c
<1>21. back.clause \in Clauses
  BY <1>10, BundleFields DEF Good, Light
<1> QED
  BY <1>11, <1>13, <1>14, <1>15, <1>16, <1>17, <1>21 DEF Resumes, back, q, c

-----------------------------------------------------------------------------
(* Other candidates, other spellings.                                      *)

\* A view whose candidates leave the same kana, spelled as `rests` has them.
Retold(view, rests) ==
  [view EXCEPT !.items = [i \in DOMAIN @ |-> [@[i] EXCEPT !.rest = rests[i]]]]

\* New spellings for the rests of a view's candidates.
Respells(rests, view) ==
  /\ DOMAIN rests = DOMAIN view.items
  /\ \A i \in DOMAIN view.items : rests[i] \in Text /\ Kana(rests[i]) = Kana(view.items[i].rest)

\* A view with those spellings and everything else as it was.
RespeltPart(out, view, rests) ==
  /\ out \in Views /\ DOMAIN out.items = DOMAIN view.items
  /\ \A i \in DOMAIN view.items : /\ out.items[i].text = view.items[i].text
                                  /\ out.items[i].count = view.items[i].count
                                  /\ out.items[i].rest = rests[i]
                                  /\ Len(rests[i]) = Len(view.items[i].rest)

\* Candidates whose rests are spelled otherwise tell the same kana.
LEMMA RetoldIs ==
  ASSUME NEW p, NEW view \in Views, NEW m, ViewPart(view, m, p), NEW rests, Respells(rests, view)
  PROVE ViewPart(Retold(view, rests), m, p) /\ RespeltPart(Retold(view, rests), view, rests)
<1> DEFINE n == Len(view.items)  It(i) == [view.items[i] EXCEPT !.rest = rests[i]]
           items == [i \in 1..n |-> It(i)]
           out == [reading |-> view.reading, items |-> items]
<1>1. /\ view.reading \in Text /\ n \in Nat /\ DOMAIN view.items = 1..n
      /\ \A i \in 1..n : /\ view.items[i] \in Items /\ view.items[i].text \in Text
                         /\ view.items[i].rest \in Text /\ view.items[i].count \in Nat
      /\ view = [reading |-> view.reading, items |-> view.items]
  BY ViewFields DEF Views
<1>2. /\ DOMAIN rests = 1..n
      /\ \A i \in 1..n : rests[i] \in Text /\ Kana(rests[i]) = Kana(view.items[i].rest)
  BY <1>1 DEF Respells
<1>3. \A i \in 1..n : Len(rests[i]) = Len(view.items[i].rest)
                      /\ (rests[i] = <<>> <=> view.items[i].rest = <<>>)
  <2> TAKE i \in 1..n
  <2>1. Len(rests[i]) = Len(view.items[i].rest)
    BY <1>1, <1>2, KanaIs
  <2>2. (rests[i] = <<>> <=> Len(rests[i]) = 0)
        /\ (view.items[i].rest = <<>> <=> Len(view.items[i].rest) = 0)
    BY <1>1, <1>2, SeqIs DEF Text
  <2> QED
    BY <2>1, <2>2
<1>4. Retold(view, rests) = out
  <2>1. Retold(view, rests)
          = [view EXCEPT !.items
            = [i \in DOMAIN view.items |-> [view.items[i] EXCEPT !.rest = rests[i]]]]
    BY DEF Retold
  <2>2. [i \in DOMAIN view.items |-> [view.items[i] EXCEPT !.rest = rests[i]]] = items
    BY <1>1
  <2> HIDE DEF items
  <2>3. view \in Views
    OBVIOUS
  <2> QED
    BY <2>1, <2>2, <2>3 DEF Views
<1>5. \A i \in 1..n : /\ It(i) \in Items /\ It(i).text = view.items[i].text
                      /\ It(i).count = view.items[i].count /\ It(i).rest = rests[i]
  BY <1>1, <1>2 DEF Items
<1> HIDE DEF It
<1>6. items \in Seq(Items) /\ Len(items) = n
  <2>1. n \in Nat /\ \A i \in 1..n : It(i) \in Items
    BY <1>1, <1>5
  <2> HIDE DEF n
  <2> QED
    BY ONLY <2>1, IsASeq, LenProperties DEF items
<1>7. DOMAIN items = 1..n /\ \A i \in 1..n : items[i] = It(i)
  BY DEF items
<1> HIDE DEF items
<1>8. \A i \in 1..n : Tells(items[i], m, p)
  <2> TAKE i \in 1..n
  <2>1. Tells(view.items[i], m, p)
    BY <1>1 DEF ViewPart
  <2> QED
    BY <1>2, <1>3, <1>5, <1>7, <2>1 DEF Tells
<1>9. out \in Views
  BY <1>1, <1>6 DEF Views
<1>10. ViewPart(out, m, p)
  <2>1. \A i, j \in 1..n : i # j => items[i].text # items[j].text
    BY <1>1, <1>5, <1>7 DEF ViewPart
  <2>2. out.reading = view.reading /\ out.items = items
    OBVIOUS
  <2> HIDE DEF out
  <2> QED
    BY <1>7, <1>8, <2>1, <2>2 DEF ViewPart
<1>11. /\ DOMAIN out.items = DOMAIN view.items
       /\ \A i \in DOMAIN view.items : /\ out.items[i].text = view.items[i].text
                                       /\ out.items[i].count = view.items[i].count
                                       /\ out.items[i].rest = rests[i]
                                       /\ Len(rests[i]) = Len(view.items[i].rest)
  BY <1>1, <1>3, <1>5, <1>7
<1> HIDE DEF out
<1> QED
  BY <1>4, <1>9, <1>10, <1>11 DEF RespeltPart

\* What a clause left behind leaves, spelled as `text` has it.
RestBehind(s, suffix, i) ==
  LET same == {j \in DOMAIN s.view.items : s.view.items[j].count = s.count}
  IN IF same # {} /\ i = Min(same) THEN suffix
     ELSE IF IsSuffix(s.suffix, s.view.items[i].rest)
       THEN BeforeSuffix(s.suffix, s.view.items[i].rest) \o suffix
     ELSE s.view.items[i].rest

\* A clause behind, shown before another spelling of the text.
Updated(s, text) ==
  LET suffix == AfterPrefix(s.preview, text)
  IN [s EXCEPT !.suffix = suffix,
               !.view = Retold(@, [i \in DOMAIN s.view.items |-> RestBehind(s, suffix, i)])]

\* A clause behind, shown before another spelling of the composition, is told as
\* before.
LEMMA UpdatedIs ==
  ASSUME NEW p, Frame(p), NEW s, ClausePart(s, p), NEW text \in Text,
         p.base \o Kana(text) = p.whole, IsPrefix(s.preview, text)
  PROVE LET u == Updated(s, text)
        IN /\ ClausePart(u, p) /\ u.preview = s.preview /\ u.fixed = s.fixed
           /\ u.reading = s.reading /\ Len(u.suffix) = Len(s.suffix)
<1> DEFINE suffix == AfterPrefix(s.preview, text)  items == s.view.items  item == items[s.sel]
           rests == [i \in DOMAIN s.view.items |-> RestBehind(s, suffix, i)]
           view == Retold(s.view, rests)  u == Updated(s, text)  m == Len(s.reading)
<1>1. ClauseBase(s, p) /\ s \in Clauses /\ Base(s, p) /\ Ends(s)
      /\ s.preview = s.fixed \o item.text /\ p.base \o (Kana(s.fixed) \o Kana(s.reading)) = p.whole
  BY DEF ClausePart, ClauseBase
<1>2. s.view \in Views /\ s.suffix \in Text /\ s.preview \in Text /\ s.fixed \in Text
      /\ s.count \in Nat
  BY <1>1, ClauseFields
<1>3. m \in 0..Len(p.whole) /\ item \in Items /\ Tells(item, m, p)
  BY <1>1, <1>2, BaseIs
<1>4. ViewPart(s.view, m, p) /\ s.sel \in DOMAIN items /\ s.count = item.count
  BY <1>1 DEF Base
<1>5. Kana(s.suffix) = Kana(item.rest) /\ RestsPlain(s.view, Len(s.suffix))
  BY <1>1 DEF Ends
<1>6. /\ Kana(s.preview) \in Kanas /\ Kana(item.rest) \in Kanas
      /\ p.base \o (Kana(s.preview) \o Kana(item.rest)) = p.whole
  <2>1. Kana(item.rest) \in Kanas /\ p.base \o (Kana(s.preview) \o Kana(item.rest)) = p.whole
    BY Zenon, <1>1, PreviewIs
  <2> QED
    BY Zenon, <1>2, <2>1, KanaIs
<1>7. suffix \in Text /\ text = s.preview \o suffix
  BY <1>2, PrefixIs DEF Text
<1> HIDE DEF suffix, item
<1>8. Kana(suffix) = Kana(s.suffix) /\ Len(suffix) = Len(s.suffix) /\ Len(suffix) \in Nat
  <2>1. Kana(text) = Kana(s.preview) \o Kana(suffix) /\ Kana(suffix) \in Kanas
    BY <1>2, <1>7, KanaCat, KanaIs
  <2> DEFINE a == p.base  b == Kana(s.preview)  d == Kana(suffix)  e == Kana(item.rest)
             x == b \o d  y == b \o e
  <2>2. a \in Seq(Letters) /\ b \in Seq(Letters) /\ d \in Seq(Letters) /\ e \in Seq(Letters)
    BY <1>6, <2>1, <1>3, NumIs DEF Kanas
  <2>3. a \o x = a \o y
    BY <1>6, <2>1
  <2> HIDE DEF a, b, d, e
  <2>4. x \in Seq(Letters) /\ y \in Seq(Letters)
    BY <2>2, Cat
  <2> HIDE DEF x, y
  <2>5. x = y
    BY <2>2, <2>3, <2>4, CatSplitLeft
  <2> USE DEF x, y
  <2>6. b \o d = b \o e
    BY <2>5
  <2> HIDE DEF x, y
  <2>7. d = e
    BY <2>2, <2>6, CatSplitLeft
  <2>8. Kana(suffix) = Kana(s.suffix)
    BY <1>5, <2>7 DEF d, e
  <2>9. Len(Kana(suffix)) = Len(suffix) /\ Len(Kana(s.suffix)) = Len(s.suffix)
    BY <1>2, <1>7, KanaIs
  <2> QED
    BY <1>7, <2>8, <2>9, SeqIs DEF Text
<1>9. \A i \in DOMAIN items : LET r == RestBehind(s, suffix, i)
                              IN r \in Text /\ Kana(r) = Kana(items[i].rest)
                                 /\ PlainBefore(Len(suffix), r)
  <2> TAKE i \in DOMAIN items
  <2> DEFINE same == {j \in DOMAIN s.view.items : s.view.items[j].count = s.count}
             r == RestBehind(s, suffix, i)  rest == items[i].rest
  <2>1. items[i] \in Items /\ rest \in Text /\ Tells(items[i], m, p)
          /\ PlainBefore(Len(s.suffix), rest)
    BY <1>2, <1>4, <1>5, ViewFields DEF ViewPart, RestsPlain
  <2>2. CASE same # {} /\ i = Min(same)
    <3>1. r = suffix
      BY <2>2 DEF RestBehind
    <3>2. same \in SUBSET Nat
      BY <1>2, ViewFields
    <3>3. i \in same
      <4> HIDE DEF same
      <4> QED
        BY <2>2, <3>2, MinIs
    <3>4. items[i].count = item.count
      BY <1>4, <3>3
    <3>5. Len(items[i].rest) = Len(item.rest)
      BY <1>3, <2>1, <3>4, SameRest
    <3>6. Kana(rest) = Rear(Len(rest), p.whole) /\ Kana(item.rest) = Rear(Len(item.rest), p.whole)
      <4>1. Kana(items[i].rest) = Rear(Len(items[i].rest), p.whole)
        BY <1>3, <2>1, TellsIs
      <4>2. Kana(item.rest) = Rear(Len(item.rest), p.whole)
        BY <1>3, TellsIs
      <4> QED
        BY <4>1, <4>2
    <3>7. PlainBefore(Len(suffix), suffix)
      <4> DEFINE k == Len(suffix)
      <4>1. k \in Nat /\ \A j \in 1..k : ~(j + k <= k)
        BY <1>8
      <4> QED
        BY <4>1 DEF PlainBefore
    <3> QED
      BY <1>5, <1>7, <1>8, <3>1, <3>5, <3>6, <3>7
  <2>3. CASE ~(same # {} /\ i = Min(same)) /\ IsSuffix(s.suffix, rest)
    <3> DEFINE b == BeforeSuffix(s.suffix, rest)
    <3>1. r = b \o suffix
      BY <2>3 DEF RestBehind
    <3>2. b \in Text /\ rest = b \o s.suffix
      BY <1>2, <2>1, <2>3, SuffixIs DEF Text
    <3> HIDE DEF b, rest, r
    <3>3. r \in Text /\ Kana(r) = Kana(b) \o Kana(suffix)
      BY <1>7, <3>1, <3>2, KanaCat
    <3>4. Kana(rest) = Kana(b) \o Kana(s.suffix)
      BY <1>2, <3>2, KanaCat
    <3>5. Plain(b)
      BY <1>2, <2>1, <3>2, PlainBeforeCat
    <3>6. PlainBefore(Len(suffix), r)
      BY <1>7, <3>1, <3>2, <3>5, PlainBeforeCat
    <3> QED
      BY Zenon, <1>8, <3>3, <3>4, <3>6 DEF rest, r
  <2>4. CASE ~(same # {} /\ i = Min(same)) /\ ~IsSuffix(s.suffix, rest)
    <3>1. r = rest
      BY <2>4 DEF RestBehind
    <3> QED
      BY <1>8, <2>1, <3>1
  <2> QED
    BY <2>2, <2>3, <2>4
<1>10. rests = [i \in DOMAIN items |-> RestBehind(s, suffix, i)]
  OBVIOUS
<1> HIDE DEF rests
<1>11. Respells(rests, s.view)
  BY <1>9, <1>10 DEF Respells
<1>12. /\ view \in Views /\ ViewPart(view, m, p) /\ DOMAIN view.items = DOMAIN items
       /\ \A i \in DOMAIN items : /\ view.items[i].text = items[i].text
                                  /\ view.items[i].count = items[i].count
                                  /\ view.items[i].rest = rests[i]
  <2>1. ViewPart(view, m, p) /\ RespeltPart(view, s.view, rests)
    BY <1>2, <1>4, <1>11, RetoldIs
  <2> HIDE DEF view
  <2> QED
    BY <2>1 DEF RespeltPart
<1>13. u = [s EXCEPT !.suffix = suffix, !.view = view]
  BY DEF Updated, suffix, rests
<1> HIDE DEF view, u, items, m
<1>14. /\ u \in Clauses /\ u.suffix = suffix /\ u.view = view /\ u.fixed = s.fixed
       /\ u.preview = s.preview /\ u.raw = s.raw /\ u.reading = s.reading /\ u.count = s.count
       /\ u.sel = s.sel /\ u.group = s.group /\ u.derived = s.derived
  BY Zenon, <1>1, <1>7, <1>12, <1>13 DEF Clauses
<1>15. Base(u, p)
  BY Zenon, <1>1, <1>4, <1>12, <1>14 DEF Base, m, items, item
<1>16. ClauseBase(u, p)
  BY Zenon, <1>1, <1>4, <1>12, <1>14, <1>15 DEF ClauseBase, items, item
<1>17. Ends(u)
  <2>1. Kana(u.suffix) = Kana(u.view.items[u.sel].rest)
    <3> DEFINE k == s.sel
    <3>1. k \in DOMAIN items /\ u.view.items[u.sel].rest = rests[k]
      BY <1>4, <1>12, <1>14 DEF items
    <3>2. rests[k] = RestBehind(s, suffix, k)
      BY <1>10, <3>1
    <3>3. Kana(RestBehind(s, suffix, k)) = Kana(items[k].rest)
      BY <1>9, <3>1
    <3>4. items[k].rest = item.rest
      BY DEF item, items
    <3> QED
      BY <1>5, <1>8, <1>14, <3>1, <3>2, <3>3, <3>4
  <2>2. RestsPlain(u.view, Len(u.suffix))
    BY <1>9, <1>10, <1>12, <1>14 DEF RestsPlain
  <2> QED
    BY <2>1, <2>2 DEF Ends
<1> QED
  BY <1>8, <1>14, <1>16, <1>17 DEF ClausePart, u

\* ShowBehind, in the terms of the lemma above.
LEMMA UpdateIsUpdated ==
  ASSUME NEW snaps, NEW text, snaps \in Seq(Clauses)
  PROVE ShowBehind(snaps, text)
          = [i \in DOMAIN snaps |-> IF IsPrefix(snaps[i].preview, text) THEN Updated(snaps[i], text)
                                    ELSE snaps[i]]
<1> DEFINE Up(s) ==
             LET suffix == AfterPrefix(s.preview, text)
                 same   == {i \in DOMAIN s.view.items : s.view.items[i].count = s.count}
                 Rest(i) == IF same # {} /\ i = Min(same) THEN suffix
                            ELSE IF IsSuffix(s.suffix, s.view.items[i].rest)
                              THEN BeforeSuffix(s.suffix, s.view.items[i].rest) \o suffix
                            ELSE s.view.items[i].rest
             IN [s EXCEPT !.suffix = suffix,
                          !.view.items = [i \in DOMAIN @ |-> [@[i] EXCEPT !.rest = Rest(i)]]]
<1>1. ShowBehind(snaps, text)
        = [i \in DOMAIN snaps |-> IF IsPrefix(snaps[i].preview, text) THEN Up(snaps[i])
          ELSE snaps[i]]
  BY DEF ShowBehind
<1>2. ASSUME NEW s \in Clauses PROVE Up(s) = Updated(s, text)
  <2> DEFINE suffix == AfterPrefix(s.preview, text)
             rests == [i \in DOMAIN s.view.items |-> RestBehind(s, suffix, i)]
             a == [i
               \in DOMAIN s.view.items |-> [s.view.items[i] EXCEPT !.rest
                 = RestBehind(s, suffix, i)]]
             b == [i \in DOMAIN s.view.items |-> [s.view.items[i] EXCEPT !.rest = rests[i]]]
  <2>1. Up(s) = [s EXCEPT !.suffix = suffix, !.view.items = a]
    BY DEF RestBehind
  <2>2. a = b
    OBVIOUS
  <2>3. Updated(s, text) = [s EXCEPT !.suffix = suffix, !.view = [s.view EXCEPT !.items = b]]
    BY DEF Updated, Retold
  <2> HIDE DEF a, b, suffix
  <2>4. [s EXCEPT !.suffix = suffix, !.view.items = b]
          = [s EXCEPT !.suffix = suffix, !.view = [s.view EXCEPT !.items = b]]
    BY DEF Clauses
  <2> QED
    BY <2>1, <2>2, <2>3, <2>4
<1> HIDE DEF Up
<1>3. \A i \in DOMAIN snaps : snaps[i] \in Clauses
  BY SeqIs
<1> QED
  BY <1>1, <1>2, <1>3

\* The clauses left behind are told what is shown now.
LEMMA ShowBehindIs ==
  ASSUME NEW p, Frame(p), NEW snaps, NEW stack, Trail(snaps, stack, p), NEW text \in Text,
         p.base \o Kana(text) = p.whole
  PROVE LET out == ShowBehind(snaps, text)
        IN /\ Trail(out, stack, p)
           /\ \A c : After(c, snaps) => After(c, out)
<1> DEFINE out == ShowBehind(snaps, text)  n == Len(snaps)
           Next0(s) == IF IsPrefix(s.preview, text) THEN Updated(s, text) ELSE s
<1>1. /\ snaps \in Seq(Clauses) /\ stack \in Seq(Places) /\ n = Len(stack)
      /\ \A i \in 1..n : ClausePart(snaps[i], p) /\ snaps[i].suffix # <<>>
         /\ Place(stack[i], snaps[i])
      /\ \A i \in 1..n - 1 : Behind(snaps[i], snaps[i + 1])
  BY DEF Trail
<1>2. n \in Nat /\ DOMAIN snaps = 1..n /\ (snaps = <<>> <=> n = 0)
  BY <1>1, SeqIs
<1>3. out = [i \in 1..n |-> Next0(snaps[i])]
  BY <1>1, <1>2, UpdateIsUpdated
<1> HIDE DEF out
<1>4. ASSUME NEW s, ClausePart(s, p), s.suffix # <<>>
      PROVE /\ ClausePart(Next0(s), p) /\ Next0(s).suffix # <<>> /\ Next0(s).preview = s.preview
            /\ Next0(s).fixed = s.fixed /\ Next0(s).reading = s.reading
            /\ Len(Next0(s).suffix) = Len(s.suffix) /\ Next0(s) \in Clauses
  <2>1. CASE IsPrefix(s.preview, text)
    <3> DEFINE u == Updated(s, text)
    <3>1. /\ ClausePart(u, p) /\ u.preview = s.preview /\ u.fixed = s.fixed
          /\ u.reading = s.reading /\ Len(u.suffix) = Len(s.suffix)
      BY <1>4, <2>1, UpdatedIs
    <3> HIDE DEF u
    <3>2. u.suffix \in Text /\ s.suffix \in Text /\ u \in Clauses
      BY <1>4, <3>1, ClauseFields DEF ClausePart, ClauseBase
    <3>3. u.suffix # <<>>
      BY Zenon, <1>4, <3>1, <3>2, SeqIs DEF Text
    <3> QED
      BY <2>1, <3>1, <3>2, <3>3 DEF u
  <2>2. CASE ~IsPrefix(s.preview, text)
    BY <1>4, <2>2 DEF ClausePart, ClauseBase
  <2> QED
    BY <2>1, <2>2
<1> HIDE DEF Next0
<1>5. \A i \in 1..n : out[i] = Next0(snaps[i])
  BY <1>3
<1>6. \A i \in 1..n :
         /\ ClausePart(out[i], p) /\ out[i].suffix # <<>> /\ out[i].preview = snaps[i].preview
         /\ out[i].fixed = snaps[i].fixed /\ out[i].reading = snaps[i].reading
         /\ Len(out[i].suffix) = Len(snaps[i].suffix)
  BY <1>1, <1>4, <1>5
<1>7. out \in Seq(Clauses) /\ Len(out) = n
  <2>1. n \in Nat /\ \A i \in 1..n : Next0(snaps[i]) \in Clauses
    BY <1>1, <1>2, <1>4
  <2> DEFINE It(i) == Next0(snaps[i])
  <2>2. out = [i \in 1..n |-> It(i)] /\ \A i \in 1..n : It(i) \in Clauses
    BY <1>3, <2>1
  <2> HIDE DEF It, n
  <2>3. [i \in 1..n |-> It(i)] \in Seq(Clauses) /\ Len([i \in 1..n |-> It(i)]) = n
    BY ONLY <2>1, <2>2, IsASeq, LenProperties
  <2> QED
    BY <2>2, <2>3
<1>8. Trail(out, stack, p)
  <2>1. \A i \in 1..Len(out) : ClausePart(out[i], p) /\ out[i].suffix # <<>>
          /\ Place(stack[i], out[i])
    BY <1>1, <1>6, <1>7 DEF Place
  <2>2. \A i \in 1..Len(out) - 1 : Behind(out[i], out[i + 1])
    <3> TAKE i \in 1..Len(out) - 1
    <3>1. i \in 1..n /\ i + 1 \in 1..n /\ i \in 1..n - 1
      BY <1>2, <1>7
    <3> QED
      BY <1>1, <1>6, <3>1 DEF Behind
  <2> QED
    BY <1>1, <1>7, <2>1, <2>2 DEF Trail
<1>9. ASSUME NEW c, After(c, snaps) PROVE After(c, out)
  <2> SUFFICES ASSUME out # <<>> PROVE Behind(Last(out), c)
    BY DEF After
  <2>1. n # 0
    BY <1>7, SeqIs
  <2>2. n \in 1..n /\ Last(out) = out[n] /\ Last(snaps) = snaps[n]
    BY <1>2, <1>7, <2>1 DEF Last
  <2>3. Behind(snaps[n], c)
    BY Zenon, <1>2, <1>9, <2>1, <2>2 DEF After
  <2> QED
    BY <1>6, <2>2, <2>3 DEF Behind
<1> QED
  BY <1>8, <1>9 DEF out

\* What a bundle shows is what was typed and not yet committed.
LEMMA ShownIs ==
  ASSUME NEW p, Frame(p), NEW c, ClausePart(c, p)
  PROVE /\ c.preview \o c.suffix \in Text
        /\ p.base \o Kana(c.preview \o c.suffix) = p.whole
        /\ Kana(c.preview \o c.suffix) = Kana(c.preview) \o Kana(c.suffix)
<1>1. ClauseBase(c, p) /\ c \in Clauses /\ Ends(c)
  BY DEF ClausePart, ClauseBase
<1>2. c.preview \in Text /\ c.suffix \in Text
  BY <1>1, ClauseFields
<1>3. p.base \o (Kana(c.preview) \o Kana(c.view.items[c.sel].rest)) = p.whole
  BY <1>1, PreviewIs
<1>4. Kana(c.suffix) = Kana(c.view.items[c.sel].rest)
  BY <1>1 DEF Ends
<1>5. Kana(c.preview \o c.suffix) = Kana(c.preview) \o Kana(c.suffix)
        /\ c.preview \o c.suffix \in Text
  BY <1>2, KanaCat
<1> QED
  BY <1>3, <1>4, <1>5

\* Another clause d for the same kana takes the place of the current one.
LEMMA RedrawnIs ==
  ASSUME NEW p, Frame(p), NEW n, n \in Bundles, Trail(n.snaps, n.server.stack, p),
         After(n.clause, n.snaps), Place(n.server, n.clause),
         NEW d, ClausePart(d, p), d.fixed = n.clause.fixed, d.reading = n.clause.reading,
         NEW fs, Row(fs, p), Before(d, fs)
  PROVE Good(Redrawn(n, d, fs), p) /\ Redrawn(n, d, fs).effect = "applied"
        /\ Redrawn(n, d, fs).clause = d /\ Redrawn(n, d, fs).server = n.server
        /\ Redrawn(n, d, fs).futures = fs
<1> DEFINE text == d.preview \o d.suffix  snaps == ShowBehind(n.snaps, text)
           q == [clause |-> d, snaps |-> snaps, futures |-> fs, server |-> n.server,
                 effect |-> "applied"]
<1>1. text \in Text /\ p.base \o Kana(text) = p.whole
  BY ShownIs
<1>2. /\ n.server \in Servers /\ n.effect \in Effects
      /\ n = [clause |-> n.clause, snaps |-> n.snaps, futures |-> n.futures,
              server |-> n.server, effect |-> n.effect]
  BY BundleFields
<1> HIDE DEF text
<1>3. Trail(snaps, n.server.stack, p) /\ After(n.clause, snaps)
  BY <1>1, ShowBehindIs
<1>4. Redrawn(n, d, fs) = q
  <2> DEFINE a == n.clause  s == n.snaps  f == n.futures  w == n.server  e == n.effect
             x == [n EXCEPT !.clause = d, !.futures = fs, !.snaps = snaps]
  <2>1. Redrawn(n, d, fs) = Applied(x)
    BY DEF Redrawn, text
  <2>2. n = [clause |-> a, snaps |-> s, futures |-> f, server |-> w, effect |-> e]
    BY <1>2
  <2> HIDE DEF a, s, f, w, e, snaps
  <2>3. x = [clause |-> d, snaps |-> snaps, futures |-> fs, server |-> w, effect |-> e]
    <3> DEFINE k == [clause |-> d, snaps |-> snaps, futures |-> fs, server |-> w, effect |-> e]
    <3>1. DOMAIN x = DOMAIN k /\ x.clause = k.clause /\ x.snaps = k.snaps
          /\ x.futures = k.futures /\ x.server = k.server /\ x.effect = k.effect
      BY ONLY <2>2
    <3> QED
      BY ONLY Zenon, <3>1
  <2> HIDE DEF x
  <2>4. Applied(x) = [clause |-> d, snaps |-> snaps, futures |-> fs, server |-> w,
                      effect |-> "applied"]
    BY ONLY <2>3, AppliedIs
  <2> QED
    BY <2>1, <2>4 DEF w
<1> HIDE DEF snaps
<1>5. snaps \in Seq(Clauses) /\ fs \in Seq(Futures) /\ d \in Clauses
  BY Zenon, <1>3 DEF Trail, Row, ClausePart, ClauseBase
<1>6. q \in Bundles
  BY <1>2, <1>5 DEF Bundles, Effects
<1>7. After(d, snaps) /\ Place(n.server, d)
  BY <1>3 DEF After, Behind, Place
<1>8. Good(q, p)
  BY <1>3, <1>6, <1>7 DEF Good, Light, Before
<1> QED
  BY <1>4, <1>8

\* Another candidate of the same answer.
LEMMA SetSelectionIs ==
  ASSUME NEW p, Frame(p), NEW n, Good(n, p), NEW i \in Int
  PROVE LET q == SetSelection(n, i)
        IN /\ q.effect = "applied"
           /\ (n.futures # <<>> => q.clause.count = n.clause.count) => Good(q, p)
<1> DEFINE c == n.clause  k == Clamp(i, c.view)  item == c.view.items[k]  old == c.view.items[c.sel]
           b == [c EXCEPT !.sel = k, !.count = item.count, !.preview = c.fixed \o item.text,
                          !.reading = c.view.reading]
           d == ShowAhead(b, n.futures)  q == SetSelection(n, i)  m == Len(c.reading)
           preview == c.fixed \o item.text
<1>1. /\ n \in Bundles /\ ClausePart(c, p) /\ Trail(n.snaps, n.server.stack, p)
      /\ After(c, n.snaps) /\ Place(n.server, c) /\ Row(n.futures, p)
      /\ (n.futures # <<>> => Chain(c, Last(n.futures)))
      /\ (n.futures = <<>> => RestsPlain(c.view, 0))
  BY Zenon DEF Good, Light
<1>2. /\ ClauseBase(c, p) /\ c \in Clauses /\ Base(c, p) /\ Ends(c)
      /\ p.base \o (Kana(c.fixed) \o Kana(c.reading)) = p.whole
  BY <1>1 DEF ClausePart, ClauseBase
<1>3. c.view \in Views /\ c.suffix \in Text /\ c.fixed \in Text /\ c.remainder \in BOOLEAN
  BY <1>2, ClauseFields
<1>4. /\ m \in 0..Len(p.whole) /\ c.view.items # <<>> /\ old \in Items /\ Tells(old, m, p)
      /\ c.count = old.count /\ ViewPart(c.view, m, p) /\ c.reading = Spelled(0, Rear(m, p.whole))
  BY <1>2, <1>3, BaseIs DEF Base
<1>5. k \in DOMAIN c.view.items
  BY <1>3, <1>4, ClampIs
<1>6. k \in Nat /\ item \in Items /\ item.text \in Text /\ item.count \in Nat /\ item.rest \in Text
  BY <1>3, <1>5, ViewFields
<1>7. Tells(item, m, p) /\ c.view.reading = c.reading
  BY <1>4, <1>5 DEF ViewPart
<1>8. preview \in Text
  BY <1>3, <1>6, TextCat
<1>9. q = Redrawn(n, d, n.futures)
  <2>1. q = Applied([n EXCEPT !.clause = d, !.snaps = ShowBehind(@, d.preview \o d.suffix)])
    BY <1>4 DEF SetSelection
  <2> DEFINE s == ShowBehind(n.snaps, d.preview \o d.suffix)
  <2>2. Redrawn(n, d, n.futures)
          = Applied([n EXCEPT !.clause = d, !.futures = n.futures, !.snaps = s])
    BY DEF Redrawn
  <2> HIDE DEF d, s
  <2>3. [n EXCEPT !.clause = d, !.snaps = s]
          = [n EXCEPT !.clause = d, !.futures = n.futures, !.snaps = s]
    BY <1>1 DEF Bundles
  <2> QED
    BY <2>1, <2>2, <2>3 DEF s
<1>10. b = [c EXCEPT !.sel = k, !.count = item.count, !.preview = preview, !.reading = c.reading]
  BY <1>7
<1> HIDE DEF k, item, preview, b, m
<1>11. /\ b \in Clauses /\ b.sel = k /\ b.count = item.count /\ b.preview = preview
       /\ b.reading = c.reading /\ b.fixed = c.fixed /\ b.view = c.view /\ b.raw = c.raw
       /\ b.group = c.group /\ b.derived = c.derived /\ b.remainder = c.remainder
  <2> HIDE DEF c
  <2> QED
    BY Zenon, <1>2, <1>6, <1>8, <1>10, ClauseFields DEF Clauses
<1>12. ClauseBase(b, p)
  <2>1. Base(b, p)
    BY <1>2, <1>5, <1>11 DEF Base, item
  <2> QED
    BY Zenon, <1>2, <1>11, <2>1 DEF ClauseBase, preview, item
<1> DEFINE kept == n.futures # <<>> => item.count = c.count
<1>13. ASSUME kept PROVE Fits(b, n.futures)
  <2>1. CASE n.futures = <<>>
    BY <1>1, <1>11, <2>1 DEF Fits
  <2>2. CASE n.futures # <<>>
    <3> DEFINE f == Last(n.futures)
    <3>1. Chain(c, f)
      BY <1>1, <2>2
    <3>2. Len(item.rest) = Len(old.rest)
      BY <1>4, <1>6, <1>7, <1>13, <2>2, SameRest
    <3>3. Len(old.rest) = Len(c.suffix) /\ (c.suffix = <<>> <=> old.rest = <<>>)
      BY <1>2, <1>3, EndsIs
    <3>4. old.rest \in Text
      BY <1>4 DEF Items
    <3>5. (item.rest = <<>> <=> c.suffix = <<>>)
      BY <1>6, <3>2, <3>3, <3>4, SeqIs DEF Text
    <3>6. Len(f.reading) < Len(c.reading)
      BY <3>1 DEF Chain
    <3> HIDE DEF f, old, c
    <3>7. CASE c.suffix = <<>>
      <4>1. Ended(c.view) /\ c.remainder = FALSE
        BY <1>3, <3>1, <3>7 DEF Chain
      <4>2. RestsPlain(c.view, Len(f.reading))
        BY <4>1 DEF Ended, RestsPlain, PlainBefore
      <4> QED
        BY <1>5, <1>11, <2>2, <3>5, <3>6, <3>7, <4>1, <4>2 DEF Fits, f, item
    <3>8. CASE c.suffix # <<>>
      <4>1. Len(f.reading) = Len(c.suffix)
        BY <3>1, <3>8 DEF Chain
      <4>2. RestsPlain(c.view, Len(f.reading))
        BY <1>2, <4>1 DEF Ends
      <4> QED
        BY <1>11, <2>2, <3>2, <3>3, <3>5, <3>6, <3>8, <4>1, <4>2 DEF Fits, f, item
    <3> QED
      BY <3>7, <3>8
  <2> QED
    BY <2>1, <2>2
<1> HIDE DEF kept, q
<1>14. b.count = d.count
  BY DEF ShowAhead
<1>15. q.effect = "applied" /\ q.clause = d
  <2> HIDE DEF d
  <2> QED
    BY <1>1, <1>9 DEF Redrawn, Applied, Bundles
<1>16. ASSUME n.futures # <<>> => q.clause.count = c.count PROVE Good(q, p)
  <2>1. Fits(b, n.futures)
    BY <1>11, <1>13, <1>14, <1>15, <1>16 DEF kept
  <2>2. ClausePart(d, p) /\ Before(d, n.futures) /\ SameClause(b, d)
    BY <1>1, <1>12, <2>1, ShowAheadIs
  <2>3. d.fixed = c.fixed /\ d.reading = c.reading
    BY <1>11, <2>2 DEF SameClause
  <2> HIDE DEF d
  <2> QED
    BY <1>1, <1>9, <2>2, <2>3, RedrawnIs
<1> QED
  BY <1>15, <1>16 DEF q
===============================================================================
