--------------------------- MODULE SequenceLemmas ---------------------------
(***************************************************************************)
(* What the proofs keep needing of numbers and lists.  Sets of natural     *)
(* numbers have a least element, and a greatest one if they are bounded:   *)
(* the positions that First, SelectInSeq and Newest of the models choose   *)
(* exist.  A list from which an entry is taken, or that gets one in front, *)
(* is the list one expects.                                                *)
(***************************************************************************)
EXTENDS Integers, Sequences, SequenceTheorems, WellFoundedInduction, TLAPS

\* The least element of a set of numbers, by the well-foundedness of <.
LEMMA LeastNumber ==
  ASSUME NEW S \in SUBSET Nat, S /= {}
  PROVE  \E m \in S : \A k \in S : m <= k
<1> DEFINE R == OpToRel(<, Nat)
<1>1. IsWellFoundedOn(OpToRel(<, Nat), Nat)
  BY NatLessThanWellFounded, Zenon
<1>2. \A x, y \in Nat : x < y => <<x, y>> \in R
  BY DEF OpToRel
<1> HIDE DEF R
<1>3. IsWellFoundedOn(R, Nat)
  BY <1>1 DEF R
<1>4. PICK m \in S : \A y \in S : ~(<<y, m>> \in R)
  BY <1>3, WFMin
<1>5. ASSUME NEW k \in S PROVE m <= k
  <2>1. ~(k < m)
    BY <1>2, <1>4
  <2> QED BY <2>1
<1> QED BY <1>5

\* The greatest element of a bounded set of numbers is its least upper bound.
LEMMA GreatestNumber ==
  ASSUME NEW S \in SUBSET Nat, S /= {}, NEW bound \in Nat, \A k \in S : k <= bound
  PROVE  \E m \in S : \A k \in S : k <= m
<1> DEFINE U == {u \in Nat : \A k \in S : k <= u}
<1>1. U \in SUBSET Nat /\ U /= {}
  OBVIOUS
<1>2. PICK m \in U : \A u \in U : m <= u
  BY <1>1, LeastNumber
<1>3. ASSUME m \notin S PROVE FALSE
  <2>1. \A k \in S : k < m
    BY <1>2, <1>3
  <2>2. m - 1 \in Nat /\ \A k \in S : k <= m - 1
    <3>1. PICK k \in S : k < m
      BY <2>1
    <3>2. m \in Nat /\ k \in Nat
      BY <1>2
    <3>3. m - 1 \in Nat
      BY <3>1, <3>2
    <3> QED BY <3>2, <3>3, <2>1
  <2> QED BY <2>2, <1>2
<1> QED BY <1>2, <1>3

\* Without its entry at position i, as the statement cache takes entries out.
Dropped(s, i) == SubSeq(s, 1, i - 1) \o SubSeq(s, i + 1, Len(s))

\* What is left of a list without its entry at position i.
LEMMA DroppedIsList ==
  ASSUME NEW S, NEW s \in Seq(S), NEW i \in 1..Len(s)
  PROVE  /\ Dropped(s, i) \in Seq(S)
         /\ Len(Dropped(s, i)) = Len(s) - 1
         /\ \A k \in 1..(Len(s) - 1) :
              Dropped(s, i)[k] = IF k < i THEN s[k] ELSE s[k + 1]
<1> DEFINE a == SubSeq(s, 1, i - 1)
           b == SubSeq(s, i + 1, Len(s))
<1>1. Len(s) \in Nat /\ \A k \in 1..Len(s) : s[k] \in S
  BY LenProperties, ElementOfSeq
<1>2. /\ a \in Seq(S) /\ Len(a) = i - 1
      /\ \A k \in 1..(i - 1) : a[k] = s[k]
  <2>1. \A k \in 1..(i - 1) : s[k] \in S
    BY <1>1
  <2>2. /\ a \in Seq(S) /\ Len(a) = IF 1 <= i - 1 THEN (i - 1) - 1 + 1 ELSE 0
        /\ \A k \in 1..((i - 1) - 1 + 1) : a[k] = s[1 + k - 1]
    BY <2>1, <1>1, SubSeqProperties
  <2> QED BY <2>2, <1>1
<1>3. /\ b \in Seq(S) /\ Len(b) = Len(s) - i
      /\ \A k \in 1..(Len(s) - i) : b[k] = s[i + k]
  <2>1. \A k \in (i + 1)..Len(s) : s[k] \in S
    BY <1>1
  <2>2. /\ b \in Seq(S)
        /\ Len(b) = IF i + 1 <= Len(s) THEN Len(s) - (i + 1) + 1 ELSE 0
        /\ \A k \in 1..(Len(s) - (i + 1) + 1) : b[k] = s[i + 1 + k - 1]
    BY <2>1, <1>1, SubSeqProperties
  <2> QED BY <2>2, <1>1
<1> HIDE DEF a, b
<1>4. /\ a \o b \in Seq(S) /\ Len(a \o b) = Len(a) + Len(b)
      /\ \A k \in 1..(Len(a) + Len(b)) :
           (a \o b)[k] = IF k <= Len(a) THEN a[k] ELSE b[k - Len(a)]
  BY <1>2, <1>3, ConcatProperties
<1>5. Dropped(s, i) = a \o b
  BY DEF Dropped, a, b
<1>6. ASSUME NEW k \in 1..(Len(s) - 1)
      PROVE  Dropped(s, i)[k] = IF k < i THEN s[k] ELSE s[k + 1]
  <2>1. CASE k < i
    BY <2>1, <1>1, <1>2, <1>3, <1>4, <1>5
  <2>2. CASE ~(k < i)
    <3>1. k - (i - 1) \in 1..(Len(s) - i) /\ i + (k - (i - 1)) = k + 1
      BY <2>2, <1>1
    <3>2. k \in 1..(Len(a) + Len(b)) /\ ~(k <= Len(a)) /\ Len(a) = i - 1
      BY <2>2, <1>1, <1>2, <1>3
    <3>3. Dropped(s, i)[k] = b[k - (i - 1)]
      BY <3>2, <1>4, <1>5
    <3>4. b[k - (i - 1)] = s[k + 1]
      BY <3>1, <1>3
    <3> QED BY <3>3, <3>4, <2>2
  <2> QED BY <2>1, <2>2
<1> QED BY <1>1, <1>2, <1>3, <1>4, <1>5, <1>6

\* Dropping the last entry.
LEMMA DroppedLast ==
  ASSUME NEW S, NEW s \in Seq(S), Len(s) > 0
  PROVE  Dropped(s, Len(s)) = SubSeq(s, 1, Len(s) - 1)
<1>1. Len(s) \in Nat /\ \A k \in 1..(Len(s) - 1) : s[k] \in S
  BY LenProperties, ElementOfSeq
<1>2. SubSeq(s, Len(s) + 1, Len(s)) = <<>>
  BY <1>1, SubSeqEmpty
<1>3. SubSeq(s, 1, Len(s) - 1) \in Seq(S)
  BY <1>1, SubSeqProperties
<1> QED BY <1>2, <1>3, ConcatEmptySeq DEF Dropped

\* A list with one more entry in front.
LEMMA InFrontIsList ==
  ASSUME NEW S, NEW s \in Seq(S), NEW e \in S
  PROVE  /\ <<e>> \o s \in Seq(S) /\ Len(<<e>> \o s) = Len(s) + 1
         /\ (<<e>> \o s)[1] = e
         /\ \A k \in 1..Len(s) : (<<e>> \o s)[k + 1] = s[k]
<1>1. <<e>> \in Seq(S) /\ Len(<<e>>) = 1 /\ <<e>>[1] = e
  OBVIOUS
<1>2. Len(s) \in Nat
  BY LenProperties
<1>3. /\ <<e>> \o s \in Seq(S) /\ Len(<<e>> \o s) = 1 + Len(s)
      /\ \A k \in 1..(1 + Len(s)) : (<<e>> \o s)[k] = IF k <= 1 THEN <<e>>[k] ELSE s[k - 1]
  BY <1>1, ConcatProperties
<1>4. ASSUME NEW k \in 1..Len(s) PROVE (<<e>> \o s)[k + 1] = s[k]
  <2>1. k + 1 \in 1..(1 + Len(s)) /\ ~(k + 1 <= 1) /\ (k + 1) - 1 = k
    BY <1>2
  <2> QED BY <2>1, <1>3
<1> QED BY <1>1, <1>2, <1>3, <1>4

\* The first entry, taken out and put in front again.
LEMMA FirstInFront ==
  ASSUME NEW S, NEW s \in Seq(S), Len(s) > 0
  PROVE  <<s[1]>> \o Dropped(s, 1) = s
<1> DEFINE d == Dropped(s, 1)
           t == <<s[1]>> \o d
<1>1. Len(s) \in Nat /\ 1 \in 1..Len(s) /\ s[1] \in S
  BY LenProperties, ElementOfSeq
<1>2. /\ d \in Seq(S) /\ Len(d) = Len(s) - 1
      /\ \A k \in 1..(Len(s) - 1) : d[k] = IF k < 1 THEN s[k] ELSE s[k + 1]
  BY <1>1, DroppedIsList
<1> HIDE DEF d
<1>3. /\ t \in Seq(S) /\ Len(t) = Len(d) + 1 /\ t[1] = s[1]
      /\ \A k \in 1..Len(d) : t[k + 1] = d[k]
  BY <1>1, <1>2, InFrontIsList
<1> HIDE DEF t
<1>4. ASSUME NEW k \in 1..Len(s), k /= 1 PROVE t[k] = s[k]
  <2>1. k - 1 \in 1..Len(d) /\ k - 1 \in 1..(Len(s) - 1) /\ ~(k - 1 < 1) /\ (k - 1) + 1 = k
    BY <1>1, <1>2, <1>4
  <2>2. t[(k - 1) + 1] = d[k - 1] /\ d[k - 1] = s[(k - 1) + 1]
    BY <2>1, <1>2, <1>3
  <2> QED BY <2>1, <2>2
<1>5. Len(t) = Len(s) /\ \A k \in 1..Len(t) : t[k] = s[k]
  BY <1>1, <1>2, <1>3, <1>4
<1>6. t = s
  BY <1>3, <1>5, SeqEqual
<1> QED BY <1>6 DEF t, d

\* The entries of a list.
Elems(s) == {s[k] : k \in 1..Len(s)}

\* Putting an entry in front.
LEMMA ElemsInFront ==
  ASSUME NEW S, NEW s \in Seq(S), NEW e \in S
  PROVE  Elems(<<e>> \o s) = Elems(s) \union {e}
<1> DEFINE t == <<e>> \o s
<1>1. /\ t \in Seq(S) /\ Len(t) = Len(s) + 1 /\ t[1] = e
      /\ \A k \in 1..Len(s) : t[k + 1] = s[k]
  BY InFrontIsList
<1>2. Len(s) \in Nat
  BY LenProperties
<1> HIDE DEF t
<1>3. ASSUME NEW x \in Elems(t), x /= e PROVE x \in Elems(s)
  <2>1. PICK k \in 1..Len(t) : x = t[k]
    BY DEF Elems
  <2>2. k - 1 \in 1..Len(s) /\ (k - 1) + 1 = k
    BY <2>1, <1>1, <1>2, <1>3
  <2>3. x = s[k - 1]
    BY <2>1, <2>2, <1>1
  <2> QED BY <2>2, <2>3 DEF Elems
<1>4. ASSUME NEW x \in Elems(s) PROVE x \in Elems(t)
  <2>1. PICK k \in 1..Len(s) : x = s[k]
    BY DEF Elems
  <2>2. k + 1 \in 1..Len(t) /\ x = t[k + 1]
    BY <2>1, <1>1, <1>2
  <2> QED BY <2>2 DEF Elems
<1>5. e \in Elems(t)
  BY <1>1, <1>2 DEF Elems
<1>6. Elems(t) = Elems(s) \union {e}
  BY <1>3, <1>4, <1>5
<1> QED BY <1>6 DEF t

\* Taking an entry out of a list that has each entry once.
LEMMA ElemsDropped ==
  ASSUME NEW S, NEW s \in Seq(S), NEW i \in 1..Len(s),
         \A j, k \in 1..Len(s) : s[j] = s[k] => j = k
  PROVE  Elems(Dropped(s, i)) = Elems(s) \ {s[i]}
<1> DEFINE d == Dropped(s, i)
<1>1. /\ d \in Seq(S) /\ Len(d) = Len(s) - 1
      /\ \A k \in 1..(Len(s) - 1) : d[k] = IF k < i THEN s[k] ELSE s[k + 1]
  BY DroppedIsList
<1>2. Len(s) \in Nat
  BY LenProperties
<1> HIDE DEF d
<1>3. ASSUME NEW x \in Elems(d) PROVE x \in Elems(s) /\ x /= s[i]
  <2>1. PICK k \in 1..Len(d) : x = d[k]
    BY DEF Elems
  <2>2. PICK m \in 1..Len(s) : x = s[m] /\ m /= i
    BY <2>1, <1>1, <1>2
  <2> QED BY <2>2 DEF Elems
<1>4. ASSUME NEW x \in Elems(s), x /= s[i] PROVE x \in Elems(d)
  <2>1. PICK m \in 1..Len(s) : x = s[m]
    BY DEF Elems
  <2>2. CASE m < i
    <3>1. m \in 1..Len(d) /\ x = d[m]
      BY <2>1, <2>2, <1>1, <1>2
    <3> QED BY <3>1 DEF Elems
  <2>3. CASE m > i
    <3>1. m - 1 \in 1..Len(d) /\ ~(m - 1 < i) /\ (m - 1) + 1 = m
      BY <2>3, <1>1, <1>2
    <3>2. x = d[m - 1]
      BY <2>1, <3>1, <1>1
    <3> QED BY <3>1, <3>2 DEF Elems
  <2> QED BY <2>1, <2>2, <2>3, <1>2, <1>4
<1>5. Elems(d) = Elems(s) \ {s[i]}
  BY <1>3, <1>4
<1> QED BY <1>5 DEF d

=============================================================================
