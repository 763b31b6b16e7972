-------------------------- MODULE StmtCacheProofs --------------------------
(***************************************************************************)
(* Proofs about StmtCache, for every capacity and every number of entries: *)
(* the links of the list of stmt_cache.c stay well formed, and the list    *)
(* implements the LRU cache of StmtLRU.                                    *)
(***************************************************************************)
EXTENDS StmtCache, FiniteSetTheorems, SequenceLemmas

(***************************************************************************)
(* Chains                                                                  *)
(***************************************************************************)

Distinct(w) == \A i, j \in 1..Len(w) : w[i] = w[j] => i = j

\* w is the list from h along nx.
Follows(h, nx, w) ==
  /\ w \in Seq(Nodes) /\ Distinct(w)
  /\ h = IF Len(w) = 0 THEN Null ELSE w[1]
  /\ \A k \in 1..Len(w) : nx[w[k]] = IF k = Len(w) THEN Null ELSE w[k + 1]

\* There are no more entries in a list than nodes.
LEMMA NoMoreThanNodes ==
  ASSUME NEW w \in Seq(Nodes), Distinct(w)
  PROVE  /\ Len(w) \in Nat /\ Cardinality(Nodes) \in Nat
         /\ Len(w) <= Cardinality(Nodes)
<1>1. Len(w) \in Nat /\ w \in [1..Len(w) -> Nodes]
  BY LenProperties
<1>2. IsFiniteSet(1..Len(w)) /\ Cardinality(1..Len(w)) = Len(w)
  <2>1. 1 \in Int /\ Len(w) \in Int
    BY <1>1
  <2>2. /\ IsFiniteSet(1..Len(w))
        /\ Cardinality(1..Len(w)) = IF 1 > Len(w) THEN 0 ELSE Len(w) - 1 + 1
    BY <2>1, FS_Interval
  <2> QED BY <2>2, <1>1
<1>3. w \in Injection(1..Len(w), Nodes)
  BY <1>1 DEF Injection, Distinct, IsInjective
<1>5. IsFiniteSet(Nodes) /\ Cardinality(Nodes) \in Nat
  BY ListConstants, FS_CardinalityType
<1>6. Cardinality(1..Len(w)) <= Cardinality(Nodes)
  BY <1>3, <1>5, FS_Injection
<1> QED BY <1>1, <1>2, <1>5, <1>6

\* The nodes that the loop meets, one after the other, are the list.
LEMMA ChainFollows ==
  ASSUME NEW h, NEW nx, NEW w, Follows(h, nx, w)
  PROVE  Chain(h, nx) = w
<1> DEFINE D == 1..Cardinality(Nodes) + 1
           Steps(f) == [k \in D |-> IF k = 1 THEN h ELSE
                          IF f[k - 1] = Null THEN Null ELSE nx[f[k - 1]]]
           at == CHOOSE f : f = Steps(f)
           g == [k \in D |-> IF k <= Len(w) THEN w[k] ELSE Null]
<1>1. /\ w \in Seq(Nodes) /\ Len(w) \in Nat /\ Len(w) <= Cardinality(Nodes)
      /\ Cardinality(Nodes) \in Nat
      /\ \A k \in 1..Len(w) : w[k] \in Nodes /\ w[k] /= Null
  <2>1. w \in Seq(Nodes) /\ Distinct(w)
    BY DEF Follows
  <2> QED BY <2>1, NoMoreThanNodes, ElementOfSeq, ListConstants
<1>2. \A k \in D : g[k] = IF k <= Len(w) THEN w[k] ELSE Null
  OBVIOUS
<1>3. DOMAIN g = D
  OBVIOUS
<1>4. ASSUME NEW k \in D
      PROVE  g[k] = IF k = 1 THEN h ELSE IF g[k - 1] = Null THEN Null ELSE nx[g[k - 1]]
  <2>1. CASE k = 1
    BY <2>1, <1>1, <1>2 DEF Follows
  <2>2. CASE k /= 1
    <3>1. k - 1 \in D
      BY <2>2, <1>1
    <3>2. CASE k - 1 <= Len(w)
      <4>1. k - 1 \in 1..Len(w) /\ g[k - 1] = w[k - 1] /\ g[k - 1] /= Null
        BY <1>1, <1>2, <3>1, <3>2
      <4>2. nx[w[k - 1]] = IF k - 1 = Len(w) THEN Null ELSE w[k]
        <5>1. nx[w[k - 1]] = IF k - 1 = Len(w) THEN Null ELSE w[(k - 1) + 1]
          BY <4>1 DEF Follows
        <5>2. (k - 1) + 1 = k
          BY <1>1
        <5> QED BY <5>1, <5>2
      <4>3. k <= Len(w) <=> k - 1 /= Len(w)
        BY <1>1, <3>2
      <4> QED BY <2>2, <4>1, <4>2, <4>3, <1>2
    <3>3. CASE ~(k - 1 <= Len(w))
      <4>1. ~(k <= Len(w))
        BY <1>1, <3>3
      <4> QED BY <2>2, <3>1, <3>3, <4>1, <1>2
    <3> QED BY <3>2, <3>3
  <2> QED BY <2>1, <2>2
<1>5. g = Steps(g)
  <2> HIDE DEF g
  <2>1. g = [k \in D |-> g[k]]
    BY DEF g
  <2> QED BY <2>1, <1>4
<1> HIDE DEF g
<1>6. ASSUME NEW f, f = Steps(f) PROVE f = g
  <2>1. /\ f = [k \in D |-> f[k]] /\ g = [k \in D |-> g[k]]
        /\ \A k \in D : f[k] = IF k = 1 THEN h ELSE
                                 IF f[k - 1] = Null THEN Null ELSE nx[f[k - 1]]
    <3>1. g = [k \in D |-> g[k]]
      BY DEF g
    <3> QED BY <1>6, <3>1
  <2>2. ASSUME NEW x \in D, f[x] /= g[x] PROVE FALSE
    <3> DEFINE S == {k \in D : f[k] /= g[k]}
    <3>1. S \in SUBSET Nat /\ S /= {}
      BY <2>2, <1>1
    <3>2. PICK m \in S : \A k \in S : m <= k
      BY <3>1, LeastNumber
    <3>3. m \in D /\ f[m] /= g[m] /\ \A k \in D : k < m => f[k] = g[k]
      BY <3>2, <1>1
    <3>4. CASE m = 1
      BY <3>3, <3>4, <2>1, <1>4
    <3>5. CASE m /= 1
      <4>1. m - 1 \in D /\ m - 1 < m
        BY <3>3, <3>5, <1>1
      <4>2. f[m - 1] = g[m - 1]
        BY <4>1, <3>3
      <4> QED BY <4>2, <3>3, <3>5, <2>1, <1>4
    <3> QED BY <3>4, <3>5
  <2> QED BY <2>1, <2>2
<1>7. at = g
  <2> HIDE DEF Steps
  <2> QED BY <1>5, <1>6
<1>8. Chain(h, nx) = [k \in 1..Cardinality({k \in DOMAIN at : at[k] /= Null}) |-> at[k]]
  BY DEF Chain
<1> HIDE DEF at
<1>9. {k \in D : g[k] /= Null} = 1..Len(w)
  <2>1. \A k \in D : g[k] /= Null <=> k <= Len(w)
    BY <1>1, <1>2
  <2> QED BY <2>1, <1>1
<1>10. Cardinality(1..Len(w)) = Len(w)
  <2>1. Cardinality(1..Len(w)) = IF 1 > Len(w) THEN 0 ELSE Len(w) - 1 + 1
    <3>1. 1 \in Int /\ Len(w) \in Int
      BY <1>1
    <3> QED BY <3>1, FS_Interval
  <2> QED BY <2>1, <1>1
<1>11. Chain(h, nx) = [k \in 1..Len(w) |-> g[k]]
  BY <1>3, <1>7, <1>8, <1>9, <1>10
<1>12. w = [k \in 1..Len(w) |-> w[k]]
  BY <1>1
<1>13. \A k \in 1..Len(w) : g[k] = w[k]
  BY <1>1, <1>2
<1> QED BY <1>11, <1>12, <1>13

(***************************************************************************)
(* The doubly linked list                                                  *)
(***************************************************************************)

\* w is the list that the pointers h, t, nx and pv make.
Linked(h, t, nx, pv, w) ==
  /\ Follows(h, nx, w)
  /\ t = IF Len(w) = 0 THEN Null ELSE w[Len(w)]
  /\ \A k \in 1..Len(w) : pv[w[k]] = IF k = 1 THEN Null ELSE w[k - 1]

\* The facts about a list that every step uses.
LEMMA ListFacts ==
  ASSUME NEW h, NEW t, NEW nx, NEW pv, NEW w, Linked(h, t, nx, pv, w)
  PROVE  /\ w \in Seq(Nodes) /\ Len(w) \in Nat /\ DOMAIN w = 1..Len(w) /\ Distinct(w)
         /\ \A k \in 1..Len(w) : w[k] \in Nodes /\ w[k] /= Null
         /\ h = IF Len(w) = 0 THEN Null ELSE w[1]
         /\ t = IF Len(w) = 0 THEN Null ELSE w[Len(w)]
         /\ \A k \in 1..Len(w) : nx[w[k]] = IF k = Len(w) THEN Null ELSE w[k + 1]
         /\ \A k \in 1..Len(w) : pv[w[k]] = IF k = 1 THEN Null ELSE w[k - 1]
<1>1. w \in Seq(Nodes)
  BY DEF Linked, Follows
<1>2. Len(w) \in Nat /\ DOMAIN w = 1..Len(w)
  BY <1>1, LenProperties
<1>3. \A k \in 1..Len(w) : w[k] \in Nodes
  BY <1>1, ElementOfSeq
<1> QED BY <1>1, <1>2, <1>3, ListConstants DEF Linked, Follows

\* Pointers of nodes outside of the list do not matter to it.
LEMMA SameLinks ==
  ASSUME NEW h, NEW t, NEW nx, NEW pv, NEW w, Linked(h, t, nx, pv, w),
         NEW nx2, NEW pv2,
         \A k \in 1..Len(w) : nx2[w[k]] = nx[w[k]] /\ pv2[w[k]] = pv[w[k]]
  PROVE  Linked(h, t, nx2, pv2, w)
BY DEF Linked, Follows

\* prev->next = next and next->prev = prev take the node at position i out, with
\* head and tail moved when it was the first or the last.
LEMMA Unlink ==
  ASSUME NEW h, NEW t, NEW nx, NEW pv, NEW w, Linked(h, t, nx, pv, w),
         NEW i \in 1..Len(w), NEW n, n = w[i]
  PROVE  Linked(IF n = h THEN nx[n] ELSE h, IF n = t THEN pv[n] ELSE t,
                Assign(nx, pv[n], nx[n]), Assign(pv, nx[n], pv[n]), Dropped(w, i))
<1> DEFINE v == Dropped(w, i)
           L == Len(w)
           h1 == IF n = h THEN nx[n] ELSE h
           t1 == IF n = t THEN pv[n] ELSE t
           nx1 == Assign(nx, pv[n], nx[n])
           pv1 == Assign(pv, nx[n], pv[n])
<1>0. \A j, k \in 1..L : w[j] = w[k] => j = k
  BY ListFacts DEF Distinct
<1>1. /\ w \in Seq(Nodes) /\ L \in Nat
      /\ \A j, k \in 1..L : w[j] = w[k] => j = k
      /\ \A k \in 1..L : w[k] \in Nodes /\ w[k] /= Null
      /\ h = w[1] /\ t = w[L]
      /\ \A k \in 1..L : nx[w[k]] = IF k = L THEN Null ELSE w[k + 1]
      /\ \A k \in 1..L : pv[w[k]] = IF k = 1 THEN Null ELSE w[k - 1]
  BY ListFacts DEF Distinct
<1>2. /\ v \in Seq(Nodes) /\ Len(v) = L - 1
      /\ \A k \in 1..(L - 1) : v[k] = IF k < i THEN w[k] ELSE w[k + 1]
  BY <1>1, DroppedIsList
<1>3. nx[n] = (IF i = L THEN Null ELSE w[i + 1]) /\ pv[n] = IF i = 1 THEN Null ELSE w[i - 1]
  BY <1>1
<1>4. (n = h <=> i = 1) /\ (n = t <=> i = L)
  BY <1>1
<1>5. \A x \in Nodes : /\ nx1[x] = IF x = pv[n] THEN nx[n] ELSE nx[x]
                       /\ pv1[x] = IF x = nx[n] THEN pv[n] ELSE pv[x]
  BY DEF Assign
<1> HIDE DEF v, h1, t1, nx1, pv1
<1>6. Distinct(v)
  <2>1. \A k \in 1..(L - 1) : \E m \in 1..L : v[k] = w[m] /\ m = IF k < i THEN k ELSE k + 1
    BY <1>1, <1>2
  <2> SUFFICES ASSUME NEW j \in 1..(L - 1), NEW k \in 1..(L - 1), v[j] = v[k] PROVE j = k
    BY <1>2 DEF Distinct
  <2>2. PICK a \in 1..L : v[j] = w[a] /\ a = IF j < i THEN j ELSE j + 1
    BY <2>1
  <2>3. PICK b \in 1..L : v[k] = w[b] /\ b = IF k < i THEN k ELSE k + 1
    BY <2>1
  <2>4. w[a] = w[b]
    BY <2>2, <2>3
  <2>5. a = b
    BY <1>0, <2>4
  <2> QED BY <2>2, <2>3, <2>5, <1>1
<1>7. h1 = IF Len(v) = 0 THEN Null ELSE v[1]
  <2>1. CASE i = 1
    BY <2>1, <1>1, <1>2, <1>3, <1>4 DEF h1
  <2>2. CASE i /= 1
    <3>1. 1 \in 1..(L - 1) /\ 1 < i /\ L - 1 /= 0
      BY <2>2, <1>1
    <3>2. v[1] = w[1] /\ h1 = w[1]
      BY <2>2, <3>1, <1>1, <1>2, <1>4 DEF h1
    <3> QED BY <3>1, <3>2, <1>2
  <2> QED BY <2>1, <2>2
<1>8. t1 = IF Len(v) = 0 THEN Null ELSE v[Len(v)]
  <2>1. CASE i = L
    BY <2>1, <1>1, <1>2, <1>3, <1>4 DEF t1
  <2>2. CASE i /= L
    <3>1. L - 1 \in 1..(L - 1) /\ ~(L - 1 < i) /\ (L - 1) + 1 = L /\ L - 1 /= 0
      BY <2>2, <1>1
    <3>2. v[L - 1] = w[(L - 1) + 1]
      BY <3>1, <1>2
    <3>3. t1 = w[L]
      BY <2>2, <1>1, <1>4 DEF t1
    <3> QED BY <3>1, <3>2, <3>3, <1>2
  <2> QED BY <2>1, <2>2
<1>9. ASSUME NEW k \in 1..(L - 1)
      PROVE  nx1[v[k]] = IF k = L - 1 THEN Null ELSE v[k + 1]
  <2>1. CASE k < i - 1
    <3>1. v[k] = w[k] /\ k \in 1..L /\ k + 1 \in 1..(L - 1) /\ v[k + 1] = w[k + 1]
      BY <2>1, <1>1, <1>2
    <3>2. w[k] /= pv[n]
      BY <2>1, <1>1, <1>3
    <3>3. nx1[v[k]] = nx[w[k]] /\ nx[w[k]] = w[k + 1]
      <4>1. k /= L
        BY <2>1, <1>1
      <4> QED BY <4>1, <3>1, <3>2, <1>1, <1>5
    <3>4. k /= L - 1
      BY <2>1, <1>1
    <3> QED BY <3>1, <3>3, <3>4
  <2>2. CASE k = i - 1
    <3>1. v[k] = w[k] /\ k \in 1..L /\ w[k] = pv[n]
      BY <2>2, <1>1, <1>2, <1>3
    <3>2. nx1[v[k]] = nx[n]
      BY <3>1, <1>1, <1>5
    <3>3. i = L <=> k = L - 1
      BY <2>2, <1>1
    <3>4. i /= L => k + 1 \in 1..(L - 1) /\ v[k + 1] = w[i + 1]
      BY <2>2, <1>1, <1>2
    <3> QED BY <3>2, <3>3, <3>4, <1>3
  <2>3. CASE k >= i
    <3>1. v[k] = w[k + 1] /\ k + 1 \in 1..L
      BY <2>3, <1>1, <1>2
    <3>2. w[k + 1] /= pv[n]
      BY <2>3, <3>1, <1>1, <1>3
    <3>3. nx1[v[k]] = IF k + 1 = L THEN Null ELSE w[k + 1 + 1]
      BY <3>1, <3>2, <1>1, <1>5
    <3>4. k /= L - 1 => k + 1 \in 1..(L - 1) /\ v[k + 1] = w[k + 1 + 1]
      BY <2>3, <1>1, <1>2
    <3> QED BY <3>3, <3>4, <1>1
  <2> QED BY <2>1, <2>2, <2>3, <1>1
<1>10. ASSUME NEW k \in 1..(L - 1)
       PROVE  pv1[v[k]] = IF k = 1 THEN Null ELSE v[k - 1]
  <2>1. CASE k < i
    <3>1. v[k] = w[k] /\ k \in 1..L /\ (k /= 1 => k - 1 \in 1..(L - 1) /\ v[k - 1] = w[k - 1])
      BY <2>1, <1>1, <1>2
    <3>2. w[k] /= nx[n]
      <4>1. i /= L => i + 1 \in 1..L /\ k /= i + 1
        BY <2>1, <1>1
      <4>2. i /= L => w[k] /= w[i + 1]
        BY <4>1, <3>1, <1>0
      <4> QED BY <4>2, <3>1, <1>1, <1>3
    <3> QED BY <2>1, <3>1, <3>2, <1>1, <1>5
  <2>2. CASE k = i
    <3>1. v[k] = w[k + 1] /\ k + 1 \in 1..L /\ i /= L
      BY <2>2, <1>1, <1>2
    <3>2. pv1[v[k]] = pv[n]
      BY <2>2, <3>1, <1>1, <1>3, <1>5
    <3>3. k /= 1 => k - 1 \in 1..(L - 1) /\ v[k - 1] = w[i - 1]
      BY <2>2, <1>1, <1>2
    <3> QED BY <2>2, <3>2, <3>3, <1>3
  <2>3. CASE k > i
    <3>1. /\ v[k] = w[k + 1] /\ k + 1 \in 1..L
          /\ k /= 1 /\ k - 1 \in 1..(L - 1) /\ v[k - 1] = w[k]
      <4>1. (k - 1) + 1 = k /\ k - 1 \in 1..(L - 1) /\ ~(k - 1 < i) /\ ~(k < i)
        BY <2>3, <1>1
      <4>2. v[k - 1] = w[(k - 1) + 1]
        BY <4>1, <1>2
      <4> QED BY <2>3, <4>1, <4>2, <1>1, <1>2
    <3>2. w[k + 1] /= nx[n]
      BY <2>3, <3>1, <1>1, <1>3
    <3>3. pv1[v[k]] = pv[w[k + 1]]
      BY <3>1, <3>2, <1>1, <1>5
    <3>4. pv[w[k + 1]] = w[k]
      <4>1. k + 1 /= 1 /\ (k + 1) - 1 = k
        BY <1>1
      <4>2. pv[w[k + 1]] = IF k + 1 = 1 THEN Null ELSE w[(k + 1) - 1]
        BY <3>1, <1>1
      <4> QED BY <4>1, <4>2
    <3> QED BY <3>1, <3>3, <3>4
  <2> QED BY <2>1, <2>2, <2>3, <1>1
<1>11. Linked(h1, t1, nx1, pv1, v)
  <2>1. Follows(h1, nx1, v)
    BY <1>2, <1>6, <1>7, <1>9 DEF Follows
  <2> QED BY <2>1, <1>2, <1>8, <1>10 DEF Linked
<1> QED BY <1>11 DEF v, h1, t1, nx1, pv1

\* A node in front: entry->next = head, head->prev = entry, head = entry.
LEMMA PushFront ==
  ASSUME NEW h, NEW t, NEW nx, NEW pv, NEW w, Linked(h, t, nx, pv, w),
         NEW n \in Nodes, \A k \in 1..Len(w) : w[k] /= n,
         NEW nx2, nx2[n] = h, \A k \in 1..Len(w) : nx2[w[k]] = nx[w[k]],
         NEW pv2, pv2[n] = Null,
         \A k \in 1..Len(w) : pv2[w[k]] = IF w[k] = h THEN n ELSE pv[w[k]]
  PROVE  Linked(n, IF t = Null THEN n ELSE t, nx2, pv2, <<n>> \o w)
<1> DEFINE v == <<n>> \o w
           L == Len(w)
           t2 == IF t = Null THEN n ELSE t
<1>1. /\ w \in Seq(Nodes) /\ L \in Nat
      /\ \A j, k \in 1..L : w[j] = w[k] => j = k
      /\ \A k \in 1..L : w[k] \in Nodes /\ w[k] /= Null
      /\ h = (IF L = 0 THEN Null ELSE w[1]) /\ t = (IF L = 0 THEN Null ELSE w[L])
      /\ \A k \in 1..L : nx[w[k]] = IF k = L THEN Null ELSE w[k + 1]
      /\ \A k \in 1..L : pv[w[k]] = IF k = 1 THEN Null ELSE w[k - 1]
  BY ListFacts DEF Distinct
<1>2. /\ v \in Seq(Nodes) /\ Len(v) = L + 1 /\ v[1] = n
      /\ \A k \in 1..L : v[k + 1] = w[k]
  BY <1>1, InFrontIsList
<1> HIDE DEF v, t2
<1>3. \A k \in 1..(L + 1) : k /= 1 => k - 1 \in 1..L /\ v[k] = w[k - 1]
  <2> SUFFICES ASSUME NEW k \in 1..(L + 1), k /= 1 PROVE k - 1 \in 1..L /\ v[k] = w[k - 1]
    OBVIOUS
  <2>1. k - 1 \in 1..L /\ (k - 1) + 1 = k
    BY <1>1
  <2>2. v[(k - 1) + 1] = w[k - 1]
    BY <2>1, <1>2
  <2> QED BY <2>1, <2>2
<1>4. Distinct(v)
  <2> SUFFICES ASSUME NEW j \in 1..(L + 1), NEW k \in 1..(L + 1), v[j] = v[k] PROVE j = k
    BY <1>2 DEF Distinct
  <2>1. CASE j = 1 \/ k = 1
    BY <2>1, <1>2, <1>3
  <2>2. CASE j /= 1 /\ k /= 1
    <3>1. j - 1 = k - 1
      BY <2>2, <1>1, <1>3
    <3> QED BY <3>1, <1>1
  <2> QED BY <2>1, <2>2
<1>5. n = IF Len(v) = 0 THEN Null ELSE v[1]
  BY <1>1, <1>2
<1>6. t2 = IF Len(v) = 0 THEN Null ELSE v[Len(v)]
  <2>1. CASE L = 0
    BY <2>1, <1>1, <1>2 DEF t2
  <2>2. CASE L /= 0
    <3>1. L \in 1..L /\ t /= Null
      BY <2>2, <1>1
    <3> QED BY <2>2, <3>1, <1>1, <1>2 DEF t2
  <2> QED BY <2>1, <2>2
<1>7. ASSUME NEW k \in 1..(L + 1)
      PROVE  nx2[v[k]] = IF k = L + 1 THEN Null ELSE v[k + 1]
  <2>1. CASE k = 1
    <3>1. L /= 0 => v[k + 1] = w[1]
      BY <2>1, <1>1, <1>2
    <3> QED BY <2>1, <3>1, <1>1, <1>2
  <2>2. CASE k /= 1
    <3>1. k - 1 \in 1..L /\ v[k] = w[k - 1] /\ (k - 1) + 1 = k
      BY <2>2, <1>1, <1>3
    <3>2. nx2[v[k]] = IF k - 1 = L THEN Null ELSE w[k]
      BY <3>1, <1>1
    <3>3. k /= L + 1 => k \in 1..L /\ v[k + 1] = w[k]
      BY <1>1, <1>2
    <3> QED BY <3>2, <3>3, <1>1
  <2> QED BY <2>1, <2>2
<1>8. ASSUME NEW k \in 1..(L + 1)
      PROVE  pv2[v[k]] = IF k = 1 THEN Null ELSE v[k - 1]
  <2>1. CASE k = 1
    BY <2>1, <1>2
  <2>2. CASE k = 2
    <3>1. v[k] = w[1] /\ 1 \in 1..L /\ w[1] = h /\ k - 1 = 1
      BY <2>2, <1>1, <1>3
    <3> QED BY <2>2, <3>1, <1>2
  <2>3. CASE k > 2
    <3>1. /\ k - 1 \in 1..L /\ v[k] = w[k - 1] /\ k - 1 /= 1
          /\ k - 1 \in 1..(L + 1) /\ 1 \in 1..L
      BY <2>3, <1>1, <1>3
    <3>2. w[k - 1] /= h /\ pv[w[k - 1]] = w[(k - 1) - 1]
      BY <3>1, <1>1
    <3>3. v[k - 1] = w[(k - 1) - 1]
      BY <3>1, <1>3
    <3> QED BY <2>3, <3>1, <3>2, <3>3
  <2> QED BY <2>1, <2>2, <2>3, <1>1
<1>9. Linked(n, t2, nx2, pv2, v)
  <2>1. Follows(n, nx2, v)
    BY <1>2, <1>4, <1>5, <1>7 DEF Follows
  <2> QED BY <2>1, <1>2, <1>6, <1>8 DEF Linked
<1> QED BY <1>9 DEF v, t2

(***************************************************************************)
(* The contents                                                            *)
(***************************************************************************)

AllEntries == [sql : Sqls, stmt : Stmts]

\* The entries that the nodes of w hold, as the abstract cache sees them.
View(w, sq, st) == [k \in DOMAIN w |-> [sql |-> sq[w[k]], stmt |-> st[w[k]]]]

\* The nodes of w hold texts and statements.
Hold(w, sq, st) == \A x \in Elems(w) : sq[x] \in Sqls /\ st[x] \in Stmts

\* The contents are a list of entries as long as the list of nodes.
LEMMA ViewIsList ==
  ASSUME NEW w \in Seq(Nodes), NEW sq, NEW st, Hold(w, sq, st)
  PROVE  /\ View(w, sq, st) \in Seq(AllEntries) /\ Len(View(w, sq, st)) = Len(w)
         /\ DOMAIN View(w, sq, st) = 1..Len(w)
         /\ \A k \in 1..Len(w) : View(w, sq, st)[k] = [sql |-> sq[w[k]], stmt |-> st[w[k]]]
<1> DEFINE C == View(w, sq, st)
<1>1. Len(w) \in Nat /\ DOMAIN w = 1..Len(w)
  BY LenProperties
<1>2. \A k \in 1..Len(w) : w[k] \in Elems(w)
  BY DEF Elems
<1>3. \A k \in 1..Len(w) : [sql |-> sq[w[k]], stmt |-> st[w[k]]] \in AllEntries
  BY <1>2 DEF Hold, AllEntries
<1>4. C = [k \in 1..Len(w) |-> [sql |-> sq[w[k]], stmt |-> st[w[k]]]]
  BY <1>1 DEF View
<1>5. C \in [1..Len(w) -> AllEntries]
  BY <1>3, <1>4
<1> HIDE DEF C
<1>6. C \in Seq(AllEntries) /\ DOMAIN C = 1..Len(w)
  BY <1>1, <1>5
<1>7. Len(C) = Len(w)
  BY <1>1, <1>6, LenProperties
<1>8. \A k \in 1..Len(w) : C[k] = [sql |-> sq[w[k]], stmt |-> st[w[k]]]
  BY <1>4
<1> QED BY <1>6, <1>7, <1>8 DEF C

\* Fields of other nodes do not matter.
LEMMA ViewSame ==
  ASSUME NEW w \in Seq(Nodes), NEW sq, NEW st, NEW sq2, NEW st2,
         \A x \in Elems(w) : sq2[x] = sq[x] /\ st2[x] = st[x]
  PROVE  View(w, sq2, st2) = View(w, sq, st)
<1>1. DOMAIN w = 1..Len(w)
  BY LenProperties
<1>2. \A k \in DOMAIN w : w[k] \in Elems(w)
  BY <1>1 DEF Elems
<1> QED BY <1>2 DEF View

\* Taking a node out takes its entry out.
LEMMA ViewDropped ==
  ASSUME NEW w \in Seq(Nodes), NEW sq, NEW st, Hold(w, sq, st), NEW i \in 1..Len(w),
         Hold(Dropped(w, i), sq, st)
  PROVE  View(Dropped(w, i), sq, st) = Dropped(View(w, sq, st), i)
<1> DEFINE v == Dropped(w, i)
           C == View(w, sq, st)
           B == View(v, sq, st)
           D == Dropped(C, i)
<1>1. /\ v \in Seq(Nodes) /\ Len(v) = Len(w) - 1
      /\ \A k \in 1..(Len(w) - 1) : v[k] = IF k < i THEN w[k] ELSE w[k + 1]
  BY DroppedIsList
<1>2. /\ C \in Seq(AllEntries) /\ Len(C) = Len(w)
      /\ \A k \in 1..Len(w) : C[k] = [sql |-> sq[w[k]], stmt |-> st[w[k]]]
  BY ViewIsList
<1>3. Len(w) \in Nat
  BY LenProperties
<1> HIDE DEF C, v
<1>4. /\ B \in Seq(AllEntries) /\ Len(B) = Len(v)
      /\ \A k \in 1..Len(v) : B[k] = [sql |-> sq[v[k]], stmt |-> st[v[k]]]
  <2>1. Hold(v, sq, st)
    BY DEF v
  <2> QED BY <2>1, <1>1, ViewIsList
<1>5. /\ D \in Seq(AllEntries) /\ Len(D) = Len(C) - 1
      /\ \A k \in 1..(Len(C) - 1) : D[k] = IF k < i THEN C[k] ELSE C[k + 1]
  <2>1. i \in 1..Len(C)
    BY <1>2
  <2> QED BY <2>1, <1>2, DroppedIsList
<1> HIDE DEF B, D
<1>6. ASSUME NEW k \in 1..Len(B) PROVE B[k] = D[k]
  <2>1. k \in 1..(Len(w) - 1) /\ k \in 1..Len(w) /\ k + 1 \in 1..Len(w)
    BY <1>1, <1>3, <1>4
  <2>2. CASE k < i
    <3>1. v[k] = w[k] /\ D[k] = C[k]
      BY <2>1, <2>2, <1>1, <1>2, <1>5
    <3> QED BY <3>1, <2>1, <1>1, <1>2, <1>4
  <2>3. CASE ~(k < i)
    <3>1. v[k] = w[k + 1] /\ D[k] = C[k + 1]
      BY <2>1, <2>3, <1>1, <1>2, <1>5
    <3> QED BY <3>1, <2>1, <1>1, <1>2, <1>4
  <2> QED BY <2>2, <2>3
<1>7. Len(B) = Len(D)
  BY <1>1, <1>2, <1>4, <1>5
<1>8. B = D
  BY <1>4, <1>5, <1>6, <1>7, SeqEqual
<1> QED BY <1>8 DEF B, D, C, v

\* A node in front puts its entry in front.
LEMMA ViewInFront ==
  ASSUME NEW w \in Seq(Nodes), NEW sq, NEW st, Hold(w, sq, st), NEW n \in Nodes,
         sq[n] \in Sqls, st[n] \in Stmts
  PROVE  View(<<n>> \o w, sq, st) = <<[sql |-> sq[n], stmt |-> st[n]]>> \o View(w, sq, st)
<1> DEFINE v == <<n>> \o w
           e == [sql |-> sq[n], stmt |-> st[n]]
           C == View(w, sq, st)
           B == View(v, sq, st)
           D == <<e>> \o C
<1>1. /\ v \in Seq(Nodes) /\ Len(v) = Len(w) + 1 /\ v[1] = n
      /\ \A k \in 1..Len(w) : v[k + 1] = w[k]
  BY InFrontIsList
<1>2. Hold(v, sq, st)
  <2>1. Elems(v) = Elems(w) \union {n}
    BY ElemsInFront
  <2> QED BY <2>1 DEF Hold
<1>3. /\ C \in Seq(AllEntries) /\ Len(C) = Len(w)
      /\ \A k \in 1..Len(w) : C[k] = [sql |-> sq[w[k]], stmt |-> st[w[k]]]
  BY ViewIsList
<1>4. Len(w) \in Nat /\ e \in AllEntries
  BY LenProperties DEF AllEntries
<1> HIDE DEF C, v, e
<1>5. /\ B \in Seq(AllEntries) /\ Len(B) = Len(v)
      /\ \A k \in 1..Len(v) : B[k] = [sql |-> sq[v[k]], stmt |-> st[v[k]]]
  <2>1. v \in Seq(Nodes)
    BY <1>1
  <2> QED BY <2>1, <1>2, ViewIsList
<1>6. /\ D \in Seq(AllEntries) /\ Len(D) = Len(C) + 1 /\ D[1] = e
      /\ \A k \in 1..Len(C) : D[k + 1] = C[k]
  BY <1>3, <1>4, InFrontIsList
<1> HIDE DEF B, D
<1>7. ASSUME NEW k \in 1..Len(B) PROVE B[k] = D[k]
  <2>1. CASE k = 1
    BY <2>1, <1>1, <1>5, <1>6 DEF e
  <2>2. CASE k /= 1
    <3>1. k - 1 \in 1..Len(w) /\ k - 1 \in 1..Len(C) /\ (k - 1) + 1 = k /\ k \in 1..Len(v)
      BY <2>2, <1>1, <1>3, <1>4, <1>5
    <3>2. v[(k - 1) + 1] = w[k - 1] /\ D[(k - 1) + 1] = C[k - 1]
      BY <3>1, <1>1, <1>6
    <3>3. v[k] = w[k - 1] /\ D[k] = C[k - 1]
      BY <3>1, <3>2
    <3>4. B[k] = [sql |-> sq[v[k]], stmt |-> st[v[k]]]
      BY <3>1, <1>5
    <3>5. C[k - 1] = [sql |-> sq[w[k - 1]], stmt |-> st[w[k - 1]]]
      BY <3>1, <1>3
    <3> QED BY <3>3, <3>4, <3>5
  <2> QED BY <2>1, <2>2
<1>8. Len(B) = Len(D)
  BY <1>1, <1>3, <1>5, <1>6
<1>9. B = D
  BY <1>5, <1>6, <1>7, <1>8, SeqEqual
<1> QED BY <1>9 DEF B, D, C, v, e

(***************************************************************************)
(* The inductive invariant                                                 *)
(***************************************************************************)

\* The fields of a cache and of its nodes represent the list w.
Represents(h, t, nx, pv, sq, st, al, sz, w) ==
  /\ Linked(h, t, nx, pv, w)
  /\ sz = Len(w) /\ sz <= Capacity /\ al = Elems(w)
  /\ Hold(w, sq, st) /\ \A x, y \in al : sq[x] = sq[y] => x = y
  /\ DOMAIN nx = Nodes /\ DOMAIN sq = Nodes /\ DOMAIN st = Nodes
  /\ \A x \in Nodes \ al : pv[x] = Null

Is(w) == Represents(head, tail, next, prev, sql, stmt, alloc, size, w)

ListInv == \E w : Is(w)

\* The loops over the list meet its nodes, in its order.
LEMMA CurrentList ==
  ASSUME NEW w, Is(w)
  PROVE  /\ Walk = w /\ Reached = alloc /\ alloc = Elems(w)
         /\ Contents = View(w, sql, stmt)
         /\ w \in Seq(Nodes) /\ Len(w) \in Nat /\ DOMAIN w = 1..Len(w)
         /\ \A j, k \in 1..Len(w) : w[j] = w[k] => j = k
         /\ \A k \in 1..Len(w) : w[k] \in Nodes /\ w[k] /= Null /\ w[k] \in alloc
         /\ Contents \in Seq(AllEntries) /\ Len(Contents) = Len(w)
         /\ DOMAIN Contents = 1..Len(w)
         /\ \A k \in 1..Len(w) : Contents[k] = [sql |-> sql[w[k]], stmt |-> stmt[w[k]]]
<1>1. Linked(head, tail, next, prev, w) /\ alloc = Elems(w) /\ Hold(w, sql, stmt)
  BY DEF Is, Represents
<1>2. /\ w \in Seq(Nodes) /\ Len(w) \in Nat /\ DOMAIN w = 1..Len(w)
      /\ \A j, k \in 1..Len(w) : w[j] = w[k] => j = k
      /\ \A k \in 1..Len(w) : w[k] \in Nodes /\ w[k] /= Null
  BY <1>1, ListFacts DEF Distinct
<1>3. \A k \in 1..Len(w) : w[k] \in alloc
  BY <1>1 DEF Elems
<1>4. Walk = w
  <2>1. Follows(head, next, w)
    BY <1>1 DEF Linked
  <2> QED BY <2>1, ChainFollows DEF Walk
<1>5. Reached = alloc
  BY <1>1, <1>2, <1>4 DEF Reached, Elems
<1>6. Contents = View(w, sql, stmt)
  BY <1>4 DEF Contents, View
<1>7. /\ Contents \in Seq(AllEntries) /\ Len(Contents) = Len(w)
      /\ DOMAIN Contents = 1..Len(w)
      /\ \A k \in 1..Len(w) : Contents[k] = [sql |-> sql[w[k]], stmt |-> stmt[w[k]]]
  BY <1>1, <1>2, <1>6, ViewIsList
<1> QED BY <1>1, <1>2, <1>3, <1>4, <1>5, <1>6, <1>7

\* The same after a step.
LEMMA NextList ==
  ASSUME NEW v, Is(v)'
  PROVE  ListInv' /\ Contents' = View(v, sql', stmt')
<1>1. ListInv'
  BY DEF ListInv
<1>2. Follows(head', next', v)
  BY DEF Is, Represents, Linked
<1>3. Chain(head', next') = v
  BY <1>2, ChainFollows
<1>4. Walk' = v
  BY <1>3 DEF Walk
<1>5. Contents' = View(v, sql', stmt')
  BY <1>4 DEF Contents, View
<1> QED BY <1>1, <1>5

\* The search loop finds the node of the text, and no other, where the abstract
\* cache has its entry.
LEMMA LookupFinds ==
  ASSUME NEW w, Is(w), NEW q
  PROVE  /\ ~Found(q) => q \notin Abstract!Cached /\ \A x \in alloc : sql[x] /= q
         /\ Found(q) => \E i \in 1..Len(w) :
              /\ Lookup(q) = w[i] /\ sql[w[i]] = q
              /\ q \in Abstract!Cached /\ Abstract!At(q) = i
              /\ Contents[i] = [sql |-> q, stmt |-> stmt[w[i]]]
              /\ Abstract!Touched(q) = <<Contents[i]>> \o Dropped(Contents, i)
              /\ Abstract!Without(Contents, i) = Dropped(Contents, i)
<1> DEFINE M == {k \in 1..Len(w) : sql[w[k]] = q}
<1>1. /\ Walk = w /\ alloc = Elems(w) /\ w \in Seq(Nodes) /\ Len(w) \in Nat
      /\ DOMAIN w = 1..Len(w)
      /\ \A j, k \in 1..Len(w) : w[j] = w[k] => j = k
      /\ \A k \in 1..Len(w) : w[k] \in Nodes /\ w[k] /= Null /\ w[k] \in alloc
      /\ DOMAIN Contents = 1..Len(w)
      /\ \A k \in 1..Len(w) : Contents[k] = [sql |-> sql[w[k]], stmt |-> stmt[w[k]]]
  BY CurrentList
<1>2. \A x, y \in alloc : sql[x] = sql[y] => x = y
  BY DEF Is, Represents
<1>3. Lookup(q) = IF M = {} THEN Null ELSE w[CHOOSE k \in M : \A j \in M : k <= j]
  BY <1>1 DEF Lookup
<1>4. \A j, k \in M : j = k
  BY <1>1, <1>2
<1>5. CASE M = {}
  <2>1. ~Found(q)
    BY <1>3, <1>5 DEF Found
  <2>2. \A x \in alloc : sql[x] /= q
    BY <1>1, <1>5 DEF Elems
  <2>3. q \notin Abstract!Cached
    BY <1>1, <1>5 DEF Abstract!Cached
  <2> QED BY <2>1, <2>2, <2>3
<1>6. CASE M /= {}
  <2>1. PICK i \in M : TRUE
    BY <1>6
  <2>2. i \in 1..Len(w) /\ sql[w[i]] = q /\ M = {i}
    BY <2>1, <1>4
  <2>3. (CHOOSE k \in M : \A j \in M : k <= j) = i
    <3>1. \A j \in M : i <= j
      BY <2>2, <1>1
    <3> QED BY <3>1, <2>2
  <2>4. Lookup(q) = w[i] /\ Found(q)
    BY <2>2, <2>3, <1>1, <1>3 DEF Found
  <2>5. q \in Abstract!Cached /\ Contents[i] = [sql |-> q, stmt |-> stmt[w[i]]]
    BY <2>2, <1>1 DEF Abstract!Cached
  <2>6. \A k \in DOMAIN Contents : Contents[k].sql = q <=> k = i
    BY <2>2, <1>1
  <2>7. i \in DOMAIN Contents
    BY <2>2, <1>1
  <2>8. (CHOOSE k \in DOMAIN Contents : Contents[k].sql = q) = i
    BY <2>6, <2>7
  <2>9. Abstract!At(q) = i
    BY <2>8 DEF Abstract!At
  <2>10. Abstract!Without(Contents, i) = Dropped(Contents, i)
    BY DEF Abstract!Without, Dropped
  <2>11. Abstract!Touched(q) = <<Contents[i]>> \o Dropped(Contents, i)
    BY <2>8, <2>10 DEF Abstract!Touched
  <2> QED BY <2>2, <2>4, <2>5, <2>9, <2>10, <2>11
<1> QED BY <1>5, <1>6

(***************************************************************************)
(* The calls of the cache                                                  *)
(***************************************************************************)

\* A hit: the node moves to the front, and so does its entry.
LEMMA TouchStep ==
  ASSUME NEW w, Is(w), NEW i \in 1..Len(w), Touch(w[i]),
         UNCHANGED <<size, sql, stmt, alloc>>
  PROVE  ListInv' /\ Contents' = <<Contents[i]>> \o Dropped(Contents, i)
<1> DEFINE n == w[i]
           d == Dropped(w, i)
           v == <<n>> \o d
<1>1. /\ Linked(head, tail, next, prev, w) /\ alloc = Elems(w) /\ Hold(w, sql, stmt)
      /\ size = Len(w) /\ DOMAIN next = Nodes /\ \A x \in Nodes \ alloc : prev[x] = Null
  BY DEF Is, Represents
<1>2. /\ Contents = View(w, sql, stmt) /\ w \in Seq(Nodes) /\ Len(w) \in Nat
      /\ \A j, k \in 1..Len(w) : w[j] = w[k] => j = k
      /\ \A k \in 1..Len(w) : w[k] \in Nodes /\ w[k] /= Null /\ w[k] \in alloc
      /\ Contents[i] = [sql |-> sql[n], stmt |-> stmt[n]]
  BY CurrentList
<1>3. d \in Seq(Nodes) /\ Len(d) = Len(w) - 1 /\ Elems(d) = Elems(w) \ {n}
  BY <1>2, DroppedIsList, ElemsDropped
<1>4. n \in Nodes /\ n \in alloc
  BY <1>2
<1> HIDE DEF d, n
<1>5. v \in Seq(Nodes) /\ Len(v) = Len(d) + 1 /\ Elems(v) = Elems(d) \union {n}
  <2>1. v \in Seq(Nodes) /\ Len(v) = Len(d) + 1
    BY <1>3, <1>4, InFrontIsList
  <2>2. Elems(v) = Elems(d) \union {n}
    BY <1>3, <1>4, ElemsInFront
  <2> QED BY <2>1, <2>2
<1>6. Elems(v) = alloc /\ Len(v) = size
  <2>1. Elems(v) = alloc
    BY <1>1, <1>3, <1>4, <1>5
  <2>2. Len(v) = size
    BY <1>1, <1>2, <1>3, <1>5
  <2> QED BY <2>1, <2>2
<1>7. Hold(v, sql, stmt) /\ Hold(d, sql, stmt)
  BY <1>1, <1>3, <1>6 DEF Hold
<1> HIDE DEF v
<1>8. View(v, sql, stmt) = <<Contents[i]>> \o Dropped(Contents, i)
  <2>1. View(d, sql, stmt) = Dropped(Contents, i)
    BY <1>1, <1>2, <1>7, ViewDropped DEF d
  <2>2. sql[n] \in Sqls /\ stmt[n] \in Stmts
    BY <1>1, <1>4 DEF Hold
  <2>3. View(v, sql, stmt) = <<[sql |-> sql[n], stmt |-> stmt[n]]>> \o View(d, sql, stmt)
    <3>1. n \in Nodes /\ d \in Seq(Nodes) /\ Hold(d, sql, stmt)
      BY <1>3, <1>4, <1>7
    <3> QED BY <3>1, <2>2, ViewInFront DEF v
  <2> QED BY <2>1, <2>3, <1>2
<1>9. /\ Linked(head', tail', next', prev', v) /\ DOMAIN next' = Nodes
      /\ \A x \in Nodes \ alloc : prev'[x] = Null
  <2>1. Touch(n)
    BY DEF n
  <2>2. (n = head <=> i = 1) /\ Len(w) > 0 /\ head = w[1] /\ head \in alloc
    <3>1. head = w[1] /\ 1 \in 1..Len(w)
      BY <1>1, <1>2, ListFacts
    <3> QED BY <3>1, <1>2 DEF n
  <2>3. CASE i = 1
    <3>1. v = w
      BY <2>3, <2>2, <1>2, FirstInFront DEF v, d, n
    <3>2. UNCHANGED <<head, tail, next, prev>>
      BY <2>1, <2>2, <2>3 DEF Touch, list
    <3> QED BY <3>1, <3>2, <1>1
  <2>4. CASE i /= 1
    <3> DEFINE next1 == Assign(next, prev[n], next[n])
               prev1 == Assign(prev, next[n], prev[n])
               tail1 == IF n = tail THEN prev[n] ELSE tail
    <3>1. /\ next' = Assign(next1, n, head) /\ tail' = tail1 /\ head' = n
          /\ prev' = Assign(Assign(prev1, n, Null), head, n)
      BY <2>1, <2>2, <2>4 DEF Touch, ToFront
    <3>2. Linked(head, tail1, next1, prev1, d)
      <4>1. Linked(IF n = head THEN next[n] ELSE head, tail1, next1, prev1, d)
        BY <1>1, Unlink DEF n, d
      <4> QED BY <4>1, <2>2, <2>4
    <3> HIDE DEF next1, prev1, tail1
    <3>3. /\ \A k \in 1..Len(d) : d[k] /= n /\ d[k] \in Nodes /\ d[k] /= Null
          /\ tail1 /= Null
      <4>1. \A k \in 1..Len(d) : d[k] \in Elems(d)
        BY DEF Elems
      <4>2. \A k \in 1..Len(d) : d[k] \in Nodes /\ d[k] /= Null
        BY <3>2, ListFacts
      <4>3. Len(d) \in 1..Len(d) /\ tail1 = d[Len(d)]
        <5>1. Len(d) \in 1..Len(d)
          BY <2>4, <1>2, <1>3
        <5> QED BY <5>1, <3>2 DEF Linked
      <4> QED BY <4>1, <4>2, <4>3, <1>3
    <3>4. \A x \in Nodes : /\ next'[x] = IF x = n THEN head ELSE next1[x]
                           /\ prev'[x] = IF x = head THEN n
                                         ELSE IF x = n THEN Null ELSE prev1[x]
      BY <3>1 DEF Assign
    <3>5. Linked(n, IF tail1 = Null THEN n ELSE tail1, next', prev', v)
      <4>1. next'[n] = head /\ \A k \in 1..Len(d) : next'[d[k]] = next1[d[k]]
        BY <3>3, <3>4, <1>4
      <4>2. /\ prev'[n] = Null
            /\ \A k \in 1..Len(d) : prev'[d[k]] = IF d[k] = head THEN n ELSE prev1[d[k]]
        BY <2>2, <2>4, <3>3, <3>4, <1>4
      <4>3. \A k \in 1..Len(d) : d[k] /= n
        BY <3>3
      <4> QED BY <4>1, <4>2, <4>3, <3>2, <1>4, PushFront DEF v
    <3>6. DOMAIN next' = Nodes
      BY <3>1 DEF Assign
    <3>7. ASSUME NEW x \in Nodes \ alloc PROVE prev'[x] = Null
      <4>1. prev1[x] = IF x = next[n] THEN prev[n] ELSE prev[x]
        BY DEF prev1, Assign
      <4>2. next[n] = Null \/ next[n] \in alloc
        <5>1. next[n] = IF i = Len(w) THEN Null ELSE w[i + 1]
          BY <1>1, ListFacts DEF n
        <5>2. i /= Len(w) => i + 1 \in 1..Len(w)
          BY <1>2
        <5> QED BY <5>1, <5>2, <1>2
      <4>3. x /= n /\ x /= head /\ x /= Null /\ prev[x] = Null
        BY <2>2, <1>1, <1>4, ListConstants
      <4> QED BY <4>1, <4>2, <4>3, <3>4
    <3> QED BY <3>1, <3>3, <3>5, <3>6, <3>7
  <2> QED BY <2>3, <2>4
<1>10. Is(v)'
  BY <1>1, <1>5, <1>6, <1>7, <1>9 DEF Is, Represents
<1>11. ListInv' /\ Contents' = View(v, sql', stmt')
  BY <1>10, NextList
<1> QED BY <1>8, <1>11

\* corm_stmt_cache_get.
LEMMA GetStep ==
  ASSUME ListInv, NEW q \in Sqls, Get(q)
  PROVE  ListInv' /\ Abstract!Get(q)
<1>1. PICK w : Is(w)
  BY DEF ListInv
<1>2. freed' = {} /\ UNCHANGED <<size, sql, stmt, alloc>>
  BY DEF Get
<1>3. CASE Found(q)
  <2>1. PICK i \in 1..Len(w) :
          /\ Lookup(q) = w[i]
          /\ q \in Abstract!Cached /\ Abstract!At(q) = i
          /\ Contents[i] = [sql |-> q, stmt |-> stmt[w[i]]]
          /\ Abstract!Touched(q) = <<Contents[i]>> \o Dropped(Contents, i)
    BY <1>1, <1>3, LookupFinds
  <2>2. Touch(w[i]) /\ ret' = stmt[w[i]]
    BY <1>3, <2>1 DEF Get
  <2>3. ListInv' /\ Contents' = <<Contents[i]>> \o Dropped(Contents, i)
    BY <2>2, <1>1, <1>2, TouchStep
  <2>4. ret' = Contents[Abstract!At(q)].stmt
    BY <2>1, <2>2
  <2>5. Abstract!Hit(q)
    BY <2>1, <2>3, <2>4, <1>2 DEF Abstract!Hit
  <2> QED BY <2>3, <2>5 DEF Abstract!Get
<1>4. CASE ~Found(q)
  <2>1. q \notin Abstract!Cached
    BY <1>1, <1>4, LookupFinds
  <2>2. ret' = NoStmt /\ UNCHANGED <<head, tail, next, prev>>
    BY <1>4 DEF Get, list
  <2>3. Is(w)'
    BY <1>1, <1>2, <2>2 DEF Is
  <2>4. ListInv' /\ Contents' = Contents
    BY <1>1, <1>2, <2>3, NextList, CurrentList
  <2>5. Abstract!Miss(q)
    BY <1>2, <2>1, <2>2, <2>4 DEF Abstract!Miss
  <2> QED BY <2>4, <2>5 DEF Abstract!Get
<1> QED BY <1>3, <1>4

\* corm_stmt_cache_put of a text that is there.
LEMMA PutExistingStep ==
  ASSUME ListInv, NEW q \in Sqls, PutExisting(q)
  PROVE  ListInv' /\ Abstract!PutExisting(q)
<1>1. PICK w : Is(w)
  BY DEF ListInv
<1>2. Found(q) /\ freed' = {} /\ UNCHANGED <<size, sql, stmt, alloc, ret>> /\ Touch(Lookup(q))
  BY DEF PutExisting
<1>3. PICK i \in 1..Len(w) :
        /\ Lookup(q) = w[i] /\ q \in Abstract!Cached
        /\ Abstract!Touched(q) = <<Contents[i]>> \o Dropped(Contents, i)
  BY <1>1, <1>2, LookupFinds
<1>4. ListInv' /\ Contents' = <<Contents[i]>> \o Dropped(Contents, i)
  <2>1. Touch(w[i])
    BY <1>2, <1>3
  <2> QED BY <2>1, <1>1, <1>2, TouchStep
<1> QED BY <1>2, <1>3, <1>4 DEF Abstract!PutExisting

\* "Evict tail if full": afterwards there is room, the fields represent the
\* list without its last node, and that node's statement is destroyed.
LEMMA EvictLeaves ==
  ASSUME NEW w, Is(w)
  PROVE  \E v :
           /\ Represents(AfterEvict.head, AfterEvict.tail, AfterEvict.next,
                         AfterEvict.prev, AfterEvict.sql, AfterEvict.stmt,
                         AfterEvict.alloc, AfterEvict.size, v)
           /\ AfterEvict.size < Capacity /\ AfterEvict.alloc \subseteq alloc
           /\ \A x \in AfterEvict.alloc : AfterEvict.sql[x] = sql[x]
           /\ AfterEvict.freed = Abstract!Evicted
           /\ View(v, AfterEvict.sql, AfterEvict.stmt) = Abstract!Room
<1>1. /\ Linked(head, tail, next, prev, w) /\ alloc = Elems(w) /\ Hold(w, sql, stmt)
      /\ size = Len(w) /\ size <= Capacity
      /\ \A x, y \in alloc : sql[x] = sql[y] => x = y
      /\ DOMAIN next = Nodes /\ DOMAIN sql = Nodes /\ DOMAIN stmt = Nodes
      /\ \A x \in Nodes \ alloc : prev[x] = Null
  BY DEF Is, Represents
<1>2. /\ Contents = View(w, sql, stmt) /\ w \in Seq(Nodes) /\ Len(w) \in Nat
      /\ \A j, k \in 1..Len(w) : w[j] = w[k] => j = k
      /\ \A k \in 1..Len(w) : w[k] \in Nodes /\ w[k] /= Null /\ w[k] \in alloc
      /\ Len(Contents) = Len(w) /\ Contents \in Seq(AllEntries)
      /\ \A k \in 1..Len(w) : Contents[k] = [sql |-> sql[w[k]], stmt |-> stmt[w[k]]]
  BY CurrentList
<1>3. /\ head = IF Len(w) = 0 THEN Null ELSE w[1]
      /\ tail = IF Len(w) = 0 THEN Null ELSE w[Len(w)]
  BY <1>1, ListFacts
<1>4. Capacity \in Nat \ {0}
  BY ListConstants
<1>5. Full <=> Len(w) >= Capacity
  <2>1. tail /= Null <=> Len(w) > 0
    BY <1>2, <1>3
  <2> QED BY <2>1, <1>1, <1>2, <1>4 DEF Full
<1>6. CASE ~Full
  <2>1. /\ AfterEvict.head = head /\ AfterEvict.tail = tail /\ AfterEvict.next = next
        /\ AfterEvict.prev = Scrub(prev, {}, Null)
        /\ AfterEvict.sql = Scrub(sql, {}, Null)
        /\ AfterEvict.stmt = Scrub(stmt, {}, NoStmt)
        /\ AfterEvict.alloc = alloc \ {} /\ AfterEvict.size = size - Cardinality({})
        /\ AfterEvict.freed = {stmt[n] : n \in {}}
    BY <1>6 DEF AfterEvict, Victims
  <2>2. /\ \A x \in Nodes : /\ AfterEvict.prev[x] = prev[x]
                            /\ AfterEvict.sql[x] = sql[x] /\ AfterEvict.stmt[x] = stmt[x]
        /\ DOMAIN AfterEvict.sql = Nodes /\ DOMAIN AfterEvict.stmt = Nodes
    BY <2>1 DEF Scrub
  <2>3. AfterEvict.size = size /\ AfterEvict.alloc = alloc /\ AfterEvict.freed = {}
    BY <2>1, <1>1, <1>2, FS_EmptySet
  <2>4. Linked(head, tail, next, AfterEvict.prev, w)
    BY <2>2, <1>1, <1>2, SameLinks
  <2>5. \A x \in alloc : x \in Nodes
    BY <1>1, <1>2 DEF Elems
  <2>6. Hold(w, AfterEvict.sql, AfterEvict.stmt)
    BY <2>2, <2>5, <1>1 DEF Hold
  <2>7. View(w, AfterEvict.sql, AfterEvict.stmt) = Contents
    BY <2>2, <2>5, <1>1, <1>2, ViewSame
  <2>8. Abstract!Evicted = {} /\ Abstract!Room = Contents
    BY <1>2, <1>4, <1>5, <1>6 DEF Abstract!Evicted, Abstract!Room
  <2>9. AfterEvict.size < Capacity
    BY <2>3, <1>1, <1>2, <1>4, <1>5, <1>6
  <2>10. Represents(AfterEvict.head, AfterEvict.tail, AfterEvict.next, AfterEvict.prev,
                    AfterEvict.sql, AfterEvict.stmt, AfterEvict.alloc, AfterEvict.size, w)
    <3>1. \A x, y \in alloc : AfterEvict.sql[x] = AfterEvict.sql[y] => x = y
      BY <2>2, <2>5, <1>1
    <3>2. \A x \in Nodes \ alloc : AfterEvict.prev[x] = Null
      BY <2>2, <1>1
    <3> QED BY <2>1, <2>2, <2>3, <2>4, <2>6, <3>1, <3>2, <1>1 DEF Represents
  <2> QED BY <2>2, <2>3, <2>5, <2>7, <2>8, <2>9, <2>10
<1>7. CASE Full
  <2> DEFINE L == Len(w)
             v == Dropped(w, L)
  <2>1. /\ AfterEvict.head = (IF head = tail THEN Null ELSE head)
        /\ AfterEvict.tail = prev[tail]
        /\ AfterEvict.next = Scrub(Assign(next, prev[tail], Null), {tail}, Null)
        /\ AfterEvict.prev = Scrub(prev, {tail}, Null)
        /\ AfterEvict.sql = Scrub(sql, {tail}, Null)
        /\ AfterEvict.stmt = Scrub(stmt, {tail}, NoStmt)
        /\ AfterEvict.alloc = alloc \ {tail}
        /\ AfterEvict.size = size - Cardinality({tail})
        /\ AfterEvict.freed = {stmt[n] : n \in {tail}}
    BY <1>7 DEF AfterEvict, Victims
  <2>2. L \in 1..L /\ tail = w[L] /\ L > 0 /\ tail \in Nodes /\ tail \in alloc
    BY <1>2, <1>3, <1>4, <1>5, <1>7
  <2>3. next[tail] = Null
    <3>1. next[w[L]] = IF L = Len(w) THEN Null ELSE w[L + 1]
      BY <2>2, <1>1, ListFacts
    <3> QED BY <3>1, <2>2
  <2>4. /\ v \in Seq(Nodes) /\ Len(v) = L - 1 /\ Elems(v) = alloc \ {tail}
    <3>1. v \in Seq(Nodes) /\ Len(v) = L - 1
      BY <2>2, <1>2, DroppedIsList
    <3>2. Elems(v) = Elems(w) \ {w[L]}
      BY <2>2, <1>2, ElemsDropped
    <3> QED BY <3>1, <3>2, <2>2, <1>1
  <2>5. AfterEvict.size = Len(v)
    BY <2>1, <2>4, <1>1, <1>2, FS_Singleton
  <2>6. Linked(IF tail = head THEN next[tail] ELSE head, IF tail = tail THEN prev[tail] ELSE tail,
               Assign(next, prev[tail], next[tail]), Assign(prev, next[tail], prev[tail]), v)
    BY <2>2, <1>1, Unlink
  <2> HIDE DEF v
  <2>7. Linked(AfterEvict.head, AfterEvict.tail, AfterEvict.next, AfterEvict.prev, v)
    <3>1. \A k \in 1..Len(v) : v[k] \in Nodes /\ v[k] /= Null /\ v[k] /= tail
      <4>1. \A k \in 1..Len(v) : v[k] \in Elems(v)
        BY DEF Elems
      <4>2. \A k \in 1..Len(v) : v[k] \in Nodes /\ v[k] /= Null
        BY <2>4, ElementOfSeq, ListConstants
      <4> QED BY <4>1, <4>2, <2>4
    <3>2. /\ \A k \in 1..Len(v) :
               /\ AfterEvict.next[v[k]] = Assign(next, prev[tail], next[tail])[v[k]]
               /\ AfterEvict.prev[v[k]] = Assign(prev, next[tail], prev[tail])[v[k]]
      BY <2>1, <2>3, <3>1 DEF Assign, Scrub
    <3>3. Linked(AfterEvict.head, AfterEvict.tail, Assign(next, prev[tail], next[tail]),
                 Assign(prev, next[tail], prev[tail]), v)
      <4>1. AfterEvict.head = IF tail = head THEN next[tail] ELSE head
        BY <2>1, <2>3
      <4> QED BY <4>1, <2>1, <2>6
    <3> QED BY <3>2, <3>3, SameLinks
  <2>8. /\ \A x \in Nodes \ {tail} : AfterEvict.sql[x] = sql[x] /\ AfterEvict.stmt[x] = stmt[x]
        /\ \A x \in Nodes : AfterEvict.prev[x] = IF x = tail THEN Null ELSE prev[x]
        /\ DOMAIN AfterEvict.sql = Nodes /\ DOMAIN AfterEvict.stmt = Nodes
        /\ DOMAIN AfterEvict.next = Nodes
    BY <2>1 DEF Scrub
  <2>9. \A x \in alloc : x \in Nodes
    BY <1>1, <1>2 DEF Elems
  <2>10. \A x \in Elems(v) : AfterEvict.sql[x] = sql[x] /\ AfterEvict.stmt[x] = stmt[x]
    BY <2>4, <2>8, <2>9
  <2>11. Hold(v, AfterEvict.sql, AfterEvict.stmt) /\ Hold(v, sql, stmt)
    BY <2>4, <2>10, <1>1 DEF Hold
  <2>12. View(v, AfterEvict.sql, AfterEvict.stmt) = Dropped(Contents, L)
    <3>1. View(v, AfterEvict.sql, AfterEvict.stmt) = View(v, sql, stmt)
      BY <2>4, <2>10, ViewSame
    <3>2. View(v, sql, stmt) = Dropped(View(w, sql, stmt), L)
      BY <2>2, <2>11, <1>1, <1>2, ViewDropped DEF v
    <3> QED BY <3>1, <3>2, <1>2
  <2>13. Abstract!Room = Dropped(Contents, L)
    <3>1. Abstract!Room = SubSeq(Contents, 1, Len(Contents) - 1)
      BY <1>2, <1>5, <1>7 DEF Abstract!Room
    <3>2. Dropped(Contents, Len(Contents)) = SubSeq(Contents, 1, Len(Contents) - 1)
      BY <2>2, <1>2, DroppedLast
    <3> QED BY <3>1, <3>2, <1>2
  <2>14. AfterEvict.freed = Abstract!Evicted
    <3>1. Abstract!Evicted = {Contents[Len(Contents)].stmt}
      BY <1>2, <1>5, <1>7 DEF Abstract!Evicted
    <3>2. Contents[Len(Contents)].stmt = stmt[tail]
      <4>1. Len(Contents) = L /\ Contents[L] = [sql |-> sql[w[L]], stmt |-> stmt[w[L]]]
        BY <2>2, <1>2
      <4> QED BY <4>1, <2>2
    <3> QED BY <3>1, <3>2, <2>1
  <2>15. AfterEvict.size < Capacity /\ AfterEvict.size <= Capacity
    BY <2>4, <2>5, <1>1, <1>2, <1>4
  <2>16. Represents(AfterEvict.head, AfterEvict.tail, AfterEvict.next, AfterEvict.prev,
                    AfterEvict.sql, AfterEvict.stmt, AfterEvict.alloc, AfterEvict.size, v)
    <3>1. AfterEvict.alloc = Elems(v)
      BY <2>1, <2>4
    <3>2. \A x, y \in AfterEvict.alloc : AfterEvict.sql[x] = AfterEvict.sql[y] => x = y
      BY <3>1, <2>4, <2>10, <1>1
    <3>3. \A x \in Nodes \ AfterEvict.alloc : AfterEvict.prev[x] = Null
      BY <3>1, <2>4, <2>8, <1>1
    <3> QED BY <2>5, <2>7, <2>8, <2>11, <2>15, <3>1, <3>2, <3>3 DEF Represents
  <2>17. /\ AfterEvict.alloc \subseteq alloc
         /\ \A x \in AfterEvict.alloc : AfterEvict.sql[x] = sql[x]
    BY <2>1, <2>4, <2>10
  <2> QED BY <2>12, <2>13, <2>14, <2>15, <2>16, <2>17
<1> QED BY <1>6, <1>7

\* corm_stmt_cache_put of a new text: the new node comes in front of what the
\* eviction leaves.
LEMMA PutNewStep ==
  ASSUME ListInv, NEW q \in Sqls, NEW s \in Stmts, PutNew(q, s)
  PROVE  ListInv' /\ Abstract!PutNew(q, s)
<1>1. PICK w : Is(w)
  BY DEF ListInv
<1>2. ~Found(q) /\ ret' = ret
  BY DEF PutNew
<1>3. q \notin Abstract!Cached /\ \A x \in alloc : sql[x] /= q
  BY <1>1, <1>2, LookupFinds
<1> DEFINE c == AfterEvict
<1>4. PICK v :
        /\ Represents(c.head, c.tail, c.next, c.prev, c.sql, c.stmt, c.alloc, c.size, v)
        /\ c.size < Capacity /\ c.alloc \subseteq alloc
        /\ \A x \in c.alloc : c.sql[x] = sql[x]
        /\ c.freed = Abstract!Evicted
        /\ View(v, c.sql, c.stmt) = Abstract!Room
  BY <1>1, EvictLeaves
<1>5. PICK n \in Nodes \ c.alloc :
        /\ sql' = [c.sql EXCEPT ![n] = q] /\ stmt' = [c.stmt EXCEPT ![n] = s]
        /\ next' = [c.next EXCEPT ![n] = c.head]
        /\ prev' = Assign(c.prev, c.head, n)
        /\ head' = n
        /\ tail' = IF c.tail = Null THEN n ELSE c.tail
        /\ size' = c.size + 1
        /\ alloc' = c.alloc \union {n}
        /\ freed' = c.freed
  BY DEF PutNew
<1> HIDE DEF c
<1>6. /\ Linked(c.head, c.tail, c.next, c.prev, v) /\ c.size = Len(v)
      /\ c.alloc = Elems(v) /\ Hold(v, c.sql, c.stmt)
      /\ \A x, y \in c.alloc : c.sql[x] = c.sql[y] => x = y
      /\ DOMAIN c.next = Nodes /\ DOMAIN c.sql = Nodes /\ DOMAIN c.stmt = Nodes
      /\ \A x \in Nodes \ c.alloc : c.prev[x] = Null
  BY <1>4 DEF Represents
<1>7. /\ v \in Seq(Nodes) /\ Len(v) \in Nat
      /\ \A k \in 1..Len(v) : v[k] \in Nodes /\ v[k] /= Null
      /\ c.head = IF Len(v) = 0 THEN Null ELSE v[1]
  BY <1>6, ListFacts
<1>8. \A k \in 1..Len(v) : v[k] \in c.alloc /\ v[k] /= n
  BY <1>5, <1>6 DEF Elems
<1>9. c.head /= n /\ (c.head = Null \/ c.head \in c.alloc) /\ n /= Null
  BY <1>5, <1>7, <1>8, ListConstants
<1>10. /\ \A x \in Nodes : /\ sql'[x] = IF x = n THEN q ELSE c.sql[x]
                           /\ stmt'[x] = IF x = n THEN s ELSE c.stmt[x]
                           /\ next'[x] = IF x = n THEN c.head ELSE c.next[x]
                           /\ prev'[x] = IF x = c.head THEN n ELSE c.prev[x]
       /\ DOMAIN sql' = Nodes /\ DOMAIN stmt' = Nodes /\ DOMAIN next' = Nodes
  BY <1>5, <1>6 DEF Assign
<1>11. Linked(head', tail', next', prev', <<n>> \o v)
  <2>1. next'[n] = c.head /\ \A k \in 1..Len(v) : next'[v[k]] = c.next[v[k]]
    BY <1>7, <1>8, <1>10
  <2>2. /\ prev'[n] = Null
        /\ \A k \in 1..Len(v) : prev'[v[k]] = IF v[k] = c.head THEN n ELSE c.prev[v[k]]
    BY <1>6, <1>7, <1>9, <1>10
  <2>3. n \in Nodes /\ \A k \in 1..Len(v) : v[k] /= n
    BY <1>8
  <2>4. Linked(n, IF c.tail = Null THEN n ELSE c.tail, next', prev', <<n>> \o v)
    BY <2>1, <2>2, <2>3, <1>6, PushFront
  <2> QED BY <2>4, <1>5
<1>12. Len(<<n>> \o v) = size' /\ size' <= Capacity
  <2>1. Len(<<n>> \o v) = Len(v) + 1
    BY <1>7, InFrontIsList
  <2>2. Capacity \in Nat
    BY ListConstants
  <2> QED BY <2>1, <2>2, <1>4, <1>5, <1>6, <1>7
<1>13. Elems(<<n>> \o v) = alloc'
  <2>1. Elems(<<n>> \o v) = Elems(v) \union {n}
    BY <1>7, ElemsInFront
  <2> QED BY <2>1, <1>5, <1>6
<1>14. \A x \in Elems(v) : x \in Nodes /\ x /= n
  BY <1>5, <1>6, <1>7 DEF Elems
<1>15. \A x \in Elems(v) : sql'[x] = c.sql[x] /\ stmt'[x] = c.stmt[x]
  BY <1>10, <1>14
<1>16. Hold(v, sql', stmt') /\ Hold(<<n>> \o v, sql', stmt') /\ sql'[n] = q /\ stmt'[n] = s
  <2>1. Hold(v, sql', stmt')
    BY <1>6, <1>15 DEF Hold
  <2>2. sql'[n] = q /\ stmt'[n] = s
    BY <1>10
  <2> QED BY <2>1, <2>2, <1>5, <1>6, <1>13 DEF Hold
<1>17. \A x, y \in alloc' : sql'[x] = sql'[y] => x = y
  <2>1. \A x \in c.alloc : sql'[x] = c.sql[x] /\ sql'[x] /= q
    BY <1>3, <1>4, <1>6, <1>15
  <2> QED BY <2>1, <1>5, <1>6, <1>16
<1>18. \A x \in Nodes \ alloc' : prev'[x] = Null
  BY <1>5, <1>6, <1>9, <1>10, ListConstants
<1>19. Is(<<n>> \o v)'
  BY <1>10, <1>11, <1>12, <1>13, <1>16, <1>17, <1>18 DEF Is, Represents
<1>20. View(<<n>> \o v, sql', stmt') = <<[sql |-> q, stmt |-> s]>> \o Abstract!Room
  <2>1. View(v, sql', stmt') = Abstract!Room
    <3>1. View(v, sql', stmt') = View(v, c.sql, c.stmt)
      BY <1>7, <1>15, ViewSame
    <3> QED BY <3>1, <1>4
  <2>2. View(<<n>> \o v, sql', stmt') =
          <<[sql |-> sql'[n], stmt |-> stmt'[n]]>> \o View(v, sql', stmt')
    <3>1. n \in Nodes /\ sql'[n] \in Sqls /\ stmt'[n] \in Stmts
      BY <1>5, <1>16
    <3>2. v \in Seq(Nodes) /\ Hold(v, sql', stmt')
      BY <1>7, <1>16
    <3> QED BY <3>1, <3>2, ViewInFront
  <2> QED BY <2>1, <2>2, <1>16
<1>21. ListInv' /\ Contents' = View(<<n>> \o v, sql', stmt')
  BY <1>19, NextList
<1>22. freed' = Abstract!Evicted
  BY <1>4, <1>5
<1> QED BY <1>2, <1>3, <1>20, <1>21, <1>22 DEF Abstract!PutNew

\* corm_stmt_cache_put that evicts and then finds no memory.
LEMMA PutNoMemoryStep ==
  ASSUME ListInv, NEW q \in Sqls, PutNoMemory(q)
  PROVE  ListInv' /\ Abstract!PutNoMemory(q)
<1>1. PICK w : Is(w)
  BY DEF ListInv
<1> DEFINE c == AfterEvict
<1>2. /\ ~Found(q) /\ ret' = ret
      /\ next' = c.next /\ prev' = c.prev /\ tail' = c.tail /\ head' = c.head
      /\ sql' = c.sql /\ stmt' = c.stmt
      /\ alloc' = c.alloc /\ size' = c.size /\ freed' = c.freed
  BY DEF PutNoMemory
<1>3. q \notin Abstract!Cached
  BY <1>1, <1>2, LookupFinds
<1>4. PICK v :
        /\ Represents(c.head, c.tail, c.next, c.prev, c.sql, c.stmt, c.alloc, c.size, v)
        /\ c.freed = Abstract!Evicted /\ View(v, c.sql, c.stmt) = Abstract!Room
  BY <1>1, EvictLeaves
<1> HIDE DEF c
<1>5. Is(v)'
  BY <1>2, <1>4 DEF Is
<1>6. ListInv' /\ Contents' = Abstract!Room
  BY <1>2, <1>4, <1>5, NextList
<1> QED BY <1>2, <1>3, <1>4, <1>6 DEF Abstract!PutNoMemory

\* corm_stmt_cache_remove.
LEMMA RemoveStep ==
  ASSUME ListInv, NEW q \in Sqls, RemoveFound(q) \/ RemoveMissing(q)
  PROVE  ListInv' /\ Abstract!Remove(q)
<1>1. PICK w : Is(w)
  BY DEF ListInv
<1>2. CASE RemoveMissing(q)
  <2>1. /\ ~Found(q) /\ freed' = {} /\ ret' = NoStmt
        /\ UNCHANGED <<head, tail, next, prev, size, sql, stmt, alloc>>
    BY <1>2 DEF RemoveMissing, list
  <2>2. q \notin Abstract!Cached
    BY <1>1, <2>1, LookupFinds
  <2>3. Is(w)'
    BY <1>1, <2>1 DEF Is
  <2>4. ListInv' /\ Contents' = Contents
    BY <1>1, <2>1, <2>3, NextList, CurrentList
  <2> QED BY <2>1, <2>2, <2>4 DEF Abstract!Remove, Abstract!Miss
<1>3. CASE RemoveFound(q)
  <2>1. Found(q)
    BY <1>3 DEF RemoveFound
  <2>2. PICK i \in 1..Len(w) :
          /\ Lookup(q) = w[i] /\ q \in Abstract!Cached /\ Abstract!At(q) = i
          /\ Contents[i] = [sql |-> q, stmt |-> stmt[w[i]]]
          /\ Abstract!Without(Contents, i) = Dropped(Contents, i)
    BY <1>1, <2>1, LookupFinds
  <2> DEFINE n == w[i]
             v == Dropped(w, i)
  <2>3. /\ freed' = {} /\ size' = size - 1
        /\ next' = Scrub(Assign(next, prev[n], next[n]), {n}, Null)
        /\ prev' = Scrub(Assign(prev, next[n], prev[n]), {n}, Null)
        /\ sql' = Scrub(sql, {n}, Null) /\ stmt' = Scrub(stmt, {n}, NoStmt)
        /\ head' = (IF n = head THEN next[n] ELSE head)
        /\ tail' = (IF n = tail THEN prev[n] ELSE tail)
        /\ alloc' = alloc \ {n} /\ ret' = stmt[n]
    BY <1>3, <2>2 DEF RemoveFound
  <2>4. /\ Linked(head, tail, next, prev, w) /\ alloc = Elems(w) /\ Hold(w, sql, stmt)
        /\ size = Len(w) /\ size <= Capacity
        /\ \A x, y \in alloc : sql[x] = sql[y] => x = y
        /\ \A x \in Nodes \ alloc : prev[x] = Null
    BY <1>1 DEF Is, Represents
  <2>5. /\ Contents = View(w, sql, stmt) /\ w \in Seq(Nodes) /\ Len(w) \in Nat
        /\ \A j, k \in 1..Len(w) : w[j] = w[k] => j = k
        /\ \A k \in 1..Len(w) : w[k] \in Nodes /\ w[k] /= Null /\ w[k] \in alloc
    BY <1>1, CurrentList
  <2>6. v \in Seq(Nodes) /\ Len(v) = Len(w) - 1 /\ Elems(v) = Elems(w) \ {n}
    <3>1. v \in Seq(Nodes) /\ Len(v) = Len(w) - 1
      BY <2>5, DroppedIsList
    <3>2. Elems(v) = Elems(w) \ {n}
      BY <2>5, ElemsDropped
    <3> QED BY <3>1, <3>2
  <2>7. Linked(head', tail', Assign(next, prev[n], next[n]), Assign(prev, next[n], prev[n]), v)
    <3>1. Linked(IF n = head THEN next[n] ELSE head, IF n = tail THEN prev[n] ELSE tail,
                 Assign(next, prev[n], next[n]), Assign(prev, next[n], prev[n]), v)
      BY <2>4, Unlink
    <3> QED BY <3>1, <2>3
  <2>8. n \in Nodes /\ next[n] = (IF i = Len(w) THEN Null ELSE w[i + 1])
    BY <2>4, ListFacts
  <2> HIDE DEF n, v
  <2>9. \A x \in Elems(v) : x \in Nodes /\ x /= n
    <3>1. \A x \in Elems(w) : x \in Nodes
      BY <2>5 DEF Elems
    <3> QED BY <3>1, <2>6
  <2>10. /\ \A x \in Nodes \ {n} : /\ sql'[x] = sql[x] /\ stmt'[x] = stmt[x]
                                   /\ next'[x] = Assign(next, prev[n], next[n])[x]
                                   /\ prev'[x] = Assign(prev, next[n], prev[n])[x]
         /\ prev'[n] = Null
         /\ DOMAIN next' = Nodes /\ DOMAIN sql' = Nodes /\ DOMAIN stmt' = Nodes
    BY <2>3, <2>8 DEF Scrub
  <2>11. Linked(head', tail', next', prev', v)
    <3>1. \A k \in 1..Len(v) : v[k] \in Elems(v)
      BY DEF Elems
    <3>2. \A k \in 1..Len(v) : /\ next'[v[k]] = Assign(next, prev[n], next[n])[v[k]]
                               /\ prev'[v[k]] = Assign(prev, next[n], prev[n])[v[k]]
      BY <3>1, <2>9, <2>10
    <3> QED BY <3>2, <2>7, SameLinks
  <2>12. Hold(v, sql, stmt) /\ Hold(v, sql', stmt')
    BY <2>4, <2>6, <2>9, <2>10 DEF Hold
  <2>13. \A x, y \in alloc' : sql'[x] = sql'[y] => x = y
    <3>1. \A x \in alloc' : x \in alloc /\ x \in Elems(v)
      BY <2>3, <2>4, <2>6
    <3>2. \A x \in alloc' : sql'[x] = sql[x]
      BY <3>1, <2>9, <2>10
    <3> QED BY <3>1, <3>2, <2>4
  <2>14. ASSUME NEW x \in Nodes \ alloc' PROVE prev'[x] = Null
    <3>1. CASE x = n
      BY <3>1, <2>10
    <3>2. CASE x /= n
      <4>1. x \in Nodes \ alloc
        BY <3>2, <2>3
      <4>2. x /= next[n]
        <5>1. i /= Len(w) => i + 1 \in 1..Len(w)
          BY <2>5
        <5> QED BY <5>1, <4>1, <2>5, <2>8, ListConstants
      <4>3. prev'[x] = prev[x]
        BY <4>1, <4>2, <3>2, <2>10 DEF Assign
      <4> QED BY <4>1, <4>3, <2>4
    <3> QED BY <3>1, <3>2
  <2>15. size' = Len(v) /\ size' <= Capacity
    BY <2>3, <2>4, <2>5, <2>6, ListConstants
  <2>16. alloc' = Elems(v)
    BY <2>3, <2>4, <2>6
  <2>17. Is(v)'
    BY <2>10, <2>11, <2>12, <2>13, <2>14, <2>15, <2>16 DEF Is, Represents
  <2>18. ListInv' /\ Contents' = View(v, sql', stmt')
    BY <2>17, NextList
  <2>19. View(v, sql', stmt') = Dropped(Contents, i)
    <3>1. \A x \in Elems(v) : sql'[x] = sql[x] /\ stmt'[x] = stmt[x]
      BY <2>9, <2>10
    <3>2. View(v, sql', stmt') = View(v, sql, stmt)
      BY <3>1, <2>6, ViewSame
    <3>3. View(v, sql, stmt) = Dropped(View(w, sql, stmt), i)
      BY <2>4, <2>5, <2>12, ViewDropped DEF v
    <3> QED BY <3>2, <3>3, <2>5
  <2>20. ret' = Contents[Abstract!At(q)].stmt
    BY <2>2, <2>3 DEF n
  <2>21. Contents' = Abstract!Without(Contents, Abstract!At(q))
    BY <2>2, <2>18, <2>19
  <2> QED BY <2>2, <2>3, <2>18, <2>20, <2>21 DEF Abstract!Remove
<1> QED BY <1>2, <1>3

\* An empty list.
LEMMA EmptyList ==
  ASSUME NEW nx, NEW pv, NEW sq, NEW st, DOMAIN nx = Nodes, DOMAIN sq = Nodes,
         DOMAIN st = Nodes, \A x \in Nodes : pv[x] = Null
  PROVE  /\ Represents(Null, Null, nx, pv, sq, st, {}, 0, <<>>)
         /\ View(<<>>, sq, st) = <<>>
<1>1. <<>> \in Seq(Nodes) /\ Len(<<>>) = 0 /\ Elems(<<>>) = {}
  BY DEF Elems
<1>2. Linked(Null, Null, nx, pv, <<>>)
  BY <1>1 DEF Linked, Follows, Distinct
<1>3. Hold(<<>>, sq, st)
  BY <1>1 DEF Hold
<1>4. View(<<>>, sq, st) = <<>>
  BY DEF View
<1> QED BY <1>1, <1>2, <1>3, <1>4, ListConstants DEF Represents

\* corm_stmt_cache_destroy gives each statement up.
LEMMA DestroyStep ==
  ASSUME ListInv, Destroy
  PROVE  ListInv' /\ Abstract!DestroyAll
<1>1. PICK w : Is(w)
  BY DEF ListInv
<1>2. /\ freed' = {stmt[n] : n \in Reached} /\ alloc' = alloc \ Reached
      /\ next' = Scrub(next, Reached, Null) /\ prev' = Scrub(prev, Reached, Null)
      /\ sql' = Scrub(sql, Reached, Null) /\ stmt' = Scrub(stmt, Reached, NoStmt)
      /\ head' = Null /\ tail' = Null /\ size' = 0 /\ ret' = ret
  BY DEF Destroy
<1>3. /\ Reached = alloc /\ alloc = Elems(w) /\ DOMAIN Contents = 1..Len(w)
      /\ \A k \in 1..Len(w) : Contents[k] = [sql |-> sql[w[k]], stmt |-> stmt[w[k]]]
  BY <1>1, CurrentList
<1>4. \A x \in Nodes \ alloc : prev[x] = Null
  BY <1>1 DEF Is, Represents
<1>5. /\ DOMAIN next' = Nodes /\ DOMAIN sql' = Nodes /\ DOMAIN stmt' = Nodes
      /\ \A x \in Nodes : prev'[x] = Null
  BY <1>2, <1>3, <1>4 DEF Scrub
<1>6. alloc' = {}
  BY <1>2, <1>3
<1>7. Is(<<>>)' /\ View(<<>>, sql', stmt') = <<>>
  BY <1>2, <1>5, <1>6, EmptyList DEF Is
<1>8. ListInv' /\ Contents' = <<>>
  BY <1>7, NextList
<1>9. freed' = Abstract!CachedStmts
  <2>1. Abstract!CachedStmts = {stmt[w[k]] : k \in 1..Len(w)}
    BY <1>3 DEF Abstract!CachedStmts
  <2> QED BY <2>1, <1>2, <1>3 DEF Elems
<1> QED BY <1>2, <1>8, <1>9 DEF Abstract!DestroyAll

(***************************************************************************)
(* The theorems                                                            *)
(***************************************************************************)

\* A new cache represents the empty list.
LEMMA ListInit == Init => ListInv /\ Abstract!CacheInit
<1> SUFFICES ASSUME Init PROVE ListInv /\ Abstract!CacheInit
  OBVIOUS
<1>1. /\ DOMAIN next = Nodes /\ DOMAIN sql = Nodes /\ DOMAIN stmt = Nodes
      /\ \A x \in Nodes : prev[x] = Null
  BY DEF Init
<1>2. Is(<<>>) /\ View(<<>>, sql, stmt) = <<>>
  BY <1>1, EmptyList DEF Init, Is
<1>3. Contents = <<>>
  BY <1>2, CurrentList
<1> QED BY <1>2, <1>3 DEF Init, ListInv, Abstract!CacheInit

\* Every step keeps the list well formed and is a step of the abstract cache.
LEMMA ListStep ==
  ListInv /\ [Next]_vars => ListInv' /\ [Abstract!CacheNext]_(Abstract!cacheVars)
<1> SUFFICES ASSUME ListInv, [Next]_vars
             PROVE  ListInv' /\ [Abstract!CacheNext]_(Abstract!cacheVars)
  OBVIOUS
<1> USE DEF Abstract!CacheNext
<1>1. ASSUME NEW q \in Sqls, Get(q) PROVE ListInv' /\ Abstract!CacheNext
  BY <1>1, GetStep
<1>2. ASSUME NEW q \in Sqls, PutExisting(q) PROVE ListInv' /\ Abstract!CacheNext
  BY <1>2, PutExistingStep, ListConstants DEF Abstract!Put
<1>3. ASSUME NEW q \in Sqls, PutNoMemory(q) PROVE ListInv' /\ Abstract!CacheNext
  BY <1>3, PutNoMemoryStep, ListConstants DEF Abstract!Put
<1>4. ASSUME NEW q \in Sqls, RemoveFound(q) \/ RemoveMissing(q)
      PROVE  ListInv' /\ Abstract!CacheNext
  BY <1>4, RemoveStep
<1>5. ASSUME NEW q \in Sqls, NEW s \in Stmts, PutNew(q, s)
      PROVE  ListInv' /\ Abstract!CacheNext
  BY <1>5, PutNewStep DEF Abstract!Put
<1>6. CASE Destroy
  BY <1>6, DestroyStep
<1>7. CASE UNCHANGED vars
  <2>1. PICK w : Is(w)
    BY DEF ListInv
  <2>2. UNCHANGED <<head, tail, next, prev, size, sql, stmt, alloc, freed, ret>>
    BY <1>7 DEF vars, list
  <2>3. Is(w)'
    BY <2>1, <2>2 DEF Is
  <2>4. ListInv' /\ Contents' = Contents
    BY <2>1, <2>2, <2>3, NextList, CurrentList
  <2> QED BY <2>2, <2>4 DEF Abstract!cacheVars
<1> QED BY <1>1, <1>2, <1>3, <1>4, <1>5, <1>6, <1>7 DEF Next

\* Whatever calls are made and whatever is evicted, the links of the list agree in
\* both directions, size counts it, and no entry is lost or reached after free.
THEOREM ListStaysLinked == Spec => []WellLinked
<1>1. ListInv => WellLinked
  <2> SUFFICES ASSUME NEW w, Is(w) PROVE WellLinked
    BY DEF ListInv
  <2>1. /\ Walk = w /\ Reached = alloc /\ alloc = Elems(w) /\ w \in Seq(Nodes)
        /\ Len(w) \in Nat /\ DOMAIN w = 1..Len(w)
        /\ \A j, k \in 1..Len(w) : w[j] = w[k] => j = k
    BY CurrentList
  <2>2. /\ size = Len(w) /\ tail = (IF Len(w) = 0 THEN Null ELSE w[Len(w)])
        /\ \A k \in 1..Len(w) : prev[w[k]] = IF k = 1 THEN Null ELSE w[k - 1]
    BY DEF Is, Represents, Linked
  <2>3. w = <<>> <=> Len(w) = 0
    BY <2>1
  <2>4. Cardinality(alloc) = Len(w)
    <3>1. w \in Surjection(1..Len(w), Elems(w))
      BY <2>1 DEF Surjection, Elems
    <3>2. w \in Injection(1..Len(w), Elems(w))
      BY <3>1, <2>1 DEF Surjection, Injection, IsInjective
    <3>3. /\ IsFiniteSet(1..Len(w))
          /\ Cardinality(1..Len(w)) = IF 1 > Len(w) THEN 0 ELSE Len(w) - 1 + 1
      <4>1. 1 \in Int /\ Len(w) \in Int
        BY <2>1
      <4> QED BY <4>1, FS_Interval
    <3>4. Cardinality(Elems(w)) = Cardinality(1..Len(w))
      BY <3>1, <3>2, <3>3, FS_Surjection
    <3> QED BY <3>3, <3>4, <2>1
  <2> QED BY <2>1, <2>2, <2>3, <2>4 DEF WellLinked
<1>2. Init => ListInv
  BY ListInit
<1>3. ListInv /\ [Next]_vars => ListInv'
  BY ListStep
<1> QED BY <1>1, <1>2, <1>3, PTL DEF Spec

\* The list never has more entries than its capacity, and never two for one text.
THEOREM ListStaysBounded == Spec => []WithinCapacity
<1>1. ListInv => WithinCapacity
  <2> SUFFICES ASSUME NEW w, Is(w) PROVE WithinCapacity
    BY DEF ListInv
  <2>1. /\ DOMAIN Contents = 1..Len(w) /\ Len(Contents) = Len(w)
        /\ \A j, k \in 1..Len(w) : w[j] = w[k] => j = k
        /\ \A k \in 1..Len(w) : w[k] \in alloc
        /\ \A k \in 1..Len(w) : Contents[k] = [sql |-> sql[w[k]], stmt |-> stmt[w[k]]]
    BY CurrentList
  <2>2. Len(w) <= Capacity /\ \A x, y \in alloc : sql[x] = sql[y] => x = y
    BY DEF Is, Represents
  <2>3. Abstract!CacheBounded
    BY <2>1, <2>2 DEF Abstract!CacheBounded
  <2>4. Abstract!CacheDistinct
    BY <2>1, <2>2 DEF Abstract!CacheDistinct
  <2> QED BY <2>3, <2>4 DEF WithinCapacity
<1>2. Init => ListInv
  BY ListInit
<1>3. ListInv /\ [Next]_vars => ListInv'
  BY ListStep
<1> QED BY <1>1, <1>2, <1>3, PTL DEF Spec

\* The pointer operations of stmt_cache.c implement the LRU cache: each call
\* returns, destroys and keeps exactly what the abstract cache would.
THEOREM ListImplementsLRU == Spec => ImplementsLRU
<1>1. Init => ListInv /\ Abstract!CacheInit
  BY ListInit
<1>2. ListInv /\ [Next]_vars => ListInv' /\ [Abstract!CacheNext]_(Abstract!cacheVars)
  BY ListStep
<1> QED BY <1>1, <1>2, PTL DEF Spec, ImplementsLRU, Abstract!CacheSpec

=============================================================================
