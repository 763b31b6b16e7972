---------------------------- MODULE SqliteProofs ----------------------------
(***************************************************************************)
(* Proofs about SqliteStmts and SqliteQueries, for every capacity of the   *)
(* cache, all texts, statements and result sets, and tables of any size.   *)
(* The first part is about StmtLRU alone, the cache that the driver's      *)
(* steps call: what each call does to the set of its entries.              *)
(***************************************************************************)
EXTENDS SqliteQueries, SequenceLemmas, FiniteSetTheorems

(***************************************************************************)
(* Lists                                                                   *)
(***************************************************************************)

\* A list without its entry at position i.
LEMMA WithoutIsList ==
  ASSUME NEW S, NEW s \in Seq(S), NEW i \in 1..Len(s)
  PROVE  /\ Without(s, i) \in Seq(S)
         /\ Len(Without(s, i)) = Len(s) - 1
         /\ \A k \in 1..(Len(s) - 1) :
              Without(s, i)[k] = IF k < i THEN s[k] ELSE s[k + 1]
<1>1. Without(s, i) = Dropped(s, i)
  BY DEF Without, Dropped
<1> QED BY <1>1, DroppedIsList

\* Entries without duplicate texts: taking one out.
LEMMA WithoutEntry ==
  ASSUME NEW l \in Seq(Entries), NEW i \in 1..Len(l),
         \A j, k \in DOMAIN l : l[j].sql = l[k].sql => j = k
  PROVE  LET w == Without(l, i)
         IN  /\ w \in Seq(Entries) /\ Len(w) = Len(l) - 1
             /\ \A j, k \in DOMAIN w : w[j].sql = w[k].sql => j = k
             /\ Range(w) = Range(l) \ {l[i]}
<1> DEFINE w == Without(l, i)
<1>1. /\ w \in Seq(Entries) /\ Len(w) = Len(l) - 1
      /\ \A k \in 1..(Len(l) - 1) : w[k] = IF k < i THEN l[k] ELSE l[k + 1]
  BY WithoutIsList
<1>2. Len(l) \in Nat /\ DOMAIN l = 1..Len(l) /\ DOMAIN w = 1..(Len(l) - 1)
  BY <1>1, LenProperties
<1> HIDE DEF w
<1>3. \A j, k \in DOMAIN w : w[j].sql = w[k].sql => j = k
  <2>1. \A j \in DOMAIN w : \E m \in DOMAIN l :
           w[j] = l[m] /\ m = IF j < i THEN j ELSE j + 1
    BY <1>1, <1>2
  <2> QED BY <2>1, <1>2
<1>4. ASSUME NEW x \in Range(w) PROVE x \in Range(l) \ {l[i]}
  <2>1. PICK k \in DOMAIN w : x = w[k]
    BY DEF Range
  <2>2. PICK m \in DOMAIN l : x = l[m] /\ m /= i
    BY <2>1, <1>1, <1>2
  <2> QED BY <2>2, <1>2 DEF Range
<1>5. ASSUME NEW x \in Range(l), x /= l[i] PROVE x \in Range(w)
  <2>1. PICK m \in DOMAIN l : x = l[m] /\ m /= i
    BY <1>5 DEF Range
  <2>2. CASE m < i
    <3>1. m \in DOMAIN w /\ w[m] = x
      BY <2>1, <2>2, <1>1, <1>2
    <3> QED BY <3>1 DEF Range
  <2>3. CASE m > i
    <3>1. m - 1 \in DOMAIN w /\ w[m - 1] = x
      BY <2>1, <2>3, <1>1, <1>2
    <3> QED BY <3>1 DEF Range
  <2> QED BY <2>1, <2>2, <2>3, <1>2
<1>6. Range(w) = Range(l) \ {l[i]}
  BY <1>4, <1>5
<1> QED BY <1>1, <1>3, <1>6 DEF w

\* Entries without duplicate texts: putting one with a new text in front.
LEMMA EntryInFront ==
  ASSUME NEW l \in Seq(Entries), NEW e \in Entries,
         \A j, k \in DOMAIN l : l[j].sql = l[k].sql => j = k,
         \A k \in DOMAIN l : l[k].sql /= e.sql
  PROVE  LET w == <<e>> \o l
         IN  /\ w \in Seq(Entries) /\ Len(w) = Len(l) + 1
             /\ \A j, k \in DOMAIN w : w[j].sql = w[k].sql => j = k
             /\ Range(w) = Range(l) \union {e}
<1> DEFINE w == <<e>> \o l
<1>1. <<e>> \in Seq(Entries) /\ Len(<<e>>) = 1 /\ <<e>>[1] = e
  OBVIOUS
<1>2. /\ w \in Seq(Entries) /\ Len(w) = 1 + Len(l)
      /\ \A k \in 1..(1 + Len(l)) : w[k] = IF k <= 1 THEN <<e>>[k] ELSE l[k - 1]
  BY <1>1, ConcatProperties
<1>3. Len(l) \in Nat /\ DOMAIN l = 1..Len(l) /\ DOMAIN w = 1..(1 + Len(l))
  BY <1>2, LenProperties
<1> HIDE DEF w
<1>4. w[1] = e /\ \A k \in DOMAIN w : k = 1 \/ (k - 1 \in DOMAIN l /\ w[k] = l[k - 1])
  BY <1>1, <1>2, <1>3
<1>5. \A j, k \in DOMAIN w : w[j].sql = w[k].sql => j = k
  <2> SUFFICES ASSUME NEW j \in DOMAIN w, NEW k \in DOMAIN w, w[j].sql = w[k].sql
               PROVE  j = k
    OBVIOUS
  <2>1. CASE j = 1 \/ k = 1
    BY <2>1, <1>4
  <2>2. CASE j /= 1 /\ k /= 1
    <3>1. j - 1 = k - 1
      BY <2>2, <1>4
    <3> QED BY <3>1, <1>3
  <2> QED BY <2>1, <2>2
<1>6. ASSUME NEW x \in Range(l) PROVE x \in Range(w)
  <2>1. PICK m \in DOMAIN l : x = l[m]
    BY DEF Range
  <2>2. m + 1 \in DOMAIN w /\ w[m + 1] = x
    BY <2>1, <1>2, <1>3
  <2> QED BY <2>2 DEF Range
<1>7. ASSUME NEW x \in Range(w) PROVE x \in Range(l) \union {e}
  BY <1>4 DEF Range
<1>8. e \in Range(w)
  BY <1>3, <1>4 DEF Range
<1>9. Range(w) = Range(l) \union {e}
  BY <1>6, <1>7, <1>8
<1> QED BY <1>2, <1>5, <1>9 DEF w

\* Entries without duplicate texts: moving one to the front.
LEMMA EntryToFront ==
  ASSUME NEW l \in Seq(Entries), NEW i \in 1..Len(l),
         \A j, k \in DOMAIN l : l[j].sql = l[k].sql => j = k
  PROVE  LET t == <<l[i]>> \o Without(l, i)
         IN  /\ t \in Seq(Entries) /\ Len(t) = Len(l)
             /\ \A j, k \in DOMAIN t : t[j].sql = t[k].sql => j = k
             /\ Range(t) = Range(l)
<1>1. PICK e : e = l[i]
  OBVIOUS
<1>2. PICK w : w = Without(l, i)
  OBVIOUS
<1>3. /\ Len(l) \in Nat /\ DOMAIN l = 1..Len(l)
      /\ e \in Entries /\ e \in Range(l)
  BY <1>1, LenProperties, ElementOfSeq DEF Range
<1>4. /\ w \in Seq(Entries) /\ Len(w) = Len(l) - 1
      /\ \A j, k \in DOMAIN w : w[j].sql = w[k].sql => j = k
      /\ Range(w) = Range(l) \ {e}
  BY <1>1, <1>2, WithoutEntry
<1>5. \A k \in DOMAIN w : w[k].sql /= e.sql
  <2>1. \A k \in DOMAIN w : w[k] \in Range(l) /\ w[k] /= e
    BY <1>4 DEF Range
  <2>2. \A f \in Range(l) : f.sql = e.sql => f = e
    BY <1>1, <1>3 DEF Range
  <2> QED BY <2>1, <2>2
<1>6. /\ <<e>> \o w \in Seq(Entries) /\ Len(<<e>> \o w) = Len(w) + 1
      /\ \A j, k \in DOMAIN (<<e>> \o w) : (<<e>> \o w)[j].sql = (<<e>> \o w)[k].sql => j = k
      /\ Range(<<e>> \o w) = Range(w) \union {e}
  BY <1>3, <1>4, <1>5, EntryInFront
<1>7. Len(<<e>> \o w) = Len(l) /\ Range(<<e>> \o w) = Range(l)
  <2>1. Range(w) \union {e} = Range(l)
    BY <1>3, <1>4
  <2>2. Range(<<e>> \o w) = Range(l)
    BY <2>1, <1>6, Zenon
  <2>3. Len(w) + 1 = Len(l)
    BY <1>3, <1>4
  <2> QED BY <2>2, <2>3, <1>6, Zenon
<1> QED BY <1>1, <1>2, <1>6, <1>7

(***************************************************************************)
(* The calls of the cache                                                  *)
(***************************************************************************)

\* Inductive: what every call relies on and keeps.
CacheInv == CacheTypeOK /\ CacheBounded /\ CacheDistinct

\* The entries of the list, and the one that a lookup of a cached text finds.
LEMMA LookupFinds ==
  ASSUME CacheInv
  PROVE  /\ Len(lru) \in Nat /\ DOMAIN lru = 1..Len(lru)
         /\ Range(lru) \subseteq Entries
         /\ Cached = {e.sql : e \in Range(lru)}
         /\ CachedStmts = {e.stmt : e \in Range(lru)}
         /\ \A e, f \in Range(lru) : e.sql = f.sql => e = f
         /\ \A q \in Cached : /\ At(q) \in 1..Len(lru)
                              /\ lru[At(q)] \in Range(lru)
                              /\ lru[At(q)].sql = q
                              /\ Touched(q) = <<lru[At(q)]>> \o Without(lru, At(q))
<1> USE DEF CacheInv, CacheTypeOK, CacheDistinct
<1>1. /\ Len(lru) \in Nat /\ DOMAIN lru = 1..Len(lru)
      /\ \A i \in 1..Len(lru) : lru[i] \in Entries
  BY LenProperties, ElementOfSeq
<1>2. Range(lru) \subseteq Entries
  BY <1>1 DEF Range
<1>3. Cached = {e.sql : e \in Range(lru)} /\ CachedStmts = {e.stmt : e \in Range(lru)}
  BY DEF Cached, CachedStmts, Range
<1>4. \A e, f \in Range(lru) : e.sql = f.sql => e = f
  BY DEF Range
<1>5. ASSUME NEW q \in Cached
      PROVE  /\ At(q) \in 1..Len(lru) /\ lru[At(q)] \in Range(lru)
             /\ lru[At(q)].sql = q
             /\ Touched(q) = <<lru[At(q)]>> \o Without(lru, At(q))
  <2>1. \E i \in DOMAIN lru : lru[i].sql = q
    BY DEF Cached
  <2>2. At(q) \in DOMAIN lru /\ lru[At(q)].sql = q
    BY <2>1 DEF At
  <2>3. Touched(q) = <<lru[At(q)]>> \o Without(lru, At(q))
    BY DEF Touched, At
  <2> QED BY <2>2, <2>3, <1>1 DEF Range
<1> QED BY <1>1, <1>2, <1>3, <1>4, <1>5

\* Moving an entry to the front keeps the entries.
LEMMA TouchedKeeps ==
  ASSUME CacheInv, NEW q \in Cached, lru' = Touched(q)
  PROVE  /\ lru' \in Seq(Entries) /\ CacheBounded' /\ CacheDistinct'
         /\ Range(lru') = Range(lru)
<1>1. /\ At(q) \in 1..Len(lru) /\ Len(lru) \in Nat /\ lru \in Seq(Entries)
      /\ \A j, k \in DOMAIN lru : lru[j].sql = lru[k].sql => j = k
      /\ lru' = <<lru[At(q)]>> \o Without(lru, At(q))
  BY LookupFinds DEF CacheInv, CacheTypeOK, CacheDistinct
<1>2. /\ lru' \in Seq(Entries) /\ Len(lru') = Len(lru)
      /\ \A j, k \in DOMAIN lru' : lru'[j].sql = lru'[k].sql => j = k
      /\ Range(lru') = Range(lru)
  BY <1>1, EntryToFront
<1> QED BY <1>1, <1>2 DEF CacheInv, CacheBounded, CacheDistinct

\* corm_stmt_cache_get answers with the statement of that text, or with none,
\* and keeps the entries.
LEMMA GetAnswers ==
  ASSUME CacheInv, NEW q \in Sqls, Get(q)
  PROVE  /\ CacheInv'
         /\ Range(lru') = Range(lru) /\ freed' = {}
         /\ \/ \E e \in Range(lru) : e.sql = q /\ ret' = e.stmt
            \/ q \notin Cached /\ ret' = NoStmt
<1>1. CASE Hit(q)
  <2>1. /\ lru' \in Seq(Entries) /\ CacheBounded' /\ CacheDistinct'
        /\ Range(lru') = Range(lru)
    BY <1>1, TouchedKeeps DEF Hit
  <2>2. \E e \in Range(lru) : e.sql = q /\ ret' = e.stmt /\ e \in Entries
    BY <1>1, LookupFinds DEF Hit
  <2>3. ret' \in Stmts /\ freed' = {}
    BY <1>1, <2>2 DEF Hit, Entries
  <2> QED BY <2>1, <2>2, <2>3 DEF CacheInv, CacheTypeOK
<1>2. CASE Miss(q)
  BY <1>2 DEF Miss, CacheInv, CacheTypeOK, CacheBounded, CacheDistinct
<1> QED BY <1>1, <1>2 DEF Get

\* What is left after an eviction, and the statement that is given up.
LEMMA EvictionLoses ==
  ASSUME CacheInv
  PROVE  /\ Room \in Seq(Entries) /\ Len(Room) < Capacity
         /\ \A j, k \in DOMAIN Room : Room[j].sql = Room[k].sql => j = k
         /\ \E lost \in SUBSET Range(lru) :
               Range(Room) = Range(lru) \ lost /\ Evicted = {e.stmt : e \in lost}
<1> DEFINE n == Len(lru)
<1>1. /\ n \in Nat /\ DOMAIN lru = 1..n /\ lru \in Seq(Entries)
      /\ \A i \in 1..n : lru[i] \in Entries /\ lru[i] \in Range(lru)
      /\ n <= Capacity /\ Capacity \in Nat \ {0}
      /\ \A j, k \in DOMAIN lru : lru[j].sql = lru[k].sql => j = k
  BY CacheConstants, LookupFinds, ElementOfSeq
     DEF CacheInv, CacheTypeOK, CacheBounded, CacheDistinct, Range
<1>2. CASE n >= Capacity
  <2>1. n \in 1..n /\ Room = SubSeq(lru, 1, n - 1) /\ Evicted = {lru[n].stmt}
    BY <1>1, <1>2 DEF Room, Evicted
  <2>2. Without(lru, n) = SubSeq(lru, 1, n - 1)
    <3>1. SubSeq(lru, n + 1, Len(lru)) = <<>>
      BY <1>1, SubSeqEmpty
    <3>2. \A i \in 1..(n - 1) : lru[i] \in Entries
      BY <1>1
    <3>3. SubSeq(lru, 1, n - 1) \in Seq(Entries)
      BY <3>2, <1>1, SubSeqProperties
    <3> QED BY <3>1, <3>3, ConcatEmptySeq DEF Without
  <2>3. /\ Room \in Seq(Entries) /\ Len(Room) = n - 1
        /\ \A j, k \in DOMAIN Room : Room[j].sql = Room[k].sql => j = k
        /\ Range(Room) = Range(lru) \ {lru[n]}
    <3>1. Room = Without(lru, n)
      BY <2>1, <2>2
    <3> QED BY <3>1, <2>1, <1>1, WithoutEntry
  <2>4. Len(Room) < Capacity
    BY <2>3, <1>1
  <2>5. {lru[n]} \in SUBSET Range(lru) /\ Evicted = {e.stmt : e \in {lru[n]}}
    BY <2>1, <1>1
  <2> QED BY <2>3, <2>4, <2>5
<1>3. CASE ~(n >= Capacity)
  <2>1. Room = lru /\ Evicted = {e.stmt : e \in {}} /\ n < Capacity
    BY <1>1, <1>3 DEF Room, Evicted
  <2> QED BY <2>1, <1>1
<1> QED BY <1>2, <1>3

\* corm_stmt_cache_put of a text that is not there: the new entry is in the cache,
\* or not for want of memory, and what was evicted is given to entry_destroy_fn.
LEMMA PutStores ==
  ASSUME CacheInv, NEW q \in Sqls, NEW s \in Stmts, Put(q, s), q \notin Cached
  PROVE  /\ CacheInv'
         /\ \E lost \in SUBSET Range(lru) :
              /\ freed' = {e.stmt : e \in lost}
              /\ \/ Range(lru') = (Range(lru) \ lost) \union {[sql |-> q, stmt |-> s]}
                 \/ Range(lru') = Range(lru) \ lost
<1> DEFINE new == [sql |-> q, stmt |-> s]
<1>1. /\ Room \in Seq(Entries) /\ Len(Room) < Capacity
      /\ \A j, k \in DOMAIN Room : Room[j].sql = Room[k].sql => j = k
  BY EvictionLoses
<1>2. PICK lost \in SUBSET Range(lru) :
         Range(Room) = Range(lru) \ lost /\ Evicted = {e.stmt : e \in lost}
  BY EvictionLoses
<1>3. /\ freed' = Evicted /\ ret' = ret
      /\ lru' = <<new>> \o Room \/ lru' = Room
  BY DEF Put, PutExisting, PutNew, PutNoMemory
<1>4. new \in Entries /\ new.sql = q
  BY DEF Entries
<1>5. freed' \in SUBSET Stmts /\ ret' \in Stmts \union {NoStmt}
  <2>1. \A e \in lost : e.stmt \in Stmts
    BY LookupFinds DEF Entries
  <2> QED BY <2>1, <1>2, <1>3 DEF CacheInv, CacheTypeOK
<1> HIDE DEF new
<1>6. CASE lru' = Room
  BY <1>1, <1>2, <1>3, <1>5, <1>6, LenProperties, CacheConstants
     DEF CacheInv, CacheTypeOK, CacheBounded, CacheDistinct
<1>7. CASE lru' = <<new>> \o Room
  <2>1. \A k \in DOMAIN Room : Room[k].sql /= new.sql
    <3>1. \A k \in DOMAIN Room : Room[k] \in Range(lru)
      BY <1>2 DEF Range
    <3> QED BY <3>1, <1>4, LookupFinds
  <2>2. /\ lru' \in Seq(Entries) /\ Len(lru') = Len(Room) + 1
        /\ \A j, k \in DOMAIN lru' : lru'[j].sql = lru'[k].sql => j = k
        /\ Range(lru') = Range(Room) \union {new}
    BY <2>1, <1>1, <1>4, <1>7, EntryInFront
  <2>3. Len(lru') <= Capacity
    BY <2>2, <1>1, LenProperties, CacheConstants
  <2>4. CacheInv'
    BY <2>2, <2>3, <1>5 DEF CacheInv, CacheTypeOK, CacheBounded, CacheDistinct
  <2> QED BY <2>2, <2>4, <1>2, <1>3 DEF new
<1> QED BY <1>3, <1>6, <1>7

\* corm_stmt_cache_remove takes out the entry of that text and returns its
\* statement, which the caller owns from then on.
LEMMA RemoveTakesOut ==
  ASSUME CacheInv, NEW q \in Sqls, Remove(q)
  PROVE  /\ CacheInv' /\ freed' = {}
         /\ \/ \E e \in Range(lru) : /\ e.sql = q /\ ret' = e.stmt
                                     /\ Range(lru') = Range(lru) \ {e}
            \/ q \notin Cached /\ ret' = NoStmt /\ Range(lru') = Range(lru)
<1>1. CASE Miss(q)
  BY <1>1 DEF Miss, CacheInv, CacheTypeOK, CacheBounded, CacheDistinct
<1>2. CASE q \in Cached /\ ~Miss(q)
  <2> DEFINE i == At(q)
  <2>1. /\ i \in 1..Len(lru) /\ lru[i] \in Range(lru) /\ lru[i].sql = q
        /\ Len(lru) \in Nat /\ lru[i] \in Entries
        /\ lru' = Without(lru, i) /\ ret' = lru[i].stmt /\ freed' = {}
    BY <1>2, LookupFinds DEF Remove
  <2>2. /\ lru' \in Seq(Entries) /\ Len(lru') = Len(lru) - 1
        /\ \A j, k \in DOMAIN lru' : lru'[j].sql = lru'[k].sql => j = k
        /\ Range(lru') = Range(lru) \ {lru[i]}
    BY <2>1, WithoutEntry DEF CacheInv, CacheTypeOK, CacheDistinct
  <2>3. CacheInv'
    BY <2>1, <2>2, CacheConstants
       DEF CacheInv, CacheTypeOK, CacheBounded, CacheDistinct, Entries
  <2> QED BY <2>1, <2>2, <2>3
<1> QED BY <1>1, <1>2 DEF Remove

\* corm_stmt_cache_destroy gives every statement to entry_destroy_fn.
LEMMA DestroyEmpties ==
  ASSUME CacheInv, DestroyAll
  PROVE  CacheInv' /\ Range(lru') = {} /\ freed' = {e.stmt : e \in Range(lru)}
<1>1. lru' = <<>> /\ freed' = CachedStmts /\ ret' = ret
  BY DEF DestroyAll
<1>2. lru' \in Seq(Entries) /\ Len(lru') = 0 /\ DOMAIN lru' = {}
  BY <1>1
<1>3. freed' \in SUBSET Stmts /\ freed' = {e.stmt : e \in Range(lru)}
  <2>1. \A e \in Range(lru) : e.stmt \in Stmts
    BY LookupFinds DEF Entries
  <2> QED BY <2>1, <1>1, LookupFinds
<1> QED BY <1>1, <1>2, <1>3, CacheConstants
        DEF CacheInv, CacheTypeOK, CacheBounded, CacheDistinct, Range

\* For every capacity, the cache never holds more entries than that and never two
\* statements for one text, although a put at its limit evicts first and may then
\* run out of memory.
THEOREM CacheStaysBounded == CacheSpec => [](CacheTypeOK /\ CacheBounded /\ CacheDistinct)
<1>1. CacheInit => CacheInv
  BY CacheConstants
     DEF CacheInit, CacheInv, CacheTypeOK, CacheBounded, CacheDistinct
<1>2. CacheInv /\ [CacheNext]_cacheVars => CacheInv'
  <2> SUFFICES ASSUME CacheInv, [CacheNext]_cacheVars PROVE CacheInv'
    OBVIOUS
  <2>1. ASSUME NEW q \in Sqls, Get(q) PROVE CacheInv'
    BY <2>1, GetAnswers
  <2>2. ASSUME NEW q \in Sqls, Remove(q) PROVE CacheInv'
    BY <2>2, RemoveTakesOut
  <2>3. ASSUME NEW q \in Sqls, NEW s \in Stmts, Put(q, s) PROVE CacheInv'
    <3>1. CASE q \notin Cached
      BY <2>3, <3>1, PutStores
    <3>2. CASE q \in Cached
      <4>1. lru' = Touched(q) /\ freed' = {} /\ ret' = ret
        BY <2>3, <3>2 DEF Put, PutExisting, PutNew, PutNoMemory
      <4> QED BY <4>1, <3>2, TouchedKeeps DEF CacheInv, CacheTypeOK
    <3> QED BY <3>1, <3>2
  <2>4. CASE DestroyAll
    BY <2>4, DestroyEmpties
  <2>5. CASE UNCHANGED cacheVars
    BY <2>5 DEF cacheVars, CacheInv, CacheTypeOK, CacheBounded, CacheDistinct
  <2> QED BY <2>1, <2>2, <2>3, <2>4, <2>5 DEF CacheNext
<1> QED BY <1>1, <1>2, PTL DEF CacheSpec, CacheInv

(***************************************************************************)
(* The inductive invariant                                                 *)
(***************************************************************************)

DriverTypeOK ==
  /\ open \in SUBSET Stmts /\ text \in [Stmts -> Sqls \union {NoSql}]
  /\ pc \in [Users -> {"idle", "prepare", "put", "run", "step", "rows"}]
  /\ sql \in [Users -> Sqls \union {NoSql}]
  /\ stmt \in [Users -> Stmts \union {NoStmt}]
  /\ connected \in BOOLEAN /\ oom \in BOOLEAN

\* Inside a call there is a text, and until the statement is stored the cache has
\* neither the text nor the statement: corm_stmt_cache_put never finds an entry,
\* and what it evicts is never the statement that the call is about to use.
NotYetStored ==
  \A u \in Users :
    /\ pc[u] /= "idle" => sql[u] \in Sqls
    /\ pc[u] \in {"prepare", "put"} => sql[u] \notin Cached
    /\ pc[u] = "put" => stmt[u] \notin CachedStmts

DriverInv ==
  /\ CacheInv /\ DriverTypeOK /\ NotYetStored
  /\ RunsOwnStmt /\ CacheCoherent /\ NoStmtLost

TableRows == Seq({"null", "some"})
Values == [type : {"integer", "real", "text", "blob"},
           set : {"nothing", "i", "f", "s", "blob"}]

Locals == [cols : Nat, read : Nat, rows : Seq(Values),
           type : {"unset", "integer", "real", "text", "blob"},
           seen : TableRows, todo : TableRows]

QueryTypeOK ==
  /\ ftype \in FieldTypes /\ table \in TableRows /\ width \in Nat
  /\ compiled \in [Stmts -> Nat]
  /\ query \in [Users -> Locals]
  /\ \A r \in DOMAIN results :
       results[r] \in [rows : Seq(Values), of : TableRows, refs : Nat]

\* A statement is never compiled for more columns than the table has.
CompiledBefore == \A x \in Stmts : compiled[x] <= width

\* The rows read so far give the field back as it was stored.
AsStored(rows, of) ==
  \A i \in DOMAIN rows :
    IF of[i] = "null" THEN rows[i].set = "nothing"
    ELSE rows[i].set \in ReadFrom(ftype) \/ of[1] = "null"

\* The type that the first row decides on.
Decided(rows, of) ==
  IF rows = <<>> THEN "unset"
  ELSE IF of[1] = "null" THEN "text" ELSE StoredAs(ftype)

\* A query before its first step.
Counted ==
  \A u \in Users : pc[u] = "step" =>
    /\ query[u] = [NoQuery EXCEPT !.cols = query[u].cols]
    /\ query[u].cols <= compiled[stmt[u]]

\* A query between two rows: what it has read and what is to come make up what
\* the statement saw.
Reading ==
  \A u \in Users : pc[u] = "rows" =>
    LET q == query[u] IN
    /\ q.read <= q.cols /\ q.cols <= compiled[stmt[u]]
    /\ Len(q.rows) + Len(q.todo) = Len(q.seen)
    /\ \A i \in DOMAIN q.todo : q.todo[i] = q.seen[Len(q.rows) + i]
    /\ AsStored(q.rows, q.seen)
    /\ q.type = Decided(q.rows, q.seen)

QueryInv ==
  /\ DriverInv /\ QueryTypeOK /\ CompiledBefore /\ Counted /\ Reading
  /\ RowsComplete /\ FieldsAsStored

\* A value points to memory only if its type says so: corm_result_release, which
\* looks at the types, frees what sqlite_query allocated.
Tagged(rows) == \A i \in DOMAIN rows : rows[i].set \in {"nothing", Member(rows[i].type)}

BlocksInv ==
  /\ blocks \in Int /\ dropped \in Int
  /\ IsFiniteSet(BlocksIn(ResultRows)) /\ IsFiniteSet(BlocksIn(QueryRows))
  /\ BlocksOwned
  /\ \A r \in DOMAIN results : Tagged(results[r].rows)
  /\ \A u \in Users : Tagged(query[u].rows)
  /\ \A u \in Users : pc[u] /= "rows" => query[u].rows = <<>>

(***************************************************************************)
(* The driver and its cache                                                *)
(***************************************************************************)

\* The cache as a set of entries, before and after a step.
LEMMA CacheAsSet ==
  /\ Cached = {e.sql : e \in Range(lru)} /\ Cached' = {e.sql : e \in Range(lru')}
  /\ CachedStmts = {e.stmt : e \in Range(lru)}
  /\ CachedStmts' = {e.stmt : e \in Range(lru')}
  /\ CacheCoherent <=>
       \A e \in Range(lru) : e.stmt \in open /\ text[e.stmt] = e.sql
  /\ CacheCoherent' <=>
       \A e \in Range(lru') : e.stmt \in open' /\ text'[e.stmt] = e.sql
BY DEF Cached, CachedStmts, CacheCoherent, Range

\* Two entries of the cache never share a statement: it was prepared from one text.
LEMMA StmtsDistinct ==
  ASSUME DriverInv
  PROVE  \A e, f \in Range(lru) : e.stmt = f.stmt => e = f
BY CacheAsSet, LookupFinds DEF DriverInv

\* With one user, what a step does to the user that takes it is all of it.
LEMMA OneUser ==
  ASSUME NEW u \in Users
  PROVE  Users = {u}
BY DriverConstants

\* NoStmtLost for the one user.
LEMMA LostOrNot ==
  ASSUME NEW u \in Users
  PROVE  /\ NoStmtLost <=>
              (~oom => open = CachedStmts \union (IF pc[u] = "put" THEN {stmt[u]} ELSE {}))
         /\ NoStmtLost' <=>
              (~oom' => open' = CachedStmts' \union (IF pc'[u] = "put" THEN {stmt'[u]} ELSE {}))
<1>1. Users = {u}
  BY OneUser
<1>2. {stmt[w] : w \in {v \in Users : pc[v] = "put"}} = IF pc[u] = "put" THEN {stmt[u]} ELSE {}
  BY <1>1
<1>3. {stmt'[w] : w \in {v \in Users : pc'[v] = "put"}} = IF pc'[u] = "put" THEN {stmt'[u]} ELSE {}
  BY <1>1
<1> QED BY <1>2, <1>3 DEF NoStmtLost

\* A call gets its statement from the cache, or goes on to prepare one.
LEMMA CallStep ==
  ASSUME DriverInv, NEW u \in Users, NEW q \in Sqls, Call(u, q)
  PROVE  DriverInv'
<1> USE DEF DriverInv, DriverTypeOK
<1>1. /\ CacheInv' /\ Range(lru') = Range(lru)
      /\ \/ \E e \in Range(lru) : e.sql = q /\ ret' = e.stmt
         \/ q \notin Cached /\ ret' = NoStmt
  BY GetAnswers DEF Call
<1>2. /\ pc[u] = "idle" /\ UNCHANGED <<open, text, connected, oom>>
      /\ sql' = [sql EXCEPT ![u] = q] /\ stmt' = [stmt EXCEPT ![u] = ret']
      /\ pc' = [pc EXCEPT ![u] = IF ret' = NoStmt THEN "prepare" ELSE "run"]
  BY DEF Call
<1>3. Cached' = Cached /\ CachedStmts' = CachedStmts /\ CacheCoherent'
  BY <1>1, <1>2, CacheAsSet
<1>4. DriverTypeOK'
  BY <1>1, <1>2 DEF CacheInv, CacheTypeOK
<1>5. /\ Users = {u} /\ sql'[u] = q /\ stmt'[u] = ret'
      /\ pc'[u] = IF ret' = NoStmt THEN "prepare" ELSE "run"
  BY <1>2, OneUser
<1>6. ret' = NoStmt <=> q \notin Cached
  <2>1. \A e \in Range(lru) : e.stmt \in Stmts
    BY LookupFinds DEF Entries
  <2> QED BY <2>1, <1>1, CacheConstants, CacheAsSet
<1>7. NotYetStored'
  BY <1>3, <1>5, <1>6 DEF NotYetStored
<1>8. RunsOwnStmt'
  <2>1. ret' /= NoStmt => ret' \in open /\ text[ret'] = q
    BY <1>1, CacheAsSet
  <2> QED BY <2>1, <1>2, <1>5 DEF RunsOwnStmt
<1>9. NoStmtLost'
  BY <1>2, <1>3, <1>5, LostOrNot
<1> QED BY <1>1, <1>3, <1>4, <1>7, <1>8, <1>9

\* sqlite3_prepare_v2 gives a statement that was not open before.
LEMMA PrepareOkStep ==
  ASSUME DriverInv, NEW u \in Users, PrepareOk(u)
  PROVE  DriverInv'
<1> USE DEF DriverInv, DriverTypeOK
<1>1. PICK x \in Stmts \ open :
        /\ open' = open \union {x} /\ text' = [text EXCEPT ![x] = sql[u]]
        /\ stmt' = [stmt EXCEPT ![u] = x]
  BY DEF PrepareOk
<1>2. /\ pc[u] = "prepare" /\ pc' = [pc EXCEPT ![u] = "put"]
      /\ UNCHANGED <<lru, freed, ret, sql, connected, oom>>
  BY DEF PrepareOk, cacheVars
<1>3. CacheInv' /\ Cached' = Cached /\ CachedStmts' = CachedStmts
  BY <1>2 DEF CacheInv, CacheTypeOK, CacheBounded, CacheDistinct, Cached, CachedStmts
<1>4. DriverTypeOK'
  BY <1>1, <1>2
<1>5. Users = {u} /\ stmt'[u] = x /\ pc'[u] = "put" /\ sql[u] \in Sqls \ Cached
  BY <1>1, <1>2, OneUser DEF NotYetStored
<1>6. \A e \in Range(lru) : e.stmt \in open /\ text[e.stmt] = e.sql
  BY CacheAsSet
<1>7. CacheCoherent'
  <2>1. \A e \in Range(lru) : e.stmt /= x /\ e.stmt \in Stmts
    BY <1>6
  <2> QED BY <2>1, <1>1, <1>2, <1>6, CacheAsSet
<1>8. NotYetStored'
  <2>1. x \notin CachedStmts
    BY <1>6, CacheAsSet
  <2> QED BY <2>1, <1>2, <1>3, <1>5 DEF NotYetStored
<1>9. RunsOwnStmt'
  BY <1>1, <1>2, <1>5 DEF RunsOwnStmt
<1>10. NoStmtLost'
  BY <1>1, <1>2, <1>3, <1>5, LostOrNot
<1> QED BY <1>3, <1>4, <1>7, <1>8, <1>9, <1>10

\* The steps that give up or finish without touching a statement.
LEMMA ReturnStep ==
  ASSUME DriverInv, NEW u \in Users, pc[u] /= "put", Return(u),
         UNCHANGED <<cacheVars, open, text, connected, oom>>
  PROVE  DriverInv'
<1> USE DEF DriverInv, DriverTypeOK, cacheVars
<1>1. /\ pc' = [pc EXCEPT ![u] = "idle"] /\ sql' = [sql EXCEPT ![u] = NoSql]
      /\ stmt' = [stmt EXCEPT ![u] = NoStmt]
  BY DEF Return
<1>2. CacheInv' /\ Cached' = Cached /\ CachedStmts' = CachedStmts /\ CacheCoherent'
  BY DEF CacheInv, CacheTypeOK, CacheBounded, CacheDistinct, Cached, CachedStmts,
         CacheCoherent
<1>3. DriverTypeOK'
  BY <1>1
<1>4. Users = {u} /\ pc'[u] = "idle"
  BY <1>1, OneUser
<1>5. NotYetStored' /\ RunsOwnStmt'
  BY <1>4 DEF NotYetStored, RunsOwnStmt
<1>6. NoStmtLost'
  BY <1>2, <1>4, LostOrNot
<1> QED BY <1>2, <1>3, <1>5, <1>6

\* Storing the statement may evict and finalize another one, never this one.
LEMMA StoreStep ==
  ASSUME DriverInv, NEW u \in Users, Store(u)
  PROVE  DriverInv'
<1> USE DEF DriverInv, DriverTypeOK
<1>1. /\ Users = {u} /\ pc[u] = "put" /\ sql[u] \in Sqls /\ sql[u] \notin Cached
      /\ stmt[u] \in Stmts /\ stmt[u] \in open /\ text[stmt[u]] = sql[u]
      /\ stmt[u] \notin CachedStmts /\ Put(sql[u], stmt[u])
  BY OneUser DEF Store, NotYetStored, RunsOwnStmt
<1>2. CacheInv'
  BY <1>1, PutStores
<1> DEFINE new == [sql |-> sql[u], stmt |-> stmt[u]]
<1>3. PICK lost \in SUBSET Range(lru) :
        /\ freed' = {e.stmt : e \in lost}
        /\ \/ Range(lru') = (Range(lru) \ lost) \union {new}
           \/ Range(lru') = Range(lru) \ lost
  BY <1>1, PutStores
<1>4. /\ open' = open \ freed'
      /\ text' = [x \in Stmts |-> IF x \in freed' THEN NoSql ELSE text[x]]
      /\ oom' = (oom \/ (sql[u] \notin Cached /\ stmt[u] \notin CachedStmts'))
      /\ pc' = [pc EXCEPT ![u] = "run"] /\ UNCHANGED <<sql, stmt, connected>>
  BY DEF Store, Finalize
<1>5. pc'[u] = "run"
  BY <1>4
<1>6. DriverTypeOK'
  BY <1>4
<1>7. NotYetStored'
  BY <1>1, <1>4, <1>5 DEF NotYetStored
<1>8. \A e \in Range(lru) : /\ e.stmt \in Stmts /\ e.stmt \in open /\ text[e.stmt] = e.sql
                            /\ e.stmt \in CachedStmts
                            /\ e.stmt \in freed' <=> e \in lost
  <2>1. \A e \in Range(lru) : e.stmt \in open /\ text[e.stmt] = e.sql /\ e.stmt \in CachedStmts
    BY CacheAsSet
  <2>2. \A e \in Range(lru) : e.stmt \in freed' <=> e \in lost
    BY <1>3, StmtsDistinct
  <2> QED BY <2>1, <2>2
<1>9. stmt[u] \notin freed'
  BY <1>1, <1>3, <1>8
<1>10. RunsOwnStmt'
  BY <1>1, <1>4, <1>9 DEF RunsOwnStmt
<1>11. CacheCoherent'
  <2>1. \A e \in Range(lru) \ lost : e.stmt \in open' /\ text'[e.stmt] = e.sql
    BY <1>4, <1>8
  <2>2. new.stmt \in open' /\ text'[new.stmt] = new.sql
    BY <1>1, <1>4, <1>9
  <2> QED BY <2>1, <2>2, <1>3, CacheAsSet
<1>12. NoStmtLost'
  <2>1. SUFFICES ASSUME ~oom' PROVE open' = CachedStmts'
    BY <1>5, LostOrNot
  <2>2. open = CachedStmts \union {stmt[u]}
    BY <2>1, <1>1, <1>4, LostOrNot
  <2>3. stmt[u] \in CachedStmts'
    BY <2>1, <1>1, <1>4
  <2>4. ASSUME NEW x \in open' PROVE x \in CachedStmts'
    <3>1. x = stmt[u] \/ \E e \in Range(lru) : x = e.stmt
      BY <2>2, <1>4, CacheAsSet
    <3>2. ASSUME NEW e \in Range(lru), x = e.stmt PROVE x \in CachedStmts'
      BY <3>2, <1>3, <1>4, <1>8, CacheAsSet
    <3> QED BY <3>1, <3>2, <2>3
  <2>5. ASSUME NEW x \in CachedStmts' PROVE x \in open'
    BY <1>11, CacheAsSet
  <2> QED BY <2>4, <2>5
<1> QED BY <1>2, <1>6, <1>7, <1>10, <1>11, <1>12

\* sqlite_cleanup_stmt, wherever the call has got to.
LEMMA CleanupStep ==
  ASSUME DriverInv, NEW u \in Users, pc[u] \in {"run", "step", "rows"},
         Remove(sql[u]), Finalize({ret'}), Return(u), UNCHANGED <<connected, oom>>
  PROVE  DriverInv'
<1> USE DEF DriverInv, DriverTypeOK
<1>1. /\ pc' = [pc EXCEPT ![u] = "idle"] /\ sql' = [sql EXCEPT ![u] = NoSql]
      /\ stmt' = [stmt EXCEPT ![u] = NoStmt]
      /\ open' = open \ {ret'}
      /\ text' = [x \in Stmts |-> IF x \in {ret'} THEN NoSql ELSE text[x]]
  BY DEF Return, Finalize
<1>2. Users = {u} /\ pc'[u] = "idle" /\ sql[u] \in Sqls
  BY <1>1, OneUser DEF NotYetStored
<1>3. /\ CacheInv'
      /\ \/ \E e \in Range(lru) : /\ e.sql = sql[u] /\ ret' = e.stmt
                                  /\ Range(lru') = Range(lru) \ {e}
         \/ ret' = NoStmt /\ Range(lru') = Range(lru)
  BY <1>2, RemoveTakesOut
<1>4. DriverTypeOK'
  BY <1>1
<1>5. NotYetStored' /\ RunsOwnStmt'
  BY <1>2 DEF NotYetStored, RunsOwnStmt
<1>6. /\ \A e \in Range(lru) : e.stmt \in Stmts /\ e.stmt \in open /\ text[e.stmt] = e.sql
      /\ \A e, f \in Range(lru) : e.stmt = f.stmt => e = f
      /\ NoStmt \notin open
  BY CacheAsSet, StmtsDistinct, CacheConstants
<1>7. Range(lru') = {e \in Range(lru) : e.stmt /= ret'}
  <2>1. CASE ret' = NoStmt /\ Range(lru') = Range(lru)
    BY <2>1, <1>6
  <2>2. ASSUME NEW e \in Range(lru), ret' = e.stmt, Range(lru') = Range(lru) \ {e}
        PROVE  Range(lru') = {f \in Range(lru) : f.stmt /= ret'}
    BY <2>2, <1>6
  <2> QED BY <2>1, <2>2, <1>3
<1>8. CacheCoherent'
  <2>1. \A e \in Range(lru') : e.stmt \in open' /\ text'[e.stmt] = e.sql
    BY <1>1, <1>6, <1>7
  <2> QED BY <2>1, CacheAsSet
<1>9. NoStmtLost'
  <2>1. SUFFICES ASSUME ~oom' PROVE open' = CachedStmts'
    BY <1>2, LostOrNot
  <2>2. open = CachedStmts
    BY <2>1, LostOrNot
  <2> QED BY <2>2, <1>1, <1>7, CacheAsSet
<1> QED BY <1>3, <1>4, <1>5, <1>8, <1>9

\* corm_close finalizes every statement of the cache.
LEMMA CloseStep ==
  ASSUME DriverInv, Close
  PROVE  DriverInv'
<1> USE DEF DriverInv, DriverTypeOK
<1>1. /\ \A u \in Users : pc[u] = "idle"
      /\ connected' = FALSE /\ UNCHANGED <<pc, sql, stmt, oom>>
      /\ open' = open \ freed'
      /\ text' = [x \in Stmts |-> IF x \in freed' THEN NoSql ELSE text[x]]
  BY DEF Close, Finalize
<1>2. CacheInv' /\ Range(lru') = {} /\ freed' = CachedStmts
  BY DestroyEmpties, CacheAsSet DEF Close
<1>3. DriverTypeOK'
  BY <1>1
<1>4. NotYetStored' /\ RunsOwnStmt'
  BY <1>1 DEF NotYetStored, RunsOwnStmt
<1>5. CachedStmts' = {} /\ CacheCoherent'
  BY <1>2, CacheAsSet
<1>6. NoStmtLost'
  BY <1>1, <1>2, <1>5 DEF NoStmtLost
<1> QED BY <1>2, <1>3, <1>4, <1>5, <1>6

\* Between the steps of a query the statement and the cache stay as they are.
LEMMA MovesStep ==
  ASSUME DriverInv, NEW u \in Users, NEW to \in {"run", "step", "rows"},
         pc[u] \in {"run", "step", "rows"}, pc' = [pc EXCEPT ![u] = to], StmtsKept
  PROVE  DriverInv'
<1> USE DEF DriverInv, DriverTypeOK, StmtsKept, cacheVars
<1>1. CacheInv' /\ Cached' = Cached /\ CachedStmts' = CachedStmts /\ CacheCoherent'
  BY DEF CacheInv, CacheTypeOK, CacheBounded, CacheDistinct, Cached, CachedStmts,
         CacheCoherent
<1>2. Users = {u} /\ pc'[u] = to
  BY OneUser
<1>3. DriverTypeOK'
  OBVIOUS
<1>4. NotYetStored' /\ RunsOwnStmt'
  BY <1>2 DEF NotYetStored, RunsOwnStmt
<1>5. NoStmtLost'
  BY <1>1, <1>2, LostOrNot
<1> QED BY <1>1, <1>3, <1>4, <1>5

\* The steps that leave the driver alone, or only open the connection again.
LEMMA DriverKept ==
  ASSUME DriverInv, connected' \in BOOLEAN,
         UNCHANGED <<cacheVars, open, text, pc, sql, stmt, oom>>
  PROVE  DriverInv'
BY DEF DriverInv, DriverTypeOK, CacheInv, CacheTypeOK, CacheBounded, CacheDistinct,
       NotYetStored, RunsOwnStmt, CacheCoherent, NoStmtLost, Cached, CachedStmts, cacheVars

(***************************************************************************)
(* Queries and their results                                               *)
(***************************************************************************)

\* The member that sqlite_query sets for a value of the column's own type is one
\* that corm_field_set_value reads for the field.
LEMMA MemberIsRead ==
  ASSUME NEW f \in FieldTypes
  PROVE  /\ StoredAs(f) \in {"integer", "real", "text", "blob"}
         /\ Member(StoredAs(f)) \in ReadFrom(f)
<1>1. f \in {"INT", "INT64", "FLOAT", "DOUBLE", "STRING", "TEXT", "BOOL", "BLOB"}
  BY QueryConstants
<1>2. CASE f \in {"INT", "INT64"}
  BY <1>2 DEF StoredAs, Member, ReadFrom
<1>3. CASE f = "BOOL"
  BY <1>3 DEF StoredAs, Member, ReadFrom
<1>4. CASE f \in {"FLOAT", "DOUBLE"}
  BY <1>4 DEF StoredAs, Member, ReadFrom
<1>5. CASE f \in {"STRING", "TEXT"}
  BY <1>5 DEF StoredAs, Member, ReadFrom
<1>6. CASE f = "BLOB"
  BY <1>6 DEF StoredAs, Member, ReadFrom
<1> QED BY <1>1, <1>2, <1>3, <1>4, <1>5, <1>6

\* Every member is one of the union's.
LEMMA MemberInUnion ==
  ASSUME NEW t \in {"integer", "real", "text", "blob"}
  PROVE  Member(t) \in {"nothing", "i", "f", "s", "blob"}
BY DEF Member

\* Appending the next row to what was read, and taking it from what is to come.
LEMMA OneMoreRow ==
  ASSUME ftype \in FieldTypes,
         NEW rows \in Seq(Values), NEW seen \in TableRows, NEW todo \in TableRows,
         NEW v \in Values, NEW t, todo /= <<>>,
         t = TypeAfter(Decided(rows, seen), Head(todo)),
         v = [type |-> t,
              set |-> IF Head(todo) = "null" THEN "nothing" ELSE Member(t)],
         Len(rows) + Len(todo) = Len(seen),
         \A i \in DOMAIN todo : todo[i] = seen[Len(rows) + i],
         AsStored(rows, seen)
  PROVE  /\ Append(rows, v) \in Seq(Values) /\ Tail(todo) \in TableRows
         /\ Len(Append(rows, v)) + Len(Tail(todo)) = Len(seen)
         /\ \A i \in DOMAIN Tail(todo) : Tail(todo)[i] = seen[Len(Append(rows, v)) + i]
         /\ AsStored(Append(rows, v), seen)
         /\ t = Decided(Append(rows, v), seen)
<1> DEFINE n == Len(rows)
<1>1. /\ n \in Nat /\ DOMAIN rows = 1..n
      /\ Len(todo) \in Nat \ {0} /\ DOMAIN todo = 1..Len(todo)
      /\ Len(seen) \in Nat
  BY LenProperties, EmptySeq DEF TableRows
<1>2. /\ Append(rows, v) \in Seq(Values) /\ Append(rows, v) /= <<>>
      /\ Len(Append(rows, v)) = n + 1
      /\ \A i \in 1..n : Append(rows, v)[i] = rows[i]
      /\ Append(rows, v)[n + 1] = v
  BY AppendProperties
<1>3. DOMAIN Append(rows, v) = 1..(n + 1)
  BY <1>2, LenProperties
<1>4. /\ Tail(todo) \in TableRows /\ Len(Tail(todo)) = Len(todo) - 1
      /\ \A i \in 1..(Len(todo) - 1) : Tail(todo)[i] = todo[i + 1]
      /\ Head(todo) = todo[1]
  BY HeadTailProperties DEF TableRows
<1>5. DOMAIN Tail(todo) = 1..(Len(todo) - 1)
  BY <1>4, LenProperties DEF TableRows
<1>6. Len(Append(rows, v)) + Len(Tail(todo)) = Len(seen)
  BY <1>1, <1>2, <1>4
<1>7. ASSUME NEW i \in DOMAIN Tail(todo)
      PROVE  Tail(todo)[i] = seen[Len(Append(rows, v)) + i]
  <2>1. i + 1 \in DOMAIN todo /\ n + (i + 1) = (n + 1) + i
    BY <1>1, <1>5
  <2>2. Tail(todo)[i] = seen[n + (i + 1)]
    BY <2>1, <1>4, <1>5
  <2> QED BY <2>1, <2>2, <1>2
<1>8. Head(todo) = seen[n + 1]
  BY <1>1, <1>4
<1>9. t = Decided(Append(rows, v), seen)
  <2>1. CASE rows = <<>>
    <3>1. Head(todo) = seen[1]
      BY <1>8, <2>1
    <3> QED BY <3>1, <2>1, <1>2 DEF Decided, TypeAfter
  <2>2. CASE rows /= <<>>
    <3>1. Decided(rows, seen) = Decided(Append(rows, v), seen)
      BY <2>2, <1>2 DEF Decided
    <3>2. Decided(rows, seen) /= "unset"
      BY <2>2, MemberIsRead DEF Decided
    <3> QED BY <3>1, <3>2 DEF TypeAfter
  <2> QED BY <2>1, <2>2
<1>10. seen[n + 1] = "null" => v.set = "nothing"
  BY <1>8
<1>11. seen[n + 1] /= "null" => v.set \in ReadFrom(ftype) \/ seen[1] = "null"
  <2>1. SUFFICES ASSUME seen[n + 1] /= "null", seen[1] /= "null"
                 PROVE  v.set \in ReadFrom(ftype)
    OBVIOUS
  <2>2. t = StoredAs(ftype)
    BY <2>1, <1>2, <1>9 DEF Decided
  <2> QED BY <2>1, <2>2, <1>8, MemberIsRead
<1>12. AsStored(Append(rows, v), seen)
  <2>1. \A i \in 1..(n + 1) : i \in 1..n \/ i = n + 1
    BY <1>1
  <2> QED BY <2>1, <1>1, <1>2, <1>3, <1>10, <1>11 DEF AsStored
<1> QED BY <1>2, <1>4, <1>6, <1>7, <1>9, <1>12

\* Where no query is between its count of columns and its last row, and the table
\* and the results are left alone, nothing more is to be shown.
LEMMA QuietQueries ==
  ASSUME QueryInv, DriverInv', \A u \in Users : pc'[u] \notin {"step", "rows"},
         UNCHANGED <<ftype, table, width, query, results>>,
         compiled' \in [Stmts -> Nat], \A x \in Stmts : compiled'[x] <= width
  PROVE  QueryInv'
BY DEF QueryInv, QueryTypeOK, CompiledBefore, Counted, Reading, RowsComplete,
       FieldsAsStored

\* The steps that leave queries, the table and results alone.
LEMMA QueriesKept ==
  ASSUME QueryInv, DriverInv',
         UNCHANGED <<pc, stmt, ftype, table, width, compiled, query, results>>
  PROVE  QueryInv'
<1> USE DEF QueryInv
<1>1. QueryTypeOK' /\ CompiledBefore'
  BY DEF QueryTypeOK, CompiledBefore
<1>2. Counted'
  BY DEF Counted
<1>3. Reading'
  BY DEF Reading, AsStored, Decided
<1>4. RowsComplete' /\ FieldsAsStored'
  BY DEF RowsComplete, FieldsAsStored
<1> QED BY <1>1, <1>2, <1>3, <1>4

\* Compiling a statement for the table as it is.
LEMMA CompiledAgain ==
  ASSUME QueryInv, NEW x, compiled' = [compiled EXCEPT ![x] = width]
  PROVE  /\ compiled' \in [Stmts -> Nat] /\ \A y \in Stmts : compiled'[y] <= width
         /\ x \in Stmts => compiled'[x] = width
<1>1. /\ compiled \in [Stmts -> Nat] /\ width \in Nat
      /\ \A y \in Stmts : compiled[y] <= width
  BY DEF QueryInv, QueryTypeOK, CompiledBefore
<1>2. /\ compiled' \in [Stmts -> Nat]
      /\ \A y \in Stmts : compiled'[y] = IF y = x THEN width ELSE compiled[y]
  BY <1>1
<1>3. \A y \in Stmts : compiled'[y] <= width
  BY <1>1, <1>2
<1> QED BY <1>2, <1>3

\* What sqlite_exec does with statements leaves the rows and results alone.
LEMMA DriverStep ==
  ASSUME QueryInv, Driver
  PROVE  QueryInv'
<1> USE DEF QueryInv
<1>1. /\ UNCHANGED <<ftype, table, width, query, results>>
      /\ compiled' \in [Stmts -> Nat] /\ \A x \in Stmts : compiled'[x] <= width
  BY DEF Driver, queryVars, QueryTypeOK, CompiledBefore
<1>2. ASSUME NEW u \in Users, NEW q \in Sqls, Call(u, q) PROVE QueryInv'
  <2>1. Users = {u} /\ pc'[u] \in {"prepare", "run"}
    BY <1>2, OneUser DEF Call, DriverInv, DriverTypeOK
  <2>2. DriverInv'
    BY <1>2, CallStep
  <2> QED BY <2>1, <2>2, <1>1, QuietQueries
<1>3. ASSUME NEW u \in Users, PrepareFails(u) PROVE QueryInv'
  <2>1. Users = {u} /\ pc'[u] = "idle"
    BY <1>3, OneUser DEF PrepareFails, Return, DriverInv, DriverTypeOK
  <2>2. DriverInv'
    BY <1>3, ReturnStep DEF PrepareFails
  <2> QED BY <2>1, <2>2, <1>1, QuietQueries
<1>4. ASSUME NEW u \in Users, Store(u) PROVE QueryInv'
  <2>1. Users = {u} /\ pc'[u] = "run"
    BY <1>4, OneUser DEF Store, DriverInv, DriverTypeOK
  <2>2. DriverInv'
    BY <1>4, StoreStep
  <2> QED BY <2>1, <2>2, <1>1, QuietQueries
<1>5. ASSUME NEW u \in Users, RunFails(u) PROVE QueryInv'
  <2>1. Users = {u} /\ pc'[u] = "idle"
    BY <1>5, OneUser DEF RunFails, Return, DriverInv, DriverTypeOK
  <2>2. DriverInv'
    BY <1>5, CleanupStep DEF RunFails
  <2> QED BY <2>1, <2>2, <1>1, QuietQueries
<1>6. CASE Close
  <2>1. \A u \in Users : pc'[u] = "idle"
    BY <1>6 DEF Close
  <2>2. DriverInv'
    BY <1>6, CloseStep
  <2> QED BY <2>1, <2>2, <1>1, QuietQueries
<1>7. CASE Open
  <2>1. DriverInv'
    BY <1>7, DriverKept DEF Open
  <2>2. UNCHANGED <<pc, stmt, compiled>>
    BY <1>7 DEF Open, Driver, queryVars
  <2> QED BY <2>1, <2>2, <1>1, QueriesKept
<1> QED BY <1>2, <1>3, <1>4, <1>5, <1>6, <1>7 DEF Driver

\* A new statement is compiled for the table as it is.
LEMMA QPrepareStep ==
  ASSUME QueryInv, NEW u \in Users, QPrepare(u)
  PROVE  QueryInv'
<1> USE DEF QueryInv
<1>1. Users = {u} /\ pc'[u] = "put"
  BY OneUser DEF QPrepare, PrepareOk, DriverInv, DriverTypeOK
<1>2. DriverInv'
  BY PrepareOkStep DEF QPrepare
<1>3. /\ compiled' = [compiled EXCEPT ![stmt'[u]] = width]
      /\ UNCHANGED <<ftype, table, width, query, results>>
  BY DEF QPrepare
<1>4. compiled' \in [Stmts -> Nat] /\ \A x \in Stmts : compiled'[x] <= width
  BY <1>3, CompiledAgain
<1> QED BY <1>1, <1>2, <1>3, <1>4, QuietQueries

\* sqlite_exec compiles its statement for the table as it is and returns.
LEMMA QExecStep ==
  ASSUME QueryInv, NEW u \in Users, QExec(u)
  PROVE  QueryInv'
<1> USE DEF QueryInv
<1>1. Users = {u} /\ pc'[u] = "idle"
  BY OneUser DEF QExec, RunOk, Return, DriverInv, DriverTypeOK
<1>2. DriverInv'
  BY ReturnStep DEF QExec, RunOk
<1>3. /\ compiled' = [compiled EXCEPT ![stmt[u]] = width]
      /\ UNCHANGED <<ftype, table, width, query, results>>
  BY DEF QExec
<1>4. compiled' \in [Stmts -> Nat] /\ \A x \in Stmts : compiled'[x] <= width
  BY <1>3, CompiledAgain
<1> QED BY <1>1, <1>2, <1>3, <1>4, QuietQueries

\* A query without rows is well typed.
LEMMA NoQueryTyped ==
  ASSUME NEW n \in Nat
  PROVE  /\ [NoQuery EXCEPT !.cols = n] \in Locals
         /\ [NoQuery EXCEPT !.cols = n].cols = n
         /\ [NoQuery EXCEPT !.cols = n].rows = <<>>
         /\ NoQuery = [NoQuery EXCEPT !.cols = 0]
<1>1. <<>> \in Seq(Values) /\ <<>> \in TableRows
  BY EmptySeq DEF TableRows
<1>2. [NoQuery EXCEPT !.cols = n] =
        [cols |-> n, read |-> 0, type |-> "unset", rows |-> <<>>,
         seen |-> <<>>, todo |-> <<>>]
  BY DEF NoQuery
<1>3. NoQuery = [NoQuery EXCEPT !.cols = 0]
  BY DEF NoQuery
<1>4. [NoQuery EXCEPT !.cols = n].cols = n /\ [NoQuery EXCEPT !.cols = n].rows = <<>>
  BY <1>2
<1>5. [cols |-> n, read |-> 0, type |-> "unset", rows |-> <<>>, seen |-> <<>>, todo |-> <<>>]
        \in Locals
  BY <1>1 DEF Locals
<1> QED BY <1>2, <1>3, <1>4, <1>5, Zenon

\* The count is that of the statement as it was compiled, not of the table.
LEMMA CountColumnsStep ==
  ASSUME QueryInv, NEW u \in Users, CountColumns(u)
  PROVE  QueryInv'
<1> USE DEF QueryInv
<1>1. /\ pc[u] = "run" /\ pc' = [pc EXCEPT ![u] = "step"] /\ StmtsKept
      /\ query' = [query EXCEPT ![u] = [NoQuery EXCEPT !.cols = compiled[stmt[u]]]]
      /\ UNCHANGED <<ftype, table, width, compiled, results>>
  BY DEF CountColumns, Moves
<1>2. DriverInv'
  BY <1>1, MovesStep
<1>3. stmt[u] \in Stmts /\ compiled[stmt[u]] \in Nat
  BY <1>1 DEF DriverInv, DriverTypeOK, RunsOwnStmt, QueryTypeOK
<1>4. Users = {u} /\ pc'[u] = "step" /\ stmt' = stmt
  BY <1>1, OneUser DEF DriverInv, DriverTypeOK, StmtsKept
<1>5. QueryTypeOK' /\ CompiledBefore'
  BY <1>1, <1>3, NoQueryTyped DEF QueryTypeOK, CompiledBefore
<1>6. Counted' /\ Reading'
  <2>1. /\ query'[u] = [NoQuery EXCEPT !.cols = compiled[stmt[u]]]
        /\ query'[u].cols = compiled[stmt[u]]
    BY <1>1, <1>3, NoQueryTyped DEF QueryTypeOK
  <2>2. query'[u] = [NoQuery EXCEPT !.cols = query'[u].cols]
    BY <2>1
  <2>3. query'[u].cols <= compiled'[stmt'[u]]
    BY <2>1, <1>1, <1>3, <1>4
  <2> QED BY <2>2, <2>3, <1>4 DEF Counted, Reading
<1>7. RowsComplete' /\ FieldsAsStored'
  BY <1>1 DEF RowsComplete, FieldsAsStored
<1> QED BY <1>2, <1>5, <1>6, <1>7

\* The first step compiles the statement again, for no fewer columns.
LEMMA FirstStepStep ==
  ASSUME QueryInv, NEW u \in Users, FirstStep(u)
  PROVE  QueryInv'
<1> USE DEF QueryInv
<1>1. /\ pc[u] = "step" /\ pc' = [pc EXCEPT ![u] = "rows"] /\ StmtsKept
      /\ compiled' = [compiled EXCEPT ![stmt[u]] = width]
      /\ query' = [query EXCEPT ![u].seen = table, ![u].todo = table]
      /\ UNCHANGED <<ftype, table, width, results>>
  BY DEF FirstStep, Moves
<1>2. DriverInv'
  BY <1>1, MovesStep
<1>3. stmt[u] \in Stmts /\ width \in Nat /\ table \in TableRows
  BY <1>1 DEF DriverInv, DriverTypeOK, RunsOwnStmt, QueryTypeOK
<1>4. Users = {u} /\ pc'[u] = "rows" /\ stmt' = stmt
  BY <1>1, OneUser DEF DriverInv, DriverTypeOK, StmtsKept
<1>5. /\ query[u].cols \in Nat /\ query[u].cols <= width
      /\ query[u].rows = <<>> /\ query[u].read = 0 /\ query[u].type = "unset"
  <2>1. /\ query[u].cols \in Nat /\ query[u].cols <= compiled[stmt[u]]
        /\ compiled[stmt[u]] \in Nat /\ compiled[stmt[u]] <= width
    BY <1>1, <1>3 DEF QueryTypeOK, Locals, Counted, CompiledBefore
  <2>2. query[u] = [NoQuery EXCEPT !.cols = query[u].cols]
    BY <1>1 DEF Counted
  <2> QED BY <2>1, <2>2, <1>3 DEF NoQuery
<1>6. /\ query'[u] = [query[u] EXCEPT !.seen = table, !.todo = table]
      /\ query'[u].rows = <<>> /\ query'[u].seen = table /\ query'[u].todo = table
      /\ query'[u].type = "unset" /\ query'[u].read = 0
      /\ query'[u].cols = query[u].cols
  BY <1>1, <1>5 DEF QueryTypeOK, Locals
<1>7. QueryTypeOK' /\ CompiledBefore'
  <2>1. query \in [Users -> Locals]
    BY DEF QueryTypeOK
  <2>2. [query[u] EXCEPT !.seen = table, !.todo = table] \in Locals
    BY <2>1, <1>3 DEF Locals
  <2>3. query' \in [Users -> Locals]
    BY <2>1, <2>2, <1>1, <1>6
  <2> QED BY <2>3, <1>1, <1>3, CompiledAgain DEF QueryTypeOK, CompiledBefore
<1>8. Counted'
  BY <1>4 DEF Counted
<1>9. Reading'
  <2>1. compiled'[stmt[u]] = width
    BY <1>1, <1>3 DEF QueryTypeOK
  <2>2. Len(table) \in Nat /\ DOMAIN table = 1..Len(table) /\ Len(<<>>) = 0
    BY <1>3, LenProperties DEF TableRows
  <2>3. \A i \in DOMAIN table : table[i] = table[0 + i]
    BY <2>2
  <2>4. /\ query'[u].read <= query'[u].cols
        /\ query'[u].cols <= compiled'[stmt'[u]]
    BY <2>1, <1>4, <1>5, <1>6
  <2>5. /\ Len(query'[u].rows) + Len(query'[u].todo) = Len(query'[u].seen)
        /\ \A i \in DOMAIN query'[u].todo :
             query'[u].todo[i] = query'[u].seen[Len(query'[u].rows) + i]
    <3>1. Len(query'[u].rows) = 0
      BY <1>6
    <3>2. 0 + Len(table) = Len(table)
      BY <2>2
    <3> QED BY <3>1, <3>2, <2>3, <1>6
  <2>6. /\ AsStored(query[u].rows, query[u].seen)'
        /\ query'[u].type = Decided(query[u].rows, query[u].seen)'
    <3>1. DOMAIN query'[u].rows = {}
      BY <1>6
    <3> QED BY <3>1, <1>6 DEF AsStored, Decided
  <2> QED BY <2>4, <2>5, <2>6, <1>4 DEF Reading
<1>10. RowsComplete' /\ FieldsAsStored'
  BY <1>1 DEF RowsComplete, FieldsAsStored
<1> QED BY <1>2, <1>7, <1>8, <1>9, <1>10

\* A row is read within the columns counted and keeps the field's value.
LEMMA FetchRowStep ==
  ASSUME QueryInv, NEW u \in Users, FetchRow(u)
  PROVE  QueryInv'
<1> USE DEF QueryInv
<1> DEFINE q == query[u]
           t == TypeAfter(q.type, Head(q.todo))
           v == [type |-> t, set |-> IF Head(q.todo) = "null" THEN "nothing" ELSE Member(t)]
<1>1. /\ pc[u] = "rows" /\ q.todo /= <<>> /\ StmtsKept
      /\ query' = [query EXCEPT ![u].type = t, ![u].rows = Append(@, v),
                                ![u].todo = Tail(@), ![u].read = q.cols]
      /\ UNCHANGED <<pc, ftype, table, width, compiled, results>>
  BY DEF FetchRow, ReadTo
<1>2. /\ q \in Locals /\ q.rows \in Seq(Values) /\ q.seen \in TableRows
      /\ q.todo \in TableRows /\ q.cols \in Nat
      /\ q.type \in {"unset", "integer", "real", "text", "blob"}
      /\ ftype \in FieldTypes
  BY DEF QueryTypeOK, Locals
<1>3. /\ q.read <= q.cols /\ q.cols <= compiled[stmt[u]]
      /\ Len(q.rows) + Len(q.todo) = Len(q.seen)
      /\ \A i \in DOMAIN q.todo : q.todo[i] = q.seen[Len(q.rows) + i]
      /\ AsStored(q.rows, q.seen)
      /\ q.type = Decided(q.rows, q.seen)
  BY <1>1 DEF Reading
<1>4. t \in {"integer", "real", "text", "blob"}
  BY <1>2, MemberIsRead DEF TypeAfter
<1>5. /\ v \in Values /\ t = TypeAfter(Decided(q.rows, q.seen), Head(q.todo))
      /\ v = [type |-> t, set |-> IF Head(q.todo) = "null" THEN "nothing" ELSE Member(t)]
  BY <1>3, <1>4, MemberInUnion DEF Values
<1>6. /\ query'[u] = [q EXCEPT !.type = t, !.rows = Append(q.rows, v),
                               !.todo = Tail(q.todo), !.read = q.cols]
      /\ query' = [query EXCEPT ![u] = query'[u]]
  <2>1. query \in [Users -> Locals]
    BY DEF QueryTypeOK
  <2> HIDE DEF t, v
  <2>2. query' = [query EXCEPT ![u] = [q EXCEPT !.type = t, !.rows = Append(q.rows, v),
                                                !.todo = Tail(q.todo), !.read = q.cols]]
    BY <1>1, <1>2, <2>1 DEF Locals
  <2> QED BY <2>1, <2>2
<1> HIDE DEF t, v
<1>7. /\ Append(q.rows, v) \in Seq(Values) /\ Tail(q.todo) \in TableRows
      /\ Len(Append(q.rows, v)) + Len(Tail(q.todo)) = Len(q.seen)
      /\ \A i \in DOMAIN Tail(q.todo) :
           Tail(q.todo)[i] = q.seen[Len(Append(q.rows, v)) + i]
      /\ AsStored(Append(q.rows, v), q.seen)
      /\ t = Decided(Append(q.rows, v), q.seen)
  <2>1. PICK rows \in Seq(Values), seen \in TableRows, todo \in TableRows :
          rows = q.rows /\ seen = q.seen /\ todo = q.todo
    BY <1>2
  <2>2. /\ t = TypeAfter(Decided(rows, seen), Head(todo)) /\ todo /= <<>>
        /\ v = [type |-> t, set |-> IF Head(todo) = "null" THEN "nothing" ELSE Member(t)]
        /\ Len(rows) + Len(todo) = Len(seen)
        /\ \A i \in DOMAIN todo : todo[i] = seen[Len(rows) + i]
        /\ AsStored(rows, seen) /\ v \in Values /\ ftype \in FieldTypes
    BY <2>1, <1>1, <1>2, <1>3, <1>5
  <2> HIDE DEF q
  <2>3. /\ Append(rows, v) \in Seq(Values) /\ Tail(todo) \in TableRows
        /\ Len(Append(rows, v)) + Len(Tail(todo)) = Len(seen)
        /\ \A i \in DOMAIN Tail(todo) : Tail(todo)[i] = seen[Len(Append(rows, v)) + i]
        /\ AsStored(Append(rows, v), seen)
        /\ t = Decided(Append(rows, v), seen)
    BY <2>2, OneMoreRow
  <2> QED BY <2>1, <2>3
<1>8. /\ query'[u] \in Locals /\ query'[u].type = t /\ query'[u].rows = Append(q.rows, v)
      /\ query'[u].todo = Tail(q.todo) /\ query'[u].read = q.cols
      /\ query'[u].cols = q.cols /\ query'[u].seen = q.seen
  BY <1>2, <1>4, <1>6, <1>7 DEF Locals
<1>9. Users = {u} /\ stmt' = stmt
  BY <1>1, OneUser DEF StmtsKept
<1>10. DriverInv'
  BY <1>1, DriverKept DEF StmtsKept, DriverInv, DriverTypeOK
<1>11. QueryTypeOK' /\ CompiledBefore'
  <2>1. query' \in [Users -> Locals]
    BY <1>6, <1>8 DEF QueryTypeOK
  <2> QED BY <2>1, <1>1 DEF QueryTypeOK, CompiledBefore
<1>12. Counted'
  BY <1>1, <1>9 DEF Counted
<1>13. Reading'
  <2>1. query'[u].read <= query'[u].cols /\ query'[u].cols <= compiled'[stmt'[u]]
    BY <1>1, <1>2, <1>3, <1>8, <1>9
  <2>2. /\ Len(query'[u].rows) + Len(query'[u].todo) = Len(query'[u].seen)
        /\ \A i \in DOMAIN query'[u].todo :
             query'[u].todo[i] = query'[u].seen[Len(query'[u].rows) + i]
    BY <1>7, <1>8
  <2>3. /\ AsStored(query[u].rows, query[u].seen)'
        /\ query'[u].type = Decided(query[u].rows, query[u].seen)'
    BY <1>1, <1>7, <1>8 DEF AsStored, Decided
  <2> QED BY <2>1, <2>2, <2>3, <1>9 DEF Reading
<1>14. RowsComplete' /\ FieldsAsStored'
  BY <1>1 DEF RowsComplete, FieldsAsStored
<1> QED BY <1>10, <1>11, <1>12, <1>13, <1>14

\* A query that fails leaves no result and cleans up its statement.
LEMMA QueryFailsStep ==
  ASSUME QueryInv, NEW u \in Users, QueryFails(u)
  PROVE  QueryInv'
<1> USE DEF QueryInv
<1>1. DriverInv'
  BY CleanupStep DEF QueryFails
<1>2. Users = {u} /\ pc'[u] = "idle"
  BY OneUser DEF QueryFails, Return, DriverInv, DriverTypeOK
<1>3. /\ query' = [query EXCEPT ![u] = NoQuery]
      /\ UNCHANGED <<ftype, table, width, compiled, results>>
  BY DEF QueryFails
<1>4. query' \in [Users -> Locals]
  <2>1. NoQuery \in Locals
    BY NoQueryTyped
  <2> QED BY <2>1, <1>3 DEF QueryTypeOK
<1>5. QueryTypeOK' /\ CompiledBefore'
  BY <1>3, <1>4 DEF QueryTypeOK, CompiledBefore
<1>6. Counted' /\ Reading'
  BY <1>2 DEF Counted, Reading
<1>7. RowsComplete' /\ FieldsAsStored'
  BY <1>3 DEF RowsComplete, FieldsAsStored
<1> QED BY <1>1, <1>5, <1>6, <1>7

\* A query hands its rows out when the statement has no more.
LEMMA QueryDoneStep ==
  ASSUME QueryInv, NEW u \in Users, QueryDone(u)
  PROVE  QueryInv'
<1> USE DEF QueryInv
<1> DEFINE q == query[u]
<1>1. /\ pc[u] = "rows" /\ q.todo = <<>> /\ Return(u)
      /\ UNCHANGED <<cacheVars, open, text, connected, oom>>
      /\ query' = [query EXCEPT ![u] = NoQuery]
      /\ UNCHANGED <<ftype, table, width, compiled>>
  BY DEF QueryDone
<1>2. PICK r \in Results \ DOMAIN results :
        results' = [x \in DOMAIN results \union {r} |->
                      IF x /= r THEN results[x]
                      ELSE [rows |-> q.rows, of |-> q.seen, refs |-> 1]]
  BY DEF QueryDone, HandOut
<1>3. DriverInv'
  BY <1>1, ReturnStep
<1>4. Users = {u} /\ pc'[u] = "idle"
  BY <1>1, OneUser DEF Return, DriverInv, DriverTypeOK
<1>5. q.rows \in Seq(Values) /\ q.seen \in TableRows
  BY DEF QueryTypeOK, Locals
<1>6. /\ DOMAIN results' = DOMAIN results \union {r}
      /\ results'[r] = [rows |-> q.rows, of |-> q.seen, refs |-> 1]
      /\ \A x \in DOMAIN results : results'[x] = results[x]
  BY <1>2
<1>7. QueryTypeOK' /\ CompiledBefore'
  <2>1. NoQuery \in Locals
    BY NoQueryTyped
  <2>2. query' \in [Users -> Locals]
    BY <2>1, <1>1 DEF QueryTypeOK
  <2>3. results'[r] \in [rows : Seq(Values), of : TableRows, refs : Nat]
    BY <1>5, <1>6
  <2> QED BY <2>2, <2>3, <1>1, <1>6 DEF QueryTypeOK, CompiledBefore
<1>8. Counted' /\ Reading'
  BY <1>4 DEF Counted, Reading
<1>9. Len(q.rows) = Len(q.seen) /\ AsStored(q.rows, q.seen)
  <2>1. Len(q.rows) + Len(q.todo) = Len(q.seen) /\ AsStored(q.rows, q.seen)
    BY <1>1 DEF Reading
  <2>2. Len(q.todo) = 0 /\ Len(q.rows) \in Nat
    BY <1>1, <1>5, LenProperties
  <2> QED BY <2>1, <2>2
<1>10. RowsComplete'
  BY <1>6, <1>9 DEF RowsComplete
<1>11. FieldsAsStored'
  <2>1. results'[r].rows = q.rows /\ results'[r].of = q.seen
    BY <1>6
  <2> QED BY <2>1, <1>1, <1>6, <1>9 DEF FieldsAsStored, AsStored
<1> QED BY <1>3, <1>7, <1>8, <1>10, <1>11

\* Result sets may be counted up and down or freed; no other one is touched.
LEMMA ResultsStep ==
  ASSUME QueryInv, NEW r \in DOMAIN results, Retain(r) \/ Release(r)
  PROVE  QueryInv'
<1> USE DEF QueryInv
<1>1. UNCHANGED <<vars, ftype, table, width, compiled, query>>
  BY DEF Retain, Release
<1>2. /\ DOMAIN results' \subseteq DOMAIN results
      /\ \A x \in DOMAIN results' :
           /\ results'[x].rows = results[x].rows /\ results'[x].of = results[x].of
           /\ results'[x] \in [rows : Seq(Values), of : TableRows, refs : Nat]
  <2>1. \A x \in DOMAIN results :
           results[x] \in [rows : Seq(Values), of : TableRows, refs : Nat]
    BY DEF QueryTypeOK
  <2>3. CASE results' = [x \in DOMAIN results \ {r} |-> results[x]]
    BY <2>1, <2>3
  <2>4. results[r].refs \in Nat
    BY <2>1
  <2>5. ASSUME NEW k \in Nat, results' = [results EXCEPT ![r].refs = k]
        PROVE  /\ DOMAIN results' = DOMAIN results
               /\ \A x \in DOMAIN results :
                    /\ results'[x].rows = results[x].rows
                    /\ results'[x].of = results[x].of
                    /\ results'[x] \in [rows : Seq(Values), of : TableRows, refs : Nat]
    <3>1. /\ DOMAIN results' = DOMAIN results
          /\ \A x \in DOMAIN results :
                results'[x] = IF x = r THEN [results[x] EXCEPT !.refs = k]
                              ELSE results[x]
      BY <2>5
    <3>2. ASSUME NEW x \in DOMAIN results
          PROVE  /\ results'[x].rows = results[x].rows
                 /\ results'[x].of = results[x].of
                 /\ results'[x] \in [rows : Seq(Values), of : TableRows, refs : Nat]
      BY <2>1, <3>1
    <3> QED BY <3>1, <3>2
  <2>6. CASE results' = [results EXCEPT ![r].refs = @ + 1]
    <3>1. results[r].refs + 1 \in Nat
      BY <2>4
    <3> QED BY <3>1, <2>5, <2>6
  <2>7. CASE results[r].refs > 1 /\ results' = [results EXCEPT ![r].refs = @ - 1]
    <3>1. results[r].refs - 1 \in Nat
      BY <2>4, <2>7
    <3> QED BY <3>1, <2>5, <2>7
  <2> QED BY <2>3, <2>6, <2>7 DEF Retain, Release
<1>3. DriverInv'
  BY <1>1, DriverKept DEF vars, driver, DriverInv, DriverTypeOK
<1>4. QueryTypeOK' /\ CompiledBefore'
  BY <1>1, <1>2 DEF QueryTypeOK, CompiledBefore
<1>5. Counted'
  BY <1>1 DEF Counted, vars, driver
<1>6. Reading'
  BY <1>1 DEF Reading, AsStored, Decided, vars, driver
<1>7. RowsComplete' /\ FieldsAsStored'
  BY <1>1, <1>2 DEF RowsComplete, FieldsAsStored
<1> QED BY <1>3, <1>4, <1>5, <1>6, <1>7

\* The table may grow in rows and columns at any moment.
LEMMA TableStep ==
  ASSUME QueryInv, (\E v \in {"null", "some"} : Insert(v)) \/ AddColumn
  PROVE  QueryInv'
<1> USE DEF QueryInv
<1>1. UNCHANGED <<vars, ftype, compiled, query, results>>
  BY DEF Insert, AddColumn
<1>2. table' \in TableRows /\ width' \in Nat /\ width' >= width /\ width \in Nat
  <2>1. table \in TableRows /\ width \in Nat
    BY DEF QueryTypeOK
  <2>2. ASSUME NEW v \in {"null", "some"}, Insert(v)
        PROVE  table' \in TableRows /\ width' \in Nat /\ width' >= width
    <3>1. table' = Append(table, v) /\ width' = width
      BY <2>2 DEF Insert
    <3>2. table' \in TableRows
      BY <3>1, <2>1, AppendProperties DEF TableRows
    <3> QED BY <3>1, <3>2, <2>1
  <2>3. CASE AddColumn
    BY <2>1, <2>3 DEF AddColumn
  <2> QED BY <2>1, <2>2, <2>3
<1>3. DriverInv'
  BY <1>1, DriverKept DEF vars, driver, DriverInv, DriverTypeOK
<1>4. QueryTypeOK' /\ CompiledBefore'
  <2>1. \A x \in Stmts : compiled[x] \in Nat /\ compiled[x] <= width
    BY DEF QueryTypeOK, CompiledBefore
  <2> QED BY <2>1, <1>1, <1>2 DEF QueryTypeOK, CompiledBefore
<1>5. Counted'
  BY <1>1 DEF Counted, vars, driver
<1>6. Reading'
  BY <1>1 DEF Reading, AsStored, Decided, vars, driver
<1>7. RowsComplete' /\ FieldsAsStored'
  BY <1>1 DEF RowsComplete, FieldsAsStored
<1> QED BY <1>3, <1>4, <1>5, <1>6, <1>7

(***************************************************************************)
(* Who frees what                                                          *)
(***************************************************************************)

\* A list of rows has finitely many blocks.
LEMMA BlocksFinite ==
  ASSUME NEW rows \in Seq(Values)
  PROVE  IsFiniteSet(Blocks(rows)) /\ Owned(rows) \in Nat
<1>1. Len(rows) \in Nat /\ DOMAIN rows = 1..Len(rows)
  BY LenProperties
<1>2. IsFiniteSet(1..Len(rows)) /\ Blocks(rows) \in SUBSET (1..Len(rows))
  BY <1>1, FS_Interval DEF Blocks
<1>3. IsFiniteSet(Blocks(rows))
  BY <1>2, FS_Subset
<1> QED BY <1>3, FS_CardinalityType DEF Owned

\* One block more or not, when a row is appended.
LEMMA BlocksAppended ==
  ASSUME NEW rows \in Seq(Values), NEW v \in Values
  PROVE  Owned(Append(rows, v)) = Owned(rows) + (IF Allocates(v) THEN 1 ELSE 0)
<1> DEFINE n == Len(rows)
<1>1. /\ n \in Nat /\ DOMAIN rows = 1..n
      /\ DOMAIN Append(rows, v) = 1..(n + 1)
      /\ \A i \in 1..n : Append(rows, v)[i] = rows[i]
      /\ Append(rows, v)[n + 1] = v
  <2>1. /\ Append(rows, v) \in Seq(Values) /\ Len(Append(rows, v)) = n + 1
        /\ \A i \in 1..n : Append(rows, v)[i] = rows[i]
        /\ Append(rows, v)[n + 1] = v
    BY AppendProperties
  <2> QED BY <2>1, LenProperties
<1>2. IsFiniteSet(Blocks(rows)) /\ n + 1 \notin Blocks(rows) /\ Owned(rows) \in Nat
  <2>1. n + 1 \notin Blocks(rows)
    BY <1>1 DEF Blocks
  <2> QED BY <2>1, BlocksFinite
<1>3. \A i : i \in 1..(n + 1) <=> i \in 1..n \/ i = n + 1
  BY <1>1
<1>4. CASE Allocates(v)
  <2>1. Blocks(Append(rows, v)) = Blocks(rows) \union {n + 1}
    BY <1>1, <1>3, <1>4 DEF Blocks
  <2>2. Cardinality(Blocks(rows) \union {n + 1}) = Cardinality(Blocks(rows)) + 1
    BY <1>2, FS_AddElement
  <2> QED BY <2>1, <2>2, <1>4 DEF Owned
<1>5. CASE ~Allocates(v)
  <2>1. Blocks(Append(rows, v)) = Blocks(rows)
    BY <1>1, <1>3, <1>5 DEF Blocks
  <2> QED BY <2>1, <1>2, <1>5 DEF Owned
<1> QED BY <1>4, <1>5

\* A family of lists with one list more has the blocks of that list more.
LEMMA BlocksWithOneMore ==
  ASSUME NEW f, NEW g, NEW x, x \notin DOMAIN f,
         DOMAIN g = DOMAIN f \union {x}, \A y \in DOMAIN f : g[y] = f[y],
         g[x] \in Seq(Values)
  PROVE  /\ IsFiniteSet(BlocksIn(f)) <=> IsFiniteSet(BlocksIn(g))
         /\ IsFiniteSet(BlocksIn(f)) =>
              /\ Cardinality(BlocksIn(f)) \in Nat
              /\ Cardinality(BlocksIn(g)) = Cardinality(BlocksIn(f)) + Owned(g[x])
<1> DEFINE B == Blocks(g[x])
           C == {x} \X B
<1>1. IsFiniteSet(B) /\ Owned(g[x]) \in Nat
  BY BlocksFinite
<1>2. BlocksIn(g) = BlocksIn(f) \union C
  <2>1. ASSUME NEW p \in BlocksIn(g) PROVE p \in BlocksIn(f) \union C
    <3>1. PICK y \in DOMAIN g : p \in {y} \X Blocks(g[y])
      BY DEF BlocksIn
    <3>2. CASE y = x
      BY <3>1, <3>2
    <3>3. CASE y /= x
      BY <3>1, <3>3 DEF BlocksIn
    <3> QED BY <3>2, <3>3
  <2>2. C \subseteq BlocksIn(g)
    BY DEF BlocksIn
  <2>3. ASSUME NEW p \in BlocksIn(f) PROVE p \in BlocksIn(g)
    <3>1. PICK y \in DOMAIN f : p \in {y} \X Blocks(f[y])
      BY DEF BlocksIn
    <3>2. y \in DOMAIN g /\ p \in {y} \X Blocks(g[y])
      BY <3>1
    <3> QED BY <3>2 DEF BlocksIn
  <2> QED BY <2>1, <2>2, <2>3
<1>3. BlocksIn(f) \cap C = {}
  <2>1. ASSUME NEW p \in BlocksIn(f), p \in C PROVE FALSE
    <3>1. PICK y \in DOMAIN f : p \in {y} \X Blocks(f[y])
      BY DEF BlocksIn
    <3>2. p[1] = y
      BY <3>1
    <3>3. p[1] = x
      BY <2>1
    <3> QED BY <3>2, <3>3
  <2> QED BY <2>1
<1>4. IsFiniteSet(C) /\ Cardinality(C) = Owned(g[x])
  <2>1. [i \in B |-> <<x, i>>] \in Bijection(B, C)
    <3> DEFINE h == [i \in B |-> <<x, i>>]
    <3>1. h \in [B -> C]
      OBVIOUS
    <3>2. \A i, j \in B : h[i] = h[j] => i = j
      <4> HIDE DEF B, C
      <4>1. \A i, j : <<x, i>> = <<x, j>> => i = j
        OBVIOUS
      <4>2. \A i \in B : h[i] = <<x, i>>
        OBVIOUS
      <4> HIDE DEF h
      <4> QED BY <4>1, <4>2
    <3>3. \A p \in C : \E i \in B : h[i] = p
      OBVIOUS
    <3>4. DOMAIN h = B
      OBVIOUS
    <3> HIDE DEF B, C, h
    <3>5. h \in Bijection(B, C)
      BY <3>1, <3>2, <3>3, <3>4 DEF Bijection, Injection, Surjection, IsInjective
    <3> QED BY <3>5 DEF h
  <2>2. ExistsBijection(B, C)
    BY <2>1 DEF ExistsBijection
  <2> HIDE DEF B, C
  <2>3. IsFiniteSet(C) /\ Cardinality(C) = Cardinality(B)
    BY <2>2, <1>1, FS_Bijection
  <2> QED BY <2>3 DEF Owned, B
<1> HIDE DEF C
<1>5. IsFiniteSet(BlocksIn(g)) => IsFiniteSet(BlocksIn(f))
  <2>1. BlocksIn(f) \in SUBSET BlocksIn(g)
    BY <1>2
  <2> QED BY <2>1, FS_Subset
<1>6. ASSUME IsFiniteSet(BlocksIn(f))
      PROVE  /\ IsFiniteSet(BlocksIn(g))
             /\ Cardinality(BlocksIn(f)) \in Nat
             /\ Cardinality(BlocksIn(g)) = Cardinality(BlocksIn(f)) + Owned(g[x])
  <2>1. /\ IsFiniteSet(BlocksIn(f) \union C)
        /\ Cardinality(BlocksIn(f) \union C) =
             Cardinality(BlocksIn(f)) + Cardinality(C) - Cardinality(BlocksIn(f) \cap C)
    BY <1>4, <1>6, FS_Union
  <2>2. Cardinality(BlocksIn(f) \cap C) = 0
    BY <1>3, FS_EmptySet
  <2>3. Cardinality(BlocksIn(f)) \in Nat
    BY <1>6, FS_CardinalityType
  <2> QED BY <2>1, <2>2, <2>3, <1>1, <1>2, <1>4
<1> QED BY <1>5, <1>6

\* With one user, the blocks of the running queries are those of its rows.
LEMMA QueryBlocks ==
  ASSUME NEW u \in Users, NEW q, q \in [Users -> Locals]
  PROVE  LET B == BlocksIn([w \in Users |-> q[w].rows])
         IN  IsFiniteSet(B) /\ Cardinality(B) = Owned(q[u].rows) /\ Owned(q[u].rows) \in Nat
<1> DEFINE g == [w \in Users |-> q[w].rows]
           f == [w \in {} |-> <<>>]
<1>1. Users = {u} /\ q[u].rows \in Seq(Values)
  BY OneUser DEF Locals
<1>2. DOMAIN f = {} /\ DOMAIN g = {u} /\ g[u] = q[u].rows
  BY <1>1
<1>3. BlocksIn(f) = {}
  BY <1>2 DEF BlocksIn
<1> HIDE DEF f, g
<1>4. IsFiniteSet(BlocksIn(f)) /\ Cardinality(BlocksIn(f)) = 0
  BY <1>3, FS_EmptySet
<1>5. /\ IsFiniteSet(BlocksIn(g))
      /\ Cardinality(BlocksIn(g)) = Cardinality(BlocksIn(f)) + Owned(g[u])
  BY <1>1, <1>2, <1>4, BlocksWithOneMore
<1>6. Owned(q[u].rows) \in Nat
  BY <1>1, BlocksFinite
<1> QED BY <1>2, <1>4, <1>5, <1>6 DEF g

\* The blocks of the one user's query, before and after a step.
LEMMA QueryBlocksStep ==
  ASSUME NEW u \in Users, QueryInv, QueryInv'
  PROVE  /\ IsFiniteSet(BlocksIn(QueryRows)) /\ IsFiniteSet(BlocksIn(QueryRows)')
         /\ Cardinality(BlocksIn(QueryRows)) = Owned(query[u].rows)
         /\ Cardinality(BlocksIn(QueryRows)') = Owned(query'[u].rows)
         /\ Owned(query[u].rows) \in Nat /\ Owned(query'[u].rows) \in Nat
         /\ query[u].rows \in Seq(Values) /\ query'[u].rows \in Seq(Values)
<1>1. query \in [Users -> Locals] /\ query' \in [Users -> Locals]
  BY DEF QueryInv, QueryTypeOK
<1>2. /\ IsFiniteSet(BlocksIn(QueryRows))
      /\ Cardinality(BlocksIn(QueryRows)) = Owned(query[u].rows)
      /\ Owned(query[u].rows) \in Nat
  BY <1>1, QueryBlocks DEF QueryRows
<1>3. /\ IsFiniteSet(BlocksIn(QueryRows)')
      /\ Cardinality(BlocksIn(QueryRows)') = Owned(query'[u].rows)
      /\ Owned(query'[u].rows) \in Nat
  <2>1. BlocksIn(QueryRows)' = BlocksIn([w \in Users |-> query'[w].rows])
    BY DEF QueryRows, BlocksIn, Blocks, Allocates
  <2> QED BY <2>1, <1>1, QueryBlocks
<1>4. query[u].rows \in Seq(Values) /\ query'[u].rows \in Seq(Values)
  BY <1>1 DEF Locals
<1> QED BY <1>2, <1>3, <1>4

\* No rows, no blocks.
LEMMA NoBlocks == Owned(<<>>) = 0 /\ Tagged(<<>>)
<1>1. Blocks(<<>>) = {}
  BY DEF Blocks
<1> QED BY <1>1, FS_EmptySet DEF Owned, Tagged

\* The steps that leave the blocks and the rows alone.
LEMMA BlocksKept ==
  ASSUME BlocksInv, UNCHANGED <<query, results, blocks, dropped>>,
         \A u \in Users : pc'[u] /= "rows" => pc[u] /= "rows"
  PROVE  BlocksInv'
<1>1. ResultRows' = ResultRows /\ QueryRows' = QueryRows
  BY DEF ResultRows, QueryRows
<1>2. BlocksIn(ResultRows)' = BlocksIn(ResultRows) /\ BlocksIn(QueryRows)' = BlocksIn(QueryRows)
  BY <1>1 DEF BlocksIn, Blocks, Allocates
<1>3. BlocksOwned'
  BY <1>2 DEF BlocksInv, BlocksOwned
<1> QED BY <1>2, <1>3 DEF BlocksInv, Tagged

\* The steps that leave the results alone: what the query gains or loses in
\* blocks, the allocator or the error path accounts for.
LEMMA OnlyQueryChanges ==
  ASSUME QueryInv, QueryInv', BlocksInv, NEW u \in Users, UNCHANGED results,
         blocks' \in Int, dropped' \in Int,
         blocks' + dropped + Owned(query[u].rows) =
           blocks + dropped' + Owned(query'[u].rows),
         Tagged(query'[u].rows), pc'[u] /= "rows" => query'[u].rows = <<>>
  PROVE  BlocksInv'
<1>1. Users = {u}
  BY OneUser
<1>2. BlocksIn(ResultRows)' = BlocksIn(ResultRows)
  BY DEF ResultRows, BlocksIn, Blocks, Allocates
<1>3. /\ IsFiniteSet(BlocksIn(ResultRows)) /\ Cardinality(BlocksIn(ResultRows)) \in Nat
      /\ blocks \in Int /\ dropped \in Int
      /\ blocks = dropped + Cardinality(BlocksIn(ResultRows)) + Cardinality(BlocksIn(QueryRows))
  BY FS_CardinalityType DEF BlocksInv, BlocksOwned
<1>4. /\ IsFiniteSet(BlocksIn(QueryRows)) /\ IsFiniteSet(BlocksIn(QueryRows)')
      /\ Cardinality(BlocksIn(QueryRows)) = Owned(query[u].rows)
      /\ Cardinality(BlocksIn(QueryRows)') = Owned(query'[u].rows)
      /\ Owned(query[u].rows) \in Nat /\ Owned(query'[u].rows) \in Nat
  BY QueryBlocksStep
<1>5. blocks' = dropped' + Cardinality(BlocksIn(ResultRows)) + Owned(query'[u].rows)
  <2>1. PICK c \in Int : c = Cardinality(BlocksIn(ResultRows))
    BY <1>3
  <2>2. PICK o \in Int, p \in Int : o = Owned(query[u].rows) /\ p = Owned(query'[u].rows)
    BY <1>4
  <2>3. blocks = dropped + c + o /\ blocks' + dropped + o = blocks + dropped' + p
    BY <1>3, <1>4, <2>1, <2>2
  <2>4. blocks' = dropped' + c + p
    <3>1. PICK b \in Int, d \in Int, b1 \in Int, d1 \in Int :
            b = blocks /\ d = dropped /\ b1 = blocks' /\ d1 = dropped'
      BY <1>3
    <3>2. b = d + c + o /\ b1 + d + o = b + d1 + p
      BY <2>3, <3>1
    <3>3. b1 = d1 + c + p
      BY <3>2
    <3> QED BY <3>1, <3>3
  <2> QED BY <2>1, <2>2, <2>4
<1>6. BlocksOwned'
  BY <1>2, <1>4, <1>5 DEF BlocksOwned
<1>7. \A r \in DOMAIN results' : Tagged(results'[r].rows)
  BY DEF BlocksInv
<1>8. \A w \in Users : Tagged(query'[w].rows)
  BY <1>1
<1>9. \A w \in Users : pc'[w] /= "rows" => query'[w].rows = <<>>
  BY <1>1
<1> QED BY <1>2, <1>3, <1>4, <1>6, <1>7, <1>8, <1>9 DEF BlocksInv

\* The steps before the first row.
LEMMA BlocksBeforeRows ==
  ASSUME QueryInv, QueryInv', BlocksInv, NEW u \in Users,
         QPrepare(u) \/ QExec(u) \/ CountColumns(u) \/ FirstStep(u)
  PROVE  BlocksInv'
<1>1. query \in [Users -> Locals] /\ Users = {u}
  BY OneUser DEF QueryInv, QueryTypeOK, DriverInv, DriverTypeOK
<1>2. CASE QPrepare(u) \/ QExec(u)
  <2>1. UNCHANGED <<query, results, blocks, dropped>> /\ pc[u] /= "rows"
    BY <1>2 DEF QPrepare, QExec, PrepareOk, RunOk
  <2> QED BY <2>1, <1>1, BlocksKept
<1>3. CASE CountColumns(u) \/ FirstStep(u)
  <2>1. /\ UNCHANGED <<results, blocks, dropped>> /\ pc[u] /= "rows"
        /\ query[u].rows = <<>>
    BY <1>3 DEF CountColumns, FirstStep, Moves, BlocksInv
  <2>2. query'[u].rows = <<>>
    <3>1. CASE CountColumns(u)
      <4>1. query' = [query EXCEPT ![u] = [NoQuery EXCEPT !.cols = compiled[stmt[u]]]]
        BY <3>1 DEF CountColumns
      <4> QED BY <4>1, <1>1 DEF NoQuery
    <3>2. CASE FirstStep(u)
      <4>1. query' = [query EXCEPT ![u].seen = table, ![u].todo = table]
        BY <3>2 DEF FirstStep
      <4> QED BY <4>1, <2>1, <1>1 DEF Locals
    <3> QED BY <1>3, <3>1, <3>2
  <2>3. blocks' \in Int /\ dropped' \in Int
    BY <2>1 DEF BlocksInv
  <2> QED BY <2>1, <2>2, <2>3, NoBlocks, OnlyQueryChanges
<1> QED BY <1>2, <1>3

\* A row that points to memory adds one block to those allocated and to the query.
LEMMA BlocksFetched ==
  ASSUME QueryInv, QueryInv', BlocksInv, NEW u \in Users, FetchRow(u)
  PROVE  BlocksInv'
<1> DEFINE q == query[u]
           t == TypeAfter(q.type, Head(q.todo))
           v == [type |-> t, set |-> IF Head(q.todo) = "null" THEN "nothing" ELSE Member(t)]
<1>1. /\ query' = [query EXCEPT ![u].type = t, ![u].rows = Append(@, v),
                                ![u].todo = Tail(@), ![u].read = ReadTo(u)]
      /\ blocks' = IF Allocates(v) THEN blocks + 1 ELSE blocks
      /\ pc[u] = "rows" /\ q.todo /= <<>> /\ UNCHANGED <<pc, results, dropped>>
  BY DEF FetchRow
<1>2. /\ query \in [Users -> Locals] /\ q \in Locals /\ q.rows \in Seq(Values)
      /\ q.type \in {"unset", "integer", "real", "text", "blob"}
      /\ ftype \in FieldTypes
  BY DEF QueryInv, QueryTypeOK, Locals
<1>3. t \in {"integer", "real", "text", "blob"}
  BY <1>2, MemberIsRead DEF TypeAfter
<1>4. v \in Values
  BY <1>3, MemberInUnion DEF Values
<1>5. v.set \in {"nothing", Member(v.type)}
  OBVIOUS
<1> HIDE DEF t, v
<1>6. query'[u].rows = Append(q.rows, v)
  BY <1>1, <1>2 DEF Locals
<1>7. Owned(query'[u].rows) = Owned(q.rows) + (IF Allocates(v) THEN 1 ELSE 0)
  BY <1>2, <1>4, <1>6, BlocksAppended
<1>8. Tagged(query'[u].rows)
  <2>1. Tagged(q.rows)
    BY DEF BlocksInv
  <2>2. /\ Len(q.rows) \in Nat /\ DOMAIN q.rows = 1..Len(q.rows)
        /\ Append(q.rows, v) \in Seq(Values) /\ Len(Append(q.rows, v)) = Len(q.rows) + 1
        /\ \A i \in 1..Len(q.rows) : Append(q.rows, v)[i] = q.rows[i]
        /\ Append(q.rows, v)[Len(q.rows) + 1] = v
    BY <1>2, <1>4, AppendProperties, LenProperties
  <2>3. DOMAIN Append(q.rows, v) = 1..(Len(q.rows) + 1)
    BY <2>2, LenProperties
  <2>4. \A i \in 1..(Len(q.rows) + 1) : i \in 1..Len(q.rows) \/ i = Len(q.rows) + 1
    BY <2>2
  <2> QED BY <2>1, <2>2, <2>3, <2>4, <1>5, <1>6 DEF Tagged
<1>9. /\ blocks \in Int /\ dropped \in Int /\ blocks' \in Int /\ dropped' \in Int
      /\ Owned(q.rows) \in Nat
  BY <1>1, <1>2, BlocksFinite DEF BlocksInv
<1>10. blocks' + dropped + Owned(query[u].rows) = blocks + dropped' + Owned(query'[u].rows)
  BY <1>1, <1>7, <1>9
<1> QED BY <1>1, <1>8, <1>9, <1>10, OnlyQueryChanges

\* A query that fails drops the blocks of its rows.
LEMMA BlocksDropped ==
  ASSUME QueryInv, QueryInv', BlocksInv, NEW u \in Users, QueryFails(u)
  PROVE  BlocksInv'
<1>1. /\ query' = [query EXCEPT ![u] = NoQuery] /\ UNCHANGED <<results, blocks>>
      /\ dropped' = dropped + Owned(query[u].rows)
  BY DEF QueryFails
<1>2. query'[u].rows = <<>>
  BY <1>1 DEF QueryInv, QueryTypeOK, NoQuery
<1>3. Owned(query[u].rows) \in Nat /\ Owned(query'[u].rows) = 0 /\ Tagged(query'[u].rows)
  BY <1>2, NoBlocks, QueryBlocksStep
<1>4. /\ blocks \in Int /\ dropped \in Int /\ blocks' \in Int /\ dropped' \in Int
  BY <1>1, <1>3 DEF BlocksInv
<1>5. blocks' + dropped + Owned(query[u].rows) = blocks + dropped' + Owned(query'[u].rows)
  BY <1>1, <1>3, <1>4
<1> QED BY <1>1, <1>2, <1>3, <1>4, <1>5, OnlyQueryChanges

\* A query that is done hands its blocks over to the result set.
LEMMA BlocksHandedOut ==
  ASSUME QueryInv, QueryInv', BlocksInv, NEW u \in Users, QueryDone(u)
  PROVE  BlocksInv'
<1>1. PICK r \in Results \ DOMAIN results :
        results' = [x \in DOMAIN results \union {r} |->
                      IF x /= r THEN results[x]
                      ELSE [rows |-> query[u].rows, of |-> query[u].seen, refs |-> 1]]
  BY DEF QueryDone, HandOut
<1>2. query' = [query EXCEPT ![u] = NoQuery] /\ UNCHANGED <<blocks, dropped>>
  BY DEF QueryDone
<1>3. query'[u].rows = <<>> /\ Users = {u}
  BY <1>2, OneUser DEF QueryInv, QueryTypeOK, NoQuery
<1>4. /\ IsFiniteSet(BlocksIn(QueryRows)')
      /\ Cardinality(BlocksIn(QueryRows)) = Owned(query[u].rows)
      /\ Cardinality(BlocksIn(QueryRows)') = 0
      /\ query[u].rows \in Seq(Values)
  BY <1>3, NoBlocks, QueryBlocksStep
<1>5. PICK f, g : f = ResultRows /\ g = [x \in DOMAIN results' |-> results'[x].rows]
  OBVIOUS
<1>6. /\ DOMAIN f = DOMAIN results /\ DOMAIN g = DOMAIN f \union {r} /\ r \notin DOMAIN f
      /\ \A x \in DOMAIN f : g[x] = f[x] /\ f[x] = results[x].rows
      /\ g[r] = query[u].rows
  BY <1>1, <1>5 DEF ResultRows
<1>7. IsFiniteSet(BlocksIn(f))
  BY <1>5 DEF BlocksInv
<1>8. /\ IsFiniteSet(BlocksIn(g)) /\ Cardinality(BlocksIn(f)) \in Nat
      /\ Cardinality(BlocksIn(g)) = Cardinality(BlocksIn(f)) + Owned(query[u].rows)
  BY <1>4, <1>6, <1>7, BlocksWithOneMore
<1>9. BlocksIn(ResultRows)' = BlocksIn(g)
  BY <1>5 DEF ResultRows, BlocksIn, Blocks, Allocates
<1>10. BlocksOwned'
  <2>1. blocks = dropped + Cardinality(BlocksIn(f)) + Owned(query[u].rows)
    BY <1>4, <1>5 DEF BlocksInv, BlocksOwned
  <2>2. dropped \in Int /\ Owned(query[u].rows) \in Nat
    BY <1>4, BlocksFinite DEF BlocksInv
  <2>3. blocks = dropped + Cardinality(BlocksIn(g)) + 0
    BY <2>1, <2>2, <1>8
  <2> QED BY <2>3, <1>2, <1>4, <1>9 DEF BlocksOwned
<1>11. \A x \in DOMAIN results' : Tagged(results'[x].rows)
  <2>1. \A x \in DOMAIN results' : results'[x].rows = g[x]
    BY <1>5
  <2>2. Tagged(g[r]) /\ \A x \in DOMAIN results : Tagged(g[x])
    BY <1>6 DEF BlocksInv
  <2> QED BY <2>1, <2>2, <1>5, <1>6
<1>12. \A w \in Users : Tagged(query'[w].rows) /\ query'[w].rows = <<>>
  BY <1>3, NoBlocks
<1>13. blocks' \in Int /\ dropped' \in Int
  BY <1>2 DEF BlocksInv
<1> QED BY <1>4, <1>8, <1>9, <1>10, <1>11, <1>12, <1>13 DEF BlocksInv

\* What a release frees is what the rows own.
LEMMA FreesOwned ==
  ASSUME NEW rows \in Seq(Values), Tagged(rows)
  PROVE  Frees(rows) = Owned(rows)
<1>1. ASSUME NEW i \in DOMAIN rows
      PROVE  rows[i].type \in {"text", "blob"} /\ rows[i].set /= "nothing"
               <=> Allocates(rows[i])
  <2>1. /\ rows[i].set \in {"nothing", Member(rows[i].type)}
        /\ rows[i].type \in {"integer", "real", "text", "blob"}
    <3>1. rows[i] \in Values
      BY ElementOfSeq, LenProperties
    <3> QED BY <3>1 DEF Tagged, Values
  <2>2. CASE rows[i].type \in {"text", "blob"}
    BY <2>1, <2>2 DEF Member, Allocates
  <2>3. CASE rows[i].type \in {"integer", "real"}
    BY <2>1, <2>3 DEF Member, Allocates
  <2> QED BY <2>1, <2>2, <2>3
<1>2. {i \in DOMAIN rows : rows[i].type \in {"text", "blob"} /\ rows[i].set /= "nothing"}
        = Blocks(rows)
  BY <1>1 DEF Blocks
<1> QED BY <1>2 DEF Frees, Owned

\* References may come and go; with the last one go exactly the result's blocks.
LEMMA BlocksReleased ==
  ASSUME QueryInv, BlocksInv, NEW r \in DOMAIN results, Retain(r) \/ Release(r)
  PROVE  BlocksInv'
<1>1. /\ UNCHANGED <<pc, query, dropped>> /\ BlocksIn(QueryRows)' = BlocksIn(QueryRows)
  BY DEF Retain, Release, vars, driver, QueryRows, BlocksIn, Blocks, Allocates
<1>2. /\ \A x \in DOMAIN results : results[x].rows \in Seq(Values) /\ Tagged(results[x].rows)
      /\ IsFiniteSet(BlocksIn(QueryRows)) /\ Cardinality(BlocksIn(QueryRows)) \in Nat
      /\ IsFiniteSet(BlocksIn(ResultRows)) /\ Cardinality(BlocksIn(ResultRows)) \in Nat
  BY FS_CardinalityType DEF BlocksInv, QueryInv, QueryTypeOK
<1>3. PICK f, g : f = ResultRows /\ g = [x \in DOMAIN results' |-> results'[x].rows]
  OBVIOUS
<1>4. BlocksIn(ResultRows)' = BlocksIn(g)
  BY <1>3 DEF ResultRows, BlocksIn, Blocks, Allocates
<1>5. ASSUME \A x \in DOMAIN results' : x \in DOMAIN results /\ g[x] = f[x],
             blocks' \in Int, IsFiniteSet(BlocksIn(g)),
             blocks' = dropped + Cardinality(BlocksIn(g)) + Cardinality(BlocksIn(QueryRows))
      PROVE  BlocksInv'
  <2>1. \A x \in DOMAIN results' : Tagged(results'[x].rows)
    BY <1>2, <1>3, <1>5 DEF ResultRows
  <2>2. BlocksOwned'
    BY <1>1, <1>4, <1>5 DEF BlocksOwned
  <2>3. /\ \A w \in Users : Tagged(query'[w].rows)
        /\ \A w \in Users : pc'[w] /= "rows" => query'[w].rows = <<>>
        /\ dropped' \in Int
    BY <1>1 DEF BlocksInv
  <2> QED BY <2>1, <2>2, <2>3, <1>1, <1>2, <1>4, <1>5 DEF BlocksInv
<1>6. CASE Retain(r) \/ (results[r].refs > 1 /\ Release(r))
  <2>1. /\ UNCHANGED blocks
        /\ \/ results' = [results EXCEPT ![r].refs = @ + 1]
           \/ results' = [results EXCEPT ![r].refs = @ - 1]
    BY <1>6 DEF Retain, Release
  <2>2. ASSUME NEW k, results' = [results EXCEPT ![r].refs = k]
        PROVE  /\ DOMAIN results' = DOMAIN results
               /\ \A x \in DOMAIN results : results'[x].rows = results[x].rows
    <3>1. \A x \in DOMAIN results :
             results[x] \in [rows : Seq(Values), of : TableRows, refs : Nat]
      BY DEF QueryInv, QueryTypeOK
    <3> QED BY <2>2, <3>1
  <2>3. /\ DOMAIN results' = DOMAIN results
        /\ \A x \in DOMAIN results : results'[x].rows = results[x].rows
    BY <2>1, <2>2
  <2>4. g = f
    BY <2>3, <1>3 DEF ResultRows
  <2>5. blocks = dropped + Cardinality(BlocksIn(f)) + Cardinality(BlocksIn(QueryRows))
        /\ blocks \in Int
    BY <1>3 DEF BlocksInv, BlocksOwned
  <2> QED BY <2>1, <2>3, <2>4, <2>5, <1>2, <1>3, <1>5
<1>7. CASE ~(results[r].refs > 1) /\ Release(r)
  <2>1. /\ results' = [x \in DOMAIN results \ {r} |-> results[x]]
        /\ blocks' = blocks - Frees(results[r].rows)
    BY <1>7 DEF Release
  <2>2. /\ r \notin DOMAIN g /\ DOMAIN f = DOMAIN g \union {r}
        /\ \A x \in DOMAIN g : x \in DOMAIN results /\ g[x] = f[x]
        /\ DOMAIN g = DOMAIN results' /\ f[r] = results[r].rows
    BY <2>1, <1>3 DEF ResultRows
  <2>3. /\ IsFiniteSet(BlocksIn(g)) /\ Cardinality(BlocksIn(g)) \in Nat
        /\ Cardinality(BlocksIn(f)) = Cardinality(BlocksIn(g)) + Owned(f[r])
    <3>1. f[r] \in Seq(Values) /\ \A x \in DOMAIN g : f[x] = g[x]
      BY <2>2, <1>2
    <3> QED BY <3>1, <2>2, <1>2, <1>3, BlocksWithOneMore
  <2>4. Frees(results[r].rows) = Owned(f[r]) /\ Owned(f[r]) \in Nat
    BY <2>2, <1>2, FreesOwned, BlocksFinite
  <2>5. /\ blocks = dropped + Cardinality(BlocksIn(f)) + Cardinality(BlocksIn(QueryRows))
        /\ blocks \in Int /\ dropped \in Int
    BY <1>3 DEF BlocksInv, BlocksOwned
  <2>6. /\ blocks' \in Int
        /\ blocks' = dropped + Cardinality(BlocksIn(g)) + Cardinality(BlocksIn(QueryRows))
    <3>1. PICK n \in Int, o \in Int, c \in Int, b \in Int, d \in Int :
            /\ n = Cardinality(BlocksIn(g)) /\ o = Owned(f[r])
            /\ c = Cardinality(BlocksIn(QueryRows)) /\ b = blocks /\ d = dropped
      BY <2>3, <2>4, <2>5, <1>2
    <3>2. b = d + (n + o) + c /\ blocks' = b - o
      BY <3>1, <2>1, <2>3, <2>4, <2>5
    <3>3. b - o = d + n + c /\ b - o \in Int
      BY <3>2
    <3> QED BY <3>1, <3>2, <3>3
  <2> QED BY <2>2, <2>3, <2>6, <1>5
<1> QED BY <1>6, <1>7

\* The steps of the driver, and of other connections, leave the rows alone.
LEMMA BlocksElsewhere ==
  ASSUME QueryInv, BlocksInv,
         Driver \/ (\E v \in {"null", "some"} : Insert(v)) \/ AddColumn \/ UNCHANGED allVars
  PROVE  BlocksInv'
<1>1. UNCHANGED <<query, results, blocks, dropped>>
  BY DEF Driver, queryVars, Insert, AddColumn, allVars
<1>2. \A u \in Users : pc'[u] /= "rows" => pc[u] /= "rows"
  <2>1. CASE Driver
    <3>1. CASE Close \/ Open
      BY <3>1 DEF Close, Open
    <3>2. ASSUME NEW u \in Users,
                 (\E q \in Sqls : Call(u, q)) \/ PrepareFails(u) \/ Store(u) \/ RunFails(u)
          PROVE  pc[u] /= "rows"
      BY <3>2 DEF Call, PrepareFails, Store, RunFails
    <3> QED BY <2>1, <3>1, <3>2, OneUser DEF Driver
  <2>2. CASE (\E v \in {"null", "some"} : Insert(v)) \/ AddColumn \/ UNCHANGED allVars
    BY <2>2 DEF Insert, AddColumn, allVars, vars, driver
  <2> QED BY <2>1, <2>2
<1> QED BY <1>1, <1>2, BlocksKept

\* At first there is no block and no row.
LEMMA BlocksInvInit == QInit => BlocksInv
<1> SUFFICES ASSUME QInit PROVE BlocksInv
  OBVIOUS
<1>1. /\ results = <<>> /\ blocks = 0 /\ dropped = 0
      /\ \A u \in Users : query[u].rows = <<>>
  BY DEF QInit, NoQuery
<1>2. BlocksIn(ResultRows) = {}
  BY <1>1 DEF BlocksIn, ResultRows
<1>3. BlocksIn(QueryRows) = {}
  <2>1. Blocks(<<>>) = {}
    BY DEF Blocks
  <2>2. \A u \in Users : Blocks(QueryRows[u]) = {}
    BY <2>1, <1>1 DEF QueryRows
  <2> QED BY <2>2 DEF BlocksIn, QueryRows
<1>4. /\ IsFiniteSet(BlocksIn(ResultRows)) /\ Cardinality(BlocksIn(ResultRows)) = 0
      /\ IsFiniteSet(BlocksIn(QueryRows)) /\ Cardinality(BlocksIn(QueryRows)) = 0
  BY <1>2, <1>3, FS_EmptySet
<1>5. BlocksOwned
  BY <1>1, <1>4 DEF BlocksOwned
<1>6. \A u \in Users : Tagged(query[u].rows)
  BY <1>1, NoBlocks
<1> QED BY <1>1, <1>4, <1>5, <1>6 DEF BlocksInv

(***************************************************************************)
(* The theorems                                                            *)
(***************************************************************************)

\* Nothing is open, cached or read at first.
LEMMA QueryInvInit == QInit => QueryInv
<1> SUFFICES ASSUME QInit PROVE QueryInv
  OBVIOUS
<1> USE DEF QInit, Init
<1>1. lru = <<>> /\ freed = {} /\ ret = NoStmt /\ \A u \in Users : pc[u] = "idle"
  BY DEF CacheInit
<1>2. CacheInv
  BY <1>1, CacheConstants DEF CacheInv, CacheTypeOK, CacheBounded, CacheDistinct
<1>3. DriverTypeOK
  BY DEF DriverTypeOK
<1>4. NotYetStored /\ RunsOwnStmt
  BY <1>1 DEF NotYetStored, RunsOwnStmt
<1>5. CacheCoherent /\ CachedStmts = {}
  BY <1>1 DEF CacheCoherent, CachedStmts
<1>6. NoStmtLost
  BY <1>1, <1>5 DEF NoStmtLost
<1>7. DOMAIN results = {}
  OBVIOUS
<1>8. QueryTypeOK
  <2>1. NoQuery \in Locals
    BY NoQueryTyped
  <2>2. table \in TableRows
    BY EmptySeq DEF TableRows
  <2> QED BY <2>1, <2>2, <1>7 DEF QueryTypeOK
<1>9. CompiledBefore /\ Counted /\ Reading /\ RowsComplete /\ FieldsAsStored
  BY <1>1, <1>7 DEF CompiledBefore, Counted, Reading, RowsComplete, FieldsAsStored
<1> QED BY <1>2, <1>3, <1>4, <1>5, <1>6, <1>8, <1>9 DEF QueryInv, DriverInv

\* Every step of the driver keeps the invariant.
LEMMA QueryInvStep == QueryInv /\ [QNext]_allVars => QueryInv'
<1> SUFFICES ASSUME QueryInv, [QNext]_allVars PROVE QueryInv'
  OBVIOUS
<1>1. CASE Driver
  BY <1>1, DriverStep
<1>2. ASSUME NEW u \in Users,
             \/ QPrepare(u) \/ QExec(u) \/ CountColumns(u) \/ FirstStep(u)
             \/ FetchRow(u) \/ QueryFails(u) \/ QueryDone(u)
      PROVE  QueryInv'
  BY <1>2, QPrepareStep, QExecStep, CountColumnsStep, FirstStepStep, FetchRowStep,
     QueryFailsStep, QueryDoneStep
<1>3. ASSUME NEW r \in DOMAIN results, Retain(r) \/ Release(r) PROVE QueryInv'
  BY <1>3, ResultsStep
<1>4. CASE (\E v \in {"null", "some"} : Insert(v)) \/ AddColumn
  BY <1>4, TableStep
<1>5. CASE UNCHANGED allVars
  <2>1. /\ UNCHANGED <<cacheVars, open, text, pc, sql, stmt, connected, oom>>
        /\ UNCHANGED <<ftype, table, width, compiled, query, results>>
    BY <1>5 DEF allVars, vars, driver, queryVars
  <2>2. DriverInv /\ connected' \in BOOLEAN
    BY <2>1 DEF QueryInv, DriverInv, DriverTypeOK
  <2>3. DriverInv'
    BY <2>1, <2>2, DriverKept
  <2> QED BY <2>1, <2>3, QueriesKept
<1> QED BY <1>1, <1>2, <1>3, <1>4, <1>5 DEF QNext

\* The invariant holds in every state of the driver.
THEOREM QueryInvariant == QSpec => []QueryInv
BY QueryInvInit, QueryInvStep, PTL DEF QSpec

\* The driver only steps, resets or finalizes statements that are open and were
\* prepared from the text of the call, whatever the cache evicts or fails to store.
THEOREM DriverRunsOwnStmt == QSpec => []RunsOwnStmt
<1>1. QueryInv => RunsOwnStmt
  BY DEF QueryInv, DriverInv
<1> QED BY <1>1, QueryInvariant, PTL

\* No finalized statement is left in the cache, and each stands for its text.
THEOREM CacheStaysCoherent == QSpec => []CacheCoherent
<1>1. QueryInv => CacheCoherent
  BY DEF QueryInv, DriverInv
<1> QED BY <1>1, QueryInvariant, PTL

\* Unless the cache has run out of memory, no open statement is forgotten.
THEOREM NoOpenStmtLost == QSpec => []NoStmtLost
<1>1. QueryInv => NoStmtLost
  BY DEF QueryInv, DriverInv
<1> QED BY <1>1, QueryInvariant, PTL

\* A result set has every row its statement saw, for tables of any length.
THEOREM ResultsComplete == QSpec => []RowsComplete
<1>1. QueryInv => RowsComplete
  BY DEF QueryInv
<1> QED BY <1>1, QueryInvariant, PTL

\* A field of any type comes back from every row as it was stored, except from a
\* column whose first row is NULL.
THEOREM ResultsAsStored == QSpec => []FieldsAsStored
<1>1. QueryInv => FieldsAsStored
  BY DEF QueryInv
<1> QED BY <1>1, QueryInvariant, PTL

\* However often the table is widened between the count of the columns and the
\* first step, no row is read past its cells.
THEOREM ReadsWithinRow == QSpec => []WithinRow
<1>1. QueryInv => WithinRow
  BY DEF QueryInv, Reading, WithinRow
<1> QED BY <1>1, QueryInvariant, PTL

\* Every text and blob that sqlite_query allocates has exactly one owner until a
\* release frees it, but for those an error drops: for any number of result sets,
\* rows and references.
THEOREM BlocksStayOwned == QSpec => []BlocksOwned
<1>1. QueryInv /\ QueryInv' /\ BlocksInv /\ [QNext]_allVars => BlocksInv'
  <2> SUFFICES ASSUME QueryInv, QueryInv', BlocksInv, [QNext]_allVars PROVE BlocksInv'
    OBVIOUS
  <2>1. ASSUME NEW u \in Users,
               \/ QPrepare(u) \/ QExec(u) \/ CountColumns(u) \/ FirstStep(u)
               \/ FetchRow(u) \/ QueryFails(u) \/ QueryDone(u)
        PROVE  BlocksInv'
    BY <2>1, BlocksBeforeRows, BlocksFetched, BlocksDropped, BlocksHandedOut
  <2>2. ASSUME NEW r \in DOMAIN results, Retain(r) \/ Release(r) PROVE BlocksInv'
    BY <2>2, BlocksReleased
  <2>3. CASE Driver \/ (\E v \in {"null", "some"} : Insert(v)) \/ AddColumn \/ UNCHANGED allVars
    BY <2>3, BlocksElsewhere
  <2> QED BY <2>1, <2>2, <2>3 DEF QNext
<1>2. BlocksInv => BlocksOwned
  BY DEF BlocksInv
<1> QED BY <1>1, <1>2, BlocksInvInit, QueryInvariant, PTL DEF QSpec

=============================================================================
