--------------------------- MODULE ConnPoolProofs ---------------------------
(***************************************************************************)
(* Proofs about ConnPool, for every number of threads and connections and  *)
(* every configuration of the pool.                                        *)
(***************************************************************************)
EXTENDS ConnPool, FiniteSetTheorems, SequenceTheorems, TLAPS

(***************************************************************************)
(* pthread_cond_signal                                                     *)
(***************************************************************************)

\* A signal moves nobody but a waiter, and only to "woken".
LEMMA SignalMovesWaiters ==
  ASSUME NEW p \in [Threads -> PC], NEW q \in Signal(p)
  PROVE  /\ q \in [Threads -> PC]
         /\ \A u \in Threads : \/ q[u] = p[u]
                               \/ p[u] = "waiting" /\ q[u] = "woken"
<1>1. CASE {w \in Threads : p[w] = "waiting"} = {}
  BY <1>1 DEF Signal
<1>2. CASE {w \in Threads : p[w] = "waiting"} /= {}
  <2>1. PICK w \in Threads : p[w] = "waiting" /\ q = [p EXCEPT ![w] = "woken"]
    BY <1>2 DEF Signal
  <2> QED BY <2>1 DEF PC
<1> QED BY <1>1, <1>2

\* If somebody still waits after a signal, the signal has woken somebody.
LEMMA SignalWakesOne ==
  ASSUME NEW p \in [Threads -> PC], NEW q \in Signal(p),
         NEW u \in Threads, q[u] = "waiting"
  PROVE  \E w \in Threads : p[w] = "waiting" /\ q = [p EXCEPT ![w] = "woken"]
<1>1. {w \in Threads : p[w] = "waiting"} /= {}
  BY SignalMovesWaiters
<1> QED BY <1>1 DEF Signal

\* Where the thread that moves and the one woken end up, for a step that ends
\* with a signal.
LEMMA MoveAndSignal ==
  ASSUME TypeOK, NEW t \in Threads, NEW x \in PC \ {"waiting"},
         pc' \in Signal([pc EXCEPT ![t] = x])
  PROVE  /\ pc' \in [Threads -> PC]
         /\ pc'[t] = x
         /\ \A u \in Threads \ {t} : \/ pc'[u] = pc[u]
                                     \/ pc[u] = "waiting" /\ pc'[u] = "woken"
<1> DEFINE p == [pc EXCEPT ![t] = x]
<1>1. p \in [Threads -> PC] /\ p[t] = x /\ \A u \in Threads \ {t} : p[u] = pc[u]
  BY DEF TypeOK
<1> HIDE DEF p
<1>2. pc' \in Signal(p)
  BY DEF p
<1> QED BY <1>1, <1>2, SignalMovesWaiters

(***************************************************************************)
(* The idle list                                                           *)
(***************************************************************************)

\* Taking the first element of a list without duplicates.
LEMMA PopList ==
  ASSUME NEW S, NEW s \in Seq(S), s /= <<>>, IsInjective(s)
  PROVE  /\ Tail(s) \in Seq(S) /\ Len(Tail(s)) = Len(s) - 1 /\ Len(s) \in Nat \ {0}
         /\ Head(s) \in S /\ Head(s) \in Range(s)
         /\ IsInjective(Tail(s))
         /\ Range(Tail(s)) = Range(s) \ {Head(s)}
<1>1. /\ Head(s) \in S /\ Head(s) = s[1] /\ Tail(s) \in Seq(S)
      /\ Len(Tail(s)) = Len(s) - 1
      /\ \A i \in 1..Len(Tail(s)) : Tail(s)[i] = s[i+1]
  BY HeadTailProperties
<1>2. Len(s) \in Nat \ {0} /\ DOMAIN s = 1..Len(s)
      /\ DOMAIN Tail(s) = 1..Len(Tail(s))
  BY <1>1, EmptySeq, LenProperties
<1>3. IsInjective(Tail(s))
  BY <1>1, <1>2 DEF IsInjective
<1>4. ASSUME NEW x \in Range(Tail(s)) PROVE x \in Range(s) /\ x /= Head(s)
  BY <1>1, <1>2 DEF IsInjective, Range
<1>5. ASSUME NEW x \in Range(s), x /= Head(s) PROVE x \in Range(Tail(s))
  <2>1. PICK i \in 1..Len(s) : x = s[i]
    BY <1>2 DEF Range
  <2>2. i - 1 \in 1..Len(Tail(s)) /\ Tail(s)[i-1] = s[i]
    BY <2>1, <1>1, <1>2, <1>5
  <2> QED BY <2>1, <2>2, <1>2 DEF Range
<1>6. Head(s) \in Range(s)
  BY <1>1, <1>2 DEF Range
<1> QED BY <1>1, <1>2, <1>3, <1>4, <1>5, <1>6

\* Putting a new element in front of a list without duplicates.
LEMMA PushList ==
  ASSUME NEW S, NEW s \in Seq(S), NEW c \in S, c \notin Range(s), IsInjective(s)
  PROVE  /\ <<c>> \o s \in Seq(S) /\ Len(<<c>> \o s) = Len(s) + 1
         /\ Len(s) \in Nat
         /\ IsInjective(<<c>> \o s)
         /\ Range(<<c>> \o s) = Range(s) \union {c}
<1> DEFINE r == <<c>> \o s
<1>1. <<c>> \in Seq(S) /\ Len(<<c>>) = 1 /\ <<c>>[1] = c
  OBVIOUS
<1>2. /\ r \in Seq(S) /\ Len(r) = 1 + Len(s)
      /\ \A i \in 1..(1 + Len(s)) : r[i] = IF i <= 1 THEN <<c>>[i] ELSE s[i - 1]
  BY <1>1, ConcatProperties
<1>3. Len(s) \in Nat /\ DOMAIN s = 1..Len(s) /\ DOMAIN r = 1..(1 + Len(s))
  BY <1>2, LenProperties
<1> HIDE DEF r
<1>4. r[1] = c /\ \A i \in 1..Len(s) : r[i + 1] = s[i]
  BY <1>1, <1>2, <1>3
<1>5. \A i \in DOMAIN r : i = 1 \/ (i - 1 \in DOMAIN s /\ r[i] = s[i - 1])
  BY <1>2, <1>3
<1>6. IsInjective(r)
  BY <1>3, <1>4, <1>5 DEF IsInjective, Range
<1>7. Range(r) = Range(s) \union {c}
  <2>1. ASSUME NEW x \in Range(r) PROVE x \in Range(s) \union {c}
    BY <1>4, <1>5 DEF Range
  <2>2. ASSUME NEW x \in Range(s) PROVE x \in Range(r)
    <3>1. PICK i \in 1..Len(s) : x = s[i]
      BY <1>3 DEF Range
    <3>2. i + 1 \in DOMAIN r /\ r[i + 1] = x
      BY <3>1, <1>3, <1>4
    <3> QED BY <3>2 DEF Range
  <2>3. c \in Range(r)
    BY <1>3, <1>4 DEF Range
  <2> QED BY <2>1, <2>2, <2>3
<1> QED BY <1>2, <1>3, <1>6, <1>7 DEF r

(***************************************************************************)
(* Counting                                                                *)
(***************************************************************************)

\* The sets of threads the counters are compared with are finite.
LEMMA ThreadSetsFinite ==
  ASSUME NEW p
  PROVE  /\ IsFiniteSet({t \in Threads : p[t] \in {"opening", "failed", "closed"}})
         /\ IsFiniteSet({t \in Threads : p[t] \in {"entering", "woken"}})
BY PoolConstants, FS_Subset

\* How far a step that moves one thread and wakes waiters changes Reserving.
LEMMA ReservingMoves ==
  ASSUME TypeOK, NEW t \in Threads, pc' \in [Threads -> PC],
         \A u \in Threads \ {t} : \/ pc'[u] = pc[u]
                                  \/ pc[u] = "waiting" /\ pc'[u] = "woken"
  PROVE  /\ Cardinality(Reserving) \in Nat /\ Cardinality(Reserving') \in Nat
         /\ t \in Reserving => Cardinality(Reserving) > 0
         /\ Cardinality(Reserving') =
              Cardinality(Reserving) + (IF t \in Reserving' THEN 1 ELSE 0)
                                     - (IF t \in Reserving THEN 1 ELSE 0)
<1>1. IsFiniteSet(Reserving) /\ IsFiniteSet(Reserving')
  BY ThreadSetsFinite DEF Reserving
<1>2. Cardinality(Reserving) \in Nat /\ Cardinality(Reserving') \in Nat
  BY <1>1, FS_CardinalityType
<1>3. CASE t \in Reserving /\ t \in Reserving'
  <2>1. Reserving' = Reserving
    BY <1>3 DEF Reserving
  <2> QED BY <1>1, <1>2, <1>3, <2>1, FS_EmptySet
<1>4. CASE t \in Reserving /\ t \notin Reserving'
  <2>1. Reserving' = Reserving \ {t}
    BY <1>4 DEF Reserving
  <2> QED BY <1>1, <1>2, <1>4, <2>1, FS_RemoveElement
<1>5. CASE t \notin Reserving /\ t \in Reserving'
  <2>1. Reserving' = Reserving \union {t}
    BY <1>5 DEF Reserving
  <2> QED BY <1>1, <1>2, <1>5, <2>1, FS_AddElement
<1>6. CASE t \notin Reserving /\ t \notin Reserving'
  <2>1. Reserving' = Reserving
    BY <1>6 DEF Reserving
  <2> QED BY <1>2, <1>6, <2>1
<1> QED BY <1>3, <1>4, <1>5, <1>6

\* An open handle is counted.
LEMMA AliveCounted ==
  ASSUME PoolInv, NEW c \in alive
  PROVE  /\ Cardinality(alive) \in Nat \ {0}
         /\ IsFiniteSet(alive \ {c})
         /\ Cardinality(alive \ {c}) = Cardinality(alive) - 1
BY FS_CardinalityType, FS_EmptySet, FS_RemoveElement DEF PoolInv

\* A connection at the head of the list, or owned by a thread, is open.
LEMMA OwnedAlive ==
  ASSUME PoolInv
  PROVE  /\ idle /= <<>> => Head(idle) \in alive
         /\ \A t \in Threads : pc[t] = "pinging" => db[t] \in alive
         /\ \A t \in Threads : lent[t] \subseteq alive
<1> USE DEF PoolInv, TypeOK, SoleOwner, AliveOwned, PingsOwned
<1>1. idle /= <<>> => Head(idle) \in Range(idle) /\ Head(idle) \in Conns
  BY PopList DEF IdleDistinct
<1> QED BY <1>1

\* The list holds connections.
LEMMA IdleInConns ==
  ASSUME TypeOK
  PROVE  Range(idle) \subseteq Conns
BY LenProperties, ElementOfSeq DEF TypeOK, Range

\* Comparing two sets of threads that differ in one element at most.
LEMMA CompareThreadSets ==
  ASSUME NEW S \in SUBSET Threads, NEW T \in SUBSET Threads, NEW t \in Threads
  PROVE  /\ Cardinality(S) \in Nat /\ Cardinality(T) \in Nat
         /\ S \subseteq T => Cardinality(S) <= Cardinality(T)
         /\ S \ {t} \subseteq T => Cardinality(S) - 1 <= Cardinality(T)
         /\ (t \notin S /\ S \union {t} \subseteq T) =>
               Cardinality(S) + 1 <= Cardinality(T)
<1>1. IsFiniteSet(S) /\ IsFiniteSet(T)
  BY PoolConstants, FS_Subset
<1>2. Cardinality(S) \in Nat /\ Cardinality(T) \in Nat
  BY <1>1, FS_CardinalityType
<1>3. S \subseteq T => Cardinality(S) <= Cardinality(T)
  BY <1>1, FS_Subset
<1>4. ASSUME S \ {t} \subseteq T PROVE Cardinality(S) - 1 <= Cardinality(T)
  <2>1. Cardinality(S \ {t}) <= Cardinality(T)
    BY <1>1, <1>4, FS_Subset
  <2>2. Cardinality(S \ {t}) \in {Cardinality(S), Cardinality(S) - 1}
    BY <1>1, FS_RemoveElement
  <2> QED BY <1>2, <2>1, <2>2
<1>5. ASSUME t \notin S, S \union {t} \subseteq T
      PROVE  Cardinality(S) + 1 <= Cardinality(T)
  <2>1. Cardinality(S \union {t}) <= Cardinality(T)
    BY <1>1, <1>5, FS_Subset
  <2>2. Cardinality(S \union {t}) = Cardinality(S) + 1
    BY <1>1, <1>5, FS_AddElement
  <2> QED BY <2>1, <2>2
<1> QED BY <1>2, <1>3, <1>4, <1>5

(***************************************************************************)
(* Every step preserves PoolInv                                            *)
(***************************************************************************)

\* The steps that only move one thread: acquire entered, the waits, giving up.
LEMMA MoveStep ==
  ASSUME PoolInv, NEW t \in Threads,
         \/ Acquire(t) \/ Wait(t) \/ SpuriousWakeup(t) \/ Timeout(t) \/ GiveUp(t)
  PROVE  PoolInv'
<1> USE DEF PoolInv
<1> DEFINE Plain == {"out", "entering", "waiting", "woken", "timedout"}
<1>1. /\ UNCHANGED <<counters, idle, alive, expired, locals, lent, destroyed>>
      /\ pc[t] \in Plain /\ ~destroyed
      /\ \E x \in Plain : pc' = [pc EXCEPT ![t] = x]
  BY DEF Acquire, Wait, SpuriousWakeup, Timeout, GiveUp, AtTest, Goto, Quiet
<1>2. PICK x \in Plain : pc' = [pc EXCEPT ![t] = x]
  BY <1>1
<1>3. TypeOK' /\ IsFiniteSet(alive')
  BY <1>1, <1>2 DEF TypeOK, PC, counters, locals
<1>4. Reserving' = Reserving
  BY <1>1, <1>2 DEF TypeOK, Reserving
<1>5. Accounting' /\ SlotBound' /\ OpenBound' /\ IdleBound'
  BY <1>1, <1>4 DEF Accounting, SlotBound, OpenBound, IdleBound, counters
<1>6. Quiet' /\ TriesLeft' /\ PingsOwned'
  BY <1>1, <1>2 DEF TypeOK, Quiet, TriesLeft, PingsOwned, locals
<1>7. SoleOwner'
  BY <1>1 DEF SoleOwner, IdleDistinct, IdleUnused, BorrowedOnce, AliveOwned, locals
<1>8. NoLostWakeup'
  <2>1. /\ Testing \in SUBSET Threads /\ Testing' \in SUBSET Threads
        /\ Len(idle) \in Nat /\ current_open \in Nat
    BY LenProperties DEF Testing, TypeOK
  <2>2. CASE Wait(t)
    <3>1. MaxOpen > 0 => Len(idle) + (MaxOpen - current_open) <= 0
      BY <2>1, <2>2, EmptySeq, PoolConstants DEF Wait, MustWait
    <3> QED
      BY <1>1, <2>1, <3>1, CompareThreadSets, PoolConstants
      DEF NoLostWakeup, counters
  <2>3. CASE ~Wait(t)
    <3>1. Testing \subseteq Testing' /\ Waiting' \subseteq Waiting
      BY <2>3 DEF Acquire, SpuriousWakeup, Timeout, GiveUp, Goto, TypeOK,
                  Testing, Waiting
    <3>2. Cardinality(Testing) \in Nat /\ Cardinality(Testing') \in Nat
          /\ Cardinality(Testing) <= Cardinality(Testing')
      BY <2>1, <3>1, CompareThreadSets
    <3> QED
      BY <1>1, <2>1, <3>1, <3>2, PoolConstants DEF NoLostWakeup, counters
  <2> QED BY <2>2, <2>3
<1> QED BY <1>3, <1>5, <1>6, <1>7, <1>8

\* An idle connection that is too old is closed.
LEMMA PopExpiredStep ==
  ASSUME PoolInv, NEW t \in Threads, PopExpired(t)
  PROVE  PoolInv'
<1> USE DEF PoolInv
<1> DEFINE h == Head(idle)
<1>1. /\ idle' = Tail(idle) /\ idle_count' = idle_count - 1
      /\ alive' = alive \ {h} /\ expired' = expired \ {h}
      /\ current_open' = current_open - 1
      /\ idle /= <<>> /\ ~destroyed /\ ~destroyed'
      /\ pc[t] \in {"entering", "woken", "timedout"}
      /\ UNCHANGED <<db, retried, lent, destroyed>>
  BY DEF PopExpired, MayPop, PopIdle, Close, Quiet, locals
<1>2. /\ pc' \in [Threads -> PC] /\ pc'[t] = "entering"
      /\ \A u \in Threads \ {t} : \/ pc'[u] = pc[u]
                                  \/ pc[u] = "waiting" /\ pc'[u] = "woken"
  BY MoveAndSignal DEF PopExpired, PC
<1>3. /\ Tail(idle) \in Seq(Conns) /\ Len(Tail(idle)) = Len(idle) - 1
      /\ Len(idle) \in Nat \ {0} /\ IsInjective(Tail(idle))
      /\ h \in Conns /\ Range(Tail(idle)) = Range(idle) \ {h}
      /\ h \in Range(idle)
  BY <1>1, PopList DEF TypeOK, SoleOwner, IdleDistinct
<1>4. /\ Cardinality(alive) \in Nat \ {0} /\ IsFiniteSet(alive \ {h})
      /\ Cardinality(alive \ {h}) = Cardinality(alive) - 1 /\ h \in alive
  BY <1>1, OwnedAlive, AliveCounted
<1>5. /\ Cardinality(Reserving) \in Nat /\ Cardinality(Reserving') = Cardinality(Reserving)
  BY <1>1, <1>2, ReservingMoves DEF Reserving
<1> HIDE DEF h
<1>6. Accounting'
  BY <1>1, <1>3, <1>4, <1>5 DEF Accounting, TypeOK
<1>7. TypeOK' /\ IsFiniteSet(alive')
  BY <1>1, <1>2, <1>3, <1>4, <1>5 DEF TypeOK, Accounting
<1>8. SlotBound' /\ OpenBound' /\ IdleBound'
  BY <1>1, <1>3, <1>4, PoolConstants DEF SlotBound, OpenBound, IdleBound, TypeOK
<1>9. Quiet' /\ TriesLeft' /\ PingsOwned'
  BY <1>1, <1>2 DEF TypeOK, Quiet, TriesLeft, PingsOwned
<1>10. SoleOwner'
  BY <1>1, <1>3 DEF SoleOwner, IdleDistinct, IdleUnused, BorrowedOnce, AliveOwned
<1>11. NoLostWakeup'
  <2>1. /\ Testing \in SUBSET Threads /\ Testing' \in SUBSET Threads
        /\ Testing \subseteq Testing' /\ Waiting' \subseteq Waiting
    BY <1>1, <1>2 DEF Testing, Waiting, TypeOK
  <2>2. /\ Cardinality(Testing) \in Nat /\ Cardinality(Testing') \in Nat
        /\ Cardinality(Testing) <= Cardinality(Testing')
    BY <2>1, CompareThreadSets
  <2> QED BY <1>1, <1>3, <2>1, <2>2, PoolConstants DEF NoLostWakeup, TypeOK
<1> QED BY <1>6, <1>7, <1>8, <1>9, <1>10, <1>11

\* An idle connection is taken out of the list to be pinged.
LEMMA PopFreshStep ==
  ASSUME PoolInv, NEW t \in Threads, PopFresh(t)
  PROVE  PoolInv'
<1> USE DEF PoolInv
<1> DEFINE h == Head(idle)
<1>1. /\ idle' = Tail(idle) /\ idle_count' = idle_count - 1
      /\ db' = [db EXCEPT ![t] = h]
      /\ pc' = [pc EXCEPT ![t] = "pinging"]
      /\ idle /= <<>> /\ ~destroyed /\ ~destroyed'
      /\ pc[t] \in {"entering", "woken", "timedout"}
      /\ UNCHANGED <<current_open, alive, expired, retried, lent, destroyed>>
  BY DEF PopFresh, MayPop, PopIdle, Goto, Quiet
<1>2. pc' \in [Threads -> PC]
  BY <1>1 DEF TypeOK, PC
<1>3. /\ Tail(idle) \in Seq(Conns) /\ Len(Tail(idle)) = Len(idle) - 1
      /\ Len(idle) \in Nat \ {0} /\ IsInjective(Tail(idle))
      /\ h \in Conns /\ Range(Tail(idle)) = Range(idle) \ {h}
      /\ h \in Range(idle)
  BY <1>1, PopList DEF TypeOK, SoleOwner, IdleDistinct
<1> HIDE DEF h
<1>4. Reserving' = Reserving
  BY <1>1 DEF TypeOK, Reserving
<1>5. Accounting'
  BY <1>1, <1>3, <1>4 DEF Accounting, TypeOK
<1>6. TypeOK' /\ IsFiniteSet(alive')
  BY <1>1, <1>2, <1>3 DEF TypeOK, Accounting
<1>7. SlotBound' /\ OpenBound' /\ IdleBound'
  BY <1>1, <1>3, PoolConstants DEF SlotBound, OpenBound, IdleBound, TypeOK
<1>8. Quiet' /\ TriesLeft' /\ PingsOwned'
  BY <1>1, <1>3, PoolConstants DEF TypeOK, Quiet, TriesLeft, PingsOwned
<1>9. SoleOwner'
  <2>1. db[t] = NoConn
    BY <1>1 DEF PingsOwned
  <2>2. IdleDistinct' /\ IdleUnused'
    BY <1>1, <1>3 DEF SoleOwner, IdleDistinct, IdleUnused, TypeOK
  <2>3. BorrowedOnce'
    BY <1>1, <1>3 DEF SoleOwner, IdleUnused, BorrowedOnce, TypeOK
  <2>4. AliveOwned'
    BY <1>1, <1>3, <2>1, PoolConstants DEF SoleOwner, AliveOwned, TypeOK
  <2> QED BY <2>2, <2>3, <2>4 DEF SoleOwner
<1>10. NoLostWakeup'
  <2>1. /\ Testing \in SUBSET Threads /\ Testing' \in SUBSET Threads
        /\ Testing \ {t} \subseteq Testing' /\ Waiting' = Waiting
    BY <1>1 DEF Testing, Waiting, TypeOK
  <2>2. /\ Cardinality(Testing) \in Nat /\ Cardinality(Testing') \in Nat
        /\ Cardinality(Testing) - 1 <= Cardinality(Testing')
    BY <2>1, CompareThreadSets
  <2> QED BY <1>1, <1>3, <2>1, <2>2, PoolConstants DEF NoLostWakeup, TypeOK
<1> QED BY <1>5, <1>6, <1>7, <1>8, <1>9, <1>10

\* The pinged connection is handed to the client.
LEMMA PingOkStep ==
  ASSUME PoolInv, NEW t \in Threads, PingOk(t)
  PROVE  PoolInv'
<1> USE DEF PoolInv
<1>1. /\ lent' = [lent EXCEPT ![t] = @ \union {db[t]}]
      /\ db' = [db EXCEPT ![t] = NoConn]
      /\ pc' = [pc EXCEPT ![t] = "out"]
      /\ pc[t] = "pinging"
      /\ UNCHANGED <<current_open, idle, idle_count, alive, expired, retried,
                     destroyed>>
  BY DEF PingOk, Goto, counters
<1>2. db[t] \in Conns
  BY <1>1 DEF PingsOwned, TypeOK
<1>3. TypeOK' /\ IsFiniteSet(alive')
  BY <1>1, <1>2 DEF TypeOK, PC
<1>4. Reserving' = Reserving /\ Testing' = Testing /\ Waiting' = Waiting
  BY <1>1 DEF TypeOK, Reserving, Testing, Waiting
<1>5. Accounting' /\ SlotBound' /\ OpenBound' /\ IdleBound' /\ NoLostWakeup'
  BY <1>1, <1>4 DEF Accounting, SlotBound, OpenBound, IdleBound, NoLostWakeup
<1>6. Quiet' /\ TriesLeft' /\ PingsOwned'
  BY <1>1 DEF TypeOK, Quiet, TriesLeft, PingsOwned
<1>7. SoleOwner'
  <2>1. IdleDistinct' /\ IdleUnused'
    BY <1>1, PoolConstants, IdleInConns
    DEF SoleOwner, IdleDistinct, IdleUnused, TypeOK
  <2>2. BorrowedOnce'
    <3>1. \A u \in Threads : db'[u] = IF u = t THEN NoConn ELSE db[u]
      BY <1>1 DEF TypeOK
    <3>2. \A u \in Threads :
            lent'[u] = IF u = t THEN lent[u] \union {db[t]} ELSE lent[u]
      BY <1>1 DEF TypeOK
    <3>3. \A u \in Threads : NoConn \notin lent[u] /\ NoConn \notin lent'[u]
      BY <1>2, <3>2, PoolConstants DEF TypeOK
    <3> USE DEF SoleOwner, BorrowedOnce
    <3>4. \A v, u \in Threads : db'[v] \notin lent'[u]
      <4> SUFFICES ASSUME NEW v \in Threads, NEW u \in Threads
                   PROVE  db'[v] \notin lent'[u]
        OBVIOUS
      <4>1. CASE v = t BY <4>1, <3>1, <3>3
      <4>2. CASE v /= t /\ u = t
        <5>1. db[v] /= db[t]
          BY <1>2, <4>2, PoolConstants
        <5> QED BY <4>2, <5>1, <3>1, <3>2
      <4>3. CASE v /= t /\ u /= t BY <4>3, <3>1, <3>2
      <4> QED BY <4>1, <4>2, <4>3
    <3>5. \A v, u \in Threads : v /= u => lent'[v] \cap lent'[u] = {}
      <4> SUFFICES ASSUME NEW v \in Threads, NEW u \in Threads, v /= u
                   PROVE  lent'[v] \cap lent'[u] = {}
        OBVIOUS
      <4>1. lent[v] \cap lent[u] = {} /\ db[t] \notin lent[u] /\ db[t] \notin lent[v]
        OBVIOUS
      <4> QED BY <4>1, <3>2
    <3>6. \A v, u \in Threads : v /= u => (db'[v] = db'[u] => db'[v] = NoConn)
      BY <3>1 DEF SoleOwner, BorrowedOnce
    <3> QED BY <3>4, <3>5, <3>6 DEF BorrowedOnce
  <2>3. AliveOwned'
    BY <1>1, <1>2, PoolConstants DEF SoleOwner, AliveOwned, TypeOK
  <2> QED BY <2>1, <2>2, <2>3 DEF SoleOwner
<1> QED BY <1>3, <1>5, <1>6, <1>7

\* A connection whose ping fails is closed; its slot stays taken.
LEMMA PingFailsStep ==
  ASSUME PoolInv, NEW t \in Threads, PingFails(t)
  PROVE  PoolInv'
<1> USE DEF PoolInv
<1>1. /\ alive' = alive \ {db[t]} /\ expired' = expired \ {db[t]}
      /\ db' = [db EXCEPT ![t] = NoConn]
      /\ pc' = [pc EXCEPT ![t] = "closed"]
      /\ pc[t] = "pinging" /\ ~destroyed
      /\ UNCHANGED <<current_open, idle, idle_count, retried, lent, destroyed>>
  BY DEF PingFails, Goto, Close, counters, Quiet
<1>2. db[t] \in Conns /\ db[t] \in alive
  BY <1>1, OwnedAlive DEF PingsOwned, TypeOK
<1>3. /\ Cardinality(alive) \in Nat \ {0} /\ IsFiniteSet(alive')
      /\ Cardinality(alive') = Cardinality(alive) - 1
  BY <1>1, <1>2, AliveCounted
<1>4. TypeOK'
  BY <1>1, <1>2 DEF TypeOK, PC
<1>5. /\ Cardinality(Reserving) \in Nat
      /\ Cardinality(Reserving') = Cardinality(Reserving) + 1
  <2>1. t \notin Reserving /\ t \in Reserving'
    BY <1>1 DEF Reserving, TypeOK
  <2>2. \A u \in Threads \ {t} : pc'[u] = pc[u]
    BY <1>1 DEF TypeOK
  <2>3. pc' \in [Threads -> PC]
    BY <1>4 DEF TypeOK
  <2> QED BY <2>1, <2>2, <2>3, ReservingMoves
<1>6. Testing' = Testing /\ Waiting' = Waiting
  BY <1>1 DEF TypeOK, Testing, Waiting
<1>7. Accounting' /\ SlotBound' /\ OpenBound' /\ IdleBound' /\ NoLostWakeup'
  <2>1. Accounting'
    BY <1>1, <1>3, <1>5 DEF Accounting, TypeOK
  <2>2. SlotBound' /\ OpenBound' /\ IdleBound' /\ NoLostWakeup'
    BY <1>1, <1>3, <1>6, PoolConstants
    DEF SlotBound, OpenBound, IdleBound, NoLostWakeup
  <2> QED BY <2>1, <2>2
<1>8. Quiet' /\ TriesLeft' /\ PingsOwned'
  BY <1>1 DEF TypeOK, Quiet, TriesLeft, PingsOwned
<1>9. SoleOwner'
  <2>1. IdleDistinct' /\ IdleUnused' /\ BorrowedOnce'
    BY <1>1, <1>2, PoolConstants, IdleInConns
    DEF SoleOwner, IdleDistinct, IdleUnused, BorrowedOnce, TypeOK
  <2>2. AliveOwned'
    BY <1>1, <1>2, PoolConstants
    DEF SoleOwner, IdleUnused, BorrowedOnce, AliveOwned, TypeOK
  <2> QED BY <2>1, <2>2 DEF SoleOwner
<1> QED BY <1>3, <1>4, <1>7, <1>8, <1>9

\* A slot without a handle is given back: after a failed ping, and after
\* every attempt to open has failed.
LEMMA GiveBackStep ==
  ASSUME PoolInv, NEW t \in Threads, ForgetClosed(t) \/ GiveBackSlot(t)
  PROVE  PoolInv'
<1> USE DEF PoolInv
<1>1. PICK x \in {"entering", "out"} :
        /\ pc' \in Signal([pc EXCEPT ![t] = x])
        /\ x = "out" => pc[t] = "failed"
  BY DEF ForgetClosed, GiveBackSlot
<1>2. /\ current_open' = current_open - 1
      /\ pc[t] \in {"closed", "failed"} /\ ~destroyed
      /\ UNCHANGED <<idle, idle_count, alive, expired, db, retried, lent, destroyed>>
  BY DEF ForgetClosed, GiveBackSlot, locals, Quiet
<1>3. /\ pc' \in [Threads -> PC] /\ pc'[t] = x
      /\ \A u \in Threads \ {t} : \/ pc'[u] = pc[u]
                                  \/ pc[u] = "waiting" /\ pc'[u] = "woken"
  BY <1>1, MoveAndSignal DEF PC
<1>4. /\ Cardinality(Reserving) \in Nat \ {0}
      /\ Cardinality(Reserving') = Cardinality(Reserving) - 1
  <2>1. t \in Reserving /\ t \notin Reserving'
    BY <1>2, <1>3 DEF Reserving, TypeOK
  <2> QED BY <1>3, <2>1, ReservingMoves
<1>5. Cardinality(alive) \in Nat
  BY FS_CardinalityType
<1>6. Accounting'
  BY <1>2, <1>4, <1>5 DEF Accounting, TypeOK
<1>7. TypeOK' /\ IsFiniteSet(alive')
  BY <1>2, <1>3, <1>4, <1>5 DEF TypeOK, Accounting
<1>8. SlotBound' /\ OpenBound' /\ IdleBound'
  BY <1>2, PoolConstants DEF SlotBound, OpenBound, IdleBound, TypeOK
<1>9. Quiet' /\ TriesLeft' /\ PingsOwned'
  BY <1>2, <1>3 DEF TypeOK, Quiet, TriesLeft, PingsOwned
<1>10. SoleOwner'
  BY <1>2 DEF SoleOwner, IdleDistinct, IdleUnused, BorrowedOnce, AliveOwned
<1>11. NoLostWakeup'
  <2> SUFFICES ASSUME NEW v \in Waiting'
               PROVE  /\ Cardinality(Testing) \in Nat
                      /\ Cardinality(Testing') \in Nat
                      /\ Cardinality(Testing) + 1 <= Cardinality(Testing')
                      /\ Waiting /= {}
    BY <1>2, PoolConstants, LenProperties DEF NoLostWakeup, TypeOK
  <2>1. Testing \in SUBSET Threads /\ Testing' \in SUBSET Threads
    BY DEF Testing
  <2>2. Waiting /= {} /\ v \in Threads /\ pc'[v] = "waiting"
    BY <1>1, <1>3 DEF Waiting, TypeOK
  <2>3. CASE x = "entering"
    <3>1. t \notin Testing /\ Testing \union {t} \subseteq Testing'
      BY <1>2, <1>3, <2>3 DEF Testing, TypeOK
    <3> QED BY <2>1, <2>2, <3>1, CompareThreadSets
  <2>4. CASE x = "out"
    <3>1. [pc EXCEPT ![t] = x] \in [Threads -> PC]
      BY <2>4 DEF TypeOK, PC
    <3>2. PICK w \in Threads : /\ [pc EXCEPT ![t] = x][w] = "waiting"
                              /\ pc' = [[pc EXCEPT ![t] = x] EXCEPT ![w] = "woken"]
      <4> DEFINE p == [pc EXCEPT ![t] = x]
      <4>1. p \in [Threads -> PC] /\ pc' \in Signal(p)
        BY <1>1, <3>1
      <4> HIDE DEF p
      <4>2. \E w \in Threads : p[w] = "waiting" /\ pc' = [p EXCEPT ![w] = "woken"]
        BY <2>2, <4>1, SignalWakesOne
      <4> QED BY <4>2 DEF p
    <3>3. w /= t /\ pc[w] = "waiting" /\ pc'[w] = "woken"
      BY <2>4, <3>2 DEF TypeOK
    <3>4. w \notin Testing /\ Testing \union {w} \subseteq Testing'
      BY <1>2, <1>3, <3>3 DEF Testing, TypeOK
    <3> QED BY <2>1, <2>2, <3>4, CompareThreadSets
  <2> QED BY <2>3, <2>4
<1> QED BY <1>6, <1>7, <1>8, <1>9, <1>10, <1>11

\* A free slot is taken before the open.
LEMMA ReserveStep ==
  ASSUME PoolInv, NEW t \in Threads, Reserve(t)
  PROVE  PoolInv'
<1> USE DEF PoolInv
<1>1. /\ current_open' = current_open + 1
      /\ retried' = [retried EXCEPT ![t] = 0]
      /\ pc' = [pc EXCEPT ![t] = "opening"]
      /\ pc[t] \in {"entering", "woken"} /\ ~destroyed
      /\ idle = <<>> /\ (MaxOpen > 0 => ~(current_open >= MaxOpen))
      /\ UNCHANGED <<idle, idle_count, alive, expired, db, lent, destroyed>>
  BY DEF Reserve, AtTest, MustWait, Goto, Quiet
<1>2. TypeOK' /\ IsFiniteSet(alive')
  BY <1>1, PoolConstants DEF TypeOK, PC
<1>3. /\ Cardinality(Reserving) \in Nat
      /\ Cardinality(Reserving') = Cardinality(Reserving) + 1
  <2>1. t \notin Reserving /\ t \in Reserving'
    BY <1>1 DEF Reserving, TypeOK
  <2>2. \A u \in Threads \ {t} : pc'[u] = pc[u]
    BY <1>1 DEF TypeOK
  <2>3. pc' \in [Threads -> PC]
    BY <1>2 DEF TypeOK
  <2> QED BY <2>1, <2>2, <2>3, ReservingMoves
<1>4. Cardinality(alive) \in Nat
  BY FS_CardinalityType
<1>5. Accounting'
  BY <1>1, <1>3, <1>4 DEF Accounting, TypeOK
<1>6. SlotBound' /\ OpenBound' /\ IdleBound'
  BY <1>1, PoolConstants DEF SlotBound, OpenBound, IdleBound, TypeOK
<1>7. Quiet' /\ TriesLeft' /\ PingsOwned'
  BY <1>1, PoolConstants DEF TypeOK, Quiet, TriesLeft, PingsOwned
<1>8. SoleOwner'
  BY <1>1 DEF SoleOwner, IdleDistinct, IdleUnused, BorrowedOnce, AliveOwned
<1>9. NoLostWakeup'
  <2>1. /\ Testing \in SUBSET Threads /\ Testing' \in SUBSET Threads
        /\ Testing \ {t} \subseteq Testing' /\ Waiting' = Waiting
    BY <1>1 DEF Testing, Waiting, TypeOK
  <2>2. /\ Cardinality(Testing) \in Nat /\ Cardinality(Testing') \in Nat
        /\ Cardinality(Testing) - 1 <= Cardinality(Testing')
    BY <2>1, CompareThreadSets
  <2>3. Len(idle) = 0
    BY <1>1
  <2> QED BY <1>1, <2>1, <2>2, <2>3, PoolConstants DEF NoLostWakeup, TypeOK
<1> QED BY <1>2, <1>5, <1>6, <1>7, <1>8, <1>9

\* The open succeeds: the slot becomes a handle the client holds.
LEMMA OpenOkStep ==
  ASSUME PoolInv, NEW t \in Threads, OpenOk(t)
  PROVE  PoolInv'
<1> USE DEF PoolInv
<1>1. PICK c \in Conns \ alive :
        /\ alive' = alive \union {c}
        /\ lent' = [lent EXCEPT ![t] = @ \union {c}]
  BY DEF OpenOk
<1>2. /\ pc' = [pc EXCEPT ![t] = "out"]
      /\ pc[t] = "opening" /\ ~destroyed
      /\ UNCHANGED <<current_open, idle, idle_count, expired, db, retried, destroyed>>
  BY DEF OpenOk, Goto, counters, locals, Quiet
<1>3. /\ IsFiniteSet(alive') /\ Cardinality(alive) \in Nat
      /\ Cardinality(alive') = Cardinality(alive) + 1
  BY <1>1, FS_AddElement, FS_CardinalityType
<1>4. TypeOK'
  BY <1>1, <1>2 DEF TypeOK, PC
<1>5. /\ Cardinality(Reserving) \in Nat \ {0}
      /\ Cardinality(Reserving') = Cardinality(Reserving) - 1
  <2>1. t \in Reserving /\ t \notin Reserving'
    BY <1>2 DEF Reserving, TypeOK
  <2>2. \A u \in Threads \ {t} : pc'[u] = pc[u]
    BY <1>2 DEF TypeOK
  <2>3. pc' \in [Threads -> PC]
    BY <1>4 DEF TypeOK
  <2> QED BY <2>1, <2>2, <2>3, ReservingMoves
<1>6. Accounting'
  BY <1>2, <1>3, <1>5 DEF Accounting, TypeOK
<1>7. SlotBound' /\ OpenBound' /\ IdleBound'
  BY <1>2, <1>3, <1>5, PoolConstants
  DEF Accounting, SlotBound, OpenBound, IdleBound, TypeOK
<1>8. Quiet' /\ TriesLeft' /\ PingsOwned'
  BY <1>2 DEF TypeOK, Quiet, TriesLeft, PingsOwned
<1>9. SoleOwner'
  <2>1. /\ c \notin Range(idle)
        /\ \A u \in Threads : db[u] /= c /\ c \notin lent[u]
    BY <1>1 DEF SoleOwner, AliveOwned
  <2>2. \A u \in Threads :
          lent'[u] = IF u = t THEN lent[u] \union {c} ELSE lent[u]
    BY <1>1 DEF TypeOK
  <2>3. IdleDistinct' /\ IdleUnused'
    BY <1>2, <2>1, <2>2 DEF SoleOwner, IdleDistinct, IdleUnused
  <2>4. BorrowedOnce'
    <3>1. \A v, u \in Threads : db'[v] \notin lent'[u]
      BY <1>2, <2>1, <2>2 DEF SoleOwner, BorrowedOnce
    <3>2. \A v, u \in Threads : v /= u => lent'[v] \cap lent'[u] = {}
      <4> SUFFICES ASSUME NEW v \in Threads, NEW u \in Threads, v /= u
                   PROVE  lent'[v] \cap lent'[u] = {}
        OBVIOUS
      <4>1. lent[v] \cap lent[u] = {}
        BY DEF SoleOwner, BorrowedOnce
      <4> QED BY <4>1, <2>1, <2>2
    <3>3. \A v, u \in Threads : v /= u => (db'[v] = db'[u] => db'[v] = NoConn)
      BY <1>2 DEF SoleOwner, BorrowedOnce
    <3> QED BY <3>1, <3>2, <3>3 DEF BorrowedOnce
  <2>5. AliveOwned'
    BY <1>1, <1>2, <2>2 DEF SoleOwner, AliveOwned
  <2> QED BY <2>3, <2>4, <2>5 DEF SoleOwner
<1>10. Testing' = Testing /\ Waiting' = Waiting
  BY <1>2 DEF TypeOK, Testing, Waiting
<1>11. NoLostWakeup'
  BY <1>2, <1>10 DEF NoLostWakeup
<1> QED BY <1>3, <1>4, <1>6, <1>7, <1>8, <1>9, <1>11

\* The open fails: the slot stays taken.
LEMMA OpenFailsStep ==
  ASSUME PoolInv, NEW t \in Threads, OpenFails(t)
  PROVE  PoolInv'
<1> USE DEF PoolInv
<1>1. /\ retried' = [retried EXCEPT ![t] = @ + 1]
      /\ pc[t] = "opening" /\ retried[t] < OpenTries /\ ~destroyed
      /\ \E x \in {"opening", "failed"} : pc' = [pc EXCEPT ![t] = x]
      /\ UNCHANGED <<current_open, idle, idle_count, alive, expired, db, lent, destroyed>>
  BY DEF OpenFails, Goto, counters, Quiet, TriesLeft
<1>2. PICK x \in {"opening", "failed"} : pc' = [pc EXCEPT ![t] = x]
  BY <1>1
<1>3. TypeOK' /\ IsFiniteSet(alive')
  BY <1>1, <1>2, PoolConstants DEF TypeOK, PC
<1>4. Reserving' = Reserving /\ Testing' = Testing /\ Waiting' = Waiting
  BY <1>1, <1>2 DEF TypeOK, Reserving, Testing, Waiting
<1>5. Accounting' /\ SlotBound' /\ OpenBound' /\ IdleBound' /\ NoLostWakeup'
  BY <1>1, <1>4 DEF Accounting, SlotBound, OpenBound, IdleBound, NoLostWakeup
<1>6. Quiet' /\ TriesLeft' /\ PingsOwned'
  BY <1>1, PoolConstants
  DEF OpenFails, Goto, TypeOK, Quiet, TriesLeft, PingsOwned
<1>7. SoleOwner'
  BY <1>1 DEF SoleOwner, IdleDistinct, IdleUnused, BorrowedOnce, AliveOwned
<1> QED BY <1>3, <1>5, <1>6, <1>7

\* A signal for a slot or a connection that became free: if somebody still
\* waits, one more thread is on its way to the test.
LEMMA SignalAddsTester ==
  ASSUME TypeOK, pc' \in Signal(pc), NEW v \in Waiting'
  PROVE  /\ Cardinality(Testing) \in Nat /\ Cardinality(Testing') \in Nat
         /\ Cardinality(Testing) + 1 <= Cardinality(Testing')
         /\ Waiting /= {}
<1>1. pc \in [Threads -> PC] /\ v \in Threads /\ pc'[v] = "waiting"
  BY DEF TypeOK, Waiting
<1>2. PICK w \in Threads : pc[w] = "waiting" /\ pc' = [pc EXCEPT ![w] = "woken"]
  BY <1>1, SignalWakesOne
<1>3. /\ Testing \in SUBSET Threads /\ Testing' \in SUBSET Threads
      /\ w \notin Testing /\ Testing \union {w} \subseteq Testing'
  BY <1>1, <1>2 DEF Testing
<1>4. Waiting /= {}
  BY <1>2 DEF Waiting
<1> QED BY <1>3, <1>4, CompareThreadSets

\* A signal leaves the threads outside the wait where they are.
LEMMA SignalKeepsRest ==
  ASSUME TypeOK, pc' \in Signal(pc)
  PROVE  /\ pc' \in [Threads -> PC] /\ Reserving' = Reserving
         /\ \A u \in Threads : \/ pc'[u] = pc[u]
                               \/ pc[u] = "waiting" /\ pc'[u] = "woken"
<1>1. /\ pc' \in [Threads -> PC]
      /\ \A u \in Threads : \/ pc'[u] = pc[u]
                            \/ pc[u] = "waiting" /\ pc'[u] = "woken"
  BY SignalMovesWaiters DEF TypeOK
<1> QED BY <1>1 DEF Reserving

\* A released connection is closed.
LEMMA ReleaseClosingStep ==
  ASSUME PoolInv, NEW t \in Threads, NEW c \in Conns, ReleaseClosing(t, c)
  PROVE  PoolInv'
<1> USE DEF PoolInv
<1>1. /\ c \in lent[t] /\ ~destroyed
      /\ lent' = [lent EXCEPT ![t] = @ \ {c}]
      /\ alive' = alive \ {c} /\ expired' = expired \ {c}
      /\ current_open' = current_open - 1
      /\ pc' \in Signal(pc)
      /\ UNCHANGED <<idle, idle_count, db, retried, destroyed>>
  BY DEF ReleaseClosing, Returns, Close, locals
<1>2. /\ pc' \in [Threads -> PC] /\ Reserving' = Reserving
      /\ \A u \in Threads : \/ pc'[u] = pc[u]
                            \/ pc[u] = "waiting" /\ pc'[u] = "woken"
  BY <1>1, SignalKeepsRest
<1>3. c \in alive
  BY <1>1, OwnedAlive
<1>4. /\ Cardinality(alive) \in Nat \ {0} /\ IsFiniteSet(alive')
      /\ Cardinality(alive') = Cardinality(alive) - 1
  BY <1>1, <1>3, AliveCounted
<1>5. Cardinality(Reserving) \in Nat
  BY ThreadSetsFinite, FS_CardinalityType DEF Reserving
<1>6. Accounting'
  BY <1>1, <1>2, <1>4, <1>5 DEF Accounting, TypeOK
<1>7. TypeOK'
  <2>1. lent' \in [Threads -> SUBSET Conns]
    <3>1. lent[t] \ {c} \in SUBSET Conns
      BY DEF TypeOK
    <3> QED BY <1>1, <3>1 DEF TypeOK
  <2>2. current_open' \in Nat
    BY <1>1, <1>4, <1>5 DEF TypeOK, Accounting
  <2> QED BY <1>1, <1>2, <2>1, <2>2 DEF TypeOK
<1>8. SlotBound' /\ OpenBound' /\ IdleBound'
  BY <1>1, <1>4, PoolConstants DEF SlotBound, OpenBound, IdleBound, TypeOK
<1>9. Quiet' /\ TriesLeft' /\ PingsOwned'
  BY <1>1, <1>2 DEF TypeOK, Quiet, TriesLeft, PingsOwned
<1>10. SoleOwner'
  <2>1. \A u \in Threads : lent'[u] = IF u = t THEN lent[u] \ {c} ELSE lent[u]
    BY <1>1 DEF TypeOK
  <2>2. IdleDistinct' /\ IdleUnused' /\ BorrowedOnce'
    BY <1>1, <2>1 DEF SoleOwner, IdleDistinct, IdleUnused, BorrowedOnce
  <2>3. AliveOwned'
    <3>1. c \notin Range(idle) /\ \A u \in Threads : db[u] /= c /\ c \notin lent'[u]
      BY <1>1, <2>1 DEF SoleOwner, IdleUnused, BorrowedOnce
    <3> QED BY <1>1, <2>1, <3>1 DEF SoleOwner, AliveOwned
  <2> QED BY <2>2, <2>3 DEF SoleOwner
<1>11. NoLostWakeup'
  <2> SUFFICES ASSUME NEW v \in Waiting'
               PROVE  /\ Cardinality(Testing) \in Nat
                      /\ Cardinality(Testing') \in Nat
                      /\ Cardinality(Testing) + 1 <= Cardinality(Testing')
                      /\ Waiting /= {}
    BY <1>1, PoolConstants, LenProperties DEF NoLostWakeup, TypeOK
  <2> QED BY <1>1, SignalAddsTester
<1> QED BY <1>4, <1>6, <1>7, <1>8, <1>9, <1>10, <1>11

\* A released connection becomes idle.
LEMMA ReleaseToIdleStep ==
  ASSUME PoolInv, NEW t \in Threads, NEW c \in Conns, ReleaseToIdle(t, c)
  PROVE  PoolInv'
<1> USE DEF PoolInv
<1>1. /\ c \in lent[t] /\ ~destroyed /\ ~IdleFull
      /\ lent' = [lent EXCEPT ![t] = @ \ {c}]
      /\ idle' = <<c>> \o idle /\ idle_count' = idle_count + 1
      /\ pc' \in Signal(pc)
      /\ UNCHANGED <<current_open, alive, expired, db, retried, destroyed>>
  BY DEF ReleaseToIdle, Returns, locals
<1>2. /\ pc' \in [Threads -> PC] /\ Reserving' = Reserving
      /\ \A u \in Threads : \/ pc'[u] = pc[u]
                            \/ pc[u] = "waiting" /\ pc'[u] = "woken"
  BY <1>1, SignalKeepsRest
<1>3. c \notin Range(idle) /\ \A u \in Threads : db[u] /= c
  BY <1>1 DEF SoleOwner, IdleUnused, BorrowedOnce
<1>4. /\ idle' \in Seq(Conns) /\ Len(idle') = Len(idle) + 1 /\ Len(idle) \in Nat
      /\ IsInjective(idle') /\ Range(idle') = Range(idle) \union {c}
  BY <1>1, <1>3, PushList DEF TypeOK, SoleOwner, IdleDistinct
<1>5. Accounting'
  BY <1>1, <1>2, <1>4 DEF Accounting, TypeOK
<1>6. TypeOK' /\ IsFiniteSet(alive')
  <2>1. lent' \in [Threads -> SUBSET Conns]
    <3>1. lent[t] \ {c} \in SUBSET Conns
      BY DEF TypeOK
    <3> QED BY <1>1, <3>1 DEF TypeOK
  <2> QED BY <1>1, <1>2, <1>4, <2>1 DEF TypeOK
<1>7. SlotBound' /\ OpenBound' /\ IdleBound'
  BY <1>1, <1>4, PoolConstants
  DEF Accounting, IdleFull, SlotBound, OpenBound, IdleBound, TypeOK
<1>8. Quiet' /\ TriesLeft' /\ PingsOwned'
  BY <1>1, <1>2 DEF TypeOK, Quiet, TriesLeft, PingsOwned
<1>9. SoleOwner'
  <2>1. \A u \in Threads : lent'[u] = IF u = t THEN lent[u] \ {c} ELSE lent[u]
    BY <1>1 DEF TypeOK
  <2>2. \A u \in Threads : c \notin lent'[u]
    <3>1. \A u \in Threads \ {t} : lent[u] \cap lent[t] = {}
      BY DEF SoleOwner, BorrowedOnce
    <3>2. c \notin lent'[t]
      BY <2>1
    <3>3. ASSUME NEW u \in Threads, u /= t PROVE c \notin lent'[u]
      BY <1>1, <2>1, <3>1, <3>3
    <3> QED BY <3>2, <3>3
  <2>3. IdleDistinct' /\ IdleUnused'
    BY <1>1, <1>3, <1>4, <2>1, <2>2 DEF SoleOwner, IdleDistinct, IdleUnused
  <2>4. BorrowedOnce'
    BY <1>1, <2>1 DEF SoleOwner, BorrowedOnce
  <2>5. AliveOwned'
    <3>1. alive' = alive /\ db' = db /\ Range(idle') = Range(idle) \union {c}
      BY <1>1, <1>4
    <3>2. c \in alive
      BY <1>1 DEF SoleOwner, AliveOwned
    <3>3. \A x \in Conns \ {c} : \A u \in Threads : x \in lent'[u] <=> x \in lent[u]
      BY <2>1
    <3> QED BY <3>1, <3>2, <3>3, <2>2 DEF SoleOwner, AliveOwned
  <2> QED BY <2>3, <2>4, <2>5 DEF SoleOwner
<1>10. NoLostWakeup'
  <2> SUFFICES ASSUME NEW v \in Waiting'
               PROVE  /\ Cardinality(Testing) \in Nat
                      /\ Cardinality(Testing') \in Nat
                      /\ Cardinality(Testing) + 1 <= Cardinality(Testing')
                      /\ Waiting /= {}
    BY <1>1, <1>4, PoolConstants DEF NoLostWakeup, TypeOK
  <2> QED BY <1>1, SignalAddsTester
<1> QED BY <1>5, <1>6, <1>7, <1>8, <1>9, <1>10

\* The pool is destroyed: every idle connection is closed.
LEMMA DestroyStep ==
  ASSUME PoolInv, Destroy
  PROVE  PoolInv'
<1> USE DEF PoolInv
<1>1. /\ alive' = alive \ Range(idle) /\ expired' = expired \ Range(idle)
      /\ idle' = <<>> /\ idle_count' = 0 /\ destroyed'
      /\ destroyed' \in BOOLEAN
      /\ \A t \in Threads : pc[t] = "out"
      /\ UNCHANGED <<current_open, pc, db, retried, lent>>
  BY DEF Destroy, locals
<1>2. /\ Range(idle') = {} /\ IsInjective(idle') /\ Len(idle') = 0
  BY <1>1 DEF Range, IsInjective
<1>3. TypeOK'
  BY <1>1 DEF TypeOK
<1>4. /\ IsFiniteSet(alive') /\ Cardinality(alive') <= Cardinality(alive)
      /\ Cardinality(alive') \in Nat /\ Cardinality(alive) \in Nat
  BY <1>1, FS_Subset, FS_CardinalityType
<1>5. Accounting' /\ SlotBound' /\ OpenBound' /\ IdleBound' /\ NoLostWakeup'
  BY <1>1, <1>2, <1>4, PoolConstants
  DEF Accounting, SlotBound, OpenBound, IdleBound, NoLostWakeup
<1>6. Quiet' /\ TriesLeft' /\ PingsOwned'
  BY <1>1 DEF Quiet, TriesLeft, PingsOwned
<1>7. SoleOwner'
  BY <1>1, <1>2
  DEF SoleOwner, IdleDistinct, IdleUnused, BorrowedOnce, AliveOwned
<1> QED BY <1>3, <1>4, <1>5, <1>6, <1>7

\* Steps of the clock, and steps of nobody.
LEMMA IdleStep ==
  ASSUME PoolInv, (\E c \in Conns : GrowOld(c)) \/ UNCHANGED vars
  PROVE  PoolInv'
<1>1. /\ UNCHANGED <<current_open, idle, idle_count, alive, pc, db, retried,
                     lent, destroyed>>
      /\ expired' \in SUBSET alive
  BY DEF GrowOld, vars, counters, locals, PoolInv, TypeOK
<1> QED
  BY <1>1 DEF PoolInv, TypeOK, Accounting, SlotBound, OpenBound, IdleBound, Quiet,
    TriesLeft, PingsOwned, SoleOwner, IdleDistinct, IdleUnused, BorrowedOnce,
    AliveOwned, NoLostWakeup, Reserving, Testing, Waiting

-----------------------------------------------------------------------------

\* The new pool satisfies the invariant.
LEMMA InitInv == Init => PoolInv
<1> SUFFICES ASSUME Init PROVE PoolInv
  OBVIOUS
<1> USE DEF Init
<1>1. Reserving = {} /\ Waiting = {} /\ Range(idle) = {} /\ IsInjective(idle)
  BY DEF Reserving, Waiting, Range, IsInjective
<1>2. TypeOK
  <2>1. /\ retried \in [Threads -> 0..OpenTries] /\ pc \in [Threads -> PC]
        /\ db \in [Threads -> Conns \union {NoConn}]
        /\ lent \in [Threads -> SUBSET Conns]
    BY PoolConstants DEF PC
  <2>2. idle \in Seq(Conns)
    BY EmptySeq
  <2>5. destroyed \in BOOLEAN
    BY Zenon
  <2>3. alive \in SUBSET Conns /\ expired \in SUBSET alive
    OBVIOUS
  <2>4. current_open \in Nat /\ idle_count \in Nat
    OBVIOUS
  <2> HIDE DEF Init
  <2> QED BY <2>1, <2>2, <2>3, <2>4, <2>5 DEF TypeOK
<1>3. IsFiniteSet(alive) /\ Cardinality(alive) = 0 /\ Cardinality(Reserving) = 0
  BY <1>1, FS_EmptySet
<1>4. Accounting /\ SlotBound /\ OpenBound /\ IdleBound /\ NoLostWakeup
  BY <1>1, <1>3, PoolConstants
  DEF Accounting, SlotBound, OpenBound, IdleBound, NoLostWakeup
<1>5. Quiet /\ TriesLeft /\ PingsOwned
  BY DEF Quiet, TriesLeft, PingsOwned
<1>6. SoleOwner
  BY <1>1, PoolConstants
  DEF SoleOwner, IdleDistinct, IdleUnused, BorrowedOnce, AliveOwned
<1> QED BY <1>2, <1>3, <1>4, <1>5, <1>6 DEF PoolInv

\* Every step of the pool, of its clients and of the clock preserves it.
LEMMA NextInv == PoolInv /\ [Next]_vars => PoolInv'
<1> SUFFICES ASSUME PoolInv, [Next]_vars PROVE PoolInv'
  OBVIOUS
<1>1. ASSUME NEW t \in Threads,
             Acquire(t) \/ SpuriousWakeup(t) \/ Timeout(t) \/ Runs(t)
      PROVE  PoolInv'
  BY <1>1, MoveStep, PopExpiredStep, PopFreshStep, PingOkStep, PingFailsStep,
     GiveBackStep, ReserveStep, OpenOkStep, OpenFailsStep DEF Runs
<1>2. ASSUME NEW t \in Threads, Release(t) PROVE PoolInv'
  BY <1>2, ReleaseClosingStep, ReleaseToIdleStep
  DEF Release, ReleaseExcess, ReleaseNoMemory
<1>3. CASE Destroy
  BY <1>3, DestroyStep
<1>4. CASE (\E c \in Conns : GrowOld(c)) \/ UNCHANGED vars
  BY <1>4, IdleStep
<1> QED BY <1>1, <1>2, <1>3, <1>4 DEF Next

\* The inductive invariant holds of every behaviour of pool.c.
THEOREM PoolInvariant == Spec => []PoolInv
BY InitInv, NextInv, PTL DEF Spec

\* The types of the pool's state: current_open and idle_count, decremented on
\* seven paths, never go below zero, and a call makes at most 3 attempts.
THEOREM PoolTypes == Spec => []TypeOK
<1>1. PoolInv => TypeOK
  BY DEF PoolInv
<1> QED BY <1>1, PoolInvariant, PTL

\* current_open counts the open connections and the reserved slots, exactly.
THEOREM PoolAccounting == Spec => []Accounting
<1>1. PoolInv => Accounting
  BY DEF PoolInv
<1> QED BY <1>1, PoolInvariant, PTL

\* Never more open connections than max_open_conns.
THEOREM PoolBounds == Spec => []OpenBound
<1>1. PoolInv => OpenBound
  BY DEF PoolInv
<1> QED BY <1>1, PoolInvariant, PTL

\* Never more idle connections than max_idle_conns, with any number of threads
\* giving connections back.
THEOREM PoolIdleBound == Spec => []IdleBound
<1>1. PoolInv => IdleBound
  BY DEF PoolInv
<1> QED BY <1>1, PoolInvariant, PTL

\* Every connection has one owner, and every owner's connection is open.
THEOREM PoolOwnership == Spec => []SoleOwner
<1>1. PoolInv => SoleOwner
  BY DEF PoolInv
<1> QED BY <1>1, PoolInvariant, PTL

\* No connection and no slot is left to a thread that sleeps.
THEOREM PoolWakeups == Spec => []NoLostWakeup
<1>1. PoolInv => NoLostWakeup
  BY DEF PoolInv
<1> QED BY <1>1, PoolInvariant, PTL

\* When every thread is outside acquire or waits in it, the clients hold all of the
\* connections that may be open.
LEMMA AllLent ==
  ASSUME PoolInv, MaxOpen > 0, Waiting /= {}, ~destroyed,
         \A t \in Threads : pc[t] \in {"out", "waiting"}
  PROVE  idle = <<>> /\ Cardinality(UNION {lent[t] : t \in Threads}) = MaxOpen
<1> USE DEF PoolInv
<1>1. Reserving = {} /\ Testing = {}
  BY DEF Reserving, Testing
<1>2. Cardinality(Reserving) = 0 /\ Cardinality(Testing) = 0
  BY <1>1, FS_EmptySet
<1>3. Len(idle) \in Nat /\ current_open \in Nat /\ Cardinality(alive) \in Nat
  BY LenProperties, FS_CardinalityType DEF TypeOK
<1>4. /\ Len(idle) + (MaxOpen - current_open) <= 0 /\ current_open <= MaxOpen
      /\ current_open = Cardinality(alive) + 0
  BY <1>2 DEF NoLostWakeup, SlotBound, Accounting
<1>5. Len(idle) = 0 /\ Cardinality(alive) = MaxOpen
  BY <1>3, <1>4, PoolConstants
<1>6. idle = <<>> /\ Range(idle) = {}
  BY <1>5, EmptySeq, LenProperties DEF TypeOK, Range
<1>7. \A t \in Threads : db[t] = NoConn
  BY DEF PingsOwned
<1>8. alive = UNION {lent[t] : t \in Threads}
  <2>1. ASSUME NEW c \in alive PROVE \E t \in Threads : c \in lent[t]
    <3>1. c \in Conns /\ c /= NoConn
      BY PoolConstants DEF TypeOK
    <3> QED BY <3>1, <1>6, <1>7 DEF SoleOwner, AliveOwned
  <2>2. \A t \in Threads : lent[t] \subseteq alive
    BY OwnedAlive
  <2> QED BY <2>1, <2>2
<1> QED BY <1>5, <1>6, <1>8

\* Waiting threads, however many, wait for a client and never for the pool.
THEOREM PoolWaitsOnClients == Spec => []WaitsOnlyOnClients
<1>1. PoolInv => WaitsOnlyOnClients
  BY AllLent DEF WaitsOnlyOnClients
<1> QED BY <1>1, PoolInvariant, PTL

\* Only the clock makes a connection too old, and only with a lifetime set.
LEMMA AgelessStep == TypeOK /\ Ageless /\ [Next]_vars => Ageless'
<1> SUFFICES ASSUME TypeOK, expired = {}, ~Lifetime, [Next]_vars PROVE expired' = {}
  BY PoolConstants DEF Ageless
<1>1. ASSUME NEW t \in Threads,
             Acquire(t) \/ SpuriousWakeup(t) \/ Timeout(t) \/ Runs(t) \/ Release(t)
      PROVE  expired' = {}
  BY <1>1 DEF Acquire, SpuriousWakeup, Timeout, Runs, Wait, GiveUp, PopExpired,
    PopFresh, PingOk, PingFails, ForgetClosed, Reserve, OpenOk, OpenFails,
    GiveBackSlot, Release, ReleaseExcess, ReleaseNoMemory, ReleaseClosing,
    ReleaseToIdle, Close
<1>2. CASE \E c \in Conns : GrowOld(c)
  BY <1>2 DEF GrowOld
<1>3. CASE Destroy
  BY <1>3 DEF Destroy
<1>4. CASE UNCHANGED vars
  BY <1>4 DEF vars
<1> QED BY <1>1, <1>2, <1>3, <1>4 DEF Next

\* A step takes a connection off the idle list only from its head, to be
\* pinged if it is young and to be closed if it is too old, or when the pool is
\* destroyed.
LEMMA ExpiredStep ==
  ASSUME PoolInv, Ageless, [Next]_vars, NEW c \in Range(idle) \cap expired
  PROVE  c \in Range(idle)' \/ c \notin alive'
<1> USE DEF PoolInv
<1>1. ASSUME NEW t \in Threads, PopExpired(t) \/ PopFresh(t)
      PROVE  c \in Range(idle)' \/ c \notin alive'
  <2>1. idle /= <<>> /\ idle' = Tail(idle)
    BY <1>1 DEF PopExpired, PopFresh, MayPop, PopIdle
  <2>2. Range(idle') = Range(idle) \ {Head(idle)}
    BY <2>1, PopList DEF TypeOK, SoleOwner, IdleDistinct
  <2>3. CASE PopExpired(t)
    BY <2>2, <2>3 DEF PopExpired, Close
  <2>4. CASE PopFresh(t)
    <3>1. c /= Head(idle)
      BY <2>4, PoolConstants DEF PopFresh, Ageless
    <3> QED BY <2>2, <3>1
  <2> QED BY <1>1, <2>3, <2>4
<1>2. ASSUME NEW t \in Threads, NEW d \in Conns, ReleaseToIdle(t, d)
      PROVE  c \in Range(idle)'
  <2>1. d \notin Range(idle) /\ idle' = <<d>> \o idle
    BY <1>2 DEF ReleaseToIdle, Returns, SoleOwner, IdleUnused
  <2> QED BY <2>1, PushList DEF TypeOK, SoleOwner, IdleDistinct
<1>3. CASE Destroy
  BY <1>3 DEF Destroy
<1>4. CASE idle' = idle
  BY <1>4
<1>5. \/ idle' = idle \/ Destroy
      \/ \E t \in Threads : PopExpired(t) \/ PopFresh(t)
      \/ \E t \in Threads, d \in Conns : ReleaseToIdle(t, d)
  BY DEF Next, vars, Acquire, SpuriousWakeup, Timeout, Runs, Wait, GiveUp, PingOk,
    PingFails, ForgetClosed, Reserve, OpenOk, OpenFails, GiveBackSlot, Release,
    ReleaseExcess, ReleaseNoMemory, ReleaseClosing, GrowOld
<1> QED BY <1>1, <1>2, <1>3, <1>4, <1>5

\* A connection that grew too old in the idle list reaches no client again.
THEOREM PoolExpiry == Spec => ExpiredIdleOnlyCloses
<1>1. Init => Ageless
  BY DEF Init, Ageless
<1>2. PoolInv => TypeOK
  BY DEF PoolInv
<1>3. Spec => []Ageless
  BY <1>1, <1>2, AgelessStep, PoolInvariant, PTL DEF Spec
<1>4. PoolInv /\ Ageless /\ [Next]_vars =>
        [\A c \in Range(idle) \cap expired :
            c \in Range(idle)' \/ c \notin alive']_vars
  BY ExpiredStep
<1> QED BY <1>3, <1>4, PoolInvariant, PTL DEF Spec, ExpiredIdleOnlyCloses

(***************************************************************************)
(* The pool implements Lending                                             *)
(***************************************************************************)

\* What a thread pings is open and lent to nobody.
LEMMA PingedUnlent ==
  ASSUME PoolInv, NEW t \in Threads, pc[t] = "pinging"
  PROVE  ~destroyed /\ db[t] \in Conns /\ db[t] \in Lends!Unlent
<1> USE DEF PoolInv
<1>1. ~destroyed
  BY DEF Quiet
<1>2. db[t] \in alive /\ db[t] \in Conns
  BY OwnedAlive DEF TypeOK
<1>3. \A u \in Threads : db[t] \notin lent[u]
  BY DEF SoleOwner, BorrowedOnce
<1> QED BY <1>1, <1>2, <1>3 DEF Lends!Unlent

\* So is the head of the idle list.
LEMMA IdleUnlent ==
  ASSUME PoolInv, idle /= <<>>
  PROVE  Head(idle) \in Conns /\ Head(idle) \in Lends!Unlent
<1> USE DEF PoolInv
<1>1. Head(idle) \in Range(idle)
  BY PopList DEF TypeOK, SoleOwner, IdleDistinct
<1>2. Head(idle) \in alive /\ Head(idle) \in Conns
  BY OwnedAlive DEF TypeOK
<1>3. \A u \in Threads : Head(idle) \notin lent[u]
  BY <1>1 DEF SoleOwner, IdleUnused
<1> QED BY <1>2, <1>3 DEF Lends!Unlent

\* The end of a successful ping lends a handle that is open.
LEMMA PingOkLends ==
  ASSUME PoolInv, NEW t \in Threads, PingOk(t)
  PROVE  Lends!LendOpen(t, db[t]) /\ db[t] \in Conns
<1>1. pc[t] = "pinging" /\ lent' = [lent EXCEPT ![t] = @ \union {db[t]}]
      /\ UNCHANGED <<alive, destroyed>>
  BY DEF PingOk
<1>2. ~destroyed /\ db[t] \in Conns /\ db[t] \in Lends!Unlent
  BY <1>1, PingedUnlent
<1> QED BY <1>1, <1>2 DEF Lends!LendOpen, Lends!Give

\* The end of a successful open lends a new handle: the slot that the thread has
\* reserved is one the open handles do not fill.
LEMMA OpenOkLends ==
  ASSUME PoolInv, NEW t \in Threads, OpenOk(t)
  PROVE  \E c \in Conns : Lends!LendNew(t, c)
<1> USE DEF PoolInv
<1>1. PICK c \in Conns \ alive :
        alive' = alive \union {c} /\ lent' = [lent EXCEPT ![t] = @ \union {c}]
  BY DEF OpenOk
<1>2. pc[t] = "opening" /\ UNCHANGED destroyed
  BY DEF OpenOk
<1>3. ~destroyed
  BY <1>2 DEF Quiet
<1>4. MaxOpen > 0 => Cardinality(alive) < MaxOpen
  <2>1. t \in Reserving /\ IsFiniteSet(Reserving)
    BY <1>2, ThreadSetsFinite DEF Reserving
  <2>2. Cardinality(Reserving) \in Nat \ {0} /\ Cardinality(alive) \in Nat
    BY <2>1, FS_CardinalityType, FS_EmptySet
  <2>3. /\ current_open = Cardinality(alive) + Cardinality(Reserving)
        /\ MaxOpen > 0 => current_open <= MaxOpen
    BY <1>3 DEF Accounting, SlotBound
  <2> QED BY <2>2, <2>3, PoolConstants
<1>5. Lends!Cardinality(alive) = Cardinality(alive)
  BY DEF Lends!Cardinality, Cardinality
<1>6. Lends!LendNew(t, c)
  BY <1>1, <1>2, <1>3, <1>4, <1>5 DEF Lends!LendNew, Lends!Give
<1> QED BY <1>1, <1>6

\* A handle that is too old or does not answer the ping is closed while unlent.
LEMMA ClosesUnlent ==
  ASSUME PoolInv, NEW t \in Threads, PopExpired(t) \/ PingFails(t)
  PROVE  \E c \in Conns : Lends!Discard(c)
<1>1. CASE PopExpired(t)
  <2>1. /\ idle /= <<>> /\ pc[t] /= "out" /\ alive' = alive \ {Head(idle)}
        /\ UNCHANGED <<lent, destroyed>>
    BY <1>1 DEF PopExpired, MayPop, Close
  <2>2. ~destroyed
    BY <2>1 DEF PoolInv, Quiet
  <2> QED BY <2>1, <2>2, IdleUnlent DEF Lends!Discard
<1>2. CASE PingFails(t)
  <2>1. pc[t] = "pinging" /\ alive' = alive \ {db[t]} /\ UNCHANGED <<lent, destroyed>>
    BY <1>2 DEF PingFails, Close
  <2> QED BY <2>1, PingedUnlent DEF Lends!Discard
<1> QED BY <1>1, <1>2

\* A release takes the handle back, and keeps it or closes it.
LEMMA ReleaseTakesBack ==
  ASSUME NEW t \in Threads, NEW c \in Conns,
         ReleaseClosing(t, c) \/ ReleaseToIdle(t, c)
  PROVE  Lends!TakeBack(t, c)
BY DEF ReleaseClosing, ReleaseToIdle, Returns, Close, Lends!TakeBack

\* With no thread inside acquire, the handles that are not lent are the idle ones.
LEMMA DestroyShutsDown ==
  ASSUME PoolInv, Destroy
  PROVE  Lends!ShutDown
<1> USE DEF PoolInv
<1>1. /\ ~destroyed /\ destroyed' = TRUE /\ \A t \in Threads : pc[t] = "out"
      /\ alive' = alive \ Range(idle) /\ UNCHANGED lent
  BY DEF Destroy
<1>2. \A t \in Threads : db[t] = NoConn
  BY <1>1 DEF PingsOwned
<1>3. Lends!Unlent = Range(idle)
  <2>1. ASSUME NEW c \in Range(idle) PROVE c \in Lends!Unlent
    BY IdleInConns DEF SoleOwner, AliveOwned, IdleUnused, Lends!Unlent
  <2>2. ASSUME NEW c \in Lends!Unlent PROVE c \in Range(idle)
    BY <1>2, PoolConstants DEF SoleOwner, AliveOwned, TypeOK, Lends!Unlent
  <2> QED BY <2>1, <2>2
<1> QED BY <1>1, <1>3 DEF Lends!ShutDown

\* The pool implements Lending: whatever its threads do between the test of the
\* wait condition and the handing out, every step is one of the lender or none.
THEOREM PoolImplementsLending == Spec => ImplementsLending
<1>1. Init => Lends!LendingInit
  BY DEF Init, Lends!LendingInit
<1>2. PoolInv /\ [Next]_vars => [Lends!LendingNext]_(Lends!lendingVars)
  <2> SUFFICES ASSUME PoolInv, [Next]_vars
               PROVE  Lends!LendingNext \/ UNCHANGED <<alive, lent, destroyed>>
    BY DEF Lends!lendingVars
  <2>1. ASSUME NEW t \in Threads, PingOk(t) \/ OpenOk(t) \/ PopExpired(t) \/ PingFails(t)
        PROVE  Lends!LendingNext
    BY <2>1, PingOkLends, OpenOkLends, ClosesUnlent DEF Lends!LendingNext
  <2>2. ASSUME NEW t \in Threads, Release(t) PROVE Lends!LendingNext
    BY <2>2, ReleaseTakesBack
    DEF Release, ReleaseExcess, ReleaseNoMemory, Lends!LendingNext
  <2>3. CASE Destroy
    BY <2>3, DestroyShutsDown DEF Lends!LendingNext
  <2>4. ASSUME NEW t \in Threads,
               \/ Acquire(t) \/ SpuriousWakeup(t) \/ Timeout(t) \/ Wait(t) \/ GiveUp(t)
               \/ PopFresh(t) \/ ForgetClosed(t) \/ Reserve(t) \/ OpenFails(t)
               \/ GiveBackSlot(t)
        PROVE  UNCHANGED <<alive, lent, destroyed>>
    BY <2>4 DEF Acquire, SpuriousWakeup, Timeout, Wait, GiveUp, PopFresh, ForgetClosed,
      Reserve, OpenFails, GiveBackSlot
  <2>5. CASE (\E c \in Conns : GrowOld(c)) \/ UNCHANGED vars
    BY <2>5 DEF GrowOld, vars
  <2> QED BY <2>1, <2>2, <2>3, <2>4, <2>5 DEF Next, Runs
<1> QED BY <1>1, <1>2, PoolInvariant, PTL DEF Spec, ImplementsLending, Lends!LendingSpec

\* The lender keeps what its clients rely on, as a consequence of Lending alone;
\* with PoolImplementsLending, so does every implementation of it.
THEOREM LenderKeepsLoansExclusive == ImplementsLending => []Lends!LoansExclusive
<1> DEFINE Inv == /\ lent \in [Threads -> SUBSET Conns] /\ IsFiniteSet(alive)
                  /\ Lends!LoansExclusive
<1>1. \A S : Lends!Cardinality(S) = Cardinality(S)
  BY DEF Lends!Cardinality, Cardinality
<1>2. Lends!LoansExclusive <=>
        /\ \A t \in Threads : lent[t] \subseteq alive
        /\ \A t, u \in Threads : t /= u => lent[t] \cap lent[u] = {}
        /\ MaxOpen > 0 => Cardinality(alive) <= MaxOpen
  BY <1>1 DEF Lends!LoansExclusive
<1>3. Lends!LoansExclusive' <=>
        /\ \A t \in Threads : lent'[t] \subseteq alive'
        /\ \A t, u \in Threads : t /= u => lent'[t] \cap lent'[u] = {}
        /\ MaxOpen > 0 => Cardinality(alive') <= MaxOpen
  BY <1>1 DEF Lends!LoansExclusive
<1>4. Lends!LendingInit => Inv
  <2> SUFFICES ASSUME Lends!LendingInit PROVE Inv
    OBVIOUS
  <2>1. alive = {} /\ lent = [t \in Threads |-> {}]
    BY DEF Lends!LendingInit
  <2>2. IsFiniteSet(alive) /\ Cardinality(alive) = 0
    BY <2>1, FS_EmptySet
  <2> QED BY <2>1, <2>2, <1>2, PoolConstants
<1>5. Inv /\ [Lends!LendingNext]_(Lends!lendingVars) => Inv'
  <2> SUFFICES ASSUME Inv, [Lends!LendingNext]_(Lends!lendingVars) PROVE Inv'
    OBVIOUS
  <2>1. /\ lent \in [Threads -> SUBSET Conns] /\ IsFiniteSet(alive)
        /\ \A t \in Threads : lent[t] \subseteq alive
        /\ \A t, u \in Threads : t /= u => lent[t] \cap lent[u] = {}
        /\ MaxOpen > 0 => Cardinality(alive) <= MaxOpen
        /\ Cardinality(alive) \in Nat
    BY <1>2, FS_CardinalityType
  <2> HIDE DEF Inv
  <2>2. ASSUME alive' \subseteq alive, \A t \in Threads : lent'[t] \subseteq alive',
               lent' \in [Threads -> SUBSET Conns],
               \A t \in Threads : lent'[t] \subseteq lent[t]
        PROVE  Inv'
    <3>1. IsFiniteSet(alive') /\ Cardinality(alive') <= Cardinality(alive)
          /\ Cardinality(alive') \in Nat
      BY <2>1, <2>2, FS_Subset, FS_CardinalityType
    <3>2. MaxOpen > 0 => Cardinality(alive') <= MaxOpen
      BY <2>1, <3>1, PoolConstants
    <3>3. \A t, u \in Threads : t /= u => lent'[t] \cap lent'[u] = {}
      BY <2>1, <2>2
    <3> QED BY <2>2, <3>1, <3>2, <3>3, <1>3 DEF Inv
  <2>3. ASSUME NEW c \in Conns, NEW t \in Threads, Lends!LendOpen(t, c)
        PROVE  Inv'
    <3>1. /\ c \in alive /\ \A u \in Threads : c \notin lent[u]
          /\ lent' = [lent EXCEPT ![t] = @ \union {c}] /\ alive' = alive
      BY <2>3 DEF Lends!LendOpen, Lends!Unlent, Lends!Give
    <3>2. /\ lent' \in [Threads -> SUBSET Conns]
          /\ \A u \in Threads : lent'[u] = IF u = t THEN lent[u] \union {c} ELSE lent[u]
      BY <2>1, <3>1
    <3>3. \A u \in Threads : lent'[u] \subseteq alive
      BY <2>1, <3>1, <3>2
    <3>4. \A u, w \in Threads : u /= w => lent'[u] \cap lent'[w] = {}
      BY <2>1, <3>1, <3>2
    <3> QED BY <2>1, <3>1, <3>2, <3>3, <3>4, <1>3 DEF Inv
  <2>4. ASSUME NEW c \in Conns, NEW t \in Threads, Lends!LendNew(t, c)
        PROVE  Inv'
    <3>1. /\ c \notin alive /\ lent' = [lent EXCEPT ![t] = @ \union {c}]
          /\ alive' = alive \union {c}
          /\ MaxOpen > 0 => Cardinality(alive) < MaxOpen
      BY <2>4, <1>1 DEF Lends!LendNew, Lends!Give
    <3>2. /\ lent' \in [Threads -> SUBSET Conns]
          /\ \A u \in Threads : lent'[u] = IF u = t THEN lent[u] \union {c} ELSE lent[u]
      BY <2>1, <3>1
    <3>3. \A u \in Threads : lent'[u] \subseteq alive'
      BY <2>1, <3>1, <3>2
    <3>4. \A u, w \in Threads : u /= w => lent'[u] \cap lent'[w] = {}
      BY <2>1, <3>1, <3>2
    <3>5. IsFiniteSet(alive') /\ Cardinality(alive') = Cardinality(alive) + 1
      BY <2>1, <3>1, FS_AddElement
    <3>6. MaxOpen > 0 => Cardinality(alive') <= MaxOpen
      BY <2>1, <3>1, <3>5, PoolConstants
    <3> QED BY <3>2, <3>3, <3>4, <3>5, <3>6, <1>3 DEF Inv
  <2>5. ASSUME NEW c \in Conns, NEW t \in Threads, Lends!TakeBack(t, c)
        PROVE  Inv'
    <3>1. /\ c \in lent[t] /\ lent' = [lent EXCEPT ![t] = @ \ {c}]
          /\ alive' \in {alive, alive \ {c}}
      BY <2>5 DEF Lends!TakeBack
    <3>2. /\ lent' \in [Threads -> SUBSET Conns]
          /\ \A u \in Threads : lent'[u] = IF u = t THEN lent[u] \ {c} ELSE lent[u]
      BY <2>1, <3>1
    <3>3. \A u \in Threads : c \notin lent'[u] /\ lent'[u] \subseteq lent[u]
      BY <2>1, <3>1, <3>2
    <3> QED BY <2>1, <2>2, <3>1, <3>2, <3>3
  <2>6. ASSUME NEW c \in Conns, Lends!Discard(c) PROVE Inv'
    <3>1. /\ \A u \in Threads : c \notin lent[u]
          /\ lent' = lent /\ alive' = alive \ {c}
      BY <2>6 DEF Lends!Discard, Lends!Unlent
    <3> QED BY <2>1, <2>2, <3>1
  <2>7. CASE Lends!ShutDown
    <3>1. lent' = lent /\ alive' = alive \ Lends!Unlent
      BY <2>7 DEF Lends!ShutDown
    <3>2. \A u \in Threads : lent[u] \subseteq alive'
      BY <2>1, <3>1 DEF Lends!Unlent
    <3> QED BY <2>1, <2>2, <3>1, <3>2
  <2>8. CASE UNCHANGED <<alive, lent, destroyed>>
    BY <2>1, <2>2, <2>8
  <2> QED BY <2>3, <2>4, <2>5, <2>6, <2>7, <2>8 DEF Lends!LendingNext, Lends!lendingVars
<1>6. Inv => Lends!LoansExclusive
  OBVIOUS
<1> QED BY <1>4, <1>5, <1>6, PTL DEF ImplementsLending, Lends!LendingSpec

=============================================================================
