------------------------------- MODULE StmtLRU -------------------------------
(***************************************************************************)
(* What the prepared-statement cache promises: a bounded map from SQL text *)
(* to statement, ordered by last use, that evicts the entry not used for   *)
(* the longest time.  StmtCache, the doubly linked list of stmt_cache.c,   *)
(* implements it, and the drivers' models use it.                          *)
(*                                                                         *)
(* Every function of stmt_cache.c holds the cache's mutex from its first   *)
(* access to its last, so each call is one step.                           *)
(***************************************************************************)
EXTENDS Integers, Sequences, FiniteSets

CONSTANTS Sqls,      \* SQL texts
          Stmts,     \* statement handles
          NoStmt,    \* NULL
          Capacity   \* cache->capacity; create refuses 0

ASSUME CacheConstants ==
  NoStmt \notin Stmts /\ Capacity \in Nat \ {0}

VARIABLES lru,    \* the entries [sql, stmt], the last used first
          freed,  \* the statements the last call gave to entry_destroy_fn
          ret     \* the statement the last get or remove returned

cacheVars == <<lru, freed, ret>>

Entries == [sql : Sqls, stmt : Stmts]
Cached == {lru[i].sql : i \in DOMAIN lru}
CachedStmts == {lru[i].stmt : i \in DOMAIN lru}

At(q) == LET l == lru IN CHOOSE i \in DOMAIN l : l[i].sql = q
Without(s, i) == SubSeq(s, 1, i - 1) \o SubSeq(s, i + 1, Len(s))
Touched(q) == LET l == lru
                  i == CHOOSE k \in DOMAIN l : l[k].sql = q
              IN  <<l[i]>> \o Without(l, i)

\* What is left to insert into: a full cache loses its last entry.
Room == IF Len(lru) >= Capacity THEN SubSeq(lru, 1, Len(lru) - 1) ELSE lru
Evicted == IF Len(lru) >= Capacity THEN {lru[Len(lru)].stmt} ELSE {}

CacheInit == lru = <<>> /\ freed = {} /\ ret = NoStmt

Hit(q) ==
  /\ q \in Cached
  /\ lru' = Touched(q) /\ ret' = lru[At(q)].stmt /\ freed' = {}

Miss(q) ==
  /\ q \notin Cached
  /\ ret' = NoStmt /\ freed' = {} /\ UNCHANGED lru

Get(q) == Hit(q) \/ Miss(q)

\* A statement is there already: it is kept and becomes the last used one.
PutExisting(q) ==
  /\ q \in Cached
  /\ lru' = Touched(q) /\ freed' = {} /\ UNCHANGED ret

PutNew(q, s) ==
  /\ q \notin Cached
  /\ lru' = <<[sql |-> q, stmt |-> s]>> \o Room
  /\ freed' = Evicted /\ UNCHANGED ret

\* No memory for the entry: the eviction has happened all the same.
PutNoMemory(q) ==
  /\ q \notin Cached
  /\ lru' = Room /\ freed' = Evicted /\ UNCHANGED ret

Put(q, s) == PutExisting(q) \/ PutNew(q, s) \/ PutNoMemory(q)

Remove(q) ==
  \/ /\ q \in Cached
     /\ lru' = Without(lru, At(q)) /\ ret' = lru[At(q)].stmt /\ freed' = {}
  \/ Miss(q)

\* Every statement is destroyed.
DestroyAll == lru' = <<>> /\ freed' = CachedStmts /\ UNCHANGED ret

CacheNext ==
  \/ \E q \in Sqls : Get(q) \/ Remove(q) \/ \E s \in Stmts : Put(q, s)
  \/ DestroyAll

CacheSpec == CacheInit /\ [][CacheNext]_cacheVars

CacheTypeOK ==
  lru \in Seq(Entries) /\ freed \in SUBSET Stmts /\ ret \in Stmts \union {NoStmt}

\* A lookup has at most one answer, and the cache stays within its capacity.
CacheBounded == Len(lru) <= Capacity
CacheDistinct == \A i, j \in DOMAIN lru : lru[i].sql = lru[j].sql => i = j

=============================================================================
