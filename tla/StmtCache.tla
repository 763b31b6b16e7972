------------------------------ MODULE StmtCache ------------------------------
(***************************************************************************)
(* The prepared-statement cache of src/internal/stmt_cache.c: entries in a *)
(* doubly linked list, updated pointer by pointer.  Each function holds    *)
(* the cache's mutex throughout and is one action.                         *)
(***************************************************************************)
EXTENDS Integers, Sequences, FiniteSets

CONSTANTS Sqls, Stmts, NoStmt, Capacity,
          Nodes,     \* addresses of corm_stmt_entry_t
          Null

ASSUME ListConstants ==
  /\ IsFiniteSet(Nodes) /\ Null \notin Nodes
  /\ Stmts /= {} /\ NoStmt \notin Stmts /\ Capacity \in Nat \ {0}

VARIABLES head, tail, size,    \* fields of the cache
          next, prev,          \* link fields of the entries
          sql, stmt,           \* data fields of the entries
          alloc,               \* the entries that are allocated
          freed,               \* given to entry_destroy_fn by the last call
          ret                  \* returned by the last get or remove

list == <<head, tail, next, prev>>
vars == <<list, size, sql, stmt, alloc, freed, ret>>

Init ==
  /\ head = Null /\ tail = Null /\ size = 0
  /\ next = [n \in Nodes |-> Null] /\ prev = [n \in Nodes |-> Null]
  /\ sql = [n \in Nodes |-> Null] /\ stmt = [n \in Nodes |-> NoStmt]
  /\ alloc = {} /\ freed = {} /\ ret = NoStmt

\* The entries met from h along nx, at most one more than there are.
Chain(h, nx) ==
  LET at[k \in 1..Cardinality(Nodes) + 1] ==
        IF k = 1 THEN h
        ELSE IF at[k-1] = Null THEN Null ELSE nx[at[k-1]]
      length == Cardinality({k \in DOMAIN at : at[k] /= Null})
  IN  [k \in 1..length |-> at[k]]

Walk == Chain(head, next)

\* The search loops of get_unlocked and remove.
Lookup(q) ==
  LET w == Walk
      matches == {k \in DOMAIN w : sql[w[k]] = q}
  IN  IF matches = {} THEN Null
      ELSE w[CHOOSE k \in matches : \A j \in matches : k <= j]
Found(q) == Lookup(q) /= Null

Reached == LET w == Walk IN {w[k] : k \in DOMAIN w}

\* if (n) n->field = m
Assign(field, n, m) == [x \in Nodes |-> IF x = n THEN m ELSE field[x]]

\* The contents of freed entries are not kept: WellLinked shows that no freed
\* entry is reached, so nothing reads them.
Scrub(field, S, blank) == [x \in Nodes |-> IF x \in S THEN blank ELSE field[x]]

\* Mutant: tail is not moved back when the last entry is used.
ToFront_KeepsTail(n) ==
  /\ next' = Assign(Assign(next, prev[n], next[n]), n, head)
  /\ prev' = Assign(Assign(Assign(prev, next[n], prev[n]), n, Null), head, n)
  /\ head' = n
  /\ UNCHANGED tail

\* Move to head.
ToFront(n) ==
  LET next1 == Assign(next, prev[n], next[n])
      prev1 == Assign(prev, next[n], prev[n])
  IN  /\ next' = Assign(next1, n, head)
      /\ prev' = Assign(Assign(prev1, n, Null), head, n)
      /\ tail' = IF n = tail THEN prev[n] ELSE tail
      /\ head' = n

\* Mutant: a hit does not change the order (first in, first out).
Touch_Never(n) == UNCHANGED list

Touch(n) == IF n = head THEN UNCHANGED list ELSE ToFront(n)

Get(q) ==
  /\ freed' = {}
  /\ \/ Found(q) /\ LET n == Lookup(q) IN Touch(n) /\ ret' = stmt[n]
     \/ ~Found(q) /\ ret' = NoStmt /\ UNCHANGED list
  /\ UNCHANGED <<size, sql, stmt, alloc>>

PutExisting(q) ==
  /\ Found(q) /\ freed' = {}
  /\ LET n == Lookup(q) IN Touch(n)
  /\ UNCHANGED <<size, sql, stmt, alloc, ret>>

\* Mutant: off by one in the test for a full cache.
Full_OffByOne == size > Capacity /\ tail /= Null

\* The cache after "Evict tail if full".
Full == size >= Capacity /\ tail /= Null
Victims == IF Full THEN {tail} ELSE {}
AfterEvict ==
  [next  |-> IF Full THEN Scrub(Assign(next, prev[tail], Null), Victims, Null)
                     ELSE next,
   prev  |-> Scrub(prev, Victims, Null),
   sql   |-> Scrub(sql, Victims, Null),
   stmt  |-> Scrub(stmt, Victims, NoStmt),
   tail  |-> IF Full THEN prev[tail] ELSE tail,
   head  |-> IF Full /\ head = tail THEN Null ELSE head,
   alloc |-> alloc \ Victims,
   size  |-> size - Cardinality(Victims),
   freed |-> {stmt[n] : n \in Victims}]

PutNew(q, s) ==
  /\ ~Found(q)
  /\ LET c == AfterEvict
     IN  \E n \in Nodes \ c.alloc :
           /\ sql' = [c.sql EXCEPT ![n] = q] /\ stmt' = [c.stmt EXCEPT ![n] = s]
           /\ next' = [c.next EXCEPT ![n] = c.head]
           /\ prev' = Assign(c.prev, c.head, n)
           /\ head' = n
           /\ tail' = IF c.tail = Null THEN n ELSE c.tail
           /\ size' = c.size + 1
           /\ alloc' = c.alloc \union {n}
           /\ freed' = c.freed
  /\ UNCHANGED ret

\* calloc or strdup fails.
PutNoMemory(q) ==
  /\ ~Found(q)
  /\ LET c == AfterEvict
     IN  /\ next' = c.next /\ prev' = c.prev /\ tail' = c.tail /\ head' = c.head
         /\ sql' = c.sql /\ stmt' = c.stmt
         /\ alloc' = c.alloc /\ size' = c.size /\ freed' = c.freed
  /\ UNCHANGED ret

RemoveFound(q) ==
  /\ Found(q) /\ freed' = {}
  /\ LET n == Lookup(q)
     IN  /\ next' = Scrub(Assign(next, prev[n], next[n]), {n}, Null)
         /\ prev' = Scrub(Assign(prev, next[n], prev[n]), {n}, Null)
         /\ sql' = Scrub(sql, {n}, Null) /\ stmt' = Scrub(stmt, {n}, NoStmt)
         /\ head' = IF n = head THEN next[n] ELSE head
         /\ tail' = IF n = tail THEN prev[n] ELSE tail
         /\ alloc' = alloc \ {n} /\ ret' = stmt[n]
  /\ size' = size - 1

RemoveMissing(q) ==
  /\ ~Found(q) /\ freed' = {} /\ ret' = NoStmt
  /\ UNCHANGED <<list, size, sql, stmt, alloc>>

\* corm_stmt_cache_destroy followed by a new corm_stmt_cache_create, as when a
\* connection is closed and another is opened.
Destroy ==
  /\ LET all == Reached
     IN  /\ freed' = {stmt[n] : n \in all} /\ alloc' = alloc \ all
         /\ next' = Scrub(next, all, Null) /\ prev' = Scrub(prev, all, Null)
         /\ sql' = Scrub(sql, all, Null) /\ stmt' = Scrub(stmt, all, NoStmt)
  /\ head' = Null /\ tail' = Null /\ size' = 0
  /\ UNCHANGED ret

Next ==
  \/ \E q \in Sqls :
       \/ Get(q) \/ PutExisting(q) \/ PutNoMemory(q)
       \/ RemoveFound(q) \/ RemoveMissing(q)
       \/ \E s \in Stmts : PutNew(q, s)
  \/ Destroy

Spec == Init /\ [][Next]_vars

-----------------------------------------------------------------------------

\* The links agree in both directions, tail is the last entry, size is the
\* length, and the entries of the list are exactly the allocated ones: no entry
\* is lost and none is reached after free(evict) or free(curr).
WellLinked ==
  LET w == Walk
  IN  /\ \A k \in DOMAIN w : prev[w[k]] = IF k = 1 THEN Null ELSE w[k-1]
      /\ tail = IF w = <<>> THEN Null ELSE w[Len(w)]
      /\ size = Len(w)
      /\ Reached = alloc /\ Cardinality(alloc) = Len(w)

Contents == LET w == Walk
            IN  [k \in DOMAIN w |-> [sql |-> sql[w[k]], stmt |-> stmt[w[k]]]]

\* The list seen as the abstract cache.
Abstract == INSTANCE StmtLRU WITH lru <- Contents

\* Every call of stmt_cache.c does what the LRU cache of StmtLRU would do: what
\* get and remove return, which statement is destroyed and when, and which entry
\* goes when the cache is full (lines 19-149).
ImplementsLRU == Abstract!CacheSpec

\* README.md:13 promises an LRU cache "with configurable capacity".
WithinCapacity == Abstract!CacheBounded /\ Abstract!CacheDistinct

=============================================================================
