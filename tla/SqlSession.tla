----------------------------- MODULE SqlSession -----------------------------
(***************************************************************************)
(* The transaction state of one connection, as the statements change it    *)
(* that corm.c and the three drivers send.  External: the databases are    *)
(* not part of the repository.  A database is the set of the writes        *)
(* applied to it.                                                          *)
(*                                                                         *)
(* Each operator gives the session after the statement; each Can... says   *)
(* when the driver reports success for it.                                 *)
(***************************************************************************)
EXTENDS Integers, Sequences

NewSession(b) ==
  [backend   |-> b,
   committed |-> {},     \* what other connections see
   working   |-> {},     \* what this connection has made of it
   intx      |-> FALSE,  \* inside a transaction
   explicit  |-> FALSE,  \* ... that BEGIN, not SAVEPOINT, started
   aborted   |-> FALSE,  \* ... that PostgreSQL will only roll back
   saves     |-> <<>>]   \* savepoints [name, view], oldest first

Ended(s, db) ==
  [NewSession(s.backend) EXCEPT !.committed = db, !.working = db]

\* An INSERT, UPDATE or DELETE; durable at once outside a transaction.
CanApply(s) == ~s.aborted
Apply(s, w) ==
  [s EXCEPT !.working = @ \union w,
            !.committed = IF s.intx THEN @ ELSE s.working \union w]

\* COMMIT and ROLLBACK outside a transaction are errors for SQLite only; COMMIT
\* of an aborted transaction succeeds and rolls back.
CanEnd(s) == s.intx \/ s.backend /= "sqlite"
Commit(s) == Ended(s, IF s.aborted THEN s.committed ELSE s.working)
Rollback(s) == Ended(s, s.committed)

\* A statement the database refuses aborts a PostgreSQL transaction; one that
\* fails for other reasons may end a transaction of the others (a deadlock, a
\* full disk).
Refused(s) == [s EXCEPT !.aborted = s.backend = "postgres" /\ s.intx]
Failed(s) ==
  {Refused(s)} \union (IF s.backend = "postgres" THEN {} ELSE {Rollback(s)})

\* A COMMIT that fails; with SQLite the transaction may stay open.
CommitFailed(s) == {Rollback(s)} \union (IF s.backend = "sqlite" THEN {s} ELSE {})

\* A ROLLBACK that fails on the way (no memory in the driver, an I/O error, a
\* server that does not answer): the transaction is open still, or the server has
\* ended it.
RollbackFailed(s) == {s, Rollback(s)}

\* BEGIN inside a transaction: an error for SQLite, a warning for PostgreSQL;
\* MySQL commits first.
CanBegin(s) ==
  CASE s.backend = "sqlite" -> ~s.intx
    [] s.backend = "mysql" -> TRUE
    [] s.backend = "postgres" -> ~s.aborted
Begin(s) ==
  IF s.backend = "postgres" /\ s.intx THEN s
  ELSE [Commit(s) EXCEPT !.intx = TRUE, !.explicit = TRUE]

\* ROLLBACK TO and RELEASE mean the newest savepoint of that name.
CanName(s, n) == \E i \in DOMAIN s.saves : s.saves[i].name = n
Newest(s, n) ==
  CHOOSE i \in DOMAIN s.saves :
    s.saves[i].name = n /\ \A j \in DOMAIN s.saves : s.saves[j].name = n => j <= i

\* SAVEPOINT outside a transaction: SQLite starts one, MySQL does nothing.  In
\* MySQL it replaces the savepoint of the same name.
CanSavepoint(s) == s.backend = "postgres" => s.intx /\ ~s.aborted
Others(s, n) ==
  LET i == Newest(s, n)
  IN  IF s.backend = "mysql" /\ CanName(s, n)
      THEN SubSeq(s.saves, 1, i - 1) \o SubSeq(s.saves, i + 1, Len(s.saves))
      ELSE s.saves
Savepoint(s, n) ==
  IF s.backend = "mysql" /\ ~s.intx THEN s
  ELSE [s EXCEPT !.intx = TRUE,
                 !.saves = Append(Others(s, n), [name |-> n, view |-> s.working])]

\* The savepoint itself stays; an aborted transaction goes on from there.
RollbackTo(s, n) ==
  LET i == Newest(s, n)
  IN  [s EXCEPT !.working = s.saves[i].view, !.saves = SubSeq(@, 1, i),
                !.aborted = FALSE]

\* Releasing the savepoint that started the transaction commits it.
CanRelease(s, n) == CanName(s, n) /\ ~s.aborted
Release(s, n) ==
  LET i == Newest(s, n)
  IN  IF i = 1 /\ ~s.explicit THEN Commit(s)
      ELSE [s EXCEPT !.saves = SubSeq(@, 1, i - 1)]

=============================================================================
