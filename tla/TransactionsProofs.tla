------------------------- MODULE TransactionsProofs -------------------------
(***************************************************************************)
(* Proofs about Transactions, for any writes and savepoint names and any   *)
(* number of savepoints, on every backend.                                 *)
(***************************************************************************)
EXTENDS Transactions, SequenceTheorems, SequenceLemmas

(***************************************************************************)
(* The inductive invariant                                                 *)
(***************************************************************************)

Saves == [name : Names, view : Database]

Sessions == [backend : Backends, committed : Database, working : Database,
             intx : BOOLEAN, explicit : BOOLEAN, aborted : BOOLEAN,
             saves : Seq(Saves)]

\* Outside transactions nothing is aborted and there are no savepoints; only a
\* SAVEPOINT of SQLite starts a transaction without BEGIN.
SessionOK(x) ==
  /\ x \in Sessions
  /\ ~x.intx => ~x.aborted /\ x.saves = <<>>
  /\ x.backend = "postgres" /\ x.intx => x.explicit

LocalsTyped ==
  /\ pc \in {"idle", "closure", "batch", "create"} /\ caller \in {"idle", "closure"}
  /\ result \in {"ok", "error"} /\ start \in Database
  /\ opener \in {"nobody", "client", "commit", "rollback"} /\ broken \in BOOLEAN

\* Where the client or corm_create_batch runs outside corm_transaction, an open
\* transaction has somebody who opened it.
Owned == (pc \in {"idle", "create"} /\ caller = "idle" /\ opener = "nobody") => ~s.intx

\* A batch whose BEGIN succeeded is in a transaction that has committed nothing.
Protected ==
  (pc = "batch" /\ caller = "idle" /\ opener = "nobody" /\ ~broken) =>
     s.intx /\ ~s.aborted /\ s.committed = start

TxInv ==
  /\ SessionOK(s) /\ LocalsTyped
  /\ pc \in {"idle", "closure"} => caller = "idle"
  /\ Owned /\ Protected

\* In corm_transaction the database is as it was, although the transaction may
\* have been ended or aborted by a failed statement; then the closure returns an
\* error or rolls back to a savepoint next.  No RELEASE commits it.
InTransaction ==
  (pc = "closure" \/ caller = "closure") =>
     /\ pc /= "batch" /\ s.committed = start /\ (s.intx => s.explicit)
     /\ ~broken => s.intx /\ ~s.aborted
     /\ pc = "create" => ~broken

(***************************************************************************)
(* What the statements do to a session                                     *)
(***************************************************************************)

\* After COMMIT and ROLLBACK no transaction is open.
LEMMA EndedSession ==
  ASSUME NEW x, SessionOK(x), NEW db \in Database
  PROVE  /\ SessionOK(Ended(x, db)) /\ ~Ended(x, db).intx
         /\ Ended(x, db).committed = db
<1>1. <<>> \in Seq(Saves)
  BY EmptySeq
<1> QED BY <1>1 DEF SessionOK, Sessions, Ended, NewSession

\* COMMIT keeps the writes of the transaction unless it was aborted.
LEMMA CommitSession ==
  ASSUME NEW x, SessionOK(x)
  PROVE  /\ SessionOK(Commit(x)) /\ ~Commit(x).intx
         /\ Commit(x).committed = IF x.aborted THEN x.committed ELSE x.working
<1>1. (IF x.aborted THEN x.committed ELSE x.working) \in Database
  BY DEF SessionOK, Sessions
<1> QED BY <1>1, EndedSession DEF Commit

\* ROLLBACK keeps what was committed.
LEMMA RollbackSession ==
  ASSUME NEW x, SessionOK(x)
  PROVE  /\ SessionOK(Rollback(x)) /\ ~Rollback(x).intx
         /\ Rollback(x).committed = x.committed
<1>1. x.committed \in Database
  BY DEF SessionOK, Sessions
<1> QED BY <1>1, EndedSession DEF Rollback

\* A write inside a transaction is not committed.
LEMMA ApplySession ==
  ASSUME NEW x, SessionOK(x), NEW w \in SUBSET Writes
  PROVE  /\ SessionOK(Apply(x, w))
         /\ Apply(x, w).intx = x.intx /\ Apply(x, w).explicit = x.explicit
         /\ Apply(x, w).aborted = x.aborted
         /\ x.intx => Apply(x, w).committed = x.committed
BY DEF SessionOK, Sessions, Apply, Database

\* BEGIN makes a transaction that only COMMIT and ROLLBACK end.
LEMMA BeginSession ==
  ASSUME NEW x, SessionOK(x), CanBegin(x)
  PROVE  /\ SessionOK(Begin(x))
         /\ Begin(x).intx /\ Begin(x).explicit /\ ~Begin(x).aborted
<1>1. CASE x.backend = "postgres" /\ x.intx
  BY <1>1 DEF Begin, CanBegin, SessionOK
<1>2. CASE ~(x.backend = "postgres" /\ x.intx)
  <2>1. Begin(x) = [Commit(x) EXCEPT !.intx = TRUE, !.explicit = TRUE]
    BY <1>2 DEF Begin
  <2>2. SessionOK(Commit(x)) /\ ~Commit(x).intx
    BY CommitSession
  <2> QED BY <2>1, <2>2 DEF SessionOK, Sessions
<1> QED BY <1>1, <1>2

\* A refused or failed statement commits nothing and opens no transaction.
Harmless(x, y) ==
  /\ SessionOK(y) /\ y.committed = x.committed
  /\ y.intx => x.intx /\ y.explicit = x.explicit

\* A statement that the server refuses is harmless.
LEMMA RefusedSession ==
  ASSUME NEW x, SessionOK(x)
  PROVE  Harmless(x, Refused(x))
BY DEF SessionOK, Sessions, Refused, Harmless

\* So is one that fails, also where the backend rolls back then.
LEMMA FailedSession ==
  ASSUME NEW x, SessionOK(x), NEW y \in {x} \union Failed(x)
  PROVE  Harmless(x, y)
<1>1. Harmless(x, x)
  BY DEF Harmless
<1>2. Harmless(x, Rollback(x))
  BY RollbackSession DEF Harmless
<1> QED BY <1>1, <1>2, RefusedSession DEF Failed

\* So is a ROLLBACK that fails.
LEMMA RollbackFailedSession ==
  ASSUME NEW x, SessionOK(x), NEW y \in RollbackFailed(x)
  PROVE  Harmless(x, y)
<1>1. Harmless(x, x)
  BY DEF Harmless
<1>2. Harmless(x, Rollback(x))
  BY RollbackSession DEF Harmless
<1> QED BY <1>1, <1>2 DEF RollbackFailed

\* So is a COMMIT that fails.
LEMMA CommitFailedSession ==
  ASSUME NEW x, SessionOK(x), NEW y \in CommitFailed(x)
  PROVE  Harmless(x, y)
<1>1. Harmless(x, x)
  BY DEF Harmless
<1>2. Harmless(x, Rollback(x))
  BY RollbackSession DEF Harmless
<1> QED BY <1>1, <1>2 DEF CommitFailed

\* The newest savepoint of a name exists when the name does.
LEMMA NewestIsThere ==
  ASSUME NEW x, SessionOK(x), NEW n, CanName(x, n)
  PROVE  /\ Newest(x, n) \in 1..Len(x.saves) /\ Len(x.saves) \in Nat
         /\ x.saves \in Seq(Saves) /\ x.intx
         /\ \A i \in 1..Len(x.saves) : x.saves[i] \in Saves
<1> DEFINE S == {i \in 1..Len(x.saves) : x.saves[i].name = n}
<1>1. /\ x.saves \in Seq(Saves) /\ Len(x.saves) \in Nat
      /\ DOMAIN x.saves = 1..Len(x.saves)
      /\ \A i \in 1..Len(x.saves) : x.saves[i] \in Saves
  <2>1. x.saves \in Seq(Saves)
    BY DEF SessionOK, Sessions
  <2> QED BY <2>1, LenProperties, ElementOfSeq
<1>2. S \in SUBSET Nat /\ S /= {} /\ \A k \in S : k <= Len(x.saves)
  BY <1>1 DEF CanName
<1>3. PICK m \in S : \A k \in S : k <= m
  BY <1>1, <1>2, GreatestNumber
<1>4. Newest(x, n) \in DOMAIN x.saves
  BY <1>1, <1>3 DEF Newest
<1>5. x.saves /= <<>>
  BY <1>1, <1>3
<1> QED BY <1>1, <1>4, <1>5 DEF SessionOK

\* The savepoints that stay when one of the name is set again.
LEMMA OthersTyped ==
  ASSUME NEW x, SessionOK(x), NEW n
  PROVE  Others(x, n) \in Seq(Saves)
<1>1. CASE x.backend = "mysql" /\ CanName(x, n)
  <2> DEFINE i == Newest(x, n)
  <2>1. /\ i \in 1..Len(x.saves) /\ Len(x.saves) \in Nat /\ x.saves \in Seq(Saves)
        /\ \A k \in 1..Len(x.saves) : x.saves[k] \in Saves
    BY <1>1, NewestIsThere
  <2> HIDE DEF i
  <2>2. SubSeq(x.saves, 1, i - 1) \in Seq(Saves)
    <3>1. \A k \in 1..(i - 1) : x.saves[k] \in Saves
      BY <2>1
    <3> QED BY <3>1, <2>1, SubSeqProperties
  <2>3. SubSeq(x.saves, i + 1, Len(x.saves)) \in Seq(Saves)
    <3>1. \A k \in (i + 1)..Len(x.saves) : x.saves[k] \in Saves
      BY <2>1
    <3> QED BY <3>1, <2>1, SubSeqProperties
  <2>4. Others(x, n) = SubSeq(x.saves, 1, i - 1) \o SubSeq(x.saves, i + 1, Len(x.saves))
    BY <1>1 DEF Others, i
  <2> QED BY <2>2, <2>3, <2>4, ConcatProperties
<1>2. CASE ~(x.backend = "mysql" /\ CanName(x, n))
  BY <1>2 DEF Others, SessionOK, Sessions
<1> QED BY <1>1, <1>2

\* SAVEPOINT commits nothing; it may start a transaction.
LEMMA SavepointSession ==
  ASSUME NEW x, SessionOK(x), NEW n \in Names, CanSavepoint(x)
  PROVE  /\ SessionOK(Savepoint(x, n))
         /\ Savepoint(x, n).committed = x.committed
         /\ Savepoint(x, n).explicit = x.explicit
         /\ Savepoint(x, n).aborted = x.aborted
         /\ x.intx => Savepoint(x, n).intx
<1> DEFINE sv == [name |-> n, view |-> x.working]
           seq == Append(Others(x, n), sv)
<1>1. sv \in Saves
  BY DEF Saves, SessionOK, Sessions
<1>2. seq \in Seq(Saves)
  BY <1>1, OthersTyped, AppendProperties
<1>3. Savepoint(x, n) = IF x.backend = "mysql" /\ ~x.intx THEN x
                        ELSE [x EXCEPT !.intx = TRUE, !.saves = seq]
  BY DEF Savepoint
<1> HIDE DEF seq
<1> QED BY <1>2, <1>3 DEF SessionOK, Sessions, CanSavepoint

\* ROLLBACK TO commits nothing and leaves a transaction that is not aborted.
LEMMA RollbackToSession ==
  ASSUME NEW x, SessionOK(x), NEW n, CanName(x, n)
  PROVE  /\ SessionOK(RollbackTo(x, n))
         /\ RollbackTo(x, n).committed = x.committed
         /\ RollbackTo(x, n).explicit = x.explicit
         /\ ~RollbackTo(x, n).aborted /\ x.intx /\ RollbackTo(x, n).intx
<1> DEFINE i == Newest(x, n)
           view == x.saves[i].view
           seq == SubSeq(x.saves, 1, i)
<1>1. /\ i \in 1..Len(x.saves) /\ Len(x.saves) \in Nat /\ x.saves \in Seq(Saves)
      /\ \A k \in 1..Len(x.saves) : x.saves[k] \in Saves
      /\ x.intx
  BY NewestIsThere
<1>2. RollbackTo(x, n) = [x EXCEPT !.working = view, !.saves = seq, !.aborted = FALSE]
  BY DEF RollbackTo
<1> HIDE DEF i
<1>3. seq \in Seq(Saves)
  <2>1. \A k \in 1..i : x.saves[k] \in Saves
    BY <1>1
  <2> QED BY <2>1, <1>1, SubSeqProperties
<1>4. view \in Database
  BY <1>1 DEF Saves
<1> HIDE DEF view, seq
<1> QED BY <1>1, <1>2, <1>3, <1>4 DEF SessionOK, Sessions

\* RELEASE commits only a transaction that a savepoint started.
LEMMA ReleaseSession ==
  ASSUME NEW x, SessionOK(x), NEW n, CanRelease(x, n)
  PROVE  /\ SessionOK(Release(x, n)) /\ x.intx
         /\ x.explicit => /\ Release(x, n).committed = x.committed
                          /\ Release(x, n).explicit /\ Release(x, n).intx
                          /\ Release(x, n).aborted = x.aborted
<1> DEFINE i == Newest(x, n)
           seq == SubSeq(x.saves, 1, i - 1)
<1>1. /\ i \in 1..Len(x.saves) /\ Len(x.saves) \in Nat /\ x.saves \in Seq(Saves)
      /\ \A k \in 1..Len(x.saves) : x.saves[k] \in Saves
      /\ x.intx
  BY NewestIsThere DEF CanRelease
<1>2. Release(x, n) = IF i = 1 /\ ~x.explicit THEN Commit(x) ELSE [x EXCEPT !.saves = seq]
  BY DEF Release
<1> HIDE DEF i
<1>3. seq \in Seq(Saves)
  <2>1. \A k \in 1..(i - 1) : x.saves[k] \in Saves
    BY <1>1
  <2> QED BY <2>1, <1>1, SubSeqProperties
<1>4. SessionOK(Commit(x))
  BY CommitSession
<1> HIDE DEF seq
<1>5. SessionOK([x EXCEPT !.saves = seq])
  BY <1>1, <1>3 DEF SessionOK, Sessions
<1> QED BY <1>1, <1>2, <1>4, <1>5 DEF SessionOK, Sessions

(***************************************************************************)
(* TxInv is inductive                                                      *)
(***************************************************************************)

\* A statement of the client, whether it succeeds or fails.
LEMMA ClientStep ==
  ASSUME TxInv, NEW new, SessionOK(new), pc \in {"idle", "closure"},
         Does(new) \/ Fails(new)
  PROVE  TxInv'
<1>1. /\ s' = new /\ result' \in {"ok", "error"} /\ broken' \in BOOLEAN
      /\ opener' = IF pc = "idle" THEN Blame(new, "client") ELSE opener
      /\ UNCHANGED <<pc, caller, start>>
  BY DEF Does, Fails, TxInv, LocalsTyped
<1>2. LocalsTyped' /\ Owned'
  BY <1>1 DEF TxInv, LocalsTyped, Owned, Blame
<1>3. Protected'
  BY <1>1 DEF Protected
<1> QED BY <1>1, <1>2, <1>3 DEF TxInv

\* The statements of the client, at the top and inside a closure.
LEMMA ClientInv ==
  ASSUME TxInv, Client
  PROVE  TxInv'
<1> USE DEF InClient
<1>0. SessionOK(s) /\ SessionOK(Refused(s))
  BY RefusedSession DEF TxInv, Harmless
<1>1. CASE Write
  <2>1. PICK w \in Writes \ s.working : Does(Apply(s, {w}))
    BY <1>1 DEF Write
  <2> QED BY <1>0, <1>1, <2>1, ApplySession, ClientStep DEF Write
<1>2. CASE StmtFails
  <2>1. PICK new \in {s} \union Failed(s) : Fails(new)
    BY <1>2 DEF StmtFails
  <2> QED BY <1>0, <1>2, <2>1, FailedSession, ClientStep DEF StmtFails, Harmless
<1>3. CASE ClientBegin
  BY <1>0, <1>3, BeginSession, ClientStep DEF ClientBegin
<1>4. CASE ClientCommit
  BY <1>0, <1>4, CommitSession, ClientStep DEF ClientCommit
<1>5. CASE ClientRollback
  BY <1>0, <1>5, RollbackSession, ClientStep DEF ClientRollback
<1>6. ASSUME NEW n \in Names, ClientSavepoint(n) PROVE TxInv'
  BY <1>0, <1>6, SavepointSession, ClientStep DEF ClientSavepoint
<1>7. ASSUME NEW n \in Names, ClientRollbackTo(n) PROVE TxInv'
  <2>1. CASE Fails(Refused(s)) /\ InClient
    BY <1>0, <2>1, ClientStep
  <2>2. CASE /\ pc \in {"idle", "closure"} /\ CanName(s, n)
             /\ s' = RollbackTo(s, n) /\ result' = "ok" /\ broken' = FALSE
             /\ UNCHANGED <<pc, caller, start, opener>>
    <3>1. SessionOK(s') /\ s.intx
      BY <1>0, <2>2, RollbackToSession
    <3> QED BY <3>1, <2>2 DEF TxInv, LocalsTyped, Owned, Protected
  <2> QED BY <1>7, <2>1, <2>2 DEF ClientRollbackTo
<1>8. ASSUME NEW n \in Names, ClientRelease(n) PROVE TxInv'
  BY <1>0, <1>8, ReleaseSession, ClientStep DEF ClientRelease
<1> QED BY <1>1, <1>2, <1>3, <1>4, <1>5, <1>6, <1>7, <1>8 DEF Client

\* corm_transaction: no way out leaves a transaction open, but a failed COMMIT or
\* ROLLBACK.
LEMMA ClosureReturn ==
  ASSUME TxInv, NEW new, SessionOK(new), NEW res \in {"ok", "error"},
         NEW who \in {"nobody", "commit", "rollback"}, who = "nobody" => ~new.intx,
         pc = "closure", TransactionReturn(new, res, who)
  PROVE  TxInv'
<1>1. s' = new /\ result' = res /\ pc' = "idle" /\ broken' = FALSE
      /\ opener' = Blame(new, who) /\ caller' = caller /\ start' = start
  BY DEF TransactionReturn
<1> QED BY <1>1 DEF TxInv, LocalsTyped, Owned, Protected, Blame

\* corm_transaction, around a closure.
LEMMA TransactionInv ==
  ASSUME TxInv,
         TransactionEnter \/ ClosureOk \/ ClosureCommitFails \/ ClosureError
           \/ ClosureRollbackFails
  PROVE  TxInv'
<1>0. SessionOK(s)
  BY DEF TxInv
<1>1. CASE TransactionEnter
  <2>1. CASE CanBegin(s)
    <3>1. /\ s' = Begin(s) /\ pc' = "closure" /\ start' = s'.committed
          /\ broken' = FALSE /\ UNCHANGED <<caller, result, opener>> /\ pc = "idle"
      BY <1>1, <2>1 DEF TransactionEnter
    <3>2. SessionOK(s') /\ start' \in Database
      BY <3>1, <2>1, <1>0, BeginSession DEF SessionOK, Sessions
    <3> QED BY <3>1, <3>2 DEF TxInv, LocalsTyped, Owned, Protected
  <2>2. CASE ~CanBegin(s)
    BY <2>2, <1>0, <1>1, ClientStep DEF TransactionEnter
  <2> QED BY <2>1, <2>2
<1>2. CASE ClosureOk
  BY <1>0, <1>2, CommitSession, ClosureReturn DEF ClosureOk
<1>3. CASE ClosureCommitFails
  <2>1. PICK new \in CommitFailed(s) : TransactionReturn(new, "error", "commit")
    BY <1>3 DEF ClosureCommitFails
  <2> QED BY <2>1, <1>0, <1>3, CommitFailedSession, ClosureReturn
          DEF ClosureCommitFails, Harmless
<1>4. CASE ClosureError
  <2>1. PICK new : new = IF CanEnd(s) THEN Rollback(s) ELSE s
    OBVIOUS
  <2>2. SessionOK(new) /\ ~new.intx
    BY <2>1, <1>0, RollbackSession DEF CanEnd
  <2> QED BY <2>1, <2>2, <1>4, ClosureReturn DEF ClosureError
<1>5. CASE ClosureRollbackFails
  <2>1. PICK new \in RollbackFailed(s) : TransactionReturn(new, "error", "rollback")
    BY <1>5 DEF ClosureRollbackFails
  <2> QED BY <2>1, <1>0, <1>5, RollbackFailedSession, ClosureReturn
          DEF ClosureRollbackFails, Harmless
<1> QED BY <1>1, <1>2, <1>3, <1>4, <1>5

\* Entering a batch function: what it has to establish.
LEMMA BatchCallInv ==
  ASSUME TxInv, NEW to \in {"batch", "create"}, NEW unprotected \in BOOLEAN,
         BatchCall(to, unprotected), SessionOK(s'),
         to = "create" => s' = s,
         (to = "batch" /\ pc = "idle" /\ ~unprotected /\ ~s.intx) =>
            s'.intx /\ ~s'.aborted
  PROVE  TxInv'
<1>1. /\ start' = IF pc = "idle" THEN s'.committed ELSE start
      /\ broken' = IF pc = "idle" THEN unprotected ELSE broken
      /\ pc' = to /\ caller' = pc /\ result' = result /\ opener' = opener
      /\ pc \in {"idle", "closure"}
  BY DEF BatchCall, InClient
<1>2. LocalsTyped'
  BY <1>1 DEF TxInv, LocalsTyped, SessionOK, Sessions
<1>3. Owned' /\ Protected'
  BY <1>1 DEF TxInv, Owned, Protected
<1> QED BY <1>1, <1>2, <1>3 DEF TxInv

\* Leaving one: the transaction is ended, COMMIT or ROLLBACK has failed, or there
\* was none.
LEMMA BatchReturnInv ==
  ASSUME TxInv, NEW new, SessionOK(new), NEW res \in {"ok", "error"},
         NEW who \in {"nobody", "commit", "rollback"}, pc \in {"batch", "create"},
         (who = "nobody" /\ caller = "idle" /\ opener = "nobody") => ~new.intx,
         BatchReturn(new, res, who), broken' \in BOOLEAN
  PROVE  TxInv'
<1>1. /\ s' = new /\ result' = res /\ pc' = caller /\ caller' = "idle"
      /\ opener' = IF caller = "idle" THEN Blame(new, who) ELSE opener
      /\ start' = start
  BY DEF BatchReturn
<1>2. LocalsTyped' /\ Owned' /\ Protected'
  BY <1>1 DEF TxInv, LocalsTyped, Owned, Protected, Blame
<1> QED BY <1>1, <1>2 DEF TxInv, LocalsTyped

\* corm_update_batch and corm_delete_batch, which try to end their transaction on
\* every path.
LEMMA BatchInv ==
  ASSUME TxInv,
         BatchEnter \/ BatchBeginFails \/ BatchRecord \/ BatchFails \/ BatchDone
           \/ BatchRollbackFails \/ BatchCommitFails
  PROVE  TxInv'
<1>0. SessionOK(s) /\ broken \in BOOLEAN /\ caller \in {"idle", "closure"}
  BY DEF TxInv, LocalsTyped
<1>1. CASE BatchEnter
  <2>1. ~s.intx => CanBegin(s)
    BY <1>0, TxConstants DEF CanBegin, SessionOK, Sessions
  <2>2. /\ SessionOK(s') /\ (~s.intx => s'.intx /\ ~s'.aborted)
        /\ BatchCall("batch", FALSE)
    BY <1>0, <1>1, <2>1, BeginSession DEF BatchEnter
  <2> QED BY <2>2, BatchCallInv
<1>2. CASE BatchBeginFails
  <2>1. SessionOK(s') /\ BatchCall("batch", TRUE)
    BY <1>0, <1>2, FailedSession DEF BatchBeginFails, Harmless
  <2> QED BY <2>1, BatchCallInv
<1>3. CASE BatchRecord
  <2>1. PICK w \in Writes : s' = Apply(s, {w})
    BY <1>3 DEF BatchRecord
  <2>2. /\ SessionOK(s') /\ s'.intx = s.intx /\ s'.aborted = s.aborted
        /\ s.intx => s'.committed = s.committed
    BY <1>0, <2>1, ApplySession
  <2>3. UNCHANGED <<pc, caller, result, start, opener, broken>> /\ pc = "batch"
    BY <1>3 DEF BatchRecord
  <2> QED BY <2>2, <2>3 DEF TxInv, LocalsTyped, Owned, Protected
<1>4. CASE BatchFails
  <2>1. PICK f \in {s} \union Failed(s) :
          BatchReturn(IF CanEnd(f) THEN Rollback(f) ELSE f, "error", "nobody")
    BY <1>4 DEF BatchFails
  <2>2. PICK new : new = IF CanEnd(f) THEN Rollback(f) ELSE f
    OBVIOUS
  <2>3. SessionOK(f)
    BY <1>0, FailedSession DEF Harmless
  <2>4. SessionOK(new) /\ ~new.intx
    BY <2>2, <2>3, RollbackSession DEF CanEnd
  <2> QED BY <2>1, <2>2, <2>4, <1>0, <1>4, BatchReturnInv DEF BatchFails
<1>5. CASE BatchDone
  <2>1. PICK new : new = IF CanEnd(s) THEN Commit(s) ELSE s
    OBVIOUS
  <2>2. SessionOK(new) /\ ~new.intx
    BY <1>0, <2>1, CommitSession DEF CanEnd
  <2> QED BY <2>1, <2>2, <1>0, <1>5, BatchReturnInv DEF BatchDone
<1>6. CASE BatchCommitFails
  <2>1. PICK new \in CommitFailed(s) : BatchReturn(new, "ok", "commit")
    BY <1>6 DEF BatchCommitFails
  <2>2. SessionOK(new)
    BY <1>0, CommitFailedSession DEF Harmless
  <2> QED BY <2>1, <2>2, <1>0, <1>6, BatchReturnInv DEF BatchCommitFails
<1>7. CASE BatchRollbackFails
  <2>1. PICK f \in {s} \union Failed(s) :
          \E new \in RollbackFailed(f) : BatchReturn(new, "error", "rollback")
    BY <1>7 DEF BatchRollbackFails
  <2>2. PICK new \in RollbackFailed(f) : BatchReturn(new, "error", "rollback")
    BY <2>1
  <2>3. SessionOK(f)
    BY <1>0, FailedSession DEF Harmless
  <2>4. SessionOK(new)
    BY <2>3, RollbackFailedSession DEF Harmless
  <2> QED BY <2>2, <2>4, <1>0, <1>7, BatchReturnInv DEF BatchRollbackFails
<1> QED BY <1>1, <1>2, <1>3, <1>4, <1>5, <1>6, <1>7

\* corm_create_batch, one INSERT after the other.
LEMMA CreateInv ==
  ASSUME TxInv, CreateEnter \/ CreateInsert \/ CreateOk \/ CreateFails
  PROVE  TxInv'
<1>0. SessionOK(s) /\ broken \in BOOLEAN /\ caller \in {"idle", "closure"}
  BY DEF TxInv, LocalsTyped
<1>1. CASE CreateEnter
  BY <1>0, <1>1, BatchCallInv DEF CreateEnter
<1>2. CASE CreateInsert
  <2>1. PICK ws \in SUBSET Writes : s' = Apply(s, ws)
    BY <1>2 DEF CreateInsert
  <2>2. SessionOK(s') /\ s'.intx = s.intx
    BY <1>0, <2>1, ApplySession
  <2>3. UNCHANGED <<pc, caller, result, start, opener, broken>> /\ pc = "create"
    BY <1>2 DEF CreateInsert
  <2> QED BY <2>2, <2>3 DEF TxInv, LocalsTyped, Owned, Protected
<1>3. CASE CreateOk
  BY <1>0, <1>3, BatchReturnInv DEF CreateOk, TxInv, Owned
<1>4. CASE CreateFails
  <2>1. PICK new \in {s} \union Failed(s) :
          /\ BatchReturn(new, "error", "nobody")
          /\ broken' = (broken \/ (caller = "closure" /\ new /= s))
    BY <1>4 DEF CreateFails
  <2>2. SessionOK(new) /\ (new.intx => s.intx)
    BY <1>0, FailedSession DEF Harmless
  <2> QED BY <2>1, <2>2, <1>0, <1>4, BatchReturnInv DEF CreateFails, TxInv, Owned
<1> QED BY <1>1, <1>2, <1>3, <1>4

\* The initial states and every step keep TxInv.
LEMMA TxStart ==
  ASSUME Init
  PROVE  TxInv
<1>1. PICK b \in Backends : s = NewSession(b)
  BY DEF Init
<1>2. <<>> \in Seq(Saves)
  BY EmptySeq
<1>3. SessionOK(s) /\ ~s.intx
  BY <1>1, <1>2 DEF SessionOK, Sessions, NewSession, Database
<1> QED BY <1>3 DEF Init, TxInv, LocalsTyped, Owned, Protected, Database

\* Every step.
LEMMA TxStep ==
  ASSUME TxInv, [Next]_vars
  PROVE  TxInv'
<1>1. CASE UNCHANGED vars
  BY <1>1 DEF vars, TxInv, LocalsTyped, Owned, Protected
<1> QED BY <1>1, ClientInv, TransactionInv, BatchInv, CreateInv DEF Next

\* Whoever calls what in which order, the session is consistent, a transaction that
\* is open has somebody who opened it, and a batch that has begun stands in a
\* transaction of its own.
THEOREM TxInvariant == Spec => []TxInv
BY TxStart, TxStep, PTL DEF Spec

\* The session keeps its type on every backend, whatever savepoints are set,
\* replaced, released and rolled back to.
THEOREM TxTypes == Spec => []TypeOK
<1>1. TxInv => TypeOK
  BY DEF TxInv, TypeOK, SessionOK, Sessions, Saves, LocalsTyped
<1> QED BY <1>1, TxInvariant, PTL

\* On every way out of corm_transaction and of the batch functions the
\* transaction they began is ended, unless its COMMIT or its ROLLBACK failed: also
\* for clients that call the batch functions inside transactions and closures that
\* ignore errors.
THEOREM TxAlwaysEnded == Spec => []NoTxLeftOpen
<1>1. TxInv => NoTxLeftOpen
  BY DEF TxInv, NoTxLeftOpen, Owned
<1> QED BY <1>1, TxInvariant, PTL

(***************************************************************************)
(* Batches                                                                 *)
(***************************************************************************)

\* How a batch ends.
LEMMA BatchOutcome ==
  ASSUME TxInv, Next, pc = "batch", pc' = "idle", opener = "nobody", ~broken
  PROVE  s'.committed = IF result' = "ok" /\ ~broken' THEN s.working ELSE start
<1>0. SessionOK(s)
  BY DEF TxInv
<1>1. BatchFails \/ BatchDone \/ BatchRollbackFails \/ BatchCommitFails
  BY DEF Next, Client, Write, StmtFails, ClientBegin, ClientCommit, ClientRollback,
         ClientSavepoint, ClientRollbackTo, ClientRelease, InClient,
         TransactionEnter, ClosureOk, ClosureCommitFails, ClosureError,
         ClosureRollbackFails, BatchEnter, BatchBeginFails, BatchCall, BatchRecord,
         CreateEnter, CreateInsert, CreateOk, CreateFails
<1>2. caller = "idle"
  BY <1>1 DEF BatchFails, BatchDone, BatchRollbackFails, BatchCommitFails, BatchReturn
<1>3. s.intx /\ ~s.aborted /\ s.committed = start
  BY <1>2 DEF TxInv, Protected
<1>4. CASE BatchFails
  <2>1. PICK f \in {s} \union Failed(s) :
          BatchReturn(IF CanEnd(f) THEN Rollback(f) ELSE f, "error", "nobody")
    BY <1>4 DEF BatchFails
  <2>2. SessionOK(f) /\ f.committed = start
    BY <1>0, <1>3, FailedSession DEF Harmless
  <2>3. (IF CanEnd(f) THEN Rollback(f) ELSE f).committed = start
    BY <2>2, RollbackSession
  <2> QED BY <2>1, <2>3 DEF BatchReturn
<1>5. CASE BatchDone
  <2>1. s' = Commit(s) /\ result' = "ok" /\ broken' = broken
    BY <1>3, <1>5 DEF BatchDone, BatchReturn, CanEnd
  <2> QED BY <2>1, <1>0, <1>3, CommitSession
<1>6. CASE BatchCommitFails
  <2>1. PICK new \in CommitFailed(s) : BatchReturn(new, "ok", "commit")
    BY <1>6 DEF BatchCommitFails
  <2>2. new.committed = start /\ broken'
    BY <1>0, <1>2, <1>3, <1>6, CommitFailedSession DEF Harmless, BatchCommitFails
  <2> QED BY <2>1, <2>2 DEF BatchReturn
<1>7. CASE BatchRollbackFails
  <2>1. PICK f \in {s} \union Failed(s) :
          \E new \in RollbackFailed(f) : BatchReturn(new, "error", "rollback")
    BY <1>7 DEF BatchRollbackFails
  <2>2. PICK new \in RollbackFailed(f) : BatchReturn(new, "error", "rollback")
    BY <2>1
  <2>3. SessionOK(f) /\ f.committed = start
    BY <1>0, <1>3, FailedSession DEF Harmless
  <2>4. new.committed = start
    BY <2>3, RollbackFailedSession DEF Harmless
  <2> QED BY <2>2, <2>4 DEF BatchReturn
<1> QED BY <1>1, <1>4, <1>5, <1>6, <1>7

\* corm_update_batch and corm_delete_batch, called outside transactions, commit
\* all of their records or none when BEGIN has not failed, on every backend and
\* however large the batch is.
THEOREM BatchesAtomic == Spec => BatchAllOrNothing
<1>1. TxInv /\ [Next]_vars =>
        [(pc = "batch" /\ pc' = "idle" /\ opener = "nobody" /\ ~broken) =>
           s'.committed = IF result' = "ok" /\ ~broken' THEN s.working ELSE start]_vars
  BY BatchOutcome
<1> QED BY <1>1, TxInvariant, PTL DEF Spec, BatchAllOrNothing

(***************************************************************************)
(* corm_transaction                                                        *)
(***************************************************************************)

\* A closure that can still work is in a transaction.
LEMMA ClosureWorks ==
  ASSUME TxInv, InTransaction, ~Swallows, InClient, pc = "closure"
  PROVE  /\ ~broken /\ s.intx /\ ~s.aborted /\ s.explicit /\ s.committed = start
         /\ caller = "idle"
BY DEF TxInv, InTransaction, InClient

\* A statement inside a closure that commits nothing and opens nothing.
LEMMA ClosureStmt ==
  ASSUME TxInv, InTransaction, NEW new, pc \in {"idle", "closure"},
         pc = "closure" => /\ new.committed = s.committed
                           /\ new.intx => new.explicit,
         \/ Does(new) /\ (pc = "closure" => new.intx /\ ~new.aborted)
         \/ Fails(new)
  PROVE  InTransaction'
<1>1. UNCHANGED <<pc, caller, start>> /\ s' = new /\ caller = "idle"
  BY DEF Does, Fails, TxInv
<1>2. CASE Does(new) /\ (pc = "closure" => new.intx /\ ~new.aborted)
  BY <1>1, <1>2 DEF Does, InTransaction
<1>3. CASE Fails(new)
  BY <1>1, <1>3 DEF Fails, InTransaction
<1> QED BY <1>2, <1>3

\* The statements of a closure that reports its errors stay in its transaction.
LEMMA ClosureClient ==
  ASSUME TxInv, InTransaction, ~Swallows, Client
  PROVE  InTransaction'
<1>0. /\ SessionOK(s) /\ Harmless(s, Refused(s))
      /\ InClient => pc \in {"idle", "closure"}
  BY RefusedSession DEF TxInv, InClient
<1>x. (pc = "closure" /\ InClient) => s.intx /\ ~s.aborted /\ s.explicit
  BY ClosureWorks
<1>f. ASSUME NEW new, Harmless(s, new), InClient, Fails(new)
      PROVE  InTransaction'
  BY <1>f, <1>0, <1>x, ClosureStmt DEF Harmless
<1>1. CASE Write
  <2>1. PICK w \in Writes \ s.working : Does(Apply(s, {w})) /\ InClient
    BY <1>1 DEF Write
  <2>2. /\ Apply(s, {w}).intx = s.intx /\ Apply(s, {w}).explicit = s.explicit
        /\ Apply(s, {w}).aborted = s.aborted
        /\ s.intx => Apply(s, {w}).committed = s.committed
    BY <1>0, ApplySession
  <2> QED BY <1>0, <1>x, <2>1, <2>2, ClosureStmt
<1>2. CASE StmtFails
  <2>1. PICK new \in {s} \union Failed(s) : Fails(new)
    BY <1>2 DEF StmtFails
  <2> QED BY <1>0, <1>2, <2>1, <1>f, FailedSession DEF StmtFails
<1>3. CASE ClientBegin \/ ClientCommit \/ ClientRollback
  BY <1>0, <1>3, ClosureStmt DEF ClientBegin, ClientCommit, ClientRollback
<1>4. ASSUME NEW n \in Names, ClientSavepoint(n) PROVE InTransaction'
  <2>1. CASE CanSavepoint(s)
    <3>1. /\ Savepoint(s, n).committed = s.committed
          /\ Savepoint(s, n).explicit = s.explicit
          /\ Savepoint(s, n).aborted = s.aborted
          /\ s.intx => Savepoint(s, n).intx
      BY <1>0, <2>1, SavepointSession
    <3> QED BY <3>1, <2>1, <1>0, <1>x, <1>4, ClosureStmt DEF ClientSavepoint
  <2>2. CASE ~CanSavepoint(s)
    BY <2>2, <1>0, <1>4, <1>f DEF ClientSavepoint
  <2> QED BY <2>1, <2>2
<1>5. ASSUME NEW n \in Names, ClientRollbackTo(n) PROVE InTransaction'
  <2>1. CASE Fails(Refused(s)) /\ InClient
    BY <1>0, <2>1, <1>f
  <2>2. CASE /\ pc \in {"idle", "closure"} /\ CanName(s, n)
             /\ s' = RollbackTo(s, n) /\ result' = "ok" /\ broken' = FALSE
             /\ UNCHANGED <<pc, caller, start, opener>>
    <3>1. /\ s'.committed = s.committed /\ s'.explicit = s.explicit
          /\ ~s'.aborted /\ s.intx /\ s'.intx
      BY <1>0, <2>2, RollbackToSession
    <3> QED BY <3>1, <2>2 DEF InTransaction, TxInv
  <2> QED BY <1>5, <2>1, <2>2 DEF ClientRollbackTo
<1>6. ASSUME NEW n \in Names, ClientRelease(n) PROVE InTransaction'
  <2>1. CASE CanRelease(s, n)
    <3>1. s.explicit => /\ Release(s, n).committed = s.committed
                        /\ Release(s, n).explicit /\ Release(s, n).intx
                        /\ Release(s, n).aborted = s.aborted
      BY <1>0, <2>1, ReleaseSession
    <3> QED BY <3>1, <2>1, <1>0, <1>x, <1>6, ClosureStmt DEF ClientRelease
  <2>2. CASE ~CanRelease(s, n)
    BY <2>2, <1>0, <1>6, <1>f DEF ClientRelease
  <2> QED BY <2>1, <2>2
<1> QED BY <1>1, <1>2, <1>3, <1>4, <1>5, <1>6 DEF Client

\* corm_transaction keeps InTransaction, and what it returns tells what became of
\* the closure's writes.
LEMMA ClosureEnds ==
  ASSUME TxInv, InTransaction, ~Swallows,
         ClosureOk \/ ClosureCommitFails \/ ClosureError \/ ClosureRollbackFails
  PROVE  /\ InTransaction'
         /\ s'.committed = IF result' = "ok" THEN s.working ELSE start
<1>0. SessionOK(s) /\ s.committed = start /\ pc = "closure" /\ caller = "idle"
  BY DEF TxInv, InTransaction, ClosureOk, ClosureCommitFails, ClosureError,
         ClosureRollbackFails
<1>1. InTransaction'
  BY <1>0 DEF InTransaction, ClosureOk, ClosureCommitFails, ClosureError,
              ClosureRollbackFails, TransactionReturn
<1>2. CASE ClosureOk
  <2>1. s' = Commit(s) /\ result' = "ok" /\ ~broken
    BY <1>2 DEF ClosureOk, TransactionReturn, TxInv, LocalsTyped
  <2>2. ~s.aborted
    BY <2>1, <1>0 DEF InTransaction
  <2> QED BY <2>1, <2>2, <1>0, <1>1, CommitSession
<1>3. CASE ClosureCommitFails
  <2>1. PICK new \in CommitFailed(s) : TransactionReturn(new, "error", "commit")
    BY <1>3 DEF ClosureCommitFails
  <2> QED BY <2>1, <1>0, <1>1, CommitFailedSession DEF TransactionReturn, Harmless
<1>4. CASE ClosureError
  <2>1. s' = (IF CanEnd(s) THEN Rollback(s) ELSE s) /\ result' = "error"
    BY <1>4 DEF ClosureError, TransactionReturn
  <2> QED BY <2>1, <1>0, <1>1, RollbackSession
<1>5. CASE ClosureRollbackFails
  <2>1. PICK new \in RollbackFailed(s) : TransactionReturn(new, "error", "rollback")
    BY <1>5 DEF ClosureRollbackFails
  <2> QED BY <2>1, <1>0, <1>1, RollbackFailedSession DEF TransactionReturn, Harmless
<1> QED BY <1>2, <1>3, <1>4, <1>5, <1>1

\* The other steps of the library.
LEMMA ClosureLibrary ==
  ASSUME TxInv, InTransaction, ~Swallows, ~BatchInTx,
         \/ TransactionEnter
         \/ BatchEnter \/ BatchBeginFails \/ BatchRecord \/ BatchFails
         \/ BatchDone \/ BatchRollbackFails \/ BatchCommitFails
         \/ CreateEnter \/ CreateInsert \/ CreateOk \/ CreateFails
  PROVE  InTransaction'
<1>0. SessionOK(s)
  BY DEF TxInv
<1>1. CASE TransactionEnter
  <2>1. CASE CanBegin(s)
    <3>1. Begin(s).intx /\ Begin(s).explicit /\ ~Begin(s).aborted
      BY <1>0, <2>1, BeginSession
    <3> QED BY <3>1, <1>1, <2>1 DEF TransactionEnter, InTransaction
  <2>2. CASE ~CanBegin(s)
    BY <2>2, <1>1, ClosureStmt DEF TransactionEnter
  <2> QED BY <2>1, <2>2
<1>2. CASE BatchEnter \/ BatchBeginFails
  <2>1. pc = "idle" /\ pc' = "batch" /\ caller' = "idle"
    BY <1>2, ClosureWorks DEF BatchEnter, BatchBeginFails, BatchCall, InClient
  <2> QED BY <2>1 DEF InTransaction
<1>3. CASE BatchRecord \/ BatchFails \/ BatchDone \/ BatchRollbackFails
             \/ BatchCommitFails
  <2>1. pc = "batch" /\ caller = "idle"
    BY <1>3 DEF InTransaction, TxInv, LocalsTyped, BatchRecord, BatchFails, BatchDone,
                BatchRollbackFails, BatchCommitFails
  <2>2. caller' = "idle" /\ pc' \in {"batch", "idle"}
    BY <1>3, <2>1 DEF BatchRecord, BatchFails, BatchDone, BatchRollbackFails,
                      BatchCommitFails, BatchReturn
  <2> QED BY <2>1, <2>2 DEF InTransaction
<1>4. CASE CreateEnter
  <2>1. /\ s' = s /\ pc' = "create" /\ caller' = pc /\ InClient
        /\ pc = "closure" => start' = start /\ broken' = broken
    BY <1>4 DEF CreateEnter, BatchCall
  <2>2. CASE pc = "closure"
    BY <2>1, <2>2, ClosureWorks DEF InTransaction
  <2>3. CASE pc /= "closure"
    BY <2>1, <2>3 DEF InTransaction
  <2> QED BY <2>2, <2>3
<1>5. CASE CreateInsert
  <2>1. PICK ws \in SUBSET Writes : s' = Apply(s, ws)
    BY <1>5 DEF CreateInsert
  <2>2. /\ s'.intx = s.intx /\ s'.aborted = s.aborted /\ s'.explicit = s.explicit
        /\ s.intx => s'.committed = s.committed
    BY <1>0, <2>1, ApplySession
  <2>3. UNCHANGED <<pc, caller, start, broken>> /\ pc = "create"
    BY <1>5 DEF CreateInsert
  <2> QED BY <2>2, <2>3 DEF InTransaction
<1>6. CASE CreateOk
  BY <1>6 DEF CreateOk, BatchReturn, InTransaction
<1>7. CASE CreateFails
  <2>1. PICK new \in {s} \union Failed(s) :
          /\ BatchReturn(new, "error", "nobody")
          /\ broken' = (broken \/ (caller = "closure" /\ new /= s))
    BY <1>7 DEF CreateFails
  <2>2. new.committed = s.committed /\ (new.intx => s.intx /\ new.explicit = s.explicit)
    BY <1>0, FailedSession DEF Harmless
  <2>3. CASE caller = "closure"
    BY <2>1, <2>2, <2>3, <1>7 DEF CreateFails, BatchReturn, InTransaction
  <2>4. CASE caller /= "closure"
    BY <2>1, <2>4 DEF BatchReturn, InTransaction, TxInv, LocalsTyped
  <2> QED BY <2>3, <2>4
<1> QED BY <1>1, <1>2, <1>3, <1>4, <1>5, <1>6, <1>7

\* Only corm_transaction goes from its closure to its caller.
LEMMA ClosureOutcome ==
  ASSUME TxInv, InTransaction, ~Swallows, Next, pc = "closure", pc' = "idle"
  PROVE  s'.committed = IF result' = "ok" THEN s.working ELSE start
<1>1. ClosureOk \/ ClosureCommitFails \/ ClosureError \/ ClosureRollbackFails
  BY DEF Next, Client, Write, StmtFails, ClientBegin, ClientCommit, ClientRollback,
         ClientSavepoint, ClientRollbackTo, ClientRelease, Does, Fails,
         TransactionEnter, BatchEnter, BatchBeginFails, BatchCall, BatchRecord,
         BatchFails, BatchDone, BatchRollbackFails, BatchCommitFails,
         CreateEnter, CreateInsert, CreateOk, CreateFails
<1> QED BY <1>1, ClosureEnds

\* corm_transaction commits what its closure did if it returned CORM_OK, and
\* nothing otherwise, on every backend, for closures that return an error when a
\* failed statement has ended or aborted their transaction and that call no
\* batch function which begins one of its own.
THEOREM ClosuresDecide ==
  ASSUME ~BatchInTx, ~Swallows
  PROVE  Spec => ClosureDecides
<1>1. Init => InTransaction
  BY DEF Init, InTransaction
<1>2. TxInv /\ InTransaction /\ [Next]_vars => InTransaction'
  <2>1. CASE UNCHANGED vars
    BY <2>1 DEF vars, InTransaction
  <2> QED BY <2>1, ClosureClient, ClosureEnds, ClosureLibrary DEF Next
<1>3. TxInv /\ InTransaction /\ [Next]_vars =>
        [(pc = "closure" /\ pc' = "idle") =>
           s'.committed = IF result' = "ok" THEN s.working ELSE start]_vars
  BY ClosureOutcome
<1> QED BY <1>1, <1>2, <1>3, TxInvariant, PTL DEF Spec, ClosureDecides

=============================================================================
