---------------------------- MODULE Transactions ----------------------------
(***************************************************************************)
(* The transaction API of corm.c and the batch operations of query.c, on   *)
(* one connection used by one client, for each backend.  The client calls  *)
(* corm_begin, corm_commit, corm_rollback, the savepoint functions, single *)
(* writes, the batch functions and corm_transaction.  Its closures do      *)
(* writes, savepoints and batches; they leave ending the transaction to    *)
(* corm_transaction.                                                       *)
(***************************************************************************)
EXTENDS SqlSession, FiniteSets

CONSTANTS Backends,         \* the backends a behaviour may start with
          Writes,           \* the writes a client may do
          Names,            \* savepoint names
          MaxSaves,         \* bound: savepoints at the same time
          BatchInTx,        \* clients call batch functions inside transactions
          Swallows          \* closures ignore that a failed statement has ended
                            \* or aborted their transaction

ASSUME TxConstants ==
  /\ Backends \subseteq {"sqlite", "mysql", "postgres"}
  /\ BatchInTx \in BOOLEAN /\ Swallows \in BOOLEAN

VARIABLES s,       \* the session
          pc,      \* "idle", or the library function the client is in:
                   \* "closure", "batch" or "create"
          caller,  \* where a batch function returns to
          result,  \* what the last library call returned
          start,   \* the committed database when the outermost call began
          opener,  \* why a transaction is open outside library calls: the
                   \* "client" began it, a "commit" or a "rollback" of the
                   \* library failed
          broken   \* the library's call has no transaction: it failed to begin or
                   \* commit it, or a failed statement ended or aborted it

vars == <<s, pc, caller, result, start, opener, broken>>

Init ==
  /\ \E b \in Backends : s = NewSession(b)
  /\ pc = "idle" /\ caller = "idle" /\ result = "ok"
  /\ start = {} /\ opener = "nobody" /\ broken = FALSE

InClient == pc = "idle" \/ (pc = "closure" /\ (broken => Swallows))

\* Who is to blame for a transaction that is open after a step outside closures.
Blame(new, who) ==
  IF ~new.intx THEN "nobody" ELSE IF opener = "nobody" THEN who ELSE opener

\* A statement of the client.
Does(new) ==
  /\ s' = new /\ result' = "ok"
  /\ opener' = IF pc = "idle" THEN Blame(new, "client") ELSE opener
  /\ UNCHANGED <<pc, caller, start, broken>>

\* A statement of the client that fails and leaves new of the session.
Fails(new) ==
  /\ s' = new /\ result' = "error"
  /\ opener' = IF pc = "idle" THEN Blame(new, "client") ELSE opener
  /\ broken' = (broken \/ (pc = "closure" /\ new /= s))
  /\ UNCHANGED <<pc, caller, start>>

\* corm_exec of a single write.
Write == InClient /\ CanApply(s) /\ \E w \in Writes \ s.working : Does(Apply(s, {w}))

\* Any statement of the client may fail: in the database, by a constraint or a
\* lock; or before, by a savepoint name that is_valid_savepoint_name refuses.
StmtFails == InClient /\ \E new \in {s} \union Failed(s) : Fails(new)

\* corm_begin, corm_commit and corm_rollback, called outside corm_transaction.
ClientBegin == pc = "idle" /\ (IF CanBegin(s) THEN Does(Begin(s)) ELSE Fails(s))
ClientCommit == pc = "idle" /\ (IF CanEnd(s) THEN Does(Commit(s)) ELSE Fails(s))
ClientRollback == pc = "idle" /\ (IF CanEnd(s) THEN Does(Rollback(s)) ELSE Fails(s))

\* corm_savepoint, corm_rollback_to and corm_release_savepoint.  Rolling back to
\* a savepoint repairs an aborted transaction.
ClientSavepoint(n) ==
  /\ InClient /\ Len(s.saves) < MaxSaves
  /\ IF CanSavepoint(s) THEN Does(Savepoint(s, n)) ELSE Fails(Refused(s))
ClientRollbackTo(n) ==
  \/ /\ pc \in {"idle", "closure"} /\ CanName(s, n)
     /\ s' = RollbackTo(s, n) /\ result' = "ok" /\ broken' = FALSE
     /\ UNCHANGED <<pc, caller, start, opener>>
  \/ InClient /\ ~CanName(s, n) /\ Fails(Refused(s))
ClientRelease(n) ==
  InClient /\ (IF CanRelease(s, n) THEN Does(Release(s, n)) ELSE Fails(Refused(s)))

(***************************************************************************)
(* corm_transaction                                                        *)
(***************************************************************************)

TransactionEnter ==
  /\ pc = "idle"
  /\ IF CanBegin(s)
     THEN /\ s' = Begin(s) /\ pc' = "closure" /\ start' = s'.committed
          /\ broken' = FALSE
          /\ UNCHANGED <<caller, result, opener>>
     ELSE Fails(s)

TransactionReturn(new, res, who) ==
  /\ s' = new /\ result' = res /\ pc' = "idle" /\ broken' = FALSE
  /\ opener' = Blame(new, who)
  /\ UNCHANGED <<caller, start>>

\* The closure returns CORM_OK: commit, and its error is returned.
ClosureOk ==
  /\ pc = "closure" /\ (broken => Swallows) /\ CanEnd(s)
  /\ TransactionReturn(Commit(s), "ok", "nobody")

ClosureCommitFails ==
  /\ pc = "closure" /\ (broken => Swallows)
  /\ \E new \in CommitFailed(s) : TransactionReturn(new, "error", "commit")

ClosureError_Commits ==      \* mutant: commits whatever the closure returns
  /\ pc = "closure"
  /\ TransactionReturn(IF CanEnd(s) THEN Commit(s) ELSE s, "error", "nobody")

\* The closure returns an error: rollback, and its error is returned.
ClosureError ==
  /\ pc = "closure"
  /\ TransactionReturn(IF CanEnd(s) THEN Rollback(s) ELSE s, "error", "nobody")

\* The result of corm_rollback is ignored.
ClosureRollbackFails ==
  /\ pc = "closure"
  /\ \E new \in RollbackFailed(s) : TransactionReturn(new, "error", "rollback")

(***************************************************************************)
(* corm_update_batch and corm_delete_batch                                 *)
(***************************************************************************)

BatchCall(to, unprotected) ==
  /\ InClient
  /\ start' = IF pc = "idle" THEN s'.committed ELSE start
  /\ broken' = IF pc = "idle" THEN unprotected ELSE broken
  /\ pc' = to /\ caller' = pc
  /\ UNCHANGED <<result, opener>>

BatchEnter_NoBegin ==        \* mutant: the records are not in a transaction
  (s.intx => BatchInTx) /\ s' = s /\ BatchCall("batch", FALSE)

BatchEnter ==
  /\ s.intx => BatchInTx
  /\ s' = IF CanBegin(s) THEN Begin(s) ELSE s
  /\ BatchCall("batch", FALSE)

\* BEGIN fails and the batch goes on: its result is ignored.
BatchBeginFails ==
  /\ s.intx => BatchInTx
  /\ s' \in Failed(s)
  /\ BatchCall("batch", TRUE)

BatchRecord ==
  /\ pc = "batch" /\ CanApply(s)
  /\ \E w \in Writes \ s.working : s' = Apply(s, {w})
  /\ UNCHANGED <<pc, caller, result, start, opener, broken>>

BatchReturn(new, res, who) ==
  /\ s' = new /\ result' = res /\ pc' = caller /\ caller' = "idle"
  /\ opener' = IF caller = "idle" THEN Blame(new, who) ELSE opener
  /\ UNCHANGED start

BatchFails_NoRollback ==     \* mutant: the early return forgets the rollback
  pc = "batch" /\ BatchReturn(s, "error", "nobody") /\ UNCHANGED broken

\* A hook, a statement or an allocation fails: rollback.
BatchFails ==
  /\ pc = "batch"
  /\ \E f \in {s} \union Failed(s) :
       BatchReturn(IF CanEnd(f) THEN Rollback(f) ELSE f, "error", "nobody")
  /\ UNCHANGED broken

\* The result of corm_rollback is ignored.
BatchRollbackFails ==
  /\ pc = "batch"
  /\ \E f \in {s} \union Failed(s) :
       \E new \in RollbackFailed(f) : BatchReturn(new, "error", "rollback")
  /\ UNCHANGED broken

BatchDone_NoInit ==          \* mutant: global_err starts uninitialised
  /\ pc = "batch"
  /\ BatchReturn(IF CanEnd(s) THEN Commit(s) ELSE s, "garbage", "nobody")
  /\ UNCHANGED broken

BatchDone ==
  /\ pc = "batch"
  /\ BatchReturn(IF CanEnd(s) THEN Commit(s) ELSE s, "ok", "nobody")
  /\ UNCHANGED broken

\* The result of corm_commit is ignored.
BatchCommitFails ==
  /\ pc = "batch" /\ s.intx
  /\ \E new \in CommitFailed(s) : BatchReturn(new, "ok", "commit")
  /\ broken' = (broken \/ caller = "idle")

(***************************************************************************)
(* corm_create_batch: one INSERT for each batch_size records               *)
(***************************************************************************)

CreateEnter == s' = s /\ BatchCall("create", FALSE)

CreateInsert ==
  /\ pc = "create" /\ CanApply(s)
  /\ \E ws \in (SUBSET (Writes \ s.working)) \ {{}} : s' = Apply(s, ws)
  /\ UNCHANGED <<pc, caller, result, start, opener, broken>>

CreateOk ==
  pc = "create" /\ CanApply(s) /\ BatchReturn(s, "ok", "nobody") /\ UNCHANGED broken

\* An INSERT or an allocation fails; what was inserted before stays.
CreateFails ==
  /\ pc = "create"
  /\ \E new \in {s} \union Failed(s) :
       /\ BatchReturn(new, "error", "nobody")
       /\ broken' = (broken \/ (caller = "closure" /\ new /= s))

-----------------------------------------------------------------------------

Client ==
  \/ Write \/ StmtFails
  \/ ClientBegin \/ ClientCommit \/ ClientRollback
  \/ \E n \in Names : ClientSavepoint(n) \/ ClientRollbackTo(n) \/ ClientRelease(n)

Next ==
  \/ Client
  \/ TransactionEnter \/ ClosureOk \/ ClosureCommitFails \/ ClosureError
  \/ ClosureRollbackFails
  \/ BatchEnter \/ BatchBeginFails \/ BatchRecord \/ BatchFails \/ BatchDone
  \/ BatchRollbackFails \/ BatchCommitFails
  \/ CreateEnter \/ CreateInsert \/ CreateOk \/ CreateFails

Spec == Init /\ [][Next]_vars

-----------------------------------------------------------------------------

Database == SUBSET Writes

TypeOK ==
  /\ s.backend \in Backends
  /\ s.committed \in Database /\ s.working \in Database
  /\ s.intx \in BOOLEAN /\ s.explicit \in BOOLEAN /\ s.aborted \in BOOLEAN
  /\ s.saves \in Seq([name : Names, view : Database])
  /\ pc \in {"idle", "closure", "batch", "create"} /\ caller \in {"idle", "closure"}
  /\ result \in {"ok", "error"} /\ start \in Database
  /\ opener \in {"nobody", "client", "commit", "rollback"} /\ broken \in BOOLEAN

\* include/corm/corm.h:41 on the closure of corm_transaction: "Return CORM_OK
\* to commit, or error code to rollback."  When corm_transaction returns, the
\* database is what the closure saw last if it returned CORM_OK, and what it was
\* before otherwise, on every backend: although a failed statement may have ended
\* or aborted the transaction, savepoints may have been rolled back to, and COMMIT
\* or ROLLBACK may have failed.
ClosureDecides ==
  [][(pc = "closure" /\ pc' = "idle") =>
        s'.committed = IF result' = "ok" THEN s.working ELSE start]_vars

\* Unless its COMMIT or its ROLLBACK fails, a library function leaves no
\* transaction behind that the client did not begin itself: every way out of
\* corm_transaction and of the batch functions ends the transaction they began,
\* also after a failed BEGIN or a statement that has ended or aborted it.
NoTxLeftOpen == (pc = "idle" /\ opener = "nobody") => ~s.intx

\* include/corm/corm.h:147 and 152 on corm_update_batch and corm_delete_batch:
\* "in a transaction".  Called outside transactions, a batch whose BEGIN did not
\* fail commits all of its records or none: none when it returns an error, although
\* its ROLLBACK may have failed too, or its COMMIT failed.
BatchAllOrNothing ==
  [][(pc = "batch" /\ pc' = "idle" /\ opener = "nobody" /\ ~broken) =>
        s'.committed = IF result' = "ok" /\ ~broken' THEN s.working ELSE start]_vars

=============================================================================
