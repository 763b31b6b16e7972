-------------------------- MODULE MCSqliteQueries --------------------------
(***************************************************************************)
(* SqliteQueries for TLC.  Texts, statements and result sets are           *)
(* interchangeable: only equality is ever asked of them.                   *)
(***************************************************************************)
EXTENDS SqliteQueries

LOCAL INSTANCE TLC

Interchangeable == Permutations(Sqls) \union Permutations(Stmts)

=============================================================================
