---------------------------- MODULE MCStmtCache ----------------------------
(***************************************************************************)
(* Addresses of entries are only compared and assigned, so permuting them  *)
(* maps behaviours to behaviours.  The one property with a temporal        *)
(* operator, ImplementsLRU, is a safety property.                          *)
(***************************************************************************)
EXTENDS StmtCache, TLC

Symm == Permutations(Nodes)
=============================================================================
