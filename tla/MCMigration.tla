---------------------------- MODULE MCMigration ----------------------------
(***************************************************************************)
(* Two versions of an application start at the same time.  The old one     *)
(* migrates posts before the table it refers to; the new one adds an       *)
(* indexed and a unique column, and a table with a counter in a key of two *)
(* columns.                                                                *)
(***************************************************************************)
EXTENDS Migration, TLC

CONSTANTS oldApp, newApp, users, posts, likes

F(name, flags, ref) == [name |-> name, flags |-> flags, ref |-> ref]
Id == F("id", {"primary", "autoinc"}, NoRef)

MCModels ==
  (oldApp :> <<[table |-> posts, fields |-> <<Id, F("author", {"notnull"}, users)>>],
               [table |-> users, fields |-> <<Id, F("name", {"notnull"}, NoRef)>>]>>)
  @@
  (newApp :> <<[table |-> users, fields |-> <<Id, F("name", {"notnull"}, NoRef),
                                              F("mail", {"unique", "default"}, NoRef),
                                              F("age", {"notnull", "index"}, NoRef)>>],
               [table |-> likes, fields |-> <<Id, F("post", {"primary"}, NoRef)>>]>>)

MCElsewhere == (users :> {"age"}) @@ (posts :> {}) @@ (likes :> {})

=============================================================================
