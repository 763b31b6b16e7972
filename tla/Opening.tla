------------------------------ MODULE Opening ------------------------------
(***************************************************************************)
(* The registries and the life of a connection: the backend table of       *)
(* src/backend/backend.c, the model registry of src/model.c over the hash  *)
(* table of src/internal/hash.h, and corm_open_with_config and corm_close  *)
(* of src/corm.c with everything they allocate and free.                   *)
(*                                                                         *)
(* The backend table is locked for each call and a connection belongs to   *)
(* one thread, so every call is one step.                                  *)
(***************************************************************************)
EXTENDS Dsn, FiniteSets

CONSTANTS Types,         \* backend types, in the order corm_init registers them
          Built,         \* [type -> BOOLEAN]: what the build was configured with
          Registrations, \* calls [type, backend] of corm_register_backend; a
                         \* backend [type, real] that is a stub has no open
          MaxBackends,   \* CORM_MAX_BACKENDS
          Dbs,           \* connections
          Dsns,          \* data source names [scheme, parts]
          Models,        \* models [table, fields, size]
          ValidNames,    \* what corm_is_valid_identifier accepts
          Hash,          \* [table name -> bucket], corm_hash_str
          MaxChain,      \* bound: entries of a bucket
          None           \* NULL

ASSUME OpeningConstants ==
  /\ MaxBackends \in Nat \ {0}
  /\ Types \in Seq(Range(Types)) /\ Types /= <<>> /\ Built \in [Range(Types) -> BOOLEAN]
  /\ Registrations \subseteq
       [type : Range(Types), backend : [type : Range(Types), real : BOOLEAN]]
  /\ \A dsn \in Dsns : dsn.scheme \in Schemes /\ Separable(dsn.parts)
  /\ \A m \in Models : m.table \in DOMAIN Hash

VARIABLES g_backends,  \* the registered implementations
          latest,      \* per type: the implementation last registered as such
          misfiled,    \* types of calls whose backend was of another type
          builtin,     \* the type that corm_init registers next, by its number
          pc,          \* per connection: "closed", "open", or the next step of
                       \* corm_open_with_config
          db,          \* per connection: the argument dsn, the backend it found
                       \* and what that was told to connect to
          owned,       \* per connection: what hangs on its corm_t
          lost,        \* what the connection given up last left for nobody to free
          buckets,     \* per connection: models_by_table
          registered   \* per connection and table: the model last registered

registry == <<g_backends, latest, misfiled, builtin>>
models == <<buckets, registered>>
vars == <<registry, pc, db, owned, lost, models>>

Closed == [dsn |-> None, backend |-> None, params |-> None]
NoModels == [b \in Range(Hash) |-> <<>>]
NoneKnown == [t \in DOMAIN Hash |-> None]

Init ==
  /\ g_backends = <<>> /\ latest = [t \in Range(Types) |-> None]
  /\ misfiled = {} /\ builtin = 1
  /\ pc = [d \in Dbs |-> "closed"] /\ db = [d \in Dbs |-> Closed]
  /\ owned = [d \in Dbs |-> {}] /\ lost = {}
  /\ buckets = [d \in Dbs |-> NoModels] /\ registered = [d \in Dbs |-> NoneKnown]

(***************************************************************************)
(* The backend table                                                       *)
(***************************************************************************)

Index(bs, t) == SelectInSeq(bs, LAMBDA b : b.type = t)

\* corm_get_backend
corm_get_backend(t) ==
  IF Index(g_backends, t) = 0 THEN None ELSE g_backends[Index(g_backends, t)]

\* The table after corm_register_backend; a full one refuses replacements too.
Refuses(bs) == Len(bs) >= MaxBackends

Registered_Appends(bs, t, b) ==  \* mutant: a duplicate is not looked for
  IF Refuses(bs) THEN bs ELSE Append(bs, b)

\* The entry to replace is looked for by the argument, and found again later by
\* the type the backend says it is of.
Registered(bs, t, b) ==
  LET i == Index(bs, t)
  IN  IF Refuses(bs) THEN bs
      ELSE IF i = 0 THEN Append(bs, b) ELSE [bs EXCEPT ![i] = b]

Registers(t, b) ==
  /\ g_backends' = Registered(g_backends, t, b)
  /\ IF Refuses(g_backends) THEN UNCHANGED <<latest, misfiled>>
     ELSE IF t = b.type
     THEN latest' = [latest EXCEPT ![t] = b] /\ misfiled' = misfiled \ {t}
     ELSE latest' = latest /\ misfiled' = misfiled \union {t, b.type}
  /\ UNCHANGED <<pc, db, owned, lost, models>>

\* corm_register_backend, by a constructor, by a client or for a custom backend.
Register(t, b) == Registers(t, b) /\ UNCHANGED builtin

\* corm_init registers the implementations of the build, each under the lock but
\* not together, and stops at an error.
Builtin(i) == [type |-> Types[i], real |-> Built[Types[i]]]

corm_init ==
  /\ Registers(Types[builtin], Builtin(builtin))
  /\ builtin' = IF Refuses(g_backends) \/ builtin = Len(Types) THEN 1 ELSE builtin + 1

(***************************************************************************)
(* corm_open_with_config and corm_close                                    *)
(***************************************************************************)

Hashes == {"models_by_table", "models_by_name"}

At(d, from, to) == pc[d] = from /\ pc' = [pc EXCEPT ![d] = to]
Gains(d, objects) == owned' = [owned EXCEPT ![d] = @ \union objects]

\* An error path: what it frees, and that the rest is lost with the corm_t.
Abandon(d, from, freed) ==
  /\ At(d, from, "closed")
  /\ owned' = [owned EXCEPT ![d] = {}] /\ lost' = owned[d] \ freed
  /\ db' = [db EXCEPT ![d] = Closed]
  /\ buckets' = [buckets EXCEPT ![d] = NoModels]
  /\ registered' = [registered EXCEPT ![d] = NoneKnown]
  /\ UNCHANGED registry

Allocate(d, dsn) ==
  /\ At(d, "closed", "registry")
  /\ Gains(d, {"corm_t"}) /\ db' = [db EXCEPT ![d].dsn = dsn]
  /\ lost' = {}
  /\ UNCHANGED <<registry, models>>

InitRegistry(d) ==
  /\ At(d, "registry", "cache")
  /\ Gains(d, Hashes)
  /\ UNCHANGED <<registry, db, lost, models>>

\* Without memory for one table the other is freed.
InitRegistryFails(d) == Abandon(d, "registry", {"corm_t"})

\* Without memory the connection goes on with no statement cache.
CreateCache(d, objects) ==
  /\ At(d, "cache", "backend")
  /\ Gains(d, objects)
  /\ UNCHANGED <<registry, db, lost, models>>

\* corm_dsn_parse and corm_get_backend
FindBackend(d) ==
  LET b == corm_get_backend(BackendOf(db[d].dsn.scheme))
  IN  /\ At(d, "backend", "connect")
      /\ b /= None /\ b.real
      /\ db' = [db EXCEPT ![d].backend = b]
      /\ UNCHANGED <<registry, owned, lost, models>>

\* The error paths after the cache was created free the registry only.
AbandonLate_KeepsNames(d, from) ==   \* mutant: half of the registry is freed
  Abandon(d, from, {"corm_t", "models_by_table"})

AbandonLate(d, from) == Abandon(d, from, {"corm_t"} \union Hashes)

\* No such backend, or a stub that has no open.
FindBackendFails(d) ==
  LET b == corm_get_backend(BackendOf(db[d].dsn.scheme))
  IN  AbandonLate(d, "backend") /\ (b /= None => ~b.real)

\* backend->open
Connect(d) ==
  /\ At(d, "connect", "open")
  /\ Gains(d, {"conn"})
  /\ \E ps \in Opened(db[d].backend.type, Written(db[d].dsn.parts)) :
       db' = [db EXCEPT ![d].params = ps]
  /\ UNCHANGED <<registry, lost, models>>

\* The backend has freed its own handle.
ConnectFails(d) == AbandonLate(d, "connect")

\* sqlite_get_stmt prepares a statement and there is no cache, or no memory for
\* an entry of it: nobody finalizes the statement.
LeaveStmt(d) ==
  /\ pc[d] = "open" /\ db[d].backend.type = "sqlite" /\ "stmt" \notin owned[d]
  /\ Gains(d, {"stmt"})
  /\ UNCHANGED <<registry, pc, db, lost, models>>

\* corm_close: the cache with its statements, the handle, the registry.  With a
\* statement left sqlite3_close refuses, and sqlite_close forgets the handle.
corm_close(d) ==
  Abandon(d, "open", {"cache", "corm_t"} \union Hashes
                       \union {x \in {"conn"} : "stmt" \notin owned[d]})

(***************************************************************************)
(* The model registry                                                      *)
(***************************************************************************)

corm_validate_model(m) ==
  /\ m.fields /= <<>> /\ m.table \in ValidNames /\ m.size > 0
  /\ \A i, j \in DOMAIN m.fields :
       m.fields[i] \in ValidNames /\ (m.fields[i] = m.fields[j] => i = j)

Inserted_AtEnd(chain, m) == Append(chain, m)   \* mutant: older models are found

\* corm_hash_insert does not look for the key: the new entry hides the old one.
Inserted(chain, m) == <<m>> \o chain

corm_register_model(d, m) ==
  /\ pc[d] = "open" /\ corm_validate_model(m)
  /\ Len(buckets[d][Hash[m.table]]) < MaxChain
  /\ buckets' = [buckets EXCEPT ![d][Hash[m.table]] = Inserted(@, m)]
  /\ registered' = [registered EXCEPT ![d][m.table] = m]
  /\ UNCHANGED <<registry, pc, db, owned, lost>>

\* corm_find_model: corm_hash_find compares the names along the bucket.
corm_find_model(d, t) ==
  LET chain == buckets[d][Hash[t]]
      i == SelectInSeq(chain, LAMBDA m : m.table = t)
  IN  IF i = 0 THEN None ELSE chain[i]

-----------------------------------------------------------------------------

Opens(d) ==
  \/ \E dsn \in Dsns : Allocate(d, dsn)
  \/ InitRegistry(d) \/ InitRegistryFails(d)
  \/ CreateCache(d, {"cache"}) \/ CreateCache(d, {})
  \/ FindBackend(d) \/ FindBackendFails(d) \/ Connect(d) \/ ConnectFails(d)

Next ==
  \/ \E r \in Registrations : Register(r.type, r.backend)
  \/ corm_init
  \/ \E d \in Dbs : \/ Opens(d) \/ LeaveStmt(d) \/ corm_close(d)
                     \/ \E m \in Models : corm_register_model(d, m)

Spec == Init /\ [][Next]_vars

-----------------------------------------------------------------------------

\* corm_get_backend finds the backend that corm_init, a constructor or a client
\* registered last for the type, whatever was replaced and refused before,
\* although a full table refuses replacements and after registrations of other
\* backends under a wrong type: those confuse the two types they name, until one
\* is registered properly again, and no other.
LatestBackend == \A t \in Range(Types) \ misfiled : corm_get_backend(t) = latest[t]

\* corm_find_model finds the model last registered for the table on this
\* connection, past older models of the table and other tables of the bucket.
LatestModel ==
  \A d \in Dbs : pc[d] = "open" =>
    \A t \in DOMAIN Hash : corm_find_model(d, t) = registered[d][t]

\* The DSNs whose parts all have to be understood: they fit the buffers; MySQL
\* keeps the tail of its default user under a shorter one that comes with a
\* password; a DSN without a host only has a meaning when a slash follows; and
\* PostgreSQL's conninfo quotes nothing.
Understood(dsn) ==
  LET type == BackendOf(dsn.scheme)
      d    == dsn.parts
      told == Meaning(Defaults(type), d)
  IN  /\ Fits(d) /\ (d.host /= <<>> \/ (d.db /= <<>> /\ d.port = <<>>))
      /\ type = "mysql" /\ d.pass /= <<>> => Len(d.user) \notin 1..3
      /\ type = "postgres" => Readable(told) /\ InfoLen(told) < InfoSize

\* src/backend/mysql.c:18: "[user[:pass]@][host][:port][/dbname]".  An open
\* connection has been made with the user, password, host, port and database
\* that its DSN names.
ConnectedAsWritten ==
  \A d \in Dbs : pc[d] = "open" /\ db[d].backend.type /= "sqlite"
                   /\ Understood(db[d].dsn) =>
    db[d].params = Meaning(Defaults(db[d].backend.type), db[d].dsn.parts)

\* Whatever fails while a connection is opened, and when it is closed, nothing
\* that was allocated for it is left over, except the statement cache on the
\* error paths after its creation, and SQLite statements that no cache held with
\* the handle they keep open.
OnlyKnownLosses ==
  /\ lost \in {{}, {"cache"}, {"stmt", "conn"}}
  /\ \A d \in Dbs : pc[d] = "closed" => owned[d] = {}

=============================================================================
