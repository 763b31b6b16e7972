# A TLA+ model of CORM

CORM is an object-relational mapper in C: models, a fluent query builder and
transactions over SQLite, MySQL and PostgreSQL, with a connection pool and a
cache of prepared statements. This directory models the parts of it that keep
state, checks them with TLC on small instances and proves the safety properties with
TLAPS for every instance. Paths below are relative to the
repository root.

## Inventory

| Component | State | Operations | Interaction |
|---|---|---|---|
| Connection pool, `src/internal/pool.c` | `current_open`, idle list and its count, one mutex and condition variable | create, acquire, release, destroy | called by any number of threads; opens, pings and closes connections, partly without its lock |
| Statement cache, `src/internal/stmt_cache.c` | doubly linked list of (text, statement), capacity | get, put, remove, set_destroy_fn, destroy | one per connection, used by the drivers |
| Drivers, `src/backend/{sqlite3,mysql,postgres}.c` | the connection, statements in the cache | open, close, ping, exec, query, begin, commit, rollback | reached through a table of function pointers |
| Connection and transactions, `src/corm.c` | the `corm_t` with its config, registry, cache and last error | open, close, begin, commit, rollback, `corm_transaction`, savepoints, exec | calls the driver |
| Batches, `src/query.c` | the transaction | create, update and delete batch | call begin, commit and rollback themselves |
| Query builder, `src/query.c`, `src/builder.c` | clauses, parameters, options | where, bind, set, limit, ..., find, first, count, create, update, delete, reset | generates SQL and passes parameters to the driver |
| Migration, `src/migration.c` | the tables of the database | `corm_auto_migrate` | sends CREATE and ALTER through the driver |
| Result sets, `src/result.c` | rows, reference count | retain, release, accessors | filled by drivers |
| Model registry, `src/model.c`, `src/internal/hash.h` | hash table of models | register, find, validate | one per connection |
| Backend registry, `src/backend/backend.c` | table of drivers, mutex | register, get | global |
| Hooks, soft delete, logger | function pointers of a model, one flag | called around create, update, delete, find | a hook may refuse |
| Dialects, string buffer, identifier checks | none | formatting | used by the builder |

What is hard: the pool gives up its lock around every open, ping and close, so
its counters, its list and its signals must be right for every interleaving;
waits time out; pings and opens fail and are retried; the statement cache moves
pointers and evicts; drivers own statements that a cache also knows; commits
and statements in the middle of a batch fail; a failed statement may abort or end
a transaction behind the library's back; migrations race, crash and ignore
errors; a table changes under a cached statement; every step of opening a
connection can fail with something already allocated; and the builder binds
values in one order and writes placeholders in another. `PROJECT.json` lists these as
hazards, with the line and the property that covers each.

What makes each part correct: the pool never exceeds its limits, counts exactly,
hands a connection to one client at a time and lets no one sleep beside a free
connection; the cache is an LRU cache; a statement in it is open and of its
text; a transaction is committed exactly when its closure or batch says so; a
placeholder gets the value meant for it, and a soft-delete filter hides deleted
rows and no others; a result set holds all rows, as they were written, and owns its memory; repeated
migrations add what is missing; the backend and the model registered last are
found; a DSN connects to what it names; an error leaves nothing allocated.

## Modules

`ConnPool` is the pool. One action is one critical section of `pool.c`, that is
the code between taking the mutex and giving it up (or waiting); ping, open and
the close after a failed ping are steps of their own, with the thread's place in
`pc` and its local `db` and `retried`. `pc = "closed"` is the moment between
`corm_close` and the lock that decrements `current_open` (lines 95-97). Signals
wake one arbitrary waiter; waits may return spuriously; a timed wait may time
out at any moment, and then only the idle list decides (line 50). Destroy is
called when no thread is inside acquire, as it destroys the mutex; clients may
still hold connections then, and these stay open.

`Lending` says what the pool promises its clients, as one atomic lender: a handle
that is open and that nobody has is lent, or a new one within the limit; a release
keeps it or closes it; a handle is closed only while nobody has it; and shutting
down closes those that are not lent. `ConnPool` implements it with `alive`, `lent`
and `destroyed` as the lender's three variables: an acquire is the step of
`Lending` at the end of its ping or open, and the steps before that, like every
step that only moves the idle list, the counters and the waiters, are stutters.

`ConnPoolClients` adds clients that make a bounded number of calls and give
back what they get, and fairness. `ConnPoolTimeout` adds a clock. `MCConnPool`
adds symmetry. The theorems about this and the other components are in modules of
their own, `...Proofs`, with facts about numbers and lists in `SequenceLemmas`.

`StmtLRU` says what the statement cache promises: a sequence of entries, last
used first, with a capacity. `StmtCache` is the doubly linked list of
`stmt_cache.c`, pointer by pointer; every function holds the cache's mutex from
the first access to the last and is one action. `StmtCache` implements `StmtLRU`
under the mapping that reads the list from its head. `MCStmtCache` adds
symmetry. `SqliteStmts` and `MysqlStmts` extend `StmtLRU` and add what the
drivers do with the statements: which are open, from which text, and where in
its call the user of the connection is. A call of the cache is the cache's
action conjoined with the driver's part.

`SqliteQueries` extends `SqliteStmts` by what `sqlite_query` does between taking
a statement and returning: the column count is taken before the first step, the
first step compiles the statement again if the table has changed since, the
first row decides the types of the columns, each text and blob is a block of its
own, and an error after any row frees the rows. Result sets are retained and
released as in `result.c`, also after the connection is closed. Other
connections insert rows and add columns at any time. One column is followed; its
field has one of CORM's types, `StoredAs` says how `sqlite_bind_params` stores a
value of it and `ReadFrom` from which members of the union
`corm_field_set_value` takes it. Texts and blobs are counted, not identified.
`MCSqliteQueries` adds symmetry.

`SqlSession` describes the transaction state of one connection to SQLite, MySQL
or PostgreSQL; it is external and follows the statements that CORM sends.
`Transactions` composes it with `corm_begin` to `corm_release_savepoint`,
`corm_transaction`, and the three batch functions. One client uses one
connection; its closures do writes, savepoints and batches, and, unless
`Swallows`, return an error once a failed statement has ended or aborted their
transaction. `broken` records that, and that a batch lost its BEGIN or COMMIT.

`Migration` is `corm_auto_migrate`, one action per statement it sends, with the
three drivers' `describe_table`. Several processes run it on one database, each
with its own version of the models; statements fail without effect or with one,
and processes crash and are started again. What the databases accept is external
(`AcceptsCreate`, `NeverAccepted`, `AcceptsIndex`). `MCMigration` gives two
versions of an application with foreign keys, indexes, a unique column and a
composite key.

`Opening` is the backend table, the model registry and the life of a connection:
`corm_init` as one registration under the lock for each type, with those of others
in between (`builtin` is the type it has come to),
every step of `corm_open_with_config` with its failure, what each error path
frees, `corm_close`, and registration and lookup of models along the chain of
their bucket. A registration has two types, the argument and the backend's own:
the table is searched by the first and later read by the second, and `misfiled`
holds the types that calls with different ones have confused. `LeaveStmt` is a
SQLite statement that is prepared and finds no place in a cache; it makes
`sqlite3_close` refuse. `Dsn` has the parsing of DSNs as operators on sequences of
characters, with the buffers of `mysql_open` and `pg_open` (what does not fit is
cut, replaced by the default or overruns, each as in the code), the conninfo
string of `pg_open` with its length, and what libpq reads back from it. After an
overrun or a misreading the connection is to `Undefined`. The reference is the
grammar of the comment in `mysql.c` 18.
`MCOpening` gives a small table of backends with two registrations under a wrong
type, models that collide, and DSNs with every combination of parts, with each
part at and one past what its buffer holds, with a whole at and past what `buf` and
`conninfo` hold, and with text that conninfo would have to quote.

`QueryBuilder` is the builder. Text is abstracted to its placeholders, each
with the value its caller means for it and, once written, its number; a WHERE
clause is a sequence of conditions with AND or OR between (`where`) and that of
their placeholders (`where_phs`). Executing a query
records the statement and the parameters that are sent. The client binds the
values of a condition right after it and resets a query after a statement that
changes rows. `Habits` says what else it does, and each behaviour has one
`setting`: the database's placeholders, the model and the client's habits.
`MCQueryBuilder` defines the settings for TLC.

## Runs

All instances use model values; the bounds are constants of the cfg files.

| Run | Result | Shows |
|---|---|---|
| pool_safety | holds | 3 threads, 4 handles, at most 3 open and 2 idle, up to 2 held by one client, 3 attempts to open: counting, limits, ownership, wakeups and expiry; threads that all wait do so for a client; refinement of the lender |
| pool_live | holds | one slot, 3 clients with 2 calls each, no timeout: every acquire returns |
| pool_timeout | violated | acquire blocks longer than `timeout_ms` |
| stmt_cache | holds | 4 texts, capacity 3, 4 entries: well-formed list, refinement of the LRU cache |
| sqlite_stmts | holds | 2 texts, capacity 1, 3 statements, up to 3 rows, 2 widths, one result set with 2 references, fields of 3 types: statements and cache agree through errors and evictions; result sets are complete, in bounds, readable and own their blocks |
| mysql_stmts | violated | closed statements stay in the cache |
| transactions | holds | 3 backends, 3 writes, 2 savepoint names, closures that stop at a broken transaction: the closure decides, batches are atomic, only a failed COMMIT or ROLLBACK leaves a transaction open |
| transactions_nested | violated | a batch inside a closure commits the enclosing transaction |
| query_orderly | holds | for orderly clients placeholders get their values; with alternatives, `unscoped` and queries that are extended and run again, soft-delete filters hide deleted rows only and let none through the last alternative |
| migration | holds | 3 backends, 2 migrators, 3 tables, 2 faults (failed or lost statements, short descriptions, crashes): no column is left out unless refused, and repeated migration converges |
| opening | holds | 3 types in a table of 3, one connection, 2 tables in a bucket with up to 2 entries, 53 DSNs for buffers of 6, 24 and 58: last registrations are found, also after some under a wrong type, DSNs that fit are understood, and only the known losses occur |
| query_softdelete | violated | soft delete exchanges the mark and the first parameter |

Each violated run checks a sentence of the documentation or of a comment, which
`PROJECT.json` quotes under `findings`.

The settings of query_orderly (`MCQueryBuilder`) are the clients for which the
builder does keep its word: with `?` placeholders all functions may be used as
long as columns are set before conditions are bound; with `$n` all placeholders
come from the client's own text; with soft delete there is no delete with bound
conditions.

Also met while modelling, without a run of its own:

In the pool:

- `include/corm/pool.h:35-36` says that destroying a pool makes active connections
  invalid; they are not touched, stay open and can be used, and whoever holds one
  has to close it (`pool.c` 163-178; `ShutDown` of `Lending`).

In the query builder:

- on PostgreSQL, `corm_query_set`, `where_in` and `where_between` write `$n` into
  the clauses, while `corm_build_sql` numbers the `?` that remain from the number
  of `?` in SET on: `SET name = $1 WHERE id = ?` becomes `... WHERE id = $1`
  (`builder.c` 133), also in `corm_update_batch`. The settings `Postgres` of
  `MCQueryBuilder` violate `ValuesMatch` (use them for `Settings` with two terms);
- `corm_query_set` after a bound condition exchanges values like the soft delete
  does (`query.c` 265); add the habit `"lateset"` to a setting to see it;
- `a OR b AND deleted_at IS NULL`: the filter of `corm_find` restricts only the
  last alternative (`query.c` 310), and deleted rows come through the others;
  `FilterOnlyHides` says so in its last line;
- a SELECT leaves its filter in the clause: `corm_query_or_where` after a SELECT
  without conditions gives `deleted_at IS NULL OR a`, all live rows, which
  `AlternativesComplete` excludes, and `corm_query_unscoped` takes back no filter
  that is already there (`include/corm/query.h:41` speaks of subsequent queries,
  docs/ARCHITECTURE.md:239 of clearing it);
- `corm_delete` does not look at `unscoped` (`query.c` 442-452), although
  README.md:362 says so;
- the filter is appended in `corm_find` and stays, not in `corm_build_sql` as
  docs/ARCHITECTURE.md:241 says;
- `corm_query_set_raw` is documented as "no placeholder conversion"
  (`include/corm/query.h:91`), but its `?` are numbered like the others
  (`builder.c` 109);
- `corm_query_reset` keeps `unscoped` (`query.c` 71-89), although
  `include/corm/query.h:48` says it clears options;
- an offset without a limit is sent as LIMIT 0 (`builder.c` 60-66).

In transactions:

- the result of the ROLLBACK is ignored on every error path (`corm.c` 167,
  `query.c` 716, 751, 795, 832): when it fails the transaction stays open behind the
  client's back, and MySQL commits it with the next BEGIN (`ClosureRollbackFails`,
  `BatchRollbackFails`; `opener` is then "rollback");
- a batch ignores that its BEGIN or COMMIT failed and returns CORM_OK (`query.c`
  711, 753); after a failed BEGIN its records are committed one by one
  (`BatchBeginFails`), after a failed COMMIT nothing is (`BatchAllOrNothing`);
- a closure that goes on after a failed statement and returns CORM_OK may get
  CORM_OK although nothing was committed: PostgreSQL answers the COMMIT of an
  aborted transaction with success (`postgres.c` 217). `Swallows = TRUE` violates
  `ClosureDecides`;
- `corm_create_batch` begins no transaction (`query.c` 587-689), although
  README.md:224 says so.

In migration (`Completed` and `Converges` name the exceptions):

- errors of ALTER and CREATE INDEX are ignored and CORM_OK is returned, for
  columns that can never be added too: UNIQUE on SQLite, NOT NULL without a
  default where there are rows;
- MySQL has no CREATE INDEX IF NOT EXISTS, so no index is ever created there;
- key fields are never added to a table, and a column added by ALTER has no
  foreign key;
- a counter in a composite key gives two PRIMARY KEY clauses on SQLite and
  PostgreSQL, and the table is refused;
- PostgreSQL's description of a table names no schema: a column of a table of the
  same name in another schema counts as present (`postgres.c` 439);
- docs/ARCHITECTURE.md says there is no ALTER TABLE.

In opening and the drivers:

- the error paths of `corm_open_with_config` after line 69 do not free the
  statement cache (`OnlyKnownLosses` names it);
- `sqlite_close` ignores that `sqlite3_close` refuses while statements are open
  (`sqlite3.c` 101), so statements that no cache held are lost with the handle;
- `corm_register_backend` replaces the entry of its argument `type` by a backend
  that may say it is of another (`backend.c` 22-29): the first type is then no
  longer found, and of two entries of the other the first one is
  (`misfiled`);
- `include/corm/corm.h:89` calls `corm_init` a no-op; it registers the backends of
  the build, over those that clients have registered;
- README.md:260 has `corm_find_model` look up a struct name; it looks up a table
  name (`model.c` 58), and `models_by_name` is never filled;
- a user of 256 characters or more with a password, and a host of that length with a
  port and no database, are copied past the end of their buffers (`mysql.c` 36, 66;
  `postgres.c` likewise); a host and port of that length before a slash are
  silently replaced by the default (`mysql.c` 51, `postgres.c` 59); other
  parts are cut; from 1023 characters on `buf` has no terminator. `Fits` excludes
  these;
- the conninfo of `pg_open` quotes nothing (`postgres.c` 81-91), so white space, a
  backslash or a leading quote in a part changes what libpq reads, and a password
  that does not fit in its 1024 characters is cut. `Understood` excludes these;
- a MySQL user shorter than "root" that comes with a password keeps the tail of
  the default (`mysql.c` 36), and a DSN with a port but no host connects to the
  empty host (`mysql.c` 63-68) or, before a slash, to none (57);
- a full table of backends refuses replacements (`backend.c` 17);
- a SQLite column whose first row is NULL is read as TEXT, so the later integers
  of the column are read from a pointer (`sqlite3.c` 208);
- rows freed after an error in `sqlite_query` lose the texts and blobs they point
  to (`dropped` counts them);
- the first query after a column was added misses it, since the columns were
  counted before the statement was compiled again (`sqlite3.c` 148);
- `mysql_simple_query` frees column names that `corm_result_release` frees again
  when memory runs out (`mysql.c` 270-273); `pg_exec` and `pg_query` read the
  array whose allocation failed (`postgres.c` 139, 255);
- `pg_query` sends integers and doubles in binary in the byte order of the host
  (`postgres.c` 269-282), where the protocol has network order;
- MySQL reports TEXT columns as BLOB, so that their values are read without the
  terminator that `v.s` needs (`mysql.c` 242).

### Why the bounds are enough

Three threads are the fewest with which a signal can go to a thread that does
not need it while another does, and a woken thread can be overtaken; two
connections per client let a client keep one while it waits for another. Four
handles are one more than the limit, so an excess open is possible in principle.
A list of three entries has a first, a middle and a last one, a fourth address
makes an insertion beyond the capacity possible. Three writes in a session
let one be before, one inside and one after a savepoint. With two texts for one
place in the cache every call can evict the other's statement; three rows are the
fewest in which a value follows a NULL that follows a value. Two migrators race
for every statement, and two faults let one cut a migration short and another
hide it from the next description. A table of backends that the
three types fill refuses replacements from then on. Behaviours of sqlite_stmts are followed until errors have
dropped `MaxDropped` blocks, which only counts. Four conditions, of which the
filters are some, let a query with alternatives be run, extended and run again, and
with five parameters give every order of text, helper and SET clauses. The buffers
of 256, 1024 and 1024 characters are scaled down to `NameSize` 6, which holds the
default user, `BodySize` 4 * 6, as four names of 255 with their separators just
reach the end of `buf`, and an `InfoSize` that, like the original, only the password
can exceed after four full names. Two entries in a bucket are an older model of the
same table, or one of another table, behind the one looked for.

### Fairness

`ConnPoolClients` and `Migration` assume fairness. In `Migration` a process goes
on with its statements (weak fairness), and its application is started again and
again, as `corm_auto_migrate` is meant to be called at every start; that is what
`Converges` is about. Failures and crashes are bounded by `MaxFaults`, so that
some call finally gets through. In `ConnPoolClients` a thread that can run inside acquire
runs (weak fairness; the mutex is held for bounded times and never while
waiting for another client), clients give back what they hold, and a timed wait
ends. Nothing is assumed about spurious wakeups, pings or opens succeeding, or
clients making calls. Acquire is not starvation free under unboundedly many
calls of others, since a released connection goes to whoever takes the lock
first; the bound on calls takes this out.

### Assumptions about what is outside

`pthread_cond_timedwait` that times out has consumed no signal, as in glibc.
SQLite refuses BEGIN inside and COMMIT and ROLLBACK outside a transaction, and a
COMMIT or ROLLBACK that fails may leave the transaction open or roll it back. MySQL's BEGIN
commits first; PostgreSQL's is a warning inside a transaction, which a refused
statement aborts until a rollback. The answer to a COMMIT is not lost. A SQLite
statement is compiled again, for the table as it is, by its first step and never
in the middle of its rows. A bool is the lowest byte of the `int64_t` it shares a
union with (little endian). libpq reads an unquoted value up to white space, takes a
backslash as an escape, and for an empty value the text that follows. Ports beyond
the range of int are left out.

## Proofs

Each theorem holds for every value of the constants that satisfies the named
assumption of its module; TLC evaluates these assumptions in the runs. The bounds
of the models (`MaxTerms`, `MaxRows`, `MaxFaults` and so on) are such constants.

| Module | Theorems | State, of the specification, the properties |
|---|---|---|
| `ConnPoolProofs` | `PoolInvariant`, `PoolTypes`, `PoolAccounting`, `PoolBounds`, `PoolIdleBound`, `PoolOwnership`, `PoolWakeups`, `PoolWaitsOnClients`, `PoolExpiry`, `PoolImplementsLending`, `LenderKeepsLoansExclusive` | `PoolInv`, `TypeOK`, `Accounting`, `OpenBound`, `IdleBound`, `SoleOwner`, `NoLostWakeup`, `WaitsOnlyOnClients`, `ExpiredIdleOnlyCloses`, `ImplementsLending`, and, of `Lending`, `LoansExclusive` |
| `StmtCacheProofs` | `ListStaysLinked`, `ListStaysBounded`, `ListImplementsLRU` | `WellLinked`, `WithinCapacity`, `ImplementsLRU` |
| `SqliteProofs` | `CacheStaysBounded`, `QueryInvariant`, `DriverRunsOwnStmt`, `CacheStaysCoherent`, `NoOpenStmtLost`, `ResultsComplete`, `ResultsAsStored`, `ReadsWithinRow`, `BlocksStayOwned` | `CacheInv` (the abstract cache alone), `QueryInv`, `RunsOwnStmt`, `CacheCoherent`, `NoStmtLost`, `RowsComplete`, `FieldsAsStored`, `WithinRow`, `BlocksOwned` |
| `TransactionsProofs` | `TxInvariant`, `TxTypes`, `TxAlwaysEnded`, `BatchesAtomic`, `ClosuresDecide` | `TxInv`, `TypeOK`, `NoTxLeftOpen`, `BatchAllOrNothing`, `ClosureDecides` |
| `MigrationProofs` | `MigrationTypes`, `MigrationCompletes`, `ColumnsStay` | `TypeOK`, `Completed`, and that no column disappears |
| `OpeningProofs` | `LatestBackendFound`, `LatestModelFound`, `OnlyKnownLeaks`, `ServersToldAsWritten` | `LatestBackend`, `LatestModel`, `OnlyKnownLosses`, `ConnectedAsWritten` |
| `QueryBuilderProofs` | `ValuesReachPlaceholders` | `ValuesMatch` |

The runs check the same properties, and TLC has checked each inductive invariant on
the instances of the runs too (`ListInv` with `Walk` as the list).

### The pool

From `PoolConstants`, for every finite set of threads. None of the properties is
inductive alone. `Accounting` needs that every handle closed or opened was or was not alive, that is `SoleOwner`; `SoleOwner` needs
that a thread has a handle in `db` exactly while it pings (`PingsOwned`), else a
failing ping could close another's connection. `OpenBound` follows from
`Accounting` and `SlotBound`, the limit on the counter itself: the counter also
includes reserved slots, and that is what keeps two opens from passing the
test together. `NoLostWakeup` compares numbers: the connections and slots that
are free with the threads on their way to test the condition. A step that frees
one signals, and either it adds a tester or nobody waits afterwards; a step that
takes one removes at most one tester. `Quiet` (nobody inside acquire after
destroy) and `TriesLeft` (attempts to open) complete the invariant. The proof has one
lemma per kind of step, lemmas about the list (`PopList`, `PushList`), about
what a signal does and about the numbers of threads at a place.

`WaitsOnlyOnClients` follows from the invariant as a whole: with no thread on its
way, `NoLostWakeup` leaves no idle connection and no free slot, `Accounting` makes
the open handles as many as the limit, and `SoleOwner` leaves them to the clients.
Clients that hold all connections and wait for more still block each other; no
pool without a timeout could prevent that.

`PoolImplementsLending` takes one lemma per step that a client can see. The handle
that a thread pings, or that stands first in the idle list, is open and lent to
nobody (`SoleOwner`, `PingsOwned`), so it may be lent or closed. For an open there
is room under the limit although the limit was tested long before and without the
lock since: the thread's reserved slot is counted in `current_open` and not among the open
handles (`Accounting`, `SlotBound`). When destroy is called no thread holds a handle
in `db`, so the idle connections it closes are all that are not lent.
`LenderKeepsLoansExclusive` shows that `Lending` is strong enough to be worth
implementing: that lent handles are open, not shared and within the limit follows
from it without a look at the pool.

### The statement cache

From `ListConstants`: finitely many entries, NULL is none of them, the capacity is
not 0 (`corm_stmt_cache_create` refuses that). The invariant `ListInv` says that there
is a list `w` of distinct nodes that the pointers represent (`Represents`): head, tail, next
and prev are its first, its last and its neighbours, size is its length, its nodes are
exactly the allocated ones, their texts differ, and the prev of a free node is NULL, as
after `calloc` (a put sets the new entry's next and never its prev). The step from pointers to lists is
`ChainFollows`: the loop over the list meets the nodes of `w` in order. `Chain` is a
recursive function, and an induction is not available, so the proof shows that any
solution of its equation differs from `w` nowhere, from the least position at which it would.
Then the pointer operations are lemmas about lists: `Unlink` is `Dropped`, `PushFront`
puts a node in front, `SameLinks` says that nodes outside do not matter; and `View...`
carries each over to the contents. With them every call is shown to be the abstract one
(`GetStep`, `PutNewStep` and so on), which gives the refinement.

### The SQLite driver

From `CacheConstants`, `DriverConstants` and `QueryConstants`. The driver's
properties hold together only. A statement a call has found stays open until the
call ends because nothing else can evict it: `DriverConstants` says that one thread
uses the connection, which is what the pool's `SoleOwner` guarantees; with two the
claim is false. Until a call has stored its statement the cache has neither the
text nor the statement (`NotYetStored`), so that `Put` never finds an entry and
never evicts what the call is about to use. The statements of the cache are
distinct, as each stands for its text, so that the cleanup after an error, which
finalizes the entry of the text, leaves no other entry behind. What is known about `Get`, `Put` and
`Remove` are lemmas about the entries as a set, at the head of `SqliteProofs`. For the rows
`QueryInv` adds `Counted` (what is known between counting the columns and the first
step), `Reading` (rows collected and rows to come make up the rows seen, and each
value collected is in the member of the type that the first row decided) and
`CompiledBefore` (no statement is compiled for more
columns than the table has, hence compiling again never takes columns away, which
is `WithinRow`).

`BlocksStayOwned` counts: `BlocksIn` names each block by the list of rows and the
position that points to it, and `BlocksWithOneMore` says that adding a list to a
family of lists, or taking one out, changes the number by that of its own blocks.
So a row fetched adds one to the query and to what is allocated, an error moves
the query's blocks to `dropped`, the end of a query moves them to the new result
set, and the last release subtracts them. `BlocksInv` adds what makes the last step
exact: `sqlite_query` decides by the value whether to allocate and
`corm_result_release` by the type whether to free, and the two agree because a value
is only ever set in the member of its type (`Tagged`). A query has rows only
between its first step and its end, else starting the next one would lose them.

### Transactions

For all writes and savepoint names, without assumptions for `TxAlwaysEnded` and
`BatchesAtomic`. `TxInv` adds to the session's own consistency (`SessionOK`: no
savepoints and no aborted state outside transactions) who opened a transaction
(`Owned`), and that a batch whose BEGIN succeeded stands in a transaction that has
committed nothing (`Protected`), which is why rolling back on an error restores the
start. A COMMIT or a ROLLBACK of the library's own that fails may leave its transaction
open (`opener` is then "commit" or "rollback"); `TxAlwaysEnded` says that nothing else
does, and `BatchesAtomic` holds all the same since what stays open is not committed. `ClosuresDecide` has two hypotheses on what clients do, as the run
transactions has: no batch with a BEGIN of its own inside a closure, and no closure
that goes on after a failed statement. Without the first it is false
(transactions_nested), without the second too (see above). Its invariant is
`InTransaction`.

### Migration

`MigrationConstants` types the models. `Completed` needs what the migrator knows at
each of its statements: what a description named is still there (`Altering`, since
columns only ever come), and every field it has gone past was there or refused
(`DealtWith`). Any step of any process keeps that for all others since the database
only grows, which is also the theorem `ColumnsStay`.

### Opening

`DsnConstants` says that the buffers hold the default user and host.
`OpeningConstants` types the constants and says of the DSNs that their parts can be
told apart (`Separable`: a user has no `@` or `:`, a host no `/`, and so on); the
grammar cannot express others. `ServersToldAsWritten` rests on `ParseIsMeaning`,
that the parsing of `mysql_open` and `pg_open` is a left inverse of writing a DSN
for all parts that fit the buffers (`Fits`), of any sizes: each `strchr` finds the
separator that was written, since the parts before it lack it, and no copy cuts
or overruns. For PostgreSQL the conninfo made of the result has to fit and to need
no quotes, which is what `Understood` adds; then libpq reads back what was
parsed (`ServerTold`). It also needs what is known of a connection at each step
of opening it (`Told`), with the type of the backend found (`FoundHasType`);
`OnlyKnownLeaks` needs what hangs on it at each step (`Holds`). `LatestBackendFound`
holds for the types outside `misfiled`, and its invariant says of the table that a
type outside it has its latest backend as the first entry of its type; a
registration under a wrong type touches the first entries of two types, which it
adds to `misfiled`, and a proper one takes its type out again. It
and `LatestModelFound` are proved from what a replacement, an entry at the end of the
table and one at the front of a chain do to the first entry of a type or name; the
latter for all connections, open or not, since a registry is empty when it is made.

### Query builder

`ValuesReachPlaceholders` is about clients that keep to the order of the statement
(`OrderlyClients`); the findings and the list above show what happens to the others. Until
the statement is run, the k-th placeholder of SET followed by WHERE is a `?` that
means the k-th value, and the k-th parameter is that value (`InOrder`); so the
numbers that `append_with_placeholders` counts are the places of the parameters.

### Only model-checked

`EveryCallReturns` and `Converges` are liveness under fairness, which the prover does
not handle. `FilterOnlyHides` compares which rows a clause and its conditions without
the filters select, through numbers of conditions counted in both; it is checked for all
clauses of up to `MaxTerms` conditions and not proved. All other properties that hold
are proved. The four violated ones are
counterexamples, and what holds in their place, where something does, is proved
under its hypotheses (`ClosuresDecide`, `ValuesReachPlaceholders`).

## Not modelled

Value conversion and the fetching of rows by the MySQL and PostgreSQL drivers
(the client libraries do most of it), the copying of columns into fields by name,
formatting, logging, isolation levels and error text, the row cursor and scalar
readers of result sets. In `QueryBuilder`: LIMIT, OFFSET and the text of the
clauses without parameters, allocation failures, and an UPDATE without SET
clause, which expects the client to bind all fields. In `Transactions`: closures
that end the transaction themselves, and a connection that breaks. In
`SqliteQueries`: a second thread on the same connection, locks between
connections, and a value whose copy cannot be allocated. In `Migration`: the
types and defaults of columns. The changelog (line 16) speaks of a time to live
of cached statements; the code has none.

## Plan

1. Done: pool with proofs, statement cache with refinement, drivers' use of it,
   result sets, transactions and batches on three backends, query builder,
   migration, opening and the registries.
2. Open in the model: the pool composed with sessions (a connection given back
   inside a transaction); the fetching of rows by the MySQL driver.
3. Proved: the safety properties of the pool and its refinement of the lender, the
   statement cache and its refinement of the LRU cache, the SQLite driver with its
   result sets, transactions, migration, opening and the query builder.
4. Open in the proofs: liveness (`EveryCallReturns`, `Converges`), which needs
   another prover.
