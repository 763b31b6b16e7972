------------------------------ MODULE Lending ------------------------------
(***************************************************************************)
(* What corm_pool_acquire, corm_pool_release and corm_pool_destroy promise *)
(* together, without the list, the counters, the lock and the places in    *)
(* between: handles are lent to one client at a time, at most Limit of     *)
(* them are open, and shutting down closes those that are not lent.        *)
(* ConnPool is shown to implement this specification.                      *)
(***************************************************************************)
EXTENDS Naturals, FiniteSets

CONSTANTS Clients,   \* who may hold handles
          Handles,
          Limit      \* how many may be open, 0 = any number

VARIABLES open,      \* the handles that are open
          held,      \* the handles lent to each client
          shut       \* the lender has shut down

lendingVars == <<open, held, shut>>

LendingInit ==
  open = {} /\ held = [t \in Clients |-> {}] /\ shut = FALSE

Unlent == {c \in open : \A t \in Clients : c \notin held[t]}

Give(t, c) == held' = [held EXCEPT ![t] = @ \union {c}]

\* A successful acquire lends a handle that is open and that nobody has ...
LendOpen(t, c) ==
  /\ ~shut /\ c \in Unlent /\ Give(t, c)
  /\ UNCHANGED <<open, shut>>

\* ... or a new one, if there may be one more.
LendNew(t, c) ==
  /\ ~shut /\ c \in Handles \ open /\ Give(t, c)
  /\ Limit > 0 => Cardinality(open) < Limit
  /\ open' = open \union {c}
  /\ UNCHANGED shut

\* A release keeps the handle for the next client or closes it.
TakeBack(t, c) ==
  /\ ~shut /\ c \in held[t]
  /\ held' = [held EXCEPT ![t] = @ \ {c}]
  /\ open' \in {open, open \ {c}}
  /\ UNCHANGED shut

\* A handle that is too old or does not answer is closed while nobody has it.
Discard(c) ==
  /\ ~shut /\ c \in Unlent
  /\ open' = open \ {c}
  /\ UNCHANGED <<held, shut>>

\* Handles that are lent stay open with their clients: corm_pool_destroy closes the
\* idle list only, although include/corm/pool.h:36 says of it that "Active
\* connections become invalid."
ShutDown ==
  /\ ~shut /\ shut' = TRUE
  /\ open' = open \ Unlent
  /\ UNCHANGED held

LendingNext ==
  \/ \E c \in Handles :
       \/ \E t \in Clients : LendOpen(t, c) \/ LendNew(t, c) \/ TakeBack(t, c)
       \/ Discard(c)
  \/ ShutDown

LendingSpec == LendingInit /\ [][LendingNext]_lendingVars

-----------------------------------------------------------------------------

\* What clients of corm_pool_acquire rely on: a handle is open for as long as it is
\* lent, nobody else has it, and no more are open than the limit allows.
LoansExclusive ==
  /\ \A t \in Clients : held[t] \subseteq open
  /\ \A t, u \in Clients : t /= u => held[t] \cap held[u] = {}
  /\ Limit > 0 => Cardinality(open) <= Limit

=============================================================================
