------------------------------ MODULE ConnPool ------------------------------
(***************************************************************************)
(* The connection pool of src/internal/pool.c, shared by a set of client   *)
(* threads.  Every critical section of pool.c (the code between a          *)
(* pthread_mutex_lock and the next unlock or wait) is one action; the I/O   *)
(* the code does without the lock (ping, open, close after a failed ping)  *)
(* is a step of its own, so other threads run in between.                  *)
(*                                                                         *)
(* A connection handle is a member of Conns, and a handle that is opened   *)
(* is one that is not open.  Time is abstracted: a timed wait may time out *)
(* at any moment, a connection may reach its maximal lifetime at any       *)
(* moment.                                                                 *)
(***************************************************************************)
EXTENDS Integers, Sequences, FiniteSets, Functions

CONSTANTS Threads,   \* client threads
          Conns,     \* connection handles
          NoConn,    \* the NULL of a corm_t pointer
          MaxOpen,   \* config.max_open_conns, 0 = unlimited
          MaxIdle,   \* config.max_idle_conns, 0 = unlimited
          Timed,     \* config.timeout_ms > 0
          Lifetime,  \* config.conn_max_lifetime_ms > 0
          OpenTries, \* attempts to open a connection (3 in the code)
          MaxHeld    \* bound: connections a client holds at the same time

ASSUME PoolConstants ==
  /\ IsFiniteSet(Threads)
  /\ NoConn \notin Conns
  /\ MaxOpen \in Nat /\ MaxIdle \in Nat
  /\ Timed \in BOOLEAN /\ Lifetime \in BOOLEAN
  /\ OpenTries \in Nat \ {0}
  /\ MaxHeld \in Nat

VARIABLES current_open, \* pool->current_open
          idle,         \* the list at pool->idle_head, first element first
          idle_count,   \* pool->idle_count
          alive,        \* the handles that are open
          expired,      \* the open handles older than conn_max_lifetime_ms
          pc,           \* where each thread is in corm_pool_acquire
          db,           \* acquire's local db, between taking and handing out
          retried,      \* acquire's local retried
          lent,         \* the connections each client holds
          destroyed     \* corm_pool_destroy has been called

counters == <<current_open, idle_count>>
locals   == <<db, retried>>
vars == <<current_open, idle, idle_count, alive, expired, pc, db, retried,
          lent, destroyed>>

PC == {"out",       \* not inside corm_pool_acquire
       "entering",  \* about to lock and test the wait condition
       "waiting",   \* blocked on pool->cond
       "woken",     \* the wait returned 0
       "timedout",  \* the wait returned ETIMEDOUT
       "pinging",   \* owns an idle connection, pings it without the lock
       "closed",    \* closed it after a failed ping, about to lock
       "opening",   \* reserved a slot, opens a connection without the lock
       "failed"}    \* every attempt to open failed, about to lock

Init ==
  /\ current_open = 0 /\ idle = <<>> /\ idle_count = 0
  /\ alive = {} /\ expired = {}
  /\ pc = [t \in Threads |-> "out"]
  /\ db = [t \in Threads |-> NoConn]
  /\ retried = [t \in Threads |-> 0]
  /\ lent = [t \in Threads |-> {}]
  /\ destroyed = FALSE

(***************************************************************************)
(* Helpers                                                                 *)
(***************************************************************************)

\* pthread_cond_signal: one waiter, if there is one, becomes runnable.
\* Given the threads' places, the places that may result.
Signal(p) ==
  LET waiters == {w \in Threads : p[w] = "waiting"}
  IN  IF waiters = {} THEN {p} ELSE {[p EXCEPT ![w] = "woken"] : w \in waiters}

\* Mutant: off by one in the wait condition.
MustWait_OffByOne == idle = <<>> /\ MaxOpen > 0 /\ current_open > MaxOpen

\* The condition of the wait loop.
MustWait == idle = <<>> /\ MaxOpen > 0 /\ current_open >= MaxOpen

\* Threads whose next step is the test of the wait condition.
AtTest(t) == pc[t] \in {"entering", "woken"}

\* Threads that reach the code after the wait loop when the list is not
\* empty: a wait that timed out is also over then.
MayPop(t) == idle /= <<>> /\ pc[t] \in {"entering", "woken", "timedout"}

Goto(t, place) == pc' = [pc EXCEPT ![t] = place]

\* corm_close: the handle is gone.
Close(c) == alive' = alive \ {c} /\ expired' = expired \ {c}

PopIdle == idle' = Tail(idle) /\ idle_count' = idle_count - 1

(***************************************************************************)
(* corm_pool_acquire                                                       *)
(***************************************************************************)

Acquire(t) ==
  /\ pc[t] = "out" /\ ~destroyed
  /\ Cardinality(lent[t]) < MaxHeld
  /\ Goto(t, "entering")
  /\ UNCHANGED <<counters, idle, alive, expired, locals, lent, destroyed>>

Wait(t) ==
  /\ AtTest(t) /\ MustWait
  /\ Goto(t, "waiting")
  /\ UNCHANGED <<counters, idle, alive, expired, locals, lent, destroyed>>

\* A condition wait may return without a signal.
SpuriousWakeup(t) ==
  /\ pc[t] = "waiting"
  /\ Goto(t, "woken")
  /\ UNCHANGED <<counters, idle, alive, expired, locals, lent, destroyed>>

Timeout(t) ==
  /\ Timed /\ pc[t] = "waiting"
  /\ Goto(t, "timedout")
  /\ UNCHANGED <<counters, idle, alive, expired, locals, lent, destroyed>>

\* Timed out and nothing idle: CORM_ERR_GENERIC, whatever current_open is.
GiveUp(t) ==
  /\ pc[t] = "timedout" /\ idle = <<>>
  /\ Goto(t, "out")
  /\ UNCHANGED <<counters, idle, alive, expired, locals, lent, destroyed>>

\* The connection popped is too old: closed, and the call starts again.
PopExpired(t) ==
  /\ MayPop(t) /\ Lifetime /\ Head(idle) \in expired
  /\ PopIdle /\ Close(Head(idle))
  /\ current_open' = current_open - 1
  /\ pc' \in Signal([pc EXCEPT ![t] = "entering"])
  /\ UNCHANGED <<locals, lent, destroyed>>

\* Mutant: the lifetime is not looked at.
PopFresh_AnyAge(t) ==
  /\ MayPop(t)
  /\ PopIdle
  /\ db' = [db EXCEPT ![t] = Head(idle)]
  /\ Goto(t, "pinging")
  /\ UNCHANGED <<current_open, alive, expired, retried, lent, destroyed>>

\* Mutant: the connection stays in the list until its ping has succeeded.
PopFresh_StaysListed(t) ==
  /\ MayPop(t) /\ ~(Lifetime /\ Head(idle) \in expired)
  /\ db' = [db EXCEPT ![t] = Head(idle)]
  /\ Goto(t, "pinging")
  /\ UNCHANGED <<counters, idle, alive, expired, retried, lent, destroyed>>

PopFresh(t) ==
  /\ MayPop(t) /\ ~(Lifetime /\ Head(idle) \in expired)
  /\ PopIdle
  /\ db' = [db EXCEPT ![t] = Head(idle)]
  /\ Goto(t, "pinging")
  /\ UNCHANGED <<current_open, alive, expired, retried, lent, destroyed>>

PingOk(t) ==
  /\ pc[t] = "pinging"
  /\ lent' = [lent EXCEPT ![t] = @ \union {db[t]}]
  /\ db' = [db EXCEPT ![t] = NoConn]
  /\ Goto(t, "out")
  /\ UNCHANGED <<counters, idle, alive, expired, retried, destroyed>>

\* Mutant: the dead connection is dropped without corm_close.
PingFails_Leaks(t) ==
  /\ pc[t] = "pinging"
  /\ db' = [db EXCEPT ![t] = NoConn]
  /\ Goto(t, "closed")
  /\ UNCHANGED <<counters, idle, alive, expired, retried, lent, destroyed>>

PingFails(t) ==
  /\ pc[t] = "pinging"
  /\ Close(db[t])
  /\ db' = [db EXCEPT ![t] = NoConn]
  /\ Goto(t, "closed")
  /\ UNCHANGED <<counters, idle, retried, lent, destroyed>>

\* Mutant: the slot of the closed connection is not given back.
ForgetClosed_KeepsSlot(t) ==
  /\ pc[t] = "closed"
  /\ pc' \in Signal([pc EXCEPT ![t] = "entering"])
  /\ UNCHANGED <<counters, idle, alive, expired, locals, lent, destroyed>>

ForgetClosed(t) ==
  /\ pc[t] = "closed"
  /\ current_open' = current_open - 1
  /\ pc' \in Signal([pc EXCEPT ![t] = "entering"])
  /\ UNCHANGED <<idle, idle_count, alive, expired, locals, lent, destroyed>>

\* Nothing idle and room for one more: the slot is taken before the open.
Reserve(t) ==
  /\ AtTest(t) /\ idle = <<>> /\ ~MustWait
  /\ current_open' = current_open + 1
  /\ retried' = [retried EXCEPT ![t] = 0]
  /\ Goto(t, "opening")
  /\ UNCHANGED <<idle, idle_count, alive, expired, db, lent, destroyed>>

OpenOk(t) ==
  /\ pc[t] = "opening"
  /\ \E c \in Conns \ alive :
       /\ alive' = alive \union {c}
       /\ lent' = [lent EXCEPT ![t] = @ \union {c}]
  /\ Goto(t, "out")
  /\ UNCHANGED <<counters, idle, expired, locals, destroyed>>

\* Mutant: ++retried <= 3.
OpenFails_OneMore(t) ==
  /\ pc[t] = "opening"
  /\ retried' = [retried EXCEPT ![t] = @ + 1]
  /\ Goto(t, IF retried[t] + 1 <= OpenTries THEN "opening" ELSE "failed")
  /\ UNCHANGED <<counters, idle, alive, expired, db, lent, destroyed>>

OpenFails(t) ==
  /\ pc[t] = "opening"
  /\ retried' = [retried EXCEPT ![t] = @ + 1]
  /\ Goto(t, IF retried[t] + 1 < OpenTries THEN "opening" ELSE "failed")
  /\ UNCHANGED <<counters, idle, alive, expired, db, lent, destroyed>>

\* Mutant: no signal for the slot that is given back.
GiveBackSlot_NoSignal(t) ==
  /\ pc[t] = "failed"
  /\ current_open' = current_open - 1
  /\ pc' = [pc EXCEPT ![t] = "out"]
  /\ UNCHANGED <<idle, idle_count, alive, expired, locals, lent, destroyed>>

\* The reserved slot is given back and the open's error returned.
GiveBackSlot(t) ==
  /\ pc[t] = "failed"
  /\ current_open' = current_open - 1
  /\ pc' \in Signal([pc EXCEPT ![t] = "out"])
  /\ UNCHANGED <<idle, idle_count, alive, expired, locals, lent, destroyed>>

(***************************************************************************)
(* corm_pool_release                                                       *)
(***************************************************************************)

Returns(t, c) ==
  /\ pc[t] = "out" /\ ~destroyed /\ c \in lent[t]
  /\ lent' = [lent EXCEPT ![t] = @ \ {c}]

\* Mutant: off by one in the limit on idle connections.
IdleFull_OffByOne == MaxIdle > 0 /\ idle_count > MaxIdle

IdleFull == MaxIdle > 0 /\ idle_count >= MaxIdle

\* Mutant: no signal for the slot that becomes free.
ReleaseClosing_NoSignal(t, c) ==
  /\ Returns(t, c)
  /\ Close(c)
  /\ current_open' = current_open - 1
  /\ UNCHANGED <<idle, idle_count, pc, locals, destroyed>>

\* Enough idle connections already, or no memory for a list node: closed.
ReleaseClosing(t, c) ==
  /\ Returns(t, c)
  /\ Close(c)
  /\ current_open' = current_open - 1
  /\ pc' \in Signal(pc)
  /\ UNCHANGED <<idle, idle_count, locals, destroyed>>

ReleaseExcess(t, c) == IdleFull /\ ReleaseClosing(t, c)

ReleaseNoMemory(t, c) == ~IdleFull /\ ReleaseClosing(t, c)

\* Mutant: no signal for the connection that becomes idle.
ReleaseToIdle_NoSignal(t, c) ==
  /\ Returns(t, c) /\ ~IdleFull
  /\ idle' = <<c>> \o idle
  /\ idle_count' = idle_count + 1
  /\ UNCHANGED <<current_open, alive, expired, pc, locals, destroyed>>

ReleaseToIdle(t, c) ==
  /\ Returns(t, c) /\ ~IdleFull
  /\ idle' = <<c>> \o idle
  /\ idle_count' = idle_count + 1
  /\ pc' \in Signal(pc)
  /\ UNCHANGED <<current_open, alive, expired, locals, destroyed>>

(***************************************************************************)
(* corm_pool_destroy: the idle connections are closed and the pool freed.  *)
(* It destroys the mutex, so no thread may be inside acquire.  Connections *)
(* that are lent are not touched.                                          *)
(***************************************************************************)
Destroy ==
  /\ ~destroyed /\ \A t \in Threads : pc[t] = "out"
  /\ alive' = alive \ Range(idle)
  /\ expired' = expired \ Range(idle)
  /\ idle' = <<>> /\ idle_count' = 0
  /\ destroyed' = TRUE
  /\ UNCHANGED <<current_open, pc, locals, lent>>

\* External: the clock passes created_at_ms + conn_max_lifetime_ms.
GrowOld(c) ==
  /\ Lifetime /\ c \in alive \ expired
  /\ expired' = expired \union {c}
  /\ UNCHANGED <<counters, idle, alive, pc, locals, lent, destroyed>>

-----------------------------------------------------------------------------

\* The steps a thread takes inside acquire without being told to by anyone.
Runs(t) ==
  \/ Wait(t) \/ GiveUp(t) \/ PopExpired(t) \/ PopFresh(t)
  \/ PingOk(t) \/ PingFails(t) \/ ForgetClosed(t)
  \/ Reserve(t) \/ OpenOk(t) \/ OpenFails(t) \/ GiveBackSlot(t)

Release(t) ==
  \E c \in Conns :
    ReleaseExcess(t, c) \/ ReleaseNoMemory(t, c) \/ ReleaseToIdle(t, c)

Next ==
  \/ \E t \in Threads :
       \/ Acquire(t) \/ SpuriousWakeup(t) \/ Timeout(t) \/ Runs(t)
       \/ Release(t)
  \/ \E c \in Conns : GrowOld(c)
  \/ Destroy

Spec == Init /\ [][Next]_vars

-----------------------------------------------------------------------------
(***************************************************************************)
(* Properties                                                              *)
(***************************************************************************)

TypeOK ==
  /\ current_open \in Nat /\ idle_count \in Nat
  /\ idle \in Seq(Conns)
  /\ alive \in SUBSET Conns /\ expired \in SUBSET alive
  /\ pc \in [Threads -> PC]
  /\ db \in [Threads -> Conns \union {NoConn}]
  /\ retried \in [Threads -> 0..OpenTries]
  /\ lent \in [Threads -> SUBSET Conns]
  /\ destroyed \in BOOLEAN

\* Threads that current_open counts although they have no open handle.
Reserving == {t \in Threads : pc[t] \in {"opening", "failed", "closed"}}
\* Threads that will test the wait condition without further notice.
Testing == {t \in Threads : pc[t] \in {"entering", "woken"}}
Waiting == {t \in Threads : pc[t] = "waiting"}

\* Every open connection is counted once: current_open is the number of open
\* handles plus the slots threads hold without one (reserved before an open,
\* lines 104 and 124, or kept across the close of a failed ping, 95-97), and
\* idle_count is the length of the list.
Accounting ==
  ~destroyed => /\ current_open = Cardinality(alive) + Cardinality(Reserving)
                /\ idle_count = Len(idle)

\* max_open_conns bounds the connections that are really open, with opens,
\* pings and closes running outside the lock (lines 87-115).
OpenBound == MaxOpen > 0 => Cardinality(alive) <= MaxOpen

\* max_idle_conns bounds the list, whoever releases when (lines 136-143).
IdleBound == MaxIdle > 0 => Len(idle) <= MaxIdle

\* The parts of SoleOwner.
IdleDistinct == IsInjective(idle)
IdleUnused ==
  \A c \in Range(idle) : \A t \in Threads : db[t] /= c /\ c \notin lent[t]
BorrowedOnce ==
  \A t, u \in Threads :
    /\ db[t] \notin lent[u]
    /\ t /= u => lent[t] \cap lent[u] = {} /\ (db[t] = db[u] => db[t] = NoConn)
AliveOwned ==
  \A c \in Conns : c \in alive <=> \/ c \in Range(idle)
                                  \/ \E t \in Threads : db[t] = c \/ c \in lent[t]

\* A connection has exactly one owner: the idle list (once), one thread inside
\* acquire, or one client.  No closed handle is idle or handed out, no handle
\* is handed out twice, and no open handle is lost, also after destroy.
SoleOwner == IdleDistinct /\ IdleUnused /\ BorrowedOnce /\ AliveOwned

\* A signal is never lost: while a thread waits, every idle connection and
\* every free slot has a thread on its way to the test of the wait loop
\* (lines 38-39), so none stays unused because its waiter sleeps on.
NoLostWakeup ==
  (MaxOpen > 0 /\ Waiting /= {} /\ ~destroyed) =>
     Len(idle) + (MaxOpen - current_open) <= Cardinality(Testing)

\* The pool itself never blocks its clients for good: if threads wait (lines 49
\* and 55) and no thread is on its way through acquire, then nothing is idle and
\* the clients hold all max_open_conns connections: only a release is awaited.
WaitsOnlyOnClients ==
  (/\ MaxOpen > 0 /\ Waiting /= {} /\ ~destroyed
   /\ \A t \in Threads : pc[t] \in {"out", "waiting"}) =>
     idle = <<>> /\ Cardinality(UNION {lent[t] : t \in Threads}) = MaxOpen

\* A connection that passed conn_max_lifetime_ms while idle leaves the list
\* only by being closed (lines 67-84); no client gets it back.
ExpiredIdleOnlyCloses ==
  [][\A c \in Range(idle) \cap expired : c \in Range(idle)' \/ c \notin alive']_vars

\* Although acquire tests, reserves, pings and opens in separate steps between
\* which other threads run (lines 38-124), to its clients the pool is an atomic
\* lender: each call that succeeds is one step that takes a handle nobody has or
\* opens one within max_open_conns, a handle is closed only while nobody has it,
\* and destroy closes exactly the handles that are not lent (lines 163-178).
Lends == INSTANCE Lending WITH
           Clients <- Threads, Handles <- Conns, Limit <- MaxOpen,
           open <- alive, held <- lent, shut <- destroyed
ImplementsLending == Lends!LendingSpec

(***************************************************************************)
(* The inductive invariant of ConnPoolProofs: the properties above and     *)
(* what their proofs need besides.                                         *)
(***************************************************************************)
SlotBound == MaxOpen > 0 /\ ~destroyed => current_open <= MaxOpen
Quiet == destroyed => \A t \in Threads : pc[t] = "out"
TriesLeft == \A t \in Threads : pc[t] = "opening" => retried[t] < OpenTries
PingsOwned == \A t \in Threads : pc[t] = "pinging" <=> db[t] /= NoConn

\* Without conn_max_lifetime_ms no connection is ever too old.
Ageless == Lifetime \/ expired = {}

PoolInv ==
  /\ TypeOK /\ IsFiniteSet(alive)
  /\ Accounting /\ SlotBound /\ OpenBound /\ IdleBound
  /\ Quiet /\ TriesLeft /\ PingsOwned /\ SoleOwner
  /\ NoLostWakeup

=============================================================================
