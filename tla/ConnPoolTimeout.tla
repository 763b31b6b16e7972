-------------------------- MODULE ConnPoolTimeout --------------------------
(***************************************************************************)
(* ConnPool with a clock: how long a call of corm_pool_acquire is blocked  *)
(* on the condition variable.  The deadline of a timed wait is computed    *)
(* from the current time in every iteration of the wait loop (lines        *)
(* 41-49), so a new wait starts with the full timeout.                     *)
(***************************************************************************)
EXTENDS ConnPool

CONSTANT TimeoutTicks   \* config.timeout_ms, in clock ticks

VARIABLES slept,   \* ticks since the thread's current wait began
          blocked  \* ticks spent waiting since the thread's call began

\* What a step of the pool does to the clocks.
Clocks ==
  /\ slept' = [t \in Threads |->
                 IF pc[t] = "waiting" /\ pc'[t] = "waiting"
                 THEN slept[t] ELSE 0]
  /\ blocked' = [t \in Threads |-> IF pc'[t] = "out" THEN 0 ELSE blocked[t]]

\* pthread_cond_timedwait returns ETIMEDOUT at its deadline.
DeadlinePasses(t) == slept[t] >= TimeoutTicks /\ Timeout(t) /\ Clocks

\* External: time passes, no further than the next deadline.
Tick ==
  /\ \A t \in Waiting : slept[t] < TimeoutTicks
  /\ Waiting /= {}
  /\ slept' = [t \in Threads |-> IF t \in Waiting THEN slept[t] + 1 ELSE 0]
  /\ blocked' = [t \in Threads |-> IF t \in Waiting THEN blocked[t] + 1
                                                     ELSE blocked[t]]
  /\ UNCHANGED vars

TimeoutInit ==
  Init /\ slept = [t \in Threads |-> 0] /\ blocked = [t \in Threads |-> 0]

TimeoutNext ==
  \/ \E t \in Threads : DeadlinePasses(t)
  \/ (\E t \in Threads : Acquire(t) \/ Runs(t) \/ Release(t)) /\ Clocks
  \/ (\E c \in Conns : GrowOld(c)) /\ Clocks
  \/ Tick

TimeoutSpec == TimeoutInit /\ [][TimeoutNext]_<<vars, slept, blocked>>

\* include/corm/pool.h:22 on corm_pool_acquire: "Blocks up to
\* config.timeout_ms."
BlocksUpToTimeout == \A t \in Threads : blocked[t] <= TimeoutTicks

=============================================================================
