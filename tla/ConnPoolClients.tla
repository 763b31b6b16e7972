-------------------------- MODULE ConnPoolClients --------------------------
(***************************************************************************)
(* ConnPool under clients that make finitely many calls of                 *)
(* corm_pool_acquire and give back every connection they get.  With        *)
(* finitely many calls a waiter can be overtaken only finitely often, so   *)
(* every call has to return.                                               *)
(***************************************************************************)
EXTENDS ConnPool

CONSTANT MaxCalls    \* bound: acquire calls per client

VARIABLE calls       \* acquire calls each client has made

Step(t) ==
  \/ /\ calls[t] < MaxCalls /\ Acquire(t)
     /\ calls' = [calls EXCEPT ![t] = @ + 1]
  \/ /\ SpuriousWakeup(t) \/ Timeout(t) \/ Runs(t) \/ Release(t)
     /\ UNCHANGED calls

ClientInit == Init /\ calls = [t \in Threads |-> 0]

ClientNext ==
  \/ \E t \in Threads : Step(t)
  \/ (\E c \in Conns : GrowOld(c)) /\ UNCHANGED calls

\* A thread that can run inside acquire runs and gets the mutex it asks for;
\* a client gives back what it holds; a timed wait ends.  Nothing is assumed
\* of spurious wakeups, of pings and opens succeeding, or of new calls.
Fairness ==
  \A t \in Threads :
    /\ WF_<<vars, calls>>(Runs(t) /\ UNCHANGED calls)
    /\ WF_<<vars, calls>>(Release(t) /\ UNCHANGED calls)
    /\ WF_<<vars, calls>>(Timeout(t) /\ UNCHANGED calls)

ClientSpec == ClientInit /\ [][ClientNext]_<<vars, calls>> /\ Fairness

\* Every call of corm_pool_acquire returns, with a connection or an error:
\* each signal reaches a waiter that can use what it announces, and no chain
\* of failed pings, expired connections and retries (goto retry_acquire, lines
\* 83 and 100) goes on forever.
EveryCallReturns == \A t \in Threads : pc[t] /= "out" ~> pc[t] = "out"

=============================================================================
