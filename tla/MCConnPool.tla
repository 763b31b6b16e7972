---------------------------- MODULE MCConnPool ----------------------------
(* Instances of ConnPool for TLC. *)
EXTENDS ConnPool, TLC

\* Threads are interchangeable, and so are connection handles.
Symm == Permutations(Threads) \union Permutations(Conns)

=============================================================================
