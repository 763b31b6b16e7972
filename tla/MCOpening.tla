----------------------------- MODULE MCOpening -----------------------------
(***************************************************************************)
(* A table of three backends for three types, and models of three tables   *)
(* in two buckets.                                                         *)
(***************************************************************************)
EXTENDS Opening

MCTypes == <<"sqlite", "mysql", "postgres">>
MCBuilt == ("sqlite" :> TRUE) @@ ("mysql" :> TRUE) @@ ("postgres" :> FALSE)
Impl(type, real) == [type |-> type, real |-> real]
MCRegistrations ==
  {[type |-> b.type, backend |-> b] :
     b \in {Impl("mysql", TRUE), Impl("mysql", FALSE), Impl("postgres", TRUE)}}
  \union {[type |-> "mysql", backend |-> Impl("postgres", TRUE)],
          [type |-> "postgres", backend |-> Impl("sqlite", TRUE)]}

\* Texts of n characters.
X(n) == [i \in 1..n |-> "x"]
D(user, pass, host, port, name) ==
  [user |-> user, pass |-> pass, host |-> host, port |-> port, db |-> name]
P21 == <<"2", "1">>

\* Every combination of parts that are there and parts that are not,
Combined == {D(l[1], l[2], host, port, name) :
               l \in {<<X(0), X(0)>>, <<X(4), <<"7">>>>},
               host \in {X(0), X(1)}, port \in {X(0), P21}, name \in {X(0), X(1)}}
\* parts at, and one past, what the buffers hold,
AtLimit ==
  UNION {{D(X(n), X(0), X(1), X(0), X(0)), D(X(n), <<"7">>, X(1), X(0), X(1)),
          D(X(4), X(n), X(1), X(0), X(0)), D(X(0), X(0), X(n), X(0), X(0)),
          D(X(0), X(0), X(n), P21, X(0)), D(X(0), X(0), X(n), X(0), X(1)),
          D(X(0), X(0), X(n - 3), P21, X(1)), D(X(0), X(0), X(1), X(0), X(n))} :
         n \in {5, 6}}
\* the whole at and past what buf and conninfo hold,
Long == {D(X(n), X(5), X(5), X(0), X(k)) : n \in {4, 5}, k \in {4, 5}}
\* a user shorter than the default, and text that conninfo has to quote.
Special == {D(X(1), <<"7">>, X(1), X(0), X(0)), D(X(4), <<"7", " ", "x">>, X(1), X(0), X(0)),
            D(X(4), <<"'">>, X(1), X(0), X(0)), D(X(0), X(0), X(1), X(0), <<"x", "\\">>)}

Of(scheme, parts) == {[scheme |-> scheme, parts |-> d] : d \in parts}
MCDsns == Of("mysql://", Combined \union AtLimit \union Special)
          \union Of("postgresql://", {d \in Combined : d.port = P21} \union Long \union Special)
          \union Of("none", {D(X(0), X(0), X(1), X(0), X(0))})

M(t, fields, size) == [table |-> t, fields |-> fields, size |-> size]
MCModels == {M("t1", <<"a">>, 1), M("t1", <<"a", "b">>, 1), M("t2", <<"a">>, 1),
             M("t1", <<"a", "a">>, 1), M("t2", <<"a">>, 0), M("t 2", <<"a">>, 1)}
MCHash == ("t1" :> 0) @@ ("t2" :> 0) @@ ("t 2" :> 1)

=============================================================================
