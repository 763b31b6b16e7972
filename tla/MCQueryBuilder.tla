--------------------------- MODULE MCQueryBuilder ---------------------------
(* Settings of QueryBuilder for TLC. *)
EXTENDS QueryBuilder

Of(dollar, soft, habits) == [dollar |-> dollar, soft |-> soft, habits |-> habits]

\* Clients that keep to the order of the statement: with "?" they use all
\* functions, with "$n" placeholders in their own text only.
Orderly == {Of(FALSE, FALSE, {"helpers", "or"}),
            Of(TRUE, FALSE, {"or"}),
            Of(FALSE, TRUE, {"helpers", "or"}),
            Of(TRUE, TRUE, {"or"})}

\* PostgreSQL and clients that use every function, SET first.
Postgres == {Of(TRUE, FALSE, {"helpers"})}

\* SQLite and a soft delete of the rows a bound condition selects.
BoundDelete == {Of(FALSE, TRUE, {"softbound"})}

=============================================================================
