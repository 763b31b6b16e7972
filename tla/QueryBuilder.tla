---------------------------- MODULE QueryBuilder ----------------------------
(***************************************************************************)
(* The fluent query builder of src/query.c and the SQL generation of       *)
(* src/builder.c: which value the database uses for which placeholder, and *)
(* which rows a query of a model with soft delete can see.                 *)
(*                                                                         *)
(* Text is abstracted to its placeholders.  Each placeholder carries the   *)
(* value its caller means for it; values are numbered in the order the     *)
(* caller gives them.  Allocation failures are left out.                   *)
(***************************************************************************)
EXTENDS Integers, Sequences, FiniteSets

CONSTANTS Settings,    \* the databases, models and clients to look at
          Fields,      \* fields of the model that corm_create binds
          MaxTerms,    \* bound: WHERE conditions of a query
          MaxParams    \* bound: parameters of a query

\* What clients may do besides plain conditions: "helpers" call
\* corm_query_set, where_in and where_between; "lateset" set columns after
\* binding parameters; "softbound" delete with bound conditions from models
\* with soft delete; "or" call corm_query_or_where.
Habits == {"helpers", "lateset", "softbound", "or"}

ASSUME BuilderConstants ==
  /\ Settings \subseteq [dollar : BOOLEAN,   \* PostgreSQL: $1 and not ?
                         soft   : BOOLEAN,   \* a CORM_FLAG_SOFT_DELETE field
                         habits : SUBSET Habits]
  /\ Fields \in Nat \ {0} /\ MaxTerms \in Nat /\ MaxParams \in Nat

VARIABLES setting,     \* a member of Settings
          where,       \* q->where: its conditions [glue, filter]
          where_phs,   \* q->where: its placeholders
          set_clause,  \* q->set_clause: its placeholders
          params,      \* q->params: the values bound
          unscoped,    \* q->unscoped
          owed,        \* placeholders of the client's text it has yet to bind
          values,      \* how many values the client has given
          ended,       \* a statement that changes rows was run: reset is due
          sent         \* the statement sent last: [op, phs, params]

conditions == <<where, where_phs>>
vars == <<setting, conditions, set_clause, params, unscoped, owed, values, ended, sent>>

Nothing == [op |-> "none", phs |-> <<>>, params |-> <<>>]

Init ==
  /\ setting \in Settings
  /\ where = <<>> /\ where_phs = <<>> /\ set_clause = <<>>
  /\ params = <<>> /\ unscoped = FALSE
  /\ owed = 0 /\ values = 0 /\ ended = FALSE /\ sent = Nothing

(***************************************************************************)
(* Placeholders: num is 0 for "?" and n for "$n"                           *)
(***************************************************************************)

\* corm_dialect_placeholder_str
Numbered(index) == IF setting.dollar THEN index + 1 ELSE 0

\* k placeholders "?" in text of the client, which it binds next.
Marks(k) == [i \in 1..k |-> [val |-> values + i, num |-> 0]]

\* k placeholders the builder writes itself, binding a value for each.
Bound(k) == [i \in 1..k |-> [val |-> values + i,
                            num |-> Numbered(Len(params) + i - 1)]]
NewValues(k) == [i \in 1..k |-> values + i]

IsMark(p) == p.num = 0
MarksUpTo(phs, n) == Cardinality({i \in 1..n : IsMark(phs[i])})
MarksIn(phs) == MarksUpTo(phs, Len(phs))

\* append_with_placeholders: every "?" is numbered from start on.
Rewrite(phs, start) ==
  [i \in DOMAIN phs |->
     IF IsMark(phs[i])
     THEN [phs[i] EXCEPT !.num = Numbered(start + MarksUpTo(phs, i) - 1)]
     ELSE phs[i]]

(***************************************************************************)
(* Building                                                                *)
(***************************************************************************)

Does(habit) == habit \in setting.habits

\* The client may call another builder function.
Ready == owed = 0 /\ ~ended

\* A client runs a query with a SET clause as the UPDATE corm_query_set makes it.
NotUpdate == set_clause = <<>>

Room(k) == Len(params) + k <= MaxParams

\* " AND " or " OR " goes in front of every condition but the first.
AddTerm(glue, filter, phs) ==
  /\ where' = Append(where, [glue   |-> IF where = <<>> THEN "AND" ELSE glue,
                             filter |-> filter])
  /\ where_phs' = where_phs \o phs

\* corm_query_where and corm_query_or_where, with k placeholders
WhereText(glue, k) ==
  /\ Ready /\ Len(where) < MaxTerms /\ Room(k)
  /\ AddTerm(glue, FALSE, Marks(k))
  /\ owed' = k /\ values' = values + k /\ sent' = Nothing
  /\ UNCHANGED <<setting, set_clause, params, unscoped, ended>>

Where == \E k \in 0..2 : WhereText("AND", k)
OrWhere == Does("or") /\ \E k \in 0..2 : WhereText("OR", k)

\* corm_query_where_null and corm_query_where_not_null
WhereNull == WhereText("AND", 0)

Bind ==
  /\ owed > 0 /\ ~ended
  /\ params' = Append(params, values - owed + 1)
  /\ owed' = owed - 1 /\ sent' = Nothing
  /\ UNCHANGED <<setting, conditions, set_clause, unscoped, values, ended>>

WhereBound(k) ==
  /\ Does("helpers") /\ Ready /\ Len(where) < MaxTerms /\ Room(k)
  /\ AddTerm("AND", FALSE, Bound(k))
  /\ params' = params \o NewValues(k) /\ values' = values + k /\ sent' = Nothing
  /\ UNCHANGED <<setting, set_clause, unscoped, owed, ended>>

WhereIn == \E count \in 1..3 : WhereBound(count)

WhereBetween == WhereBound(2)

\* What corm_query_set does to the query, here and in corm_delete.
SetColumn ==
  /\ set_clause' = set_clause \o Bound(1)
  /\ params' = params \o NewValues(1)
  /\ values' = values + 1

Set ==
  /\ Does("helpers") /\ Ready /\ Room(1)
  /\ where_phs = <<>> \/ Does("lateset")
  /\ SetColumn /\ sent' = Nothing
  /\ UNCHANGED <<setting, conditions, unscoped, owed, ended>>

\* corm_query_set_raw replaces the clause; what was bound for it stays.
SetRaw ==
  /\ Ready
  /\ params = <<>> \/ Does("lateset")
  /\ \E k \in 1..2 : /\ Room(k)
                     /\ set_clause' = Marks(k)
                     /\ owed' = k /\ values' = values + k
  /\ sent' = Nothing
  /\ UNCHANGED <<setting, conditions, params, unscoped, ended>>

Unscoped ==
  /\ Ready /\ unscoped' = TRUE /\ sent' = Nothing
  /\ UNCHANGED <<setting, conditions, set_clause, params, owed, values, ended>>

(***************************************************************************)
(* Execution                                                               *)
(***************************************************************************)

Send(op, phs, ps) == sent' = [op |-> op, phs |-> phs, params |-> ps]

\* The filter of corm_find.
Scoped == setting.soft /\ ~unscoped

Select_OrFilter ==   \* mutant: the filter is one more alternative
  /\ Ready /\ NotUpdate
  /\ IF Scoped THEN AddTerm("OR", TRUE, <<>>) ELSE UNCHANGED conditions
  /\ Send("SELECT", Rewrite(where_phs, 0), params)
  /\ UNCHANGED <<setting, set_clause, params, unscoped, owed, values, ended>>

Select ==
  /\ Ready /\ NotUpdate
  /\ IF Scoped THEN AddTerm("AND", TRUE, <<>>) ELSE UNCHANGED conditions
  /\ Send("SELECT", Rewrite(where_phs, 0), params)
  /\ UNCHANGED <<setting, set_clause, params, unscoped, owed, values, ended>>

Find == Len(where) <= MaxTerms /\ Select

\* corm_first is a corm_find with LIMIT 1 whose row is copied, corm_query_count
\* one with select_cols replaced meanwhile.
First == Find
Count == Find

\* corm_create binds the record's fields after building the statement.
Create ==
  /\ Ready /\ NotUpdate /\ params = <<>>
  /\ params' = NewValues(Fields)
  /\ Send("INSERT", [j \in 1..Fields |-> [val |-> values + j, num |-> Numbered(j - 1)]],
          params')
  /\ values' = values + Fields /\ ended' = TRUE
  /\ UNCHANGED <<setting, conditions, set_clause, unscoped, owed>>

WhereOffset_Zero(set) == 0         \* mutant: WHERE is numbered from the start

\* The number of the first "?" of WHERE: one for each "?" of the SET clause.
WhereOffset(set) == MarksIn(set)

\* corm_update_internal; the case of an empty SET clause is not modelled.
SendUpdate(set, ps) ==
  Send("UPDATE", Rewrite(set, 0) \o Rewrite(where_phs, WhereOffset(set)), ps)

Update ==
  /\ Ready /\ set_clause /= <<>>
  /\ SendUpdate(set_clause, params)
  /\ ended' = TRUE
  /\ UNCHANGED <<setting, conditions, set_clause, params, unscoped, owed, values>>

DeleteRows ==
  /\ Ready /\ NotUpdate /\ ~setting.soft
  /\ Send("DELETE", Rewrite(where_phs, 0), params)
  /\ ended' = TRUE
  /\ UNCHANGED <<setting, conditions, set_clause, params, unscoped, owed, values>>

\* corm_delete_internal of a model with soft delete: an UPDATE.
MarkDeleted ==
  /\ Ready /\ NotUpdate /\ setting.soft /\ Room(1)
  /\ params = <<>> \/ Does("softbound")
  /\ SetColumn
  /\ SendUpdate(set_clause', params')
  /\ ended' = TRUE
  /\ UNCHANGED <<setting, conditions, unscoped, owed>>

\* before_update refuses the soft delete: the column stays set.
DeleteRefused ==
  /\ Ready /\ NotUpdate /\ setting.soft /\ Room(1)
  /\ params = <<>> \/ Does("softbound")
  /\ SetColumn
  /\ sent' = Nothing /\ ended' = TRUE
  /\ UNCHANGED <<setting, conditions, unscoped, owed>>

\* corm_query_reset: unscoped is kept.
Reset ==
  /\ where' = <<>> /\ where_phs' = <<>> /\ set_clause' = <<>> /\ params' = <<>>
  /\ UNCHANGED <<setting, unscoped>>
  /\ owed' = 0 /\ values' = 0 /\ ended' = FALSE /\ sent' = Nothing

\* corm_query_free and corm_query_new
Renew ==
  /\ where' = <<>> /\ where_phs' = <<>> /\ set_clause' = <<>> /\ params' = <<>>
  /\ unscoped' = FALSE /\ UNCHANGED setting
  /\ owed' = 0 /\ values' = 0 /\ ended' = FALSE /\ sent' = Nothing

Next ==
  \/ Where \/ OrWhere \/ WhereNull \/ Bind \/ WhereIn \/ WhereBetween
  \/ Set \/ SetRaw \/ Unscoped
  \/ Find \/ First \/ Count
  \/ Create \/ Update \/ DeleteRows \/ MarkDeleted \/ DeleteRefused
  \/ Reset \/ Renew

Spec == Init /\ [][Next]_vars

-----------------------------------------------------------------------------

\* The value the database uses for the i-th placeholder of the statement.
Used(i) == LET n == IF setting.dollar THEN sent.phs[i].num ELSE i
           IN  IF n \in DOMAIN sent.params THEN sent.params[n] ELSE 0

\* include/corm/query.h:86 on corm_query_bind: "Bind a parameter value for the
\* next ? placeholder."  Whatever the order of the builder calls, the database
\* uses for each placeholder the value the caller gave for it, and is given no
\* value that no placeholder uses.
ValuesMatch ==
  /\ Len(sent.phs) = IF sent.op = "none" THEN 0 ELSE Len(sent.params)
  /\ \A i \in DOMAIN sent.phs : Used(i) = sent.phs[i].val

\* AND binds closer than OR: conditions i and j of w are in the same alternative.
SameAlternative(w, i, j) ==
  \A k \in DOMAIN w : (i < k /\ k <= j) \/ (j < k /\ k <= i) => w[k].glue = "AND"

\* Whether a row satisfies the i-th condition of w: the filter, or the client's
\* n-th condition.
Holds(w, i, row) ==
  IF w[i].filter THEN ~row.deleted
  ELSE Cardinality({j \in 1..i : ~w[j].filter}) \in row.satisfies

\* The conditions of the alternatives of w through which a row is selected.
Through(w, row) ==
  {i \in DOMAIN w : \A j \in DOMAIN w : SameAlternative(w, i, j) => Holds(w, j, row)}

Sees(w, row) == w = <<>> \/ Through(w, row) /= {}

\* What the client has asked for itself.
Asked == SelectSeq(where, LAMBDA t : ~t.filter)

\* The client did not begin its alternatives on a clause that held filters only,
\* left by an earlier SELECT without conditions.
AlternativesComplete ==
  \A i \in DOMAIN where : where[i].glue = "OR" => \E j \in 1..(i - 1) : ~where[j].filter

\* docs/ARCHITECTURE.md:238 on soft delete: the filter is appended to the
\* conditions.  However a query is built with alternatives, run, extended,
\* unscoped, reset and run again, its filters only hide deleted rows: a SELECT
\* sees no row that the client's own conditions exclude and every live row that
\* they select, and when it is scoped a deleted row only through alternatives
\* before the last.
FilterOnlyHides ==
  sent.op = "SELECT" /\ AlternativesComplete =>
    \A row \in [deleted : BOOLEAN, satisfies : SUBSET DOMAIN Asked] :
      /\ Sees(where, row) => Sees(Asked, row)
      /\ ~row.deleted /\ Sees(Asked, row) => Sees(where, row)
      /\ row.deleted /\ Scoped => where /= <<>> /\ Len(where) \notin Through(where, row)

=============================================================================
