------------------------- MODULE QueryBuilderProofs -------------------------
(***************************************************************************)
(* Proofs about QueryBuilder, for every set of databases, models and       *)
(* clients and every number of fields, conditions and parameters: clients  *)
(* that keep to the order of the statement get the values they mean.       *)
(***************************************************************************)
EXTENDS QueryBuilder, FiniteSetTheorems, SequenceTheorems, TLAPS

(***************************************************************************)
(* Values                                                                  *)
(***************************************************************************)

Placeholders == [val : Nat, num : Nat]

\* What keeping to the order of the statement means: no column is set after a
\* parameter was bound, a soft delete has no bound conditions, and with "$n" the
\* client writes all placeholders itself.
OrderlyClients ==
  \A st \in Settings : /\ "lateset" \notin st.habits /\ "softbound" \notin st.habits
                       /\ st.dollar => "helpers" \notin st.habits

\* Placeholders of text that are still "?" and mean the values after the first n.
Plain(phs, n) == \A i \in 1..Len(phs) : phs[i] = [val |-> n + i, num |-> 0]

\* Until the statement is run, the placeholders of SET and then of WHERE mean the
\* values in the order given, and those that are bound were bound in that order.
InOrder ==
  /\ set_clause \in Seq(Placeholders) /\ Plain(set_clause, 0)
  /\ where_phs \in Seq(Placeholders) /\ Plain(where_phs, Len(set_clause))
  /\ params \in Seq(Nat) /\ owed \in Nat
  /\ values = Len(set_clause) + Len(where_phs)
  /\ values = Len(params) + owed
  /\ \A i \in 1..Len(params) : params[i] = i

ValuesInv ==
  /\ setting \in Settings
  /\ ended \in BOOLEAN
  /\ ~ended => InOrder
  /\ ValuesMatch

\* k placeholders "?" for the values after the first n.
Batch(n, k) == [i \in 1..k |-> [val |-> n + i, num |-> 0]]

\* Text of "?" only has as many marks as placeholders.
LEMMA AllMarks ==
  ASSUME NEW phs, NEW n \in Nat, \A i \in 1..n : IsMark(phs[i])
  PROVE  MarksUpTo(phs, n) = n
<1>1. {i \in 1..n : IsMark(phs[i])} = 1..n
  OBVIOUS
<1>2. Cardinality(1..n) = n
  BY FS_Interval
<1> QED BY <1>1, <1>2 DEF MarksUpTo

\* The text that append_with_placeholders makes of plain text.
LEMMA PlainRewritten ==
  ASSUME NEW phs \in Seq(Placeholders), NEW n \in Nat, Plain(phs, n), NEW start \in Nat,
         setting.dollar \in BOOLEAN
  PROVE  /\ Rewrite(phs, start) \in Seq(Placeholders)
         /\ Len(Rewrite(phs, start)) = Len(phs)
         /\ \A i \in 1..Len(phs) :
              Rewrite(phs, start)[i] = [val |-> n + i, num |-> Numbered(start + i - 1)]
         /\ MarksIn(phs) = Len(phs)
<1>1. DOMAIN phs = 1..Len(phs) /\ Len(phs) \in Nat
  BY LenProperties
<1>2. \A i \in 1..Len(phs) : IsMark(phs[i])
  <2> SUFFICES ASSUME NEW i \in 1..Len(phs) PROVE phs[i].num = 0
    BY DEF IsMark
  <2>1. phs[i] = [val |-> n + i, num |-> 0]
    BY DEF Plain
  <2> QED BY <2>1
<1>3. \A i \in 1..Len(phs) : MarksUpTo(phs, i) = i
  <2> SUFFICES ASSUME NEW i \in 1..Len(phs) PROVE MarksUpTo(phs, i) = i
    OBVIOUS
  <2>1. i \in Nat /\ \A j \in 1..i : IsMark(phs[j])
    BY <1>1, <1>2
  <2> QED BY <2>1, AllMarks
<1>4. Rewrite(phs, start)
        = [i \in 1..Len(phs) |-> IF IsMark(phs[i])
             THEN [phs[i] EXCEPT !.num = Numbered(start + MarksUpTo(phs, i) - 1)]
             ELSE phs[i]]
  BY <1>1 DEF Rewrite
<1>5. ASSUME NEW i \in 1..Len(phs)
      PROVE  /\ Rewrite(phs, start)[i] = [val |-> n + i, num |-> Numbered(start + i - 1)]
             /\ Rewrite(phs, start)[i] \in Placeholders
  <2>1. Rewrite(phs, start)[i] = [phs[i] EXCEPT !.num = Numbered(start + i - 1)]
    BY <1>2, <1>3, <1>4
  <2>2. phs[i] = [val |-> n + i, num |-> 0]
    BY DEF Plain
  <2>3. Rewrite(phs, start)[i] = [val |-> n + i, num |-> Numbered(start + i - 1)]
    BY <2>1, <2>2
  <2>4. n + i \in Nat /\ Numbered(start + i - 1) \in Nat
    BY <1>1 DEF Numbered
  <2> QED BY <2>3, <2>4 DEF Placeholders
<1>6. Rewrite(phs, start) \in [1..Len(phs) -> Placeholders]
  <2>1. Rewrite(phs, start) = [i \in 1..Len(phs) |-> Rewrite(phs, start)[i]]
    BY <1>4
  <2> QED BY <2>1, <1>5
<1>7. Rewrite(phs, start) \in Seq(Placeholders) /\ Len(Rewrite(phs, start)) = Len(phs)
  BY <1>1, <1>6, LenProperties
<1>8. MarksIn(phs) = Len(phs)
  BY <1>1, <1>2, AllMarks DEF MarksIn
<1> QED BY <1>5, <1>7, <1>8

\* A statement that numbers its placeholders in order and sends the values in that
\* order.
LEMMA OrderedMatches ==
  ASSUME NEW op, op /= "none", NEW phs \in Seq(Placeholders), NEW ps \in Seq(Nat),
         Send(op, phs, ps), setting' = setting, Len(phs) = Len(ps),
         \A i \in 1..Len(phs) : phs[i] = [val |-> i, num |-> Numbered(i - 1)],
         \A i \in 1..Len(ps) : ps[i] = i
  PROVE  ValuesMatch'
<1>1. sent'.op = op /\ sent'.phs = phs /\ sent'.params = ps
  BY DEF Send
<1>2. DOMAIN phs = 1..Len(phs) /\ DOMAIN ps = 1..Len(phs) /\ Len(phs) \in Nat
  BY LenProperties
<1>3. ASSUME NEW i \in 1..Len(phs) PROVE Used(i)' = phs[i].val
  <2>1. phs[i].val = i /\ phs[i].num = (IF setting.dollar THEN i - 1 + 1 ELSE 0)
    <3>1. phs[i] = [val |-> i, num |-> Numbered(i - 1)]
      OBVIOUS
    <3> QED BY <3>1 DEF Numbered
  <2>2. i - 1 + 1 = i
    BY <1>2
  <2>3. (IF setting'.dollar THEN phs[i].num ELSE i) = i
    BY <2>1, <2>2
  <2>4. ps[i] = i /\ i \in DOMAIN ps
    BY <1>2
  <2>5. Used(i)' = LET n == IF setting'.dollar THEN phs[i].num ELSE i
                   IN  IF n \in DOMAIN ps THEN ps[n] ELSE 0
    BY <1>1 DEF Used
  <2> QED BY <2>1, <2>3, <2>4, <2>5
<1> QED BY <1>1, <1>2, <1>3 DEF ValuesMatch

\* Steps that build or forget.
LEMMA NothingMatches ==
  ASSUME sent' = Nothing PROVE ValuesMatch'
<1>1. sent'.phs = <<>> /\ sent'.op = "none" /\ Len(<<>>) = 0 /\ DOMAIN <<>> = 1..0
  BY DEF Nothing
<1> QED BY <1>1 DEF ValuesMatch

\* Plain text grows at its end.
LEMMA PlainAdded ==
  ASSUME NEW phs \in Seq(Placeholders), NEW n \in Nat, Plain(phs, n), NEW k \in Nat,
         NEW m, m = n + Len(phs)
  PROVE  /\ phs \o Batch(m, k) \in Seq(Placeholders)
         /\ Len(phs \o Batch(m, k)) = Len(phs) + k
         /\ Plain(phs \o Batch(m, k), n)
<1>1. PICK more : more = Batch(m, k)
  OBVIOUS
<1>2. Len(phs) \in Nat /\ m \in Nat
  BY LenProperties
<1>3. more \in [1..k -> Placeholders]
  BY <1>1, <1>2 DEF Batch, Placeholders
<1>4. more \in Seq(Placeholders) /\ Len(more) = k
  BY <1>3, LenProperties
<1>5. /\ phs \o more \in Seq(Placeholders) /\ Len(phs \o more) = Len(phs) + k
      /\ \A i \in 1..(Len(phs) + k) :
           (phs \o more)[i] = IF i <= Len(phs) THEN phs[i] ELSE more[i - Len(phs)]
  BY <1>4, ConcatProperties
<1>6. ASSUME NEW i \in 1..(Len(phs) + k)
      PROVE  (phs \o more)[i] = [val |-> n + i, num |-> 0]
  <2>1. CASE i <= Len(phs)
    BY <2>1, <1>2, <1>5 DEF Plain
  <2>2. CASE ~(i <= Len(phs))
    <3>1. i - Len(phs) \in 1..k /\ m + (i - Len(phs)) = n + i
      BY <2>2, <1>2
    <3>2. more[i - Len(phs)] = [val |-> m + (i - Len(phs)), num |-> 0]
      BY <3>1, <1>1 DEF Batch
    <3> QED BY <2>2, <3>1, <3>2, <1>5
  <2> QED BY <2>1, <2>2
<1> QED BY <1>1, <1>5, <1>6 DEF Plain

\* The values bound grow at their end.
LEMMA ParamsAdded ==
  ASSUME NEW ps \in Seq(Nat), \A i \in 1..Len(ps) : ps[i] = i, NEW k \in Nat,
         NEW n, n = Len(ps), n = values
  PROVE  /\ ps \o NewValues(k) \in Seq(Nat) /\ Len(ps \o NewValues(k)) = n + k
         /\ \A i \in 1..(n + k) : (ps \o NewValues(k))[i] = i
<1>0. PICK more : more = NewValues(k)
  OBVIOUS
<1>1. more = [i \in 1..k |-> n + i]
  BY <1>0 DEF NewValues
<1>2. n \in Nat
  BY LenProperties
<1>3. more \in [1..k -> Nat]
  BY <1>1, <1>2
<1>4. more \in Seq(Nat) /\ Len(more) = k
  BY <1>3, LenProperties
<1>5. /\ ps \o more \in Seq(Nat) /\ Len(ps \o more) = n + k
      /\ \A i \in 1..(n + k) :
           (ps \o more)[i] = IF i <= n THEN ps[i] ELSE more[i - n]
  <2>1. PICK qs \in Seq(Nat) : qs = more
    BY <1>4
  <2>2. /\ ps \o qs \in Seq(Nat) /\ Len(ps \o qs) = Len(ps) + Len(qs)
        /\ \A i \in 1..(Len(ps) + Len(qs)) :
             (ps \o qs)[i] = IF i <= Len(ps) THEN ps[i] ELSE qs[i - Len(ps)]
    BY ConcatProperties
  <2>3. PICK l : l = Len(ps) /\ l = n
    OBVIOUS
  <2> QED BY <2>1, <2>2, <2>3, <1>4
<1>6. ASSUME NEW i \in 1..(n + k) PROVE (ps \o more)[i] = i
  <2>1. CASE i <= n
    BY <2>1, <1>2, <1>5
  <2>2. CASE ~(i <= n)
    <3>1. i - n \in 1..k /\ n + (i - n) = i
      BY <2>2, <1>2
    <3> QED BY <2>2, <3>1, <1>1, <1>5
  <2> QED BY <2>1, <2>2
<1> QED BY <1>0, <1>5, <1>6

\* New text of "?" only.
LEMMA BatchPlain ==
  ASSUME NEW n \in Nat, NEW k \in Nat
  PROVE  Batch(n, k) \in Seq(Placeholders) /\ Len(Batch(n, k)) = k /\ Plain(Batch(n, k), n)
<1>1. Batch(n, k) \in [1..k -> Placeholders]
  BY DEF Batch, Placeholders
<1>2. Batch(n, k) \in Seq(Placeholders) /\ Len(Batch(n, k)) = k
  BY <1>1, LenProperties
<1>3. \A i \in 1..k : Batch(n, k)[i] = [val |-> n + i, num |-> 0]
  BY DEF Batch
<1> QED BY <1>2, <1>3 DEF Plain

\* What the guards of the builder functions say about the query.
LEMMA WhenReady ==
  ASSUME ValuesInv, Ready
  PROVE  /\ InOrder /\ owed = 0 /\ ended = FALSE
         /\ Len(set_clause) \in Nat /\ Len(where_phs) \in Nat /\ values \in Nat
         /\ Len(params) = values
         /\ setting.dollar \in BOOLEAN
         /\ params = <<>> => values = 0 /\ set_clause = <<>> /\ where_phs = <<>>
<1>1. InOrder /\ owed = 0 /\ ended = FALSE
  BY DEF ValuesInv, Ready
<1>2. /\ set_clause \in Seq(Placeholders) /\ where_phs \in Seq(Placeholders)
      /\ params \in Seq(Nat) /\ values = Len(set_clause) + Len(where_phs)
      /\ values = Len(params) + owed
  BY <1>1 DEF InOrder
<1>3. Len(set_clause) \in Nat /\ Len(where_phs) \in Nat /\ Len(params) \in Nat
  BY <1>2, LenProperties
<1>4. values \in Nat /\ Len(params) = values
  BY <1>1, <1>2, <1>3
<1>5. setting.dollar \in BOOLEAN
  BY BuilderConstants DEF ValuesInv
<1>6. ASSUME params = <<>> PROVE values = 0 /\ set_clause = <<>> /\ where_phs = <<>>
  <2>1. Len(params) = 0
    BY <1>6
  <2>2. values = 0 /\ Len(set_clause) = 0 /\ Len(where_phs) = 0
    BY <2>1, <1>2, <1>3, <1>4
  <2> QED BY <2>2, <1>2, EmptySeq
<1> QED BY <1>1, <1>3, <1>4, <1>5, <1>6

\* Text of the client at the end of WHERE.
LEMMA WhereTextInv ==
  ASSUME ValuesInv, NEW glue, NEW k \in Nat, WhereText(glue, k)
  PROVE  ValuesInv'
<1>1. /\ where_phs' = where_phs \o Marks(k) /\ owed' = k /\ values' = values + k
      /\ UNCHANGED <<setting, set_clause, params, ended>> /\ sent' = Nothing /\ Ready
  BY DEF WhereText, AddTerm
<1>2. Marks(k) = Batch(values, k)
  BY DEF Marks, Batch
<1>3. /\ InOrder /\ owed = 0 /\ Len(set_clause) \in Nat /\ Len(where_phs) \in Nat
      /\ values \in Nat /\ Len(params) = values
  BY <1>1, WhenReady
<1>4. /\ where_phs \in Seq(Placeholders) /\ Plain(where_phs, Len(set_clause))
      /\ values = Len(set_clause) + Len(where_phs)
  BY <1>3 DEF InOrder
<1>5. /\ where_phs' \in Seq(Placeholders) /\ Len(where_phs') = Len(where_phs) + k
      /\ Plain(where_phs', Len(set_clause))
  <2>1. /\ where_phs \o Batch(values, k) \in Seq(Placeholders)
        /\ Len(where_phs \o Batch(values, k)) = Len(where_phs) + k
        /\ Plain(where_phs \o Batch(values, k), Len(set_clause))
    BY <1>3, <1>4, PlainAdded
  <2> QED BY <1>1, <1>2, <2>1
<1>6. values' = Len(set_clause) + Len(where_phs') /\ values' = Len(params) + owed'
  BY <1>1, <1>3, <1>4, <1>5
<1>7. InOrder'
  BY <1>1, <1>3, <1>5, <1>6 DEF InOrder
<1> QED BY <1>1, <1>7, NothingMatches DEF ValuesInv

\* corm_query_bind.
LEMMA BindInv ==
  ASSUME ValuesInv, Bind
  PROVE  ValuesInv'
<1>1. /\ owed > 0 /\ ~ended /\ owed' = owed - 1 /\ sent' = Nothing
      /\ params' = Append(params, values - owed + 1)
      /\ UNCHANGED <<setting, where_phs, set_clause, values, ended>>
  BY DEF Bind, conditions
<1>2. /\ InOrder /\ params \in Seq(Nat) /\ owed \in Nat /\ values = Len(params) + owed
      /\ \A i \in 1..Len(params) : params[i] = i
  BY <1>1 DEF ValuesInv, InOrder
<1>3. Len(params) \in Nat
  BY <1>2, LenProperties
<1>4. values - owed + 1 = Len(params) + 1
  BY <1>2, <1>3
<1>5. PICK v \in Nat : v = Len(params) + 1
  BY <1>3
<1>6. /\ params' \in Seq(Nat) /\ Len(params') = v /\ params'[v] = v
      /\ \A i \in 1..Len(params) : params'[i] = params[i]
  BY <1>1, <1>2, <1>3, <1>4, <1>5, AppendProperties
<1>7. \A i \in 1..Len(params') : params'[i] = i
  <2> SUFFICES ASSUME NEW i \in 1..v PROVE params'[i] = i
    BY <1>6
  <2>1. CASE i = v
    BY <2>1, <1>6
  <2>2. CASE i \in 1..Len(params)
    BY <2>2, <1>2, <1>6
  <2> QED BY <2>1, <2>2, <1>3, <1>5
<1>8. owed' \in Nat /\ values = Len(params') + owed'
  BY <1>1, <1>2, <1>3, <1>5, <1>6
<1>9. InOrder'
  BY <1>1, <1>2, <1>6, <1>7, <1>8 DEF InOrder
<1> QED BY <1>1, <1>9, NothingMatches DEF ValuesInv

\* k values that the builder binds itself.
LEMMA ValuesBound ==
  ASSUME ValuesInv, Ready, NEW k \in Nat, params' = params \o NewValues(k)
  PROVE  /\ params' \in Seq(Nat) /\ Len(params') = values + k
         /\ \A i \in 1..Len(params') : params'[i] = i
<1>1. /\ InOrder /\ Len(params) = values
  BY WhenReady
<1>2. params \in Seq(Nat) /\ \A i \in 1..Len(params) : params[i] = i
  BY <1>1 DEF InOrder
<1>3. PICK ps \in Seq(Nat), n \in Nat : ps = params /\ n = Len(ps)
  BY <1>2, LenProperties
<1>4. n = values /\ \A i \in 1..Len(ps) : ps[i] = i
  BY <1>1, <1>2, <1>3
<1>5. /\ ps \o NewValues(k) \in Seq(Nat) /\ Len(ps \o NewValues(k)) = n + k
      /\ \A i \in 1..(n + k) : (ps \o NewValues(k))[i] = i
  BY <1>3, <1>4, ParamsAdded
<1> QED BY <1>3, <1>4, <1>5

\* corm_query_where_in and corm_query_where_between, with "?".
LEMMA WhereBoundInv ==
  ASSUME OrderlyClients, ValuesInv, NEW k \in Nat, WhereBound(k)
  PROVE  ValuesInv'
<1>1. /\ where_phs' = where_phs \o Bound(k) /\ params' = params \o NewValues(k)
      /\ values' = values + k /\ Does("helpers")
      /\ UNCHANGED <<setting, set_clause, owed, ended>> /\ sent' = Nothing /\ Ready
  BY DEF WhereBound, AddTerm
<1>2. ~setting.dollar
  BY <1>1 DEF OrderlyClients, ValuesInv, Does
<1>3. Bound(k) = Batch(values, k)
  BY <1>2 DEF Bound, Batch, Numbered
<1>4. /\ InOrder /\ owed = 0 /\ Len(set_clause) \in Nat /\ Len(where_phs) \in Nat
      /\ values \in Nat
  BY <1>1, WhenReady
<1>5. /\ where_phs \in Seq(Placeholders) /\ Plain(where_phs, Len(set_clause))
      /\ values = Len(set_clause) + Len(where_phs)
  BY <1>4 DEF InOrder
<1>6. /\ where_phs' \in Seq(Placeholders) /\ Len(where_phs') = Len(where_phs) + k
      /\ Plain(where_phs', Len(set_clause))
  <2>1. /\ where_phs \o Batch(values, k) \in Seq(Placeholders)
        /\ Len(where_phs \o Batch(values, k)) = Len(where_phs) + k
        /\ Plain(where_phs \o Batch(values, k), Len(set_clause))
    <3>1. PICK n \in Nat : n = Len(set_clause)
      BY <1>4
    <3>2. values = n + Len(where_phs) /\ Plain(where_phs, n)
      BY <1>5, <3>1
    <3>3. /\ where_phs \o Batch(values, k) \in Seq(Placeholders)
          /\ Len(where_phs \o Batch(values, k)) = Len(where_phs) + k
          /\ Plain(where_phs \o Batch(values, k), n)
      BY <3>2, <1>5, PlainAdded
    <3> QED BY <3>1, <3>3
  <2> QED BY <1>1, <1>3, <2>1
<1>7. /\ params' \in Seq(Nat) /\ Len(params') = values + k
      /\ \A i \in 1..Len(params') : params'[i] = i
  BY <1>1, ValuesBound
<1>8. values' = Len(set_clause) + Len(where_phs') /\ values' = Len(params') + owed'
  BY <1>1, <1>4, <1>5, <1>6, <1>7
<1>9. InOrder'
  BY <1>1, <1>4, <1>6, <1>7, <1>8 DEF InOrder
<1> QED BY <1>1, <1>9, NothingMatches DEF ValuesInv

\* corm_query_set, with "?" and before any condition with placeholders.
LEMMA SetInv ==
  ASSUME OrderlyClients, ValuesInv, Set
  PROVE  ValuesInv'
<1>1. /\ set_clause' = set_clause \o Bound(1) /\ params' = params \o NewValues(1)
      /\ values' = values + 1 /\ Does("helpers")
      /\ UNCHANGED <<setting, where_phs, owed, ended>> /\ sent' = Nothing /\ Ready
  BY DEF Set, SetColumn, conditions
<1>2. ~setting.dollar /\ where_phs = <<>>
  BY <1>1 DEF OrderlyClients, ValuesInv, Does, Set
<1>3. Bound(1) = Batch(values, 1)
  BY <1>2 DEF Bound, Batch, Numbered
<1>4. /\ InOrder /\ owed = 0 /\ Len(set_clause) \in Nat /\ values \in Nat
  BY <1>1, WhenReady
<1>5. /\ set_clause \in Seq(Placeholders) /\ Plain(set_clause, 0)
      /\ values = Len(set_clause) + Len(where_phs)
  BY <1>4 DEF InOrder
<1>6. Len(where_phs) = 0 /\ where_phs \in Seq(Placeholders)
  BY <1>2, EmptySeq
<1>7. values = 0 + Len(set_clause)
  BY <1>4, <1>5, <1>6
<1>8. /\ set_clause' \in Seq(Placeholders) /\ Len(set_clause') = Len(set_clause) + 1
      /\ Plain(set_clause', 0)
  <2>1. /\ set_clause \o Batch(values, 1) \in Seq(Placeholders)
        /\ Len(set_clause \o Batch(values, 1)) = Len(set_clause) + 1
        /\ Plain(set_clause \o Batch(values, 1), 0)
    BY <1>4, <1>5, <1>7, PlainAdded
  <2> QED BY <1>1, <1>3, <2>1
<1>9. /\ params' \in Seq(Nat) /\ Len(params') = values + 1
      /\ \A i \in 1..Len(params') : params'[i] = i
  BY <1>1, ValuesBound
<1>10. values' = Len(set_clause') + Len(where_phs') /\ values' = Len(params') + owed'
  BY <1>1, <1>4, <1>6, <1>7, <1>8, <1>9
<1>11. Plain(where_phs', Len(set_clause'))
  <2>1. \A i \in 1..Len(where_phs') : FALSE
    BY <1>1, <1>6
  <2> QED BY <2>1 DEF Plain
<1>12. InOrder'
  BY <1>1, <1>4, <1>6, <1>8, <1>9, <1>10, <1>11 DEF InOrder
<1> QED BY <1>1, <1>12, NothingMatches DEF ValuesInv

\* corm_query_set_raw, before any parameter.
LEMMA SetRawInv ==
  ASSUME OrderlyClients, ValuesInv, SetRaw
  PROVE  ValuesInv'
<1>1. PICK k \in 1..2 : set_clause' = Marks(k) /\ owed' = k /\ values' = values + k
  BY DEF SetRaw
<1>2. /\ UNCHANGED <<setting, where_phs, params, ended>> /\ sent' = Nothing /\ Ready
  BY DEF SetRaw, conditions
<1>3. params = <<>>
  BY DEF OrderlyClients, ValuesInv, Does, SetRaw
<1>4. InOrder /\ values = 0 /\ where_phs = <<>>
  BY <1>2, <1>3, WhenReady
<1>5. Marks(k) = Batch(0, k)
  BY <1>4 DEF Marks, Batch
<1>6. set_clause' \in Seq(Placeholders) /\ Len(set_clause') = k /\ Plain(set_clause', 0)
  BY <1>1, <1>5, BatchPlain
<1>7. /\ Len(where_phs') = 0 /\ where_phs' \in Seq(Placeholders)
      /\ Len(params') = 0 /\ params' \in Seq(Nat)
  BY <1>2, <1>3, <1>4, EmptySeq
<1>8. values' = Len(set_clause') + Len(where_phs') /\ values' = Len(params') + owed'
  BY <1>1, <1>4, <1>6, <1>7
<1>9. Plain(where_phs', Len(set_clause')) /\ \A i \in 1..Len(params') : params'[i] = i
  <2>1. \A i \in 1..0 : FALSE
    OBVIOUS
  <2> QED BY <2>1, <1>7 DEF Plain
<1>10. owed' \in Nat
  BY <1>1
<1>11. InOrder'
  BY <1>6, <1>7, <1>8, <1>9, <1>10 DEF InOrder
<1> QED BY <1>2, <1>11, NothingMatches DEF ValuesInv

\* Forgetting the query.
LEMMA ForgetInv ==
  ASSUME ValuesInv, Reset \/ Renew
  PROVE  ValuesInv'
<1>1. /\ where_phs' = <<>> /\ set_clause' = <<>> /\ params' = <<>> /\ owed' = 0
      /\ values' = 0 /\ ended' = FALSE /\ sent' = Nothing /\ setting' = setting
  BY DEF Reset, Renew
<1>2. /\ <<>> \in Seq(Placeholders) /\ <<>> \in Seq(Nat) /\ Len(<<>>) = 0
      /\ \A i \in 1..0 : FALSE
  BY EmptySeq
<1>3. InOrder'
  BY <1>1, <1>2 DEF InOrder, Plain
<1> QED BY <1>1, <1>3, NothingMatches DEF ValuesInv

\* SELECT and DELETE: the text of WHERE alone.
LEMMA WhereSent ==
  ASSUME ValuesInv, Ready, NotUpdate, NEW op, op /= "none", setting' = setting,
         Send(op, Rewrite(where_phs, 0), params)
  PROVE  ValuesMatch'
<1>1. /\ InOrder /\ owed = 0 /\ Len(where_phs) \in Nat /\ Len(params) = values
      /\ setting.dollar \in BOOLEAN
  BY WhenReady
<1>2. Len(set_clause) = 0
  BY EmptySeq DEF NotUpdate
<1>3. /\ where_phs \in Seq(Placeholders) /\ Plain(where_phs, 0)
      /\ params \in Seq(Nat) /\ \A i \in 1..Len(params) : params[i] = i
      /\ values = 0 + Len(where_phs)
  BY <1>1, <1>2 DEF InOrder
<1>4. Len(params) = Len(where_phs)
  BY <1>1, <1>3
<1>5. PICK phs : phs = Rewrite(where_phs, 0)
  OBVIOUS
<1>6. /\ phs \in Seq(Placeholders) /\ Len(phs) = Len(where_phs)
      /\ \A i \in 1..Len(where_phs) : phs[i] = [val |-> 0 + i, num |-> Numbered(0 + i - 1)]
  BY <1>1, <1>3, <1>5, PlainRewritten
<1>7. \A i \in 1..Len(phs) : phs[i] = [val |-> i, num |-> Numbered(i - 1)]
  BY <1>6
<1>8. Send(op, phs, params) /\ Len(phs) = Len(params)
  BY <1>4, <1>5, <1>6
<1> QED BY <1>3, <1>6, <1>7, <1>8, OrderedMatches

\* UPDATE: the text of SET, then that of WHERE, numbered on.
LEMMA UpdateSent ==
  ASSUME ValuesInv, Ready, setting' = setting, SendUpdate(set_clause, params)
  PROVE  ValuesMatch'
<1>1. /\ InOrder /\ owed = 0 /\ Len(params) = values /\ setting.dollar \in BOOLEAN
  BY WhenReady
<1>2. PICK k \in Nat, n \in Nat : k = Len(set_clause) /\ n = Len(where_phs)
  BY WhenReady
<1>3. /\ set_clause \in Seq(Placeholders) /\ Plain(set_clause, 0)
      /\ where_phs \in Seq(Placeholders) /\ Plain(where_phs, k)
      /\ params \in Seq(Nat) /\ \A i \in 1..Len(params) : params[i] = i
      /\ values = k + n
  BY <1>1, <1>2 DEF InOrder
<1>4. PICK a, b : a = Rewrite(set_clause, 0) /\ b = Rewrite(where_phs, k)
  OBVIOUS
<1>5. /\ a \in Seq(Placeholders) /\ Len(a) = k /\ MarksIn(set_clause) = k
      /\ \A i \in 1..k : a[i] = [val |-> 0 + i, num |-> Numbered(0 + i - 1)]
  <2>1. /\ Rewrite(set_clause, 0) \in Seq(Placeholders)
        /\ Len(Rewrite(set_clause, 0)) = Len(set_clause)
        /\ \A i \in 1..Len(set_clause) :
             Rewrite(set_clause, 0)[i] = [val |-> 0 + i, num |-> Numbered(0 + i - 1)]
        /\ MarksIn(set_clause) = Len(set_clause)
    BY <1>1, <1>3, PlainRewritten
  <2> QED BY <2>1, <1>2, <1>4
<1>6. /\ b \in Seq(Placeholders) /\ Len(b) = n
      /\ \A i \in 1..n : b[i] = [val |-> k + i, num |-> Numbered(k + i - 1)]
  <2>1. /\ Rewrite(where_phs, k) \in Seq(Placeholders)
        /\ Len(Rewrite(where_phs, k)) = Len(where_phs)
        /\ \A i \in 1..Len(where_phs) :
             Rewrite(where_phs, k)[i] = [val |-> k + i, num |-> Numbered(k + i - 1)]
    BY <1>1, <1>3, PlainRewritten
  <2> QED BY <2>1, <1>2, <1>4
<1>7. PICK phs \in Seq(Placeholders) : phs = a \o b
  BY <1>5, <1>6, ConcatProperties
<1>8. /\ Len(phs) = k + n
      /\ \A i \in 1..(k + n) : phs[i] = IF i <= k THEN a[i] ELSE b[i - k]
  <2>1. PICK x \in Seq(Placeholders), y \in Seq(Placeholders) : x = a /\ y = b
    BY <1>5, <1>6
  <2>2. /\ Len(x \o y) = Len(x) + Len(y)
        /\ \A i \in 1..(Len(x) + Len(y)) :
             (x \o y)[i] = IF i <= Len(x) THEN x[i] ELSE y[i - Len(x)]
    BY ConcatProperties
  <2>3. Len(x) = k /\ Len(y) = n
    BY <2>1, <1>5, <1>6
  <2>4. /\ Len(x \o y) = k + n
        /\ \A i \in 1..(k + n) : (x \o y)[i] = IF i <= k THEN x[i] ELSE y[i - k]
    BY <2>2, <2>3
  <2> QED BY <2>1, <2>4, <1>7
<1>9. ASSUME NEW i \in 1..(k + n) PROVE phs[i] = [val |-> i, num |-> Numbered(i - 1)]
  <2>1. CASE i <= k
    <3>1. i \in 1..k /\ 0 + i = i
      BY <2>1
    <3> QED BY <2>1, <3>1, <1>5, <1>8
  <2>2. CASE ~(i <= k)
    <3>1. i - k \in 1..n /\ k + (i - k) = i
      BY <2>2
    <3>2. b[i - k] = [val |-> k + (i - k), num |-> Numbered(k + (i - k) - 1)]
      BY <3>1, <1>6
    <3> QED BY <2>2, <3>1, <3>2, <1>8
  <2> QED BY <2>1, <2>2
<1>10. Send("UPDATE", phs, params)
  BY <1>4, <1>5, <1>7 DEF SendUpdate, WhereOffset
<1>11. Len(phs) = Len(params) /\ "UPDATE" /= "none"
  BY <1>1, <1>3, <1>8
<1>12. \A i \in 1..Len(phs) : phs[i] = [val |-> i, num |-> Numbered(i - 1)]
  BY <1>8, <1>9
<1> QED BY <1>3, <1>10, <1>11, <1>12, OrderedMatches

\* INSERT: the fields of the record.
LEMMA CreateSent ==
  ASSUME ValuesInv, Create
  PROVE  ValuesMatch'
<1>1. Ready /\ params = <<>> /\ setting' = setting
  BY DEF Create
<1>2. values = 0 /\ setting.dollar \in BOOLEAN
  BY <1>1, WhenReady
<1>3. PICK phs : phs = [j \in 1..Fields |-> [val |-> values + j, num |-> Numbered(j - 1)]]
  OBVIOUS
<1>4. PICK ps : ps = NewValues(Fields)
  OBVIOUS
<1>5. Fields \in Nat
  BY BuilderConstants
<1>6. ps \in [1..Fields -> Nat] /\ \A i \in 1..Fields : ps[i] = i
  BY <1>2, <1>4, <1>5 DEF NewValues
<1>7. \A j \in 1..Fields : values + j = j /\ Numbered(j - 1) \in Nat
  BY <1>2, <1>5 DEF Numbered
<1>8. /\ phs \in [1..Fields -> Placeholders]
      /\ \A i \in 1..Fields : phs[i] = [val |-> i, num |-> Numbered(i - 1)]
  <2>1. phs = [j \in 1..Fields |-> phs[j]]
    BY <1>3
  <2>2. ASSUME NEW j \in 1..Fields
        PROVE  phs[j] = [val |-> j, num |-> Numbered(j - 1)] /\ phs[j] \in Placeholders
    <3>1. phs[j] = [val |-> values + j, num |-> Numbered(j - 1)]
      BY <1>3
    <3>2. values + j = j /\ j \in Nat /\ Numbered(j - 1) \in Nat
      BY <1>5, <1>7
    <3> QED BY <3>1, <3>2 DEF Placeholders
  <2> QED BY <2>1, <2>2
<1>9. /\ phs \in Seq(Placeholders) /\ Len(phs) = Fields
      /\ ps \in Seq(Nat) /\ Len(ps) = Fields
  BY <1>5, <1>6, <1>8, LenProperties
<1>10. Send("INSERT", phs, ps) /\ "INSERT" /= "none"
  BY <1>3, <1>4 DEF Create
<1>11. /\ Len(phs) = Len(ps) /\ \A i \in 1..Len(ps) : ps[i] = i
       /\ \A i \in 1..Len(phs) : phs[i] = [val |-> i, num |-> Numbered(i - 1)]
  BY <1>6, <1>8, <1>9
<1> QED BY <1>1, <1>9, <1>10, <1>11, OrderedMatches

\* A soft delete without bound conditions: the deletion mark is the only value.
LEMMA MarkSent ==
  ASSUME OrderlyClients, ValuesInv, MarkDeleted
  PROVE  ValuesMatch'
<1>1. Ready /\ params = <<>> /\ setting' = setting
  BY DEF MarkDeleted, OrderlyClients, ValuesInv, Does
<1>2. values = 0 /\ set_clause = <<>> /\ where_phs = <<>> /\ setting.dollar \in BOOLEAN
  BY <1>1, WhenReady
<1>3. PICK num \in Nat : num = Numbered(0) /\ (num = 0 => ~setting.dollar)
  BY <1>2 DEF Numbered
<1>4. PICK ph \in Placeholders : ph = [val |-> 1, num |-> num]
  BY DEF Placeholders
<1>5. PICK one \in Seq(Placeholders) : one = <<ph>>
  <2>1. <<ph>> \in Seq(Placeholders)
    OBVIOUS
  <2> QED BY <2>1
<1>6. set_clause' = one /\ params' = <<1>>
  <2>1. Len(params) = 0
    BY <1>1
  <2>2. Bound(1) = [i \in 1..1 |-> [val |-> values + i, num |-> Numbered(Len(params) + i - 1)]]
    BY DEF Bound
  <2>3. \A i \in 1..1 : i = 1
    OBVIOUS
  <2>4. Bound(1) = [i \in 1..1 |-> ph]
    <3>1. ASSUME NEW i \in 1..1
          PROVE  [val |-> values + i, num |-> Numbered(Len(params) + i - 1)] = ph
      <4>1. values + i = 1 /\ Len(params) + i - 1 = 0
        BY <1>2, <2>1, <2>3
      <4> QED BY <4>1, <1>3, <1>4
    <3> QED BY <3>1, <2>2
  <2>5. Bound(1) = one /\ one \in Seq(Placeholders)
    BY <1>5, <2>4
  <2>6. NewValues(1) = <<1>>
    BY <1>2 DEF NewValues
  <2>7. set_clause' = <<>> \o Bound(1) /\ params' = <<>> \o NewValues(1)
    BY <1>1, <1>2 DEF MarkDeleted, SetColumn
  <2> QED BY <2>5, <2>6, <2>7
<1>7. Rewrite(one, 0) = one
  <2>1. Len(one) = 1 /\ DOMAIN one = 1..1 /\ one[1] = ph
    BY <1>5
  <2>2. Rewrite(one, 0) = [i \in 1..1 |-> IF IsMark(one[i])
          THEN [one[i] EXCEPT !.num = Numbered(0 + MarksUpTo(one, i) - 1)] ELSE one[i]]
    BY <2>1 DEF Rewrite
  <2>3. IsMark(one[1]) => [one[1] EXCEPT !.num = Numbered(0 + MarksUpTo(one, 1) - 1)] = ph
    <3> SUFFICES ASSUME IsMark(one[1])
                 PROVE  [ph EXCEPT !.num = Numbered(0 + MarksUpTo(one, 1) - 1)] = ph
      BY <2>1
    <3>1. ph.num = 0
      BY <2>1 DEF IsMark
    <3>2. \A m : Numbered(m) = 0
      BY <3>1, <1>3, <1>4 DEF Numbered
    <3> QED BY <3>1, <3>2, <1>4
  <2>4. Rewrite(one, 0) = [i \in 1..1 |-> ph]
    <3>1. \A i \in 1..1 : i = 1
      OBVIOUS
    <3>2. ASSUME NEW i \in 1..1
          PROVE  (IF IsMark(one[i])
                  THEN [one[i] EXCEPT !.num = Numbered(0 + MarksUpTo(one, i) - 1)]
                  ELSE one[i]) = ph
      BY <3>1, <2>1, <2>3
    <3> QED BY <3>2, <2>2
  <2> QED BY <2>4, <1>5
<1>8. \A start : Rewrite(where_phs, start) = <<>>
  BY <1>2 DEF Rewrite
<1>9. Send("UPDATE", one, <<1>>)
  <2>1. Send("UPDATE", Rewrite(one, 0) \o Rewrite(where_phs, WhereOffset(one)), <<1>>)
    BY <1>6 DEF MarkDeleted, SendUpdate
  <2>2. one \o <<>> = one
    OBVIOUS
  <2> QED BY <2>1, <2>2, <1>7, <1>8
<1>10. PICK ps \in Seq(Nat) : ps = <<1>>
  <2>1. <<1>> \in Seq(Nat)
    OBVIOUS
  <2> QED BY <2>1
<1>11. /\ Len(one) = 1 /\ Len(ps) = 1 /\ \A i \in 1..Len(ps) : ps[i] = i
       /\ Send("UPDATE", one, ps) /\ "UPDATE" /= "none"
  BY <1>5, <1>9, <1>10
<1>12. \A i \in 1..Len(one) : one[i] = [val |-> i, num |-> Numbered(i - 1)]
  <2> SUFFICES ASSUME NEW i \in 1..Len(one)
               PROVE  one[i] = [val |-> i, num |-> Numbered(i - 1)]
    OBVIOUS
  <2>1. i = 1 /\ i - 1 = 0
    BY <1>11
  <2> QED BY <2>1, <1>3, <1>4, <1>5
<1> QED BY <1>1, <1>11, <1>12, OrderedMatches

\* Every step of a client that keeps to the order.
LEMMA ValuesStep ==
  ASSUME OrderlyClients, ValuesInv, [Next]_vars
  PROVE  ValuesInv'
<1>1. CASE Where \/ OrWhere \/ WhereNull
  <2>1. PICK glue \in {"AND", "OR"}, k \in 0..2 : WhereText(glue, k)
    BY <1>1 DEF Where, OrWhere, WhereNull
  <2> QED BY <2>1, WhereTextInv
<1>2. CASE WhereIn \/ WhereBetween
  <2>1. PICK k \in 1..3 : WhereBound(k)
    BY <1>2 DEF WhereIn, WhereBetween
  <2> QED BY <2>1, WhereBoundInv
<1>3. CASE Bind
  BY <1>3, BindInv
<1>4. CASE Set \/ SetRaw
  BY <1>4, SetInv, SetRawInv
<1>5. CASE Unscoped
  <2>1. /\ UNCHANGED <<setting, where_phs, set_clause, params, owed, values, ended>>
        /\ sent' = Nothing
    BY <1>5 DEF Unscoped, conditions
  <2> QED BY <2>1, NothingMatches DEF ValuesInv, InOrder
<1>6. CASE Select
  <2>1. /\ UNCHANGED <<setting, set_clause, params, owed, values, ended>> /\ Ready /\ NotUpdate
        /\ Send("SELECT", Rewrite(where_phs, 0), params) /\ "SELECT" /= "none"
    BY <1>6 DEF Select
  <2>2. where_phs' = where_phs
    <3>1. where_phs \in Seq(Placeholders)
      BY <2>1, WhenReady DEF InOrder
    <3>2. where_phs \o <<>> = where_phs
      BY <3>1
    <3> QED BY <3>2, <1>6 DEF Select, AddTerm, conditions
  <2>3. ValuesMatch'
    BY <2>1, WhereSent
  <2> QED BY <2>1, <2>2, <2>3 DEF ValuesInv, InOrder
<1>7. CASE Create
  <2>1. setting' = setting /\ ended' = TRUE
    BY <1>7 DEF Create
  <2> QED BY <2>1, <1>7, CreateSent DEF ValuesInv
<1>8. CASE Update
  <2>1. setting' = setting /\ ended' = TRUE /\ Ready /\ SendUpdate(set_clause, params)
    BY <1>8 DEF Update
  <2> QED BY <2>1, UpdateSent DEF ValuesInv
<1>9. CASE DeleteRows
  <2>1. /\ setting' = setting /\ ended' = TRUE /\ Ready /\ NotUpdate
        /\ Send("DELETE", Rewrite(where_phs, 0), params) /\ "DELETE" /= "none"
    BY <1>9 DEF DeleteRows
  <2>2. ValuesMatch'
    BY <2>1, WhereSent
  <2> QED BY <2>1, <2>2 DEF ValuesInv
<1>10. CASE MarkDeleted
  <2>1. setting' = setting /\ ended' = TRUE
    BY <1>10 DEF MarkDeleted
  <2> QED BY <2>1, <1>10, MarkSent DEF ValuesInv
<1>11. CASE DeleteRefused
  <2>1. setting' = setting /\ ended' = TRUE /\ sent' = Nothing
    BY <1>11 DEF DeleteRefused
  <2> QED BY <2>1, NothingMatches DEF ValuesInv
<1>12. CASE Reset \/ Renew
  BY <1>12, ForgetInv
<1>13. CASE UNCHANGED vars
  BY <1>13 DEF vars, conditions, ValuesInv, InOrder, ValuesMatch, Used
<1> QED BY <1>1, <1>2, <1>3, <1>4, <1>5, <1>6, <1>7, <1>8, <1>9, <1>10, <1>11, <1>12,
           <1>13 DEF Next, Find, First, Count

\* The database uses for each placeholder the value its caller gave for it, in
\* every statement of every client that keeps to the order of the statement, with
\* any number of conditions, columns and parameters and however often the query is
\* reset and reused.
THEOREM ValuesReachPlaceholders ==
  ASSUME OrderlyClients
  PROVE  Spec => []ValuesMatch
<1>1. Init => ValuesInv
  <2> SUFFICES ASSUME Init PROVE ValuesInv
    OBVIOUS
  <2>1. /\ <<>> \in Seq(Placeholders) /\ <<>> \in Seq(Nat) /\ Len(<<>>) = 0
        /\ \A i \in 1..0 : FALSE
    BY EmptySeq
  <2>2. InOrder
    BY <2>1 DEF Init, InOrder, Plain
  <2>3. sent.phs = <<>> /\ sent.op = "none" /\ DOMAIN <<>> = 1..0
    BY DEF Init, Nothing
  <2>4. ValuesMatch
    BY <2>1, <2>3 DEF ValuesMatch
  <2> QED BY <2>2, <2>4 DEF Init, ValuesInv
<1>2. ValuesInv /\ [Next]_vars => ValuesInv'
  BY ValuesStep
<1>3. ValuesInv => ValuesMatch
  BY DEF ValuesInv
<1> QED BY <1>1, <1>2, <1>3, PTL DEF Spec

=============================================================================
