--------------------------- MODULE OpeningProofs ---------------------------
(***************************************************************************)
(* Proofs about Opening, for any number of connections, backends, models   *)
(* and buckets.                                                            *)
(***************************************************************************)
EXTENDS Opening, SequenceTheorems, SequenceLemmas

(***************************************************************************)
(* The first position                                                      *)
(***************************************************************************)

\* Min of SelectInSeq is the least element.
LEMMA MinIsLeast ==
  ASSUME NEW S \in SUBSET Nat, S /= {}
  PROVE  Min(S) \in S /\ \A k \in S : Min(S) <= k
BY LeastNumber DEF Min

\* The loop of corm_get_backend stops at the first entry of the type.
LEMMA IndexIsFirst ==
  ASSUME NEW S, NEW bs \in Seq(S), NEW t
  PROVE  /\ Index(bs, t) = 0 => \A k \in 1..Len(bs) : bs[k].type /= t
         /\ Index(bs, t) /= 0 =>
              /\ Index(bs, t) \in 1..Len(bs) /\ bs[Index(bs, t)].type = t
              /\ \A k \in 1..Len(bs) : bs[k].type = t => Index(bs, t) <= k
<1> DEFINE I == {i \in 1..Len(bs) : bs[i].type = t}
<1>1. Index(bs, t) = IF I /= {} THEN Min(I) ELSE 0
  BY DEF Index, SelectInSeq
<1>2. I \in SUBSET Nat /\ 0 \notin I
  BY LenProperties
<1>3. I /= {} => Min(I) \in I /\ \A k \in I : Min(I) <= k
  BY <1>2, MinIsLeast
<1> QED BY <1>1, <1>2, <1>3

\* Index is determined by what the loop stops at.
LEMMA FirstIsIndex ==
  ASSUME NEW S, NEW bs \in Seq(S), NEW t, NEW i \in 1..Len(bs), bs[i].type = t,
         \A k \in 1..Len(bs) : bs[k].type = t => i <= k
  PROVE  Index(bs, t) = i
<1>1. Index(bs, t) \in 1..Len(bs) /\ bs[Index(bs, t)].type = t /\ Index(bs, t) <= i
  BY IndexIsFirst
<1>2. i <= Index(bs, t)
  BY <1>1
<1> QED BY <1>1, <1>2, LenProperties

\* The loop of corm_get_backend runs to the end.
LEMMA NoneIsZero ==
  ASSUME NEW S, NEW bs \in Seq(S), NEW t, \A k \in 1..Len(bs) : bs[k].type /= t
  PROVE  Index(bs, t) = 0
BY IndexIsFirst

(***************************************************************************)
(* The backend table                                                       *)
(***************************************************************************)

Implementations == [type : Range(Types), real : BOOLEAN]
Get(bs, t) == IF Index(bs, t) = 0 THEN None ELSE bs[Index(bs, t)]

\* What corm_register_backend does to the results of corm_get_backend.
LEMMA RegisteredIsLatest ==
  ASSUME NEW bs \in Seq(Implementations), NEW t \in Range(Types),
         NEW b \in Implementations, ~Refuses(bs)
  PROVE  /\ Registered(bs, t, b) \in Seq(Implementations)
         /\ t = b.type => Get(Registered(bs, t, b), t) = b
         /\ \A u \in Range(Types) \ {t, b.type} : Get(Registered(bs, t, b), u) = Get(bs, u)
<1> DEFINE i == Index(bs, t)
           new == Registered(bs, t, b)
<1>0. /\ Len(bs) \in Nat /\ DOMAIN bs = 1..Len(bs)
      /\ \A k \in 1..Len(bs) : bs[k] \in Implementations
  BY LenProperties, ElementOfSeq
<1>1. CASE i = 0
  <2>1. new = Append(bs, b)
    BY <1>1 DEF Registered
  <2>2. /\ new \in Seq(Implementations) /\ Len(new) = Len(bs) + 1
        /\ \A k \in 1..Len(bs) : new[k] = bs[k]
        /\ new[Len(bs) + 1] = b
    BY <2>1, AppendProperties
  <2>3. \A k \in 1..Len(bs) : bs[k].type /= t
    BY <1>1, IndexIsFirst
  <2> HIDE DEF new
  <2>4. ASSUME t = b.type PROVE Get(new, t) = b
    <3>1. Index(new, t) = Len(bs) + 1
      BY <1>0, <2>2, <2>3, <2>4, FirstIsIndex
    <3> QED BY <3>1, <2>2, <1>0 DEF Get
  <2>5. ASSUME NEW u \in Range(Types) \ {t, b.type}
        PROVE  Get(new, u) = Get(bs, u)
    <3>1. CASE Index(bs, u) = 0
      <4>1. \A k \in 1..Len(new) : new[k].type /= u
        <5>1. \A k \in 1..Len(bs) : bs[k].type /= u
          BY <3>1, IndexIsFirst
        <5> QED BY <5>1, <2>2, <2>5, <1>0
      <4>2. Index(new, u) = 0
        BY <4>1, <2>2, NoneIsZero
      <4> QED BY <4>2, <3>1 DEF Get
    <3>2. CASE Index(bs, u) /= 0
      <4>1. PICK j \in 1..Len(bs) : /\ j = Index(bs, u) /\ bs[j].type = u
                                    /\ \A k \in 1..Len(bs) : bs[k].type = u => j <= k
        BY <3>2, IndexIsFirst
      <4>2. Index(new, u) = j
        <5>1. j \in 1..Len(new) /\ new[j].type = u
          BY <4>1, <2>2, <1>0
        <5>2. \A k \in 1..Len(new) : new[k].type = u => j <= k
          BY <4>1, <2>2, <1>0
        <5>3. new \in Seq(Implementations)
          BY <2>2
        <5> QED BY <5>1, <5>2, <5>3, FirstIsIndex
      <4> QED BY <4>1, <4>2, <3>2, <2>2, <1>0 DEF Get
    <3> QED BY <3>1, <3>2
  <2> QED BY <2>2, <2>4, <2>5 DEF new
<1>2. CASE i /= 0
  <2>1. new = [bs EXCEPT ![i] = b]
    BY <1>2 DEF Registered
  <2>2. /\ i \in 1..Len(bs) /\ bs[i].type = t
        /\ \A k \in 1..Len(bs) : bs[k].type = t => i <= k
    BY <1>2, IndexIsFirst
  <2> HIDE DEF i, new
  <2>3. /\ new \in Seq(Implementations) /\ Len(new) = Len(bs)
        /\ \A k \in 1..Len(bs) : new[k] = IF k = i THEN b ELSE bs[k]
    BY <2>1, <2>2, <1>0, ExceptSeq
  <2>4. ASSUME t = b.type PROVE Get(new, t) = b
    <3>1. Index(new, t) = i
      BY <2>2, <2>3, <2>4, FirstIsIndex
    <3> QED BY <3>1, <2>2, <2>3, <1>0 DEF Get
  <2>5. ASSUME NEW u \in Range(Types) \ {t, b.type}
        PROVE  Get(new, u) = Get(bs, u)
    <3>1. CASE Index(bs, u) = 0
      <4>1. \A k \in 1..Len(new) : new[k].type /= u
        BY <3>1, <2>3, <2>5, IndexIsFirst
      <4>2. Index(new, u) = 0
        BY <4>1, <2>3, NoneIsZero
      <4> QED BY <4>2, <3>1 DEF Get
    <3>2. CASE Index(bs, u) /= 0
      <4>1. PICK j \in 1..Len(bs) : /\ j = Index(bs, u) /\ bs[j].type = u
                                    /\ \A k \in 1..Len(bs) : bs[k].type = u => j <= k
        BY <3>2, IndexIsFirst
      <4>2. j /= i
        BY <4>1, <2>2, <2>5
      <4>3. Index(new, u) = j
        BY <4>1, <4>2, <2>2, <2>3, <2>5, FirstIsIndex
      <4> QED BY <4>1, <4>2, <4>3, <3>2, <2>3, <1>0 DEF Get
    <3> QED BY <3>1, <3>2
  <2> QED BY <2>3, <2>4, <2>5 DEF new
<1> QED BY <1>1, <1>2

(***************************************************************************)
(* The inductive invariant                                                 *)
(***************************************************************************)

TableTyped ==
  /\ g_backends \in Seq(Implementations) /\ builtin \in 1..Len(Types)
  /\ DOMAIN latest = Range(Types)

BackendInv == TableTyped /\ LatestBackend

\* Every step that registers.
LEMMA RegistersKeeps ==
  ASSUME BackendInv, NEW t \in Range(Types), NEW b \in Implementations, Registers(t, b)
  PROVE  g_backends' \in Seq(Implementations) /\ DOMAIN latest' = Range(Types)
         /\ LatestBackend'
<1>1. \A u : corm_get_backend(u) = Get(g_backends, u)
  BY DEF corm_get_backend, Get
<1>2. \A u : corm_get_backend(u)' = Get(g_backends', u)
  BY DEF corm_get_backend, Get
<1>3. g_backends \in Seq(Implementations) /\ DOMAIN latest = Range(Types)
  BY DEF BackendInv, TableTyped
<1>4. CASE Refuses(g_backends)
  <2>1. g_backends' = g_backends /\ latest' = latest /\ misfiled' = misfiled
    BY <1>4 DEF Registers, Registered
  <2> QED BY <2>1, <1>1, <1>2, <1>3 DEF BackendInv, LatestBackend
<1>5. CASE ~Refuses(g_backends)
  <2>1. g_backends' = Registered(g_backends, t, b)
    BY DEF Registers
  <2>2. /\ g_backends' \in Seq(Implementations)
        /\ t = b.type => Get(g_backends', t) = b
        /\ \A u \in Range(Types) \ {t, b.type} : Get(g_backends', u) = Get(g_backends, u)
    BY <2>1, <1>3, <1>5, RegisteredIsLatest
  <2>3. CASE t = b.type
    <3>1. latest' = [latest EXCEPT ![t] = b] /\ misfiled' = misfiled \ {t}
      BY <2>3, <1>5 DEF Registers
    <3>2. ASSUME NEW u \in Range(Types) \ misfiled' PROVE Get(g_backends', u) = latest'[u]
      <4>1. CASE u = t
        BY <4>1, <3>1, <2>2, <2>3, <1>3
      <4>2. CASE u /= t
        BY <4>2, <3>1, <2>2, <2>3, <1>1, <1>3 DEF BackendInv, LatestBackend
      <4> QED BY <4>1, <4>2
    <3> QED BY <3>1, <3>2, <2>2, <1>2, <1>3 DEF LatestBackend
  <2>4. CASE t /= b.type
    <3>1. latest' = latest /\ misfiled' = misfiled \union {t, b.type}
      BY <2>4, <1>5 DEF Registers
    <3>2. ASSUME NEW u \in Range(Types) \ misfiled' PROVE Get(g_backends', u) = latest'[u]
      BY <3>1, <2>2, <1>1 DEF BackendInv, LatestBackend
    <3> QED BY <3>1, <3>2, <2>2, <1>2, <1>3 DEF LatestBackend
  <2> QED BY <2>3, <2>4
<1> QED BY <1>4, <1>5

\* Steps that register keep the table, and no other step touches it.
LEMMA BackendStep ==
  ASSUME BackendInv, [Next]_vars
  PROVE  BackendInv'
<1>0. /\ Types \in Seq(Range(Types)) /\ Len(Types) \in Nat /\ builtin \in 1..Len(Types)
      /\ \A i \in 1..Len(Types) : Types[i] \in Range(Types)
  BY OpeningConstants, LenProperties, ElementOfSeq DEF BackendInv, TableTyped
<1>1. ASSUME NEW r \in Registrations, Register(r.type, r.backend) PROVE BackendInv'
  <2>1. r.type \in Range(Types) /\ r.backend \in Implementations /\ builtin' = builtin
    BY <1>1, OpeningConstants DEF Register, Implementations
  <2> QED BY <2>1, <1>0, <1>1, RegistersKeeps DEF Register, BackendInv, TableTyped
<1>2. CASE corm_init
  <2>1. Types[builtin] \in Range(Types) /\ Builtin(builtin) \in Implementations
    BY <1>0, OpeningConstants DEF Builtin, Implementations
  <2>2. builtin' \in 1..Len(Types)
    BY <1>0, <1>2 DEF corm_init
  <2> QED BY <2>1, <2>2, <1>2, RegistersKeeps DEF corm_init, BackendInv, TableTyped
<1>3. CASE UNCHANGED registry
  BY <1>3 DEF registry, BackendInv, TableTyped, LatestBackend, corm_get_backend
<1>4. ASSUME NEW d \in Dbs, Opens(d) \/ LeaveStmt(d) \/ corm_close(d)
                              \/ \E m \in Models : corm_register_model(d, m)
      PROVE  UNCHANGED registry
  BY <1>4 DEF Opens, Allocate, InitRegistry, InitRegistryFails, CreateCache, FindBackend,
              FindBackendFails, Connect, ConnectFails, LeaveStmt, corm_close,
              corm_register_model, Abandon, AbandonLate
<1> QED BY <1>1, <1>2, <1>3, <1>4 DEF Next, vars

\* The empty table.
LEMMA BackendInit == Init => BackendInv
<1> SUFFICES ASSUME Init PROVE BackendInv
  OBVIOUS
<1>1. g_backends = <<>> /\ <<>> \in Seq(Implementations) /\ Len(<<>>) = 0
  BY EmptySeq DEF Init
<1>2. \A t : Index(g_backends, t) = 0
  <2>1. \A k \in 1..Len(g_backends) : FALSE
    BY <1>1
  <2> QED BY <2>1, <1>1, NoneIsZero
<1>3. Len(Types) \in Nat \ {0}
  BY OpeningConstants, EmptySeq, LenProperties
<1> QED BY <1>1, <1>2, <1>3 DEF Init, BackendInv, TableTyped, LatestBackend,
                                corm_get_backend

\* corm_get_backend finds the implementation registered last, whatever was
\* registered, replaced and refused before, for a table of any size, with corm_init
\* and other callers registering in turn, properly or under a wrong type; only the
\* two types of a wrong registration may be confused.
THEOREM LatestBackendFound == Spec => []LatestBackend
<1>1. BackendInv => LatestBackend
  BY DEF BackendInv
<1> QED BY <1>1, BackendInit, BackendStep, PTL DEF Spec

(***************************************************************************)
(* The model registry                                                      *)
(***************************************************************************)

Position(chain, t) == SelectInSeq(chain, LAMBDA m : m.table = t)
Found(chain, t) == IF Position(chain, t) = 0 THEN None ELSE chain[Position(chain, t)]

\* corm_hash_find stops at the first entry of the table.
LEMMA PositionIsFirst ==
  ASSUME NEW chain \in Seq(Models), NEW t
  PROVE  /\ Position(chain, t) = 0 => \A k \in 1..Len(chain) : chain[k].table /= t
         /\ Position(chain, t) /= 0 =>
              /\ Position(chain, t) \in 1..Len(chain)
              /\ chain[Position(chain, t)].table = t
              /\ \A k \in 1..Len(chain) : chain[k].table = t => Position(chain, t) <= k
<1> DEFINE I == {i \in 1..Len(chain) : chain[i].table = t}
<1>1. Position(chain, t) = IF I /= {} THEN Min(I) ELSE 0
  BY DEF Position, SelectInSeq
<1>2. I \in SUBSET Nat /\ 0 \notin I
  BY LenProperties
<1>3. I /= {} => Min(I) \in I /\ \A k \in I : Min(I) <= k
  BY <1>2, MinIsLeast
<1> QED BY <1>1, <1>2, <1>3

\* A model inserted in front hides the older ones of its table and no others.
LEMMA InsertedIsFound ==
  ASSUME NEW chain \in Seq(Models), NEW m \in Models, NEW t
  PROVE  /\ Inserted(chain, m) \in Seq(Models)
         /\ Found(Inserted(chain, m), t) = IF t = m.table THEN m ELSE Found(chain, t)
<1> DEFINE new == Inserted(chain, m)
           p == Position(chain, t)
           q == Position(new, t)
<1>1. /\ Len(chain) \in Nat /\ new \in Seq(Models) /\ Len(new) = Len(chain) + 1
      /\ new[1] = m /\ \A k \in 1..Len(chain) : new[k + 1] = chain[k]
  <2>1. <<m>> \in Seq(Models) /\ Len(<<m>>) = 1 /\ <<m>>[1] = m
    OBVIOUS
  <2>2. /\ new \in Seq(Models) /\ Len(new) = 1 + Len(chain)
        /\ \A k \in 1..(1 + Len(chain)) : new[k] = IF k <= 1 THEN <<m>>[k] ELSE chain[k - 1]
    BY <2>1, ConcatProperties DEF Inserted
  <2> QED BY <2>1, <2>2, LenProperties
<1>2. /\ q = 0 => \A k \in 1..Len(new) : new[k].table /= t
      /\ q /= 0 => /\ q \in 1..Len(new) /\ new[q].table = t
                   /\ \A k \in 1..Len(new) : new[k].table = t => q <= k
  BY <1>1, PositionIsFirst
<1>3. /\ p = 0 => \A k \in 1..Len(chain) : chain[k].table /= t
      /\ p /= 0 => /\ p \in 1..Len(chain) /\ chain[p].table = t
                   /\ \A k \in 1..Len(chain) : chain[k].table = t => p <= k
  BY PositionIsFirst
<1>4. Found(new, t) = (IF q = 0 THEN None ELSE new[q])
      /\ Found(chain, t) = (IF p = 0 THEN None ELSE chain[p])
  BY DEF Found
<1> HIDE DEF new, p, q
<1>5. CASE t = m.table
  <2>1. 1 \in 1..Len(new) /\ new[1].table = t
    BY <1>1, <1>5
  <2>2. q = 1
    BY <2>1, <1>1, <1>2
  <2> QED BY <2>2, <1>1, <1>4, <1>5 DEF new
<1>6. CASE t /= m.table
  <2>1. CASE p = 0
    <3>1. \A k \in 1..Len(new) : new[k].table /= t
      <4> SUFFICES ASSUME NEW k \in 1..Len(new) PROVE new[k].table /= t
        OBVIOUS
      <4>1. CASE k = 1
        BY <4>1, <1>1, <1>6
      <4>2. CASE k /= 1
        <5>1. k - 1 \in 1..Len(chain) /\ new[(k - 1) + 1] = chain[k - 1]
          BY <4>2, <1>1
        <5> QED BY <5>1, <2>1, <1>1, <1>3
      <4> QED BY <4>1, <4>2
    <3>2. q = 0
      BY <3>1, <1>2
    <3> QED BY <3>2, <2>1, <1>1, <1>4, <1>6 DEF new
  <2>2. CASE p /= 0
    <3>1. p + 1 \in 1..Len(new) /\ new[p + 1] = chain[p] /\ new[p + 1].table = t
      BY <2>2, <1>1, <1>3
    <3>2. q \in 1..Len(new) /\ new[q].table = t /\ q <= p + 1
      BY <3>1, <1>2, <1>1
    <3>3. q /= 1
      BY <3>2, <1>1, <1>6
    <3>4. q - 1 \in 1..Len(chain) /\ new[(q - 1) + 1] = chain[q - 1]
      BY <3>2, <3>3, <1>1
    <3>5. p <= q - 1
      BY <3>2, <3>4, <1>1, <1>3, <2>2
    <3>6. q = p + 1
      BY <3>2, <3>5, <1>1, <1>3, <2>2
    <3> QED BY <3>1, <3>6, <2>2, <1>1, <1>4, <1>6 DEF new
  <2> QED BY <2>1, <2>2
<1> QED BY <1>5, <1>6

ModelInv ==
  /\ buckets \in [Dbs -> [Range(Hash) -> Seq(Models)]]
  /\ registered \in [Dbs -> [DOMAIN Hash -> Models \union {None}]]
  /\ \A d \in Dbs, t \in DOMAIN Hash : Found(buckets[d][Hash[t]], t) = registered[d][t]

\* A new registry is empty.
LEMMA EmptyRegistry ==
  /\ NoModels \in [Range(Hash) -> Seq(Models)]
  /\ NoneKnown \in [DOMAIN Hash -> Models \union {None}]
  /\ \A t \in DOMAIN Hash : Found(NoModels[Hash[t]], t) = NoneKnown[t]
<1>1. <<>> \in Seq(Models) /\ Len(<<>>) = 0
  BY EmptySeq
<1>2. ASSUME NEW t \in DOMAIN Hash PROVE Found(NoModels[Hash[t]], t) = NoneKnown[t]
  <2>1. NoModels[Hash[t]] = <<>> /\ NoneKnown[t] = None
    BY DEF NoModels, NoneKnown, Range
  <2>2. Position(<<>>, t) = 0
    <3>1. PICK chain \in Seq(Models) : chain = <<>> /\ Len(chain) = 0
      BY <1>1
    <3>2. Position(chain, t) /= 0 => Position(chain, t) \in 1..0
      BY <3>1, PositionIsFirst
    <3> QED BY <3>1, <3>2
  <2> QED BY <2>1, <2>2 DEF Found
<1> QED BY <1>1, <1>2 DEF NoModels, NoneKnown

\* Registering inserts into one bucket; giving a connection up empties all.
LEMMA ModelStep ==
  ASSUME ModelInv, [Next]_vars
  PROVE  ModelInv'
<1>1. CASE UNCHANGED models
  BY <1>1 DEF models, ModelInv
<1>2. ASSUME NEW d \in Dbs,
             /\ buckets' = [buckets EXCEPT ![d] = NoModels]
             /\ registered' = [registered EXCEPT ![d] = NoneKnown]
      PROVE  ModelInv'
  BY <1>2, EmptyRegistry DEF ModelInv
<1>3. ASSUME NEW d \in Dbs, NEW m \in Models, corm_register_model(d, m)
      PROVE  ModelInv'
  <2> DEFINE h == Hash[m.table]
             chain == buckets[d][h]
             new == Inserted(chain, m)
  <2>1. m.table \in DOMAIN Hash /\ h \in Range(Hash) /\ chain \in Seq(Models)
    <3>1. m.table \in DOMAIN Hash
      BY OpeningConstants
    <3>2. h \in Range(Hash)
      BY <3>1 DEF Range
    <3> QED BY <3>1, <3>2 DEF ModelInv
  <2>2. /\ new \in Seq(Models)
        /\ \A t : Found(new, t) = IF t = m.table THEN m ELSE Found(chain, t)
    BY <2>1, InsertedIsFound
  <2>3. /\ buckets' = [buckets EXCEPT ![d][h] = new]
        /\ registered' = [registered EXCEPT ![d][m.table] = m]
    BY <1>3 DEF corm_register_model
  <2> HIDE DEF new
  <2>4. /\ buckets' \in [Dbs -> [Range(Hash) -> Seq(Models)]]
        /\ registered' \in [Dbs -> [DOMAIN Hash -> Models \union {None}]]
    BY <2>1, <2>2, <2>3 DEF ModelInv
  <2>5. ASSUME NEW e \in Dbs, NEW t \in DOMAIN Hash
        PROVE  Found(buckets'[e][Hash[t]], t) = registered'[e][t]
    <3>1. Hash[t] \in Range(Hash)
      BY DEF Range
    <3>2. buckets'[e][Hash[t]] = IF e = d /\ Hash[t] = h THEN new ELSE buckets[e][Hash[t]]
      BY <3>1, <2>1, <2>3 DEF ModelInv
    <3>3. registered'[e][t] = IF e = d /\ t = m.table THEN m ELSE registered[e][t]
      BY <2>1, <2>3 DEF ModelInv
    <3>4. Found(buckets[e][Hash[t]], t) = registered[e][t]
      BY DEF ModelInv
    <3> QED BY <3>2, <3>3, <3>4, <2>2
  <2> QED BY <2>4, <2>5 DEF ModelInv
<1>4. ASSUME NEW d \in Dbs, Opens(d) \/ LeaveStmt(d) \/ corm_close(d)
      PROVE  \/ UNCHANGED models
             \/ /\ buckets' = [buckets EXCEPT ![d] = NoModels]
                /\ registered' = [registered EXCEPT ![d] = NoneKnown]
  BY <1>4 DEF Opens, Allocate, InitRegistry, InitRegistryFails, CreateCache, FindBackend,
              FindBackendFails, Connect, ConnectFails, LeaveStmt, corm_close, Abandon,
              AbandonLate
<1>5. ASSUME (\E r \in Registrations : Register(r.type, r.backend)) \/ corm_init
      PROVE  UNCHANGED models
  BY <1>5 DEF Register, corm_init, Registers
<1> QED BY <1>1, <1>2, <1>3, <1>4, <1>5 DEF Next, vars, models

\* corm_find_model finds the model last registered for the table, for any hash
\* function, number of buckets and length of their chains.
THEOREM LatestModelFound == Spec => []LatestModel
<1>1. Init => ModelInv
  BY EmptyRegistry DEF Init, ModelInv
<1>2. ModelInv => LatestModel
  <2>1. \A d, t : corm_find_model(d, t) = Found(buckets[d][Hash[t]], t)
    BY DEF corm_find_model, Found, Position
  <2> QED BY <2>1 DEF ModelInv, LatestModel
<1> QED BY <1>1, <1>2, ModelStep, PTL DEF Spec

(***************************************************************************)
(* What a connection owns                                                  *)
(***************************************************************************)

Ground == {"corm_t"} \union Hashes
Losses == {{}, {"cache"}, {"stmt", "conn"}}

\* A connection owns at most what the steps behind it have allocated.
Holds(d) ==
  /\ pc[d] = "closed" => owned[d] = {}
  /\ pc[d] = "registry" => owned[d] \subseteq {"corm_t"}
  /\ pc[d] \in {"cache", "backend", "connect"} => owned[d] \subseteq Ground \union {"cache"}
  /\ pc[d] = "open" => /\ owned[d] \subseteq Ground \union {"cache", "conn", "stmt"}
                       /\ "conn" \in owned[d]

OwnedInv ==
  /\ pc = [d \in Dbs |-> pc[d]] /\ owned = [d \in Dbs |-> owned[d]]
  /\ lost \in Losses /\ \A d \in Dbs : Holds(d)

\* One connection moves.
LEMMA OneMoves ==
  ASSUME OwnedInv, NEW d \in Dbs, NEW to, NEW has,
         pc' = [pc EXCEPT ![d] = to], owned' = [owned EXCEPT ![d] = has], lost' \in Losses,
         /\ to = "closed" => has = {}
         /\ to = "registry" => has \subseteq {"corm_t"}
         /\ to \in {"cache", "backend", "connect"} => has \subseteq Ground \union {"cache"}
         /\ to = "open" => /\ has \subseteq Ground \union {"cache", "conn", "stmt"}
                           /\ "conn" \in has
  PROVE  OwnedInv'
BY DEF OwnedInv, Holds

\* An error path, or corm_close, that leaves what is known to be left.
LEMMA AbandonKeeps ==
  ASSUME OwnedInv, NEW d \in Dbs, NEW from, NEW freed, Abandon(d, from, freed),
         owned[d] \ freed \in Losses
  PROVE  OwnedInv'
<1>1. pc' = [pc EXCEPT ![d] = "closed"] /\ owned' = [owned EXCEPT ![d] = {}]
      /\ lost' \in Losses
  BY DEF Abandon, At
<1> QED BY <1>1, OneMoves

\* Every step of opening and closing frees what it allocated, but for the cache
\* and a statement with its handle.
LEMMA OwnedStep ==
  ASSUME OwnedInv, [Next]_vars
  PROVE  OwnedInv'
<1>1. CASE UNCHANGED <<pc, owned, lost>>
  BY <1>1 DEF OwnedInv, Holds
<1>2. ASSUME NEW d \in Dbs, NEW dsn \in Dsns, Allocate(d, dsn) PROVE OwnedInv'
  <2>1. /\ pc' = [pc EXCEPT ![d] = "registry"]
        /\ owned' = [owned EXCEPT ![d] = owned[d] \union {"corm_t"}]
        /\ lost' \in Losses /\ owned[d] = {}
    BY <1>2 DEF Allocate, Gains, OwnedInv, Holds, At, Losses
  <2> QED BY <2>1, OneMoves
<1>3. ASSUME NEW d \in Dbs, InitRegistry(d) PROVE OwnedInv'
  <2>1. /\ pc' = [pc EXCEPT ![d] = "cache"]
        /\ owned' = [owned EXCEPT ![d] = owned[d] \union Hashes]
        /\ lost' \in Losses /\ owned[d] \subseteq {"corm_t"}
    BY <1>3 DEF InitRegistry, Gains, OwnedInv, Holds, At
  <2>2. owned[d] \union Hashes \subseteq Ground \union {"cache"}
    BY <2>1 DEF Ground
  <2> QED BY <2>1, <2>2, OneMoves
<1>4. ASSUME NEW d \in Dbs, InitRegistryFails(d) PROVE OwnedInv'
  <2>1. owned[d] \subseteq {"corm_t"}
    BY <1>4 DEF InitRegistryFails, Abandon, At, OwnedInv, Holds
  <2>2. owned[d] \ {"corm_t"} \in Losses
    BY <2>1 DEF Losses
  <2> QED BY <2>2, <1>4, AbandonKeeps DEF InitRegistryFails
<1>5. ASSUME NEW d \in Dbs, NEW objects \in {{}, {"cache"}}, CreateCache(d, objects)
      PROVE  OwnedInv'
  <2>1. /\ pc' = [pc EXCEPT ![d] = "backend"]
        /\ owned' = [owned EXCEPT ![d] = owned[d] \union objects]
        /\ lost' \in Losses /\ owned[d] \subseteq Ground \union {"cache"}
    BY <1>5 DEF CreateCache, Gains, OwnedInv, Holds, At
  <2>2. owned[d] \union objects \subseteq Ground \union {"cache"}
    BY <2>1
  <2> QED BY <2>1, <2>2, OneMoves
<1>6. ASSUME NEW d \in Dbs, FindBackend(d) PROVE OwnedInv'
  <2>1. /\ pc' = [pc EXCEPT ![d] = "connect"] /\ owned' = owned /\ lost' \in Losses
        /\ owned[d] \subseteq Ground \union {"cache"}
    BY <1>6 DEF FindBackend, OwnedInv, Holds, At
  <2>2. owned' = [owned EXCEPT ![d] = owned[d]]
    BY <2>1 DEF OwnedInv
  <2> QED BY <2>1, <2>2, OneMoves
<1>7. ASSUME NEW d \in Dbs, FindBackendFails(d) \/ ConnectFails(d) PROVE OwnedInv'
  <2>1. PICK from \in {"backend", "connect"} :
          Abandon(d, from, {"corm_t"} \union Hashes)
    BY <1>7 DEF FindBackendFails, ConnectFails, AbandonLate
  <2>2. owned[d] \subseteq Ground \union {"cache"}
    BY <2>1 DEF Abandon, At, OwnedInv, Holds
  <2>3. owned[d] \ ({"corm_t"} \union Hashes) \in Losses
    BY <2>2 DEF Losses, Ground
  <2> QED BY <2>1, <2>3, AbandonKeeps
<1>8. ASSUME NEW d \in Dbs, Connect(d) PROVE OwnedInv'
  <2>1. /\ pc' = [pc EXCEPT ![d] = "open"]
        /\ owned' = [owned EXCEPT ![d] = owned[d] \union {"conn"}]
        /\ lost' \in Losses /\ owned[d] \subseteq Ground \union {"cache"}
    <3>1. At(d, "connect", "open") /\ Gains(d, {"conn"}) /\ lost' = lost
      BY <1>8 DEF Connect
    <3> QED BY <3>1 DEF Gains, OwnedInv, Holds, At
  <2>2. /\ owned[d] \union {"conn"} \subseteq Ground \union {"cache", "conn", "stmt"}
        /\ "conn" \in owned[d] \union {"conn"}
    BY <2>1
  <2> QED BY <2>1, <2>2, OneMoves
<1>9. ASSUME NEW d \in Dbs, LeaveStmt(d) PROVE OwnedInv'
  <2>1. /\ pc' = [pc EXCEPT ![d] = "open"]
        /\ owned' = [owned EXCEPT ![d] = owned[d] \union {"stmt"}]
        /\ lost' \in Losses /\ owned[d] \subseteq Ground \union {"cache", "conn", "stmt"}
        /\ "conn" \in owned[d]
    BY <1>9 DEF LeaveStmt, Gains, OwnedInv, Holds
  <2>2. /\ owned[d] \union {"stmt"} \subseteq Ground \union {"cache", "conn", "stmt"}
        /\ "conn" \in owned[d] \union {"stmt"}
    BY <2>1
  <2> QED BY <2>1, <2>2, OneMoves
<1>10. ASSUME NEW d \in Dbs, corm_close(d) PROVE OwnedInv'
  <2>1. PICK has, freed :
          /\ has = owned[d] /\ Abandon(d, "open", freed)
          /\ freed = {"cache", "corm_t"} \union Hashes
                       \union {x \in {"conn"} : "stmt" \notin owned[d]}
    BY <1>10 DEF corm_close
  <2>2. has \subseteq Ground \union {"cache", "conn", "stmt"} /\ "conn" \in has
    BY <2>1 DEF Abandon, At, OwnedInv, Holds
  <2>3. CASE "stmt" \in has
    <3>1. has \ freed = {"stmt", "conn"}
      BY <2>1, <2>2, <2>3 DEF Ground, Hashes
    <3> QED BY <2>1, <3>1, AbandonKeeps DEF Losses
  <2>4. CASE "stmt" \notin has
    <3>1. has \ freed = {}
      BY <2>1, <2>2, <2>4 DEF Ground
    <3> QED BY <2>1, <3>1, AbandonKeeps DEF Losses
  <2> QED BY <2>3, <2>4
<1>11. ASSUME \/ \E r \in Registrations : Register(r.type, r.backend)
              \/ corm_init
              \/ \E d \in Dbs, m \in Models : corm_register_model(d, m)
       PROVE  OwnedInv'
  BY <1>11, <1>1 DEF Register, corm_init, Registers, corm_register_model
<1>12. ASSUME NEW d \in Dbs, Opens(d) PROVE OwnedInv'
  BY <1>2, <1>3, <1>4, <1>5, <1>6, <1>7, <1>8, <1>12 DEF Opens
<1> QED BY <1>1, <1>9, <1>10, <1>11, <1>12 DEF Next, vars

\* Whatever fails while connections are opened, used and closed, in any order and
\* for any number of them, only statement caches and SQLite statements that no
\* cache held, with their handles, are lost.
THEOREM OnlyKnownLeaks == Spec => []OnlyKnownLosses
<1>1. Init => OwnedInv
  BY DEF Init, OwnedInv, Holds, Losses
<1>2. OwnedInv => OnlyKnownLosses
  BY DEF OwnedInv, OnlyKnownLosses, Holds, Losses
<1> QED BY <1>1, <1>2, OwnedStep, PTL DEF Spec

(***************************************************************************)
(* Data source names                                                       *)
(***************************************************************************)

\* strchr finds the first c, or nothing.
LEMMA FindIsFirst ==
  ASSUME NEW S, NEW s \in Seq(S), NEW c
  PROVE  /\ Find(s, c) = 0 => \A k \in 1..Len(s) : s[k] /= c
         /\ Find(s, c) /= 0 => /\ Find(s, c) \in 1..Len(s) /\ s[Find(s, c)] = c
                               /\ \A k \in 1..Len(s) : s[k] = c => Find(s, c) <= k
<1> DEFINE I == {i \in 1..Len(s) : s[i] = c}
<1>1. Find(s, c) = IF I /= {} THEN Min(I) ELSE 0
  BY DEF Find, SelectInSeq
<1>2. I \in SUBSET Nat /\ 0 \notin I
  BY LenProperties
<1>3. I /= {} => Min(I) \in I /\ \A k \in I : Min(I) <= k
  BY <1>2, MinIsLeast
<1> QED BY <1>1, <1>2, <1>3

\* Text without c is not split.
LEMMA NothingFound ==
  ASSUME NEW S, NEW s \in Seq(S), NEW c, \A k \in DOMAIN s : s[k] /= c
  PROVE  Find(s, c) = 0
BY FindIsFirst

\* The text s is a without c, then c, then b.
Consists(s, a, c, b) ==
  /\ \A k \in DOMAIN a : a[k] /= c
  /\ Len(s) = Len(a) + 1 + Len(b)
  /\ \A k \in 1..Len(a) : s[k] = a[k]
  /\ s[Len(a) + 1] = c
  /\ \A k \in 1..Len(b) : s[Len(a) + 1 + k] = b[k]

\* Text whose first c is behind a, and that goes on with b.
LEMMA SplitParts ==
  ASSUME NEW S, NEW a \in Seq(S), NEW b \in Seq(S), NEW c \in S, NEW s \in Seq(S),
         Consists(s, a, c, b)
  PROVE  /\ Find(s, c) = Len(a) + 1
         /\ Before(s, Len(a) + 1) = a /\ After(s, Len(a) + 1) = b
<1> USE DEF Consists
<1>1. Len(a) \in Nat /\ Len(b) \in Nat /\ DOMAIN a = 1..Len(a)
  BY LenProperties
<1>2. Find(s, c) = Len(a) + 1
  <2>1. Len(a) + 1 \in 1..Len(s)
    BY <1>1
  <2>2. Find(s, c) \in 1..Len(s) /\ s[Find(s, c)] = c /\ Find(s, c) <= Len(a) + 1
    <3>1. \A x : /\ Find(s, x) = 0 => \A k \in 1..Len(s) : s[k] /= x
                 /\ Find(s, x) /= 0 => /\ Find(s, x) \in 1..Len(s) /\ s[Find(s, x)] = x
                                       /\ \A k \in 1..Len(s) : s[k] = x => Find(s, x) <= k
      BY FindIsFirst
    <3> QED BY <3>1, <2>1
  <2>3. ~(Find(s, c) <= Len(a))
    BY <2>2, <1>1
  <2> QED BY <2>2, <2>3, <1>1
<1>3. Before(s, Len(a) + 1) = a
  <2>1. Before(s, Len(a) + 1) = SubSeq(s, 1, Len(a))
    BY <1>1 DEF Before
  <2>2. /\ SubSeq(s, 1, Len(a)) \in Seq(S) /\ Len(SubSeq(s, 1, Len(a))) = Len(a)
        /\ \A k \in 1..Len(a) : SubSeq(s, 1, Len(a))[k] = s[k]
    <3>1. \A k \in 1..Len(a) : s[k] \in S
      BY ElementOfSeq
    <3>2. /\ SubSeq(s, 1, Len(a)) \in Seq(S)
          /\ Len(SubSeq(s, 1, Len(a))) = IF 1 <= Len(a) THEN Len(a) - 1 + 1 ELSE 0
          /\ \A k \in 1..(Len(a) - 1 + 1) : SubSeq(s, 1, Len(a))[k] = s[1 + k - 1]
      BY <3>1, <1>1, SubSeqProperties
    <3>3. Len(a) - 1 + 1 = Len(a) /\ \A k \in 1..Len(a) : 1 + k - 1 = k
      BY <1>1
    <3> QED BY <3>2, <3>3, <1>1
  <2> QED BY <2>1, <2>2, <1>1, SeqEqual
<1>4. After(s, Len(a) + 1) = b
  <2> DEFINE m == Len(a) + 2
             t == SubSeq(s, m, Len(s))
  <2>1. After(s, Len(a) + 1) = t
    BY <1>1 DEF After
  <2>2. t \in Seq(S) /\ Len(t) = Len(b) /\ \A k \in 1..Len(b) : t[k] = b[k]
    <3>1. \A k \in m..Len(s) : s[k] \in S
      BY <1>1, ElementOfSeq
    <3>2. /\ t \in Seq(S) /\ Len(t) = IF m <= Len(s) THEN Len(s) - m + 1 ELSE 0
          /\ \A k \in 1..(Len(s) - m + 1) : t[k] = s[m + k - 1]
      BY <3>1, <1>1, SubSeqProperties
    <3>3. Len(t) = Len(b) /\ Len(s) - m + 1 = Len(b)
      BY <3>2, <1>1
    <3>4. \A k \in 1..Len(b) : m + k - 1 = Len(a) + 1 + k
      BY <1>1
    <3> HIDE DEF m, t
    <3> QED BY <3>2, <3>3, <3>4
  <2> QED BY <2>1, <2>2, SeqEqual
<1> QED BY <1>2, <1>3, <1>4

\* Text is split at its first c.
LEMMA SplitAt ==
  ASSUME NEW S, NEW a \in Seq(S), NEW b \in Seq(S), NEW c \in S,
         \A k \in DOMAIN a : a[k] /= c
  PROVE  /\ Find((a \o <<c>>) \o b, c) = Len(a) + 1
         /\ Before((a \o <<c>>) \o b, Len(a) + 1) = a
         /\ After((a \o <<c>>) \o b, Len(a) + 1) = b
<1> DEFINE s == (a \o <<c>>) \o b
<1>1. Len(a) \in Nat /\ Len(b) \in Nat /\ DOMAIN a = 1..Len(a)
  BY LenProperties
<1>2. /\ a \o <<c>> \in Seq(S) /\ Len(a \o <<c>>) = Len(a) + 1
      /\ \A k \in 1..(Len(a) + 1) : (a \o <<c>>)[k] = IF k <= Len(a) THEN a[k] ELSE c
  <2>1. <<c>> \in Seq(S) /\ Len(<<c>>) = 1 /\ <<c>>[1] = c
    OBVIOUS
  <2>2. /\ a \o <<c>> \in Seq(S) /\ Len(a \o <<c>>) = Len(a) + 1
        /\ \A k \in 1..(Len(a) + 1) :
             (a \o <<c>>)[k] = IF k <= Len(a) THEN a[k] ELSE <<c>>[k - Len(a)]
    BY <2>1, ConcatProperties
  <2>3. \A k \in 1..(Len(a) + 1) : ~(k <= Len(a)) => k - Len(a) = 1
    BY <1>1
  <2> QED BY <2>1, <2>2, <2>3
<1>3. /\ s \in Seq(S) /\ Len(s) = Len(a) + 1 + Len(b)
      /\ \A k \in 1..Len(s) : s[k] = IF k <= Len(a) + 1 THEN (a \o <<c>>)[k]
                                     ELSE b[k - (Len(a) + 1)]
  BY <1>2, ConcatProperties
<1> HIDE DEF s
<1>4. /\ \A k \in 1..Len(a) : s[k] = a[k]
      /\ s[Len(a) + 1] = c
      /\ \A k \in 1..Len(b) : s[Len(a) + 1 + k] = b[k]
  <2>1. \A k \in 1..Len(a) : s[k] = a[k]
    BY <1>1, <1>2, <1>3
  <2>2. s[Len(a) + 1] = c
    BY <1>1, <1>2, <1>3
  <2>3. ASSUME NEW k \in 1..Len(b) PROVE s[Len(a) + 1 + k] = b[k]
    <3>1. /\ Len(a) + 1 + k \in 1..Len(s) /\ ~(Len(a) + 1 + k <= Len(a) + 1)
          /\ (Len(a) + 1 + k) - (Len(a) + 1) = k
      BY <1>1, <1>3
    <3> QED BY <3>1, <1>3
  <2> QED BY <2>1, <2>2, <2>3
<1>5. /\ Find(s, c) = Len(a) + 1
      /\ Before(s, Len(a) + 1) = a /\ After(s, Len(a) + 1) = b
  <2>1. s \in Seq(S) /\ Consists(s, a, c, b)
    BY <1>3, <1>4 DEF Consists
  <2> QED BY <2>1, SplitParts
<1> QED BY <1>5 DEF s

\* Text of one character.
LEMMA SingleText ==
  ASSUME NEW S, NEW x \in S
  PROVE  <<x>> \in Seq(S) /\ DOMAIN <<x>> = {1} /\ <<x>>[1] = x
OBVIOUS

\* The provers do not know that a literal is a string, so the ones that occur
\* are named: the separators and the characters of the defaults.
Marks == {"@", ":", "/"}
Chars == STRING \union Marks \union {"r", "o", "t", "1", "2", "7", "l", "c"}
Text == Seq(Chars)
Lacks(s, c) == s \in Text /\ \A k \in DOMAIN s : s[k] /= c

\* A concatenation contains what its parts do.
LEMMA LacksConcat ==
  ASSUME NEW a, NEW b, NEW c, Lacks(a, c), Lacks(b, c)
  PROVE  Lacks(a \o b, c)
<1>1. PICK S : S = Chars
  OBVIOUS
<1>2. a \in Seq(S) /\ b \in Seq(S)
  BY <1>1 DEF Lacks, Text
<1>3. /\ Len(a) \in Nat /\ Len(b) \in Nat /\ DOMAIN a = 1..Len(a) /\ DOMAIN b = 1..Len(b)
  BY <1>2, LenProperties
<1>4. /\ a \o b \in Seq(S) /\ Len(a \o b) = Len(a) + Len(b)
      /\ \A k \in 1..(Len(a) + Len(b)) :
           (a \o b)[k] = IF k <= Len(a) THEN a[k] ELSE b[k - Len(a)]
  BY <1>2, ConcatProperties
<1>5. DOMAIN (a \o b) = 1..(Len(a) + Len(b))
  BY <1>4, LenProperties
<1>6. ASSUME NEW k \in 1..(Len(a) + Len(b)) PROVE (a \o b)[k] /= c
  <2>1. CASE k <= Len(a)
    BY <2>1, <1>3, <1>4 DEF Lacks
  <2>2. CASE ~(k <= Len(a))
    <3>1. k - Len(a) \in 1..Len(b)
      BY <2>2, <1>3
    <3> QED BY <3>1, <2>2, <1>3, <1>4 DEF Lacks
  <2> QED BY <2>1, <2>2
<1> QED BY <1>1, <1>4, <1>5, <1>6 DEF Lacks, Text

\* One separator.
LEMMA LacksMark ==
  ASSUME NEW x \in Chars, NEW c, x /= c
  PROVE  Lacks(<<x>>, c)
<1>1. <<x>> \in Seq(Chars) /\ DOMAIN <<x>> = {1} /\ <<x>>[1] = x
  BY SingleText
<1> QED BY <1>1 DEF Lacks, Text

\* What strchr and the pointers around its result give.
LEMMA TextSplits ==
  ASSUME NEW a, NEW b \in Text, NEW c \in Chars, Lacks(a, c)
  PROVE  /\ Find((a \o <<c>>) \o b, c) = Len(a) + 1
         /\ Before((a \o <<c>>) \o b, Len(a) + 1) = a
         /\ After((a \o <<c>>) \o b, Len(a) + 1) = b
         /\ Len(a) \in Nat /\ Len(a) + 1 /= 0 /\ (Len(a) + 1 = 1 <=> a = <<>>)
<1>1. PICK S : S = Chars
  OBVIOUS
<1>2. /\ a \in Seq(S) /\ b \in Seq(S) /\ c \in S /\ \A k \in DOMAIN a : a[k] /= c
  BY <1>1 DEF Lacks, Text
<1>3. /\ Find((a \o <<c>>) \o b, c) = Len(a) + 1
      /\ Before((a \o <<c>>) \o b, Len(a) + 1) = a
      /\ After((a \o <<c>>) \o b, Len(a) + 1) = b
  BY <1>2, SplitAt
<1>4. Len(a) \in Nat /\ (Len(a) = 0 <=> a = <<>>)
  BY <1>2, EmptySeq, LenProperties
<1> QED BY <1>1, <1>3, <1>4

\* Text without the separator stays whole.
LEMMA TextWhole ==
  ASSUME NEW s, NEW c, Lacks(s, c)
  PROVE  Find(s, c) = 0 /\ After(s, 0) = s
<1>1. PICK S : S = Chars
  OBVIOUS
<1>2. s \in Seq(S) /\ \A k \in DOMAIN s : s[k] /= c
  BY <1>1 DEF Lacks, Text
<1>3. Find(s, c) = 0
  BY <1>2, NothingFound
<1>4. SubSeq(s, 1, Len(s)) = s
  BY <1>2, SubSeqFull
<1> QED BY <1>3, <1>4 DEF After

\* A longer name hides the default it is copied over.
LEMMA OverlayHides ==
  ASSUME NEW old \in Text, NEW new \in Text, Len(old) <= Len(new)
  PROVE  Overlay(old, new) = new
<1>1. PICK S : S = Chars
  OBVIOUS
<1>2. old \in Seq(S) /\ new \in Seq(S) /\ Len(old) \in Nat /\ Len(new) \in Nat
  BY <1>1, LenProperties DEF Text
<1>3. SubSeq(old, Len(new) + 1, Len(old)) = <<>>
  BY <1>2, SubSeqEmpty
<1>4. new \o <<>> = new
  BY <1>2, ConcatEmptySeq
<1> QED BY <1>3, <1>4 DEF Overlay, After

(***************************************************************************)
(* The parts of a DSN as written                                           *)
(***************************************************************************)

Login(d) == d.user \o Opt(<<":">>, d.pass, <<>>)
Rest(d) == Place(d) \o Opt(<<"/">>, d.db, <<>>)

\* A part that is there is written behind its separator.
LEMMA OptWritten ==
  ASSUME NEW a \in Text, NEW c \in Chars, NEW part \in Text
  PROVE  a \o Opt(<<c>>, part, <<>>) = IF part = <<>> THEN a ELSE (a \o <<c>>) \o part
<1>1. PICK S : S = Chars
  OBVIOUS
<1>2. a \in Seq(S) /\ part \in Seq(S) /\ <<c>> \in Seq(S)
  BY <1>1, SingleText DEF Text
<1>3. a \o <<>> = a /\ (<<c>> \o part) \o <<>> = <<c>> \o part
      /\ (a \o <<c>>) \o part = a \o (<<c>> \o part)
  <2>1. <<c>> \o part \in Seq(S)
    BY <1>2, ConcatProperties
  <2>2. (<<c>> \o part) \o <<>> = <<c>> \o part
    BY <2>1, ConcatEmptySeq
  <2> QED BY <2>2, <1>2, ConcatEmptySeq, ConcatAssociative
<1> QED BY <1>3 DEF Opt

\* Strings are text.
LEMMA StringsAreText ==
  ASSUME NEW s \in Seq(STRING)
  PROVE  s \in Text
<1>1. PICK A, B : A = STRING /\ B = Chars
  OBVIOUS
<1>2. s \in Seq(A) /\ A \subseteq B
  BY <1>1 DEF Chars
<1>3. s \in Seq(B)
  BY <1>2
<1> QED BY <1>1, <1>3 DEF Text

\* No part contains a separator that is looked for before its end.
LEMMA PartsAreFree ==
  ASSUME NEW d, Separable(d)
  PROVE  /\ Lacks(d.user, "@") /\ Lacks(d.user, ":") /\ Lacks(d.pass, "@")
         /\ Lacks(d.host, "@") /\ Lacks(d.host, ":") /\ Lacks(d.host, "/")
         /\ Lacks(d.port, "@") /\ Lacks(d.port, "/") /\ Lacks(d.db, "@")
         /\ d.user \in Text /\ d.pass \in Text /\ d.host \in Text
         /\ d.port \in Text /\ d.db \in Text
BY StringsAreText DEF Separable, Free, Lacks

\* The separators are characters.
LEMMA MarksAreChars == "@" \in Chars /\ ":" \in Chars /\ "/" \in Chars
BY DEF Chars, Marks

\* The login, the place and the rest as they are written, and what they lack.
LEMMA LoginWritten ==
  ASSUME NEW d, Separable(d)
  PROVE  /\ Login(d) = IF d.pass = <<>> THEN d.user ELSE (d.user \o <<":">>) \o d.pass
         /\ Lacks(Login(d), "@")
<1>a. ":" \in Chars
  BY MarksAreChars
<1>b. \A a, part \in Text :
        a \o Opt(<<":">>, part, <<>>) = IF part = <<>> THEN a ELSE (a \o <<":">>) \o part
  BY <1>a, OptWritten
<1>1. Login(d) = IF d.pass = <<>> THEN d.user ELSE (d.user \o <<":">>) \o d.pass
  BY <1>a, <1>b, PartsAreFree DEF Login
<1>2. Lacks(d.user \o <<":">>, "@")
  BY PartsAreFree, MarksAreChars, LacksMark, LacksConcat
<1> QED BY <1>1, <1>2, PartsAreFree, LacksConcat

\* The host and port as they are written, and what does not occur in them.
LEMMA PlaceWritten ==
  ASSUME NEW d, Separable(d)
  PROVE  /\ Place(d) = IF d.port = <<>> THEN d.host ELSE (d.host \o <<":">>) \o d.port
         /\ Lacks(Place(d), "@") /\ Lacks(Place(d), "/")
<1>a. ":" \in Chars
  BY MarksAreChars
<1>b. \A a, part \in Text :
        a \o Opt(<<":">>, part, <<>>) = IF part = <<>> THEN a ELSE (a \o <<":">>) \o part
  BY <1>a, OptWritten
<1>1. Place(d) = IF d.port = <<>> THEN d.host ELSE (d.host \o <<":">>) \o d.port
  BY <1>a, <1>b, PartsAreFree DEF Place
<1>2. Lacks(d.host \o <<":">>, "@") /\ Lacks(d.host \o <<":">>, "/")
  BY PartsAreFree, MarksAreChars, LacksMark, LacksConcat
<1> QED BY <1>1, <1>2, PartsAreFree, LacksConcat

\* What follows the login as it is written.
LEMMA RestWritten ==
  ASSUME NEW d, Separable(d)
  PROVE  /\ Rest(d) = IF d.db = <<>> THEN Place(d) ELSE (Place(d) \o <<"/">>) \o d.db
         /\ Lacks(Rest(d), "@")
<1>0. Place(d) \in Text
  BY PlaceWritten DEF Lacks
<1>a. "/" \in Chars
  BY MarksAreChars
<1>b. \A a, part \in Text :
        a \o Opt(<<"/">>, part, <<>>) = IF part = <<>> THEN a ELSE (a \o <<"/">>) \o part
  BY <1>a, OptWritten
<1>1. Rest(d) = IF d.db = <<>> THEN Place(d) ELSE (Place(d) \o <<"/">>) \o d.db
  BY <1>0, <1>a, <1>b, PartsAreFree DEF Rest
<1>2. Lacks(Place(d) \o <<"/">>, "@")
  BY PlaceWritten, MarksAreChars, LacksMark, LacksConcat
<1> QED BY <1>1, <1>2, PlaceWritten, PartsAreFree, LacksConcat

\* The whole: with a user there is an "@", and only one.
LEMMA WholeWritten ==
  ASSUME NEW d, Separable(d)
  PROVE  Written(d) = IF d.user = <<>> THEN Rest(d) ELSE (Login(d) \o <<"@">>) \o Rest(d)
<1> DEFINE L == Opt(<<>>, Login(d), <<"@">>)
           D == Opt(<<"/">>, d.db, <<>>)
<1>1. PICK S : S = Chars
  OBVIOUS
<1>2. /\ d.user \in Seq(S) /\ d.pass \in Seq(S) /\ d.db \in Seq(S)
      /\ Login(d) \in Seq(S) /\ Place(d) \in Seq(S) /\ Rest(d) \in Seq(S)
  BY <1>1, PartsAreFree, LoginWritten, PlaceWritten, RestWritten DEF Lacks, Text
<1>3. <<":">> \in Seq(S) /\ <<"/">> \in Seq(S) /\ <<"@">> \in Seq(S) /\ <<>> \in Seq(S)
  BY <1>1, MarksAreChars, SingleText, EmptySeq
<1>4. D \in Seq(S)
  <2>1. (<<"/">> \o d.db) \o <<>> \in Seq(S)
    BY <1>2, <1>3, ConcatProperties
  <2> QED BY <2>1, <1>3 DEF Opt
<1>5. L \in Seq(S) /\ L = IF d.user = <<>> THEN <<>> ELSE Login(d) \o <<"@">>
  <2>1. <<>> \o Login(d) = Login(d) /\ Login(d) \o <<"@">> \in Seq(S)
    BY <1>2, <1>3, ConcatEmptySeq, ConcatProperties
  <2>2. Login(d) = <<>> <=> d.user = <<>>
    <3>1. CASE d.pass = <<>>
      BY <3>1, LoginWritten
    <3>2. CASE d.pass /= <<>>
      <4>1. d.user /= <<>> /\ Login(d) = (d.user \o <<":">>) \o d.pass
        BY <3>2, LoginWritten DEF Separable
      <4>2. d.user \o <<":">> \in Seq(S)
        BY <1>2, <1>3, ConcatProperties
      <4>3. (d.user \o <<":">>) \o d.pass /= <<>>
        BY <3>2, <4>2, <1>2, ConcatEqualIffEmpty
      <4> QED BY <4>1, <4>3
    <3> QED BY <3>1, <3>2
  <2> QED BY <2>1, <2>2, <1>3 DEF Opt
<1>6. Written(d) = (L \o Place(d)) \o D /\ Rest(d) = Place(d) \o D
  BY DEF Written, Rest, Login
<1> HIDE DEF L, D
<1>7. (L \o Place(d)) \o D = L \o (Place(d) \o D)
  <2>1. PICK l \in Seq(S), m \in Seq(S), r \in Seq(S) : l = L /\ m = Place(d) /\ r = D
    BY <1>2, <1>4, <1>5
  <2>2. (l \o m) \o r = l \o (m \o r)
    OBVIOUS
  <2> QED BY <2>1, <2>2
<1>8. <<>> \o Rest(d) = Rest(d)
  BY <1>2, ConcatEmptySeq
<1> QED BY <1>5, <1>6, <1>7, <1>8

(***************************************************************************)
(* mysql_open and pg_open understand what the grammar writes               *)
(***************************************************************************)

\* What fits is not cut.
LEMMA CutFits ==
  ASSUME NEW s, NEW size, Len(s) < size
  PROVE  Cut(s, size) = s
BY DEF Cut

\* The user and the password, before the "@".
LEMMA LoginParsed ==
  ASSUME NEW d, Separable(d), NEW user \in Text,
         d.pass /= <<>> => Len(user) <= Len(d.user),
         Len(d.user) < NameSize, Len(d.pass) < NameSize
  PROVE  LET s     == Written(d)
             at    == Find(s, "@")
             login == Before(s, at)
             colon == IF at = 0 THEN 0 ELSE Find(login, ":")
         IN  /\ After(s, at) = Rest(d)
             /\ ~(colon > NameSize)
             /\ (IF at = 0 THEN user
                 ELSE IF colon = 0 THEN Cut(login, NameSize)
                 ELSE Overlay(user, Before(login, colon)))
                   = IF d.user = <<>> THEN user ELSE d.user
             /\ (IF colon = 0 THEN <<>> ELSE Cut(After(login, colon), NameSize)) = d.pass
<1> DEFINE s     == Written(d)
           at    == Find(s, "@")
           login == Before(s, at)
           colon == IF at = 0 THEN 0 ELSE Find(login, ":")
<1>0. Rest(d) \in Text
  BY RestWritten DEF Lacks
<1>a. NameSize \in Nat /\ ~(0 > NameSize)
  BY DsnConstants
<1>b. Cut(d.user, NameSize) = d.user /\ Cut(d.pass, NameSize) = d.pass
  BY CutFits
<1>1. CASE d.user = <<>>
  <2>1. s = Rest(d)
    BY <1>1, WholeWritten
  <2>2. at = 0 /\ After(s, 0) = Rest(d)
    BY <2>1, RestWritten, TextWhole
  <2>3. d.pass = <<>>
    BY <1>1 DEF Separable
  <2> QED BY <2>2, <2>3, <1>a, <1>1
<1>2. CASE d.user /= <<>>
  <2>1. s = (Login(d) \o <<"@">>) \o Rest(d)
    BY <1>2, WholeWritten
  <2>2. /\ at = Len(Login(d)) + 1 /\ at /= 0
        /\ login = Login(d) /\ After(s, at) = Rest(d)
    <3>1. PICK a \in Text, b \in Text : a = Login(d) /\ b = Rest(d)
      BY <1>0, LoginWritten DEF Lacks
    <3>2. Lacks(a, "@") /\ "@" \in Chars
      BY <3>1, LoginWritten, MarksAreChars
    <3>3. /\ Find((a \o <<"@">>) \o b, "@") = Len(a) + 1
          /\ Before((a \o <<"@">>) \o b, Len(a) + 1) = a
          /\ After((a \o <<"@">>) \o b, Len(a) + 1) = b
          /\ Len(a) + 1 /= 0
      BY <3>2, TextSplits
    <3> QED BY <3>1, <3>3, <2>1
  <2>3. colon = Find(Login(d), ":")
    BY <2>2
  <2> HIDE DEF s, at, login, colon
  <2>4. CASE d.pass = <<>>
    <3>1. Login(d) = d.user
      BY <2>4, LoginWritten
    <3>2. colon = 0
      BY <3>1, <2>3, PartsAreFree, TextWhole
    <3> QED BY <3>1, <3>2, <2>2, <2>4, <1>a, <1>b, <1>2 DEF s, at, login, colon
  <2>5. CASE d.pass /= <<>>
    <3>1. Login(d) = (d.user \o <<":">>) \o d.pass
      BY <2>5, LoginWritten
    <3>2. /\ colon = Len(d.user) + 1 /\ colon /= 0
          /\ Before(login, colon) = d.user /\ After(login, colon) = d.pass
      <4>1. PICK a \in Text, b \in Text : a = d.user /\ b = d.pass
        BY PartsAreFree
      <4>2. Lacks(a, ":") /\ ":" \in Chars
        BY <4>1, PartsAreFree, MarksAreChars
      <4>3. /\ Find((a \o <<":">>) \o b, ":") = Len(a) + 1
            /\ Before((a \o <<":">>) \o b, Len(a) + 1) = a
            /\ After((a \o <<":">>) \o b, Len(a) + 1) = b
            /\ Len(a) + 1 /= 0
        BY <4>2, TextSplits
      <4> QED BY <4>1, <4>3, <3>1, <2>2, <2>3
    <3>3. Overlay(user, d.user) = d.user
      BY <2>5, PartsAreFree, OverlayHides
    <3>4. ~(colon > NameSize)
      <4>1. PICK n \in Nat : n = Len(d.user)
        BY PartsAreFree, LenProperties DEF Text
      <4>2. n < NameSize /\ colon = n + 1
        BY <4>1, <3>2
      <4> QED BY <4>1, <4>2, <1>a
    <3> QED BY <3>2, <3>3, <3>4, <2>2, <1>b, <1>2 DEF s, at, login, colon
  <2> QED BY <2>4, <2>5
<1> QED BY <1>1, <1>2

\* The host, the port and the database, behind it.  A DSN without a host has
\* neither a port, and the default is taken when the slash follows at once.
LEMMA PlaceParsed ==
  ASSUME NEW d, Separable(d), NEW dhost, Lacks(dhost, ":"), NEW dport,
         d.host /= <<>> \/ (d.db /= <<>> /\ d.port = <<>>),
         Len(dhost) < NameSize, Len(d.db) < NameSize,
         Len(IF d.db = <<>> THEN d.host ELSE Place(d)) < NameSize
  PROVE  LET p     == Rest(d)
             slash == Find(p, "/")
             place == IF slash = 0 THEN p
                      ELSE IF slash \in 2..NameSize THEN Before(p, slash) ELSE dhost
             hcolon == Find(place, ":")
         IN  /\ ~(slash = 0 /\ hcolon > NameSize)
             /\ (IF hcolon = 0 THEN Cut(place, NameSize) ELSE Before(place, hcolon))
                  = IF d.host = <<>> THEN dhost ELSE d.host
             /\ (IF hcolon = 0 THEN dport ELSE atoi(After(place, hcolon)))
                  = IF d.port = <<>> THEN dport ELSE atoi(d.port)
             /\ (IF slash = 0 THEN <<>> ELSE Cut(After(p, slash), NameSize)) = d.db
<1> DEFINE p     == Rest(d)
           slash == Find(p, "/")
           place == IF slash = 0 THEN p
                    ELSE IF slash \in 2..NameSize THEN Before(p, slash) ELSE dhost
           hcolon == Find(place, ":")
<1>a. NameSize \in Nat /\ ~(0 > NameSize)
  BY DsnConstants
<1>b. Cut(d.db, NameSize) = d.db /\ Cut(dhost, NameSize) = dhost
  BY CutFits
<1>0. Place(d) \in Text /\ Lacks(Place(d), "/")
  BY PlaceWritten DEF Lacks
<1>1. Place(d) = <<>> <=> d.host = <<>>
  <2>1. CASE d.port = <<>>
    BY <2>1, PlaceWritten
  <2>2. CASE d.port /= <<>>
    <3>1. PICK a \in Text, b \in Text : a = d.host /\ b = d.port
      BY PartsAreFree
    <3>2. Find((a \o <<":">>) \o b, ":") = Len(a) + 1 /\ Len(a) \in Nat /\ Len(a) + 1 /= 0
      BY <3>1, PartsAreFree, MarksAreChars, TextSplits
    <3>3. Lacks(<<>>, ":")
      BY EmptySeq DEF Lacks, Text
    <3>4. Find(<<>>, ":") = 0
      BY <3>3, TextWhole
    <3>5. Place(d) /= <<>>
      BY <2>2, <3>1, <3>2, <3>4, PlaceWritten
    <3> QED BY <2>2, <3>5
  <2> QED BY <2>1, <2>2
<1>2. /\ place = IF d.host = <<>> THEN dhost ELSE Place(d)
      /\ (IF slash = 0 THEN <<>> ELSE Cut(After(p, slash), NameSize)) = d.db
      /\ slash = 0 => d.db = <<>>
  <2>1. CASE d.db = <<>>
    <3>1. p = Place(d)
      BY <2>1, RestWritten
    <3>2. slash = 0
      BY <3>1, <1>0, TextWhole
    <3> QED BY <3>1, <3>2, <2>1
  <2>2. CASE d.db /= <<>>
    <3>1. p = (Place(d) \o <<"/">>) \o d.db
      BY <2>2, RestWritten
    <3>2. PICK a \in Text, b \in Text : a = Place(d) /\ b = d.db
      BY <1>0, PartsAreFree
    <3>3. Lacks(a, "/") /\ "/" \in Chars
      BY <3>2, <1>0, MarksAreChars
    <3>4. /\ Find((a \o <<"/">>) \o b, "/") = Len(a) + 1
          /\ Before((a \o <<"/">>) \o b, Len(a) + 1) = a
          /\ After((a \o <<"/">>) \o b, Len(a) + 1) = b
          /\ Len(a) \in Nat /\ Len(a) + 1 /= 0 /\ (Len(a) + 1 = 1 <=> a = <<>>)
      BY <3>3, TextSplits
    <3>5. PICK n \in Nat : n = Len(a) /\ n < NameSize /\ (n + 1 = 1 <=> a = <<>>)
      BY <3>2, <3>4, <2>2
    <3>6. n + 1 /= 0 /\ (n + 1 \in 2..NameSize <=> a /= <<>>)
      BY <3>5, <1>a
    <3>7. /\ slash /= 0 /\ (slash \in 2..NameSize <=> Place(d) /= <<>>)
          /\ Before(p, slash) = Place(d) /\ After(p, slash) = d.db
      BY <3>1, <3>2, <3>4, <3>5, <3>6
    <3> HIDE DEF slash, p
    <3> QED BY <3>7, <1>1, <1>b
  <2> QED BY <2>1, <2>2
<1> HIDE DEF p, slash, place
<1>3. /\ ~(slash = 0 /\ hcolon > NameSize)
      /\ (IF hcolon = 0 THEN Cut(place, NameSize) ELSE Before(place, hcolon))
           = IF d.host = <<>> THEN dhost ELSE d.host
      /\ (IF hcolon = 0 THEN dport ELSE atoi(After(place, hcolon)))
           = IF d.port = <<>> THEN dport ELSE atoi(d.port)
  <2>1. CASE d.host = <<>>
    <3>1. place = dhost /\ d.port = <<>>
      BY <2>1, <1>2
    <3>2. hcolon = 0
      BY <3>1, TextWhole
    <3> QED BY <3>1, <3>2, <2>1, <1>a, <1>b
  <2>2. CASE d.host /= <<>> /\ d.port = <<>>
    <3>1. place = d.host /\ Place(d) = d.host
      BY <2>2, <1>2, PlaceWritten
    <3>2. hcolon = 0
      BY <3>1, PartsAreFree, TextWhole
    <3>3. Cut(d.host, NameSize) = d.host
      <4>1. Len(d.host) < NameSize
        BY <3>1
      <4> QED BY <4>1, CutFits
    <3> QED BY <3>1, <3>2, <3>3, <2>2, <1>a
  <2>3. CASE d.host /= <<>> /\ d.port /= <<>>
    <3>1. place = (d.host \o <<":">>) \o d.port
      BY <2>3, <1>2, PlaceWritten
    <3>2. PICK a \in Text, b \in Text : a = d.host /\ b = d.port
      BY PartsAreFree
    <3>3. Lacks(a, ":") /\ ":" \in Chars
      BY <3>2, PartsAreFree, MarksAreChars
    <3>4. /\ Find((a \o <<":">>) \o b, ":") = Len(a) + 1
          /\ Before((a \o <<":">>) \o b, Len(a) + 1) = a
          /\ After((a \o <<":">>) \o b, Len(a) + 1) = b
          /\ Len(a) \in Nat /\ Len(a) + 1 /= 0
      BY <3>3, TextSplits
    <3>5. /\ hcolon = Len(a) + 1 /\ hcolon /= 0
          /\ Before(place, hcolon) = d.host /\ After(place, hcolon) = d.port
      BY <3>1, <3>2, <3>4
    <3> HIDE DEF hcolon
    <3>6. ~(slash = 0 /\ hcolon > NameSize)
      <4> SUFFICES ASSUME slash = 0 PROVE ~(hcolon > NameSize)
        OBVIOUS
      <4>1. PICK n \in Nat : n = Len(a) /\ n < NameSize
        BY <3>2, <3>4, <1>2
      <4>2. hcolon = n + 1
        BY <4>1, <3>5
      <4> QED BY <4>1, <4>2, <1>a
    <3> QED BY <3>5, <3>6, <2>3
  <2> QED BY <2>1, <2>2, <2>3
<1> QED BY <1>2, <1>3 DEF p, slash, place

\* Parsing is a left inverse of writing, for all texts that fit the buffers.
LEMMA ParseIsMeaning ==
  ASSUME NEW d, Separable(d), Fits(d), NEW def, def.user \in Text, Lacks(def.host, ":"),
         Len(def.host) < NameSize,
         d.host /= <<>> \/ (d.db /= <<>> /\ d.port = <<>>),
         d.pass /= <<>> => Len(def.user) <= Len(d.user)
  PROVE  Parse(def, Written(d)) = {Meaning(def, d)}
<1> DEFINE s     == Written(d)
           at    == Find(s, "@")
           login == Before(s, at)
           colon == IF at = 0 THEN 0 ELSE Find(login, ":")
           p     == After(s, at)
           slash == Find(p, "/")
           place == IF slash = 0 THEN p
                    ELSE IF slash \in 2..NameSize THEN Before(p, slash) ELSE def.host
           hcolon == Find(place, ":")
           user1 == IF at = 0 THEN def.user
                    ELSE IF colon = 0 THEN Cut(login, NameSize)
                    ELSE Overlay(def.user, Before(login, colon))
           pass1 == IF colon = 0 THEN <<>> ELSE Cut(After(login, colon), NameSize)
           host1 == IF hcolon = 0 THEN Cut(place, NameSize) ELSE Before(place, hcolon)
           port1 == IF hcolon = 0 THEN def.port ELSE atoi(After(place, hcolon))
           db1   == IF slash = 0 THEN <<>> ELSE Cut(After(p, slash), NameSize)
           over  == colon > NameSize \/ (slash = 0 /\ hcolon > NameSize)
<1>0. Parse(def, s) = {ParseBuf(def, s)}
  BY DEF Parse, Fits
<1>1. ParseBuf(def, s) =
        IF over THEN Undefined
        ELSE [user |-> user1, pass |-> pass1, host |-> host1, port |-> port1, db |-> db1]
  BY DEF ParseBuf
<1>2. /\ p = Rest(d) /\ pass1 = d.pass /\ ~(colon > NameSize)
      /\ user1 = IF d.user = <<>> THEN def.user ELSE d.user
  BY LoginParsed DEF Fits
<1> HIDE DEF s, at, login, colon, p, user1, pass1
<1>3. /\ ~(slash = 0 /\ hcolon > NameSize)
      /\ host1 = IF d.host = <<>> THEN def.host ELSE d.host
      /\ port1 = IF d.port = <<>> THEN def.port ELSE atoi(d.port)
      /\ db1 = d.db
  <2>1. PICK dhost, dport : dhost = def.host /\ dport = def.port
    OBVIOUS
  <2>2. Lacks(dhost, ":") /\ Len(dhost) < NameSize
    BY <2>1
  <2> DEFINE slash2 == Find(Rest(d), "/")
             place2 == IF slash2 = 0 THEN Rest(d)
                       ELSE IF slash2 \in 2..NameSize THEN Before(Rest(d), slash2) ELSE dhost
             hcolon2 == Find(place2, ":")
  <2>3. /\ ~(slash2 = 0 /\ hcolon2 > NameSize)
        /\ (IF hcolon2 = 0 THEN Cut(place2, NameSize) ELSE Before(place2, hcolon2))
             = IF d.host = <<>> THEN dhost ELSE d.host
        /\ (IF hcolon2 = 0 THEN dport ELSE atoi(After(place2, hcolon2)))
             = IF d.port = <<>> THEN dport ELSE atoi(d.port)
        /\ (IF slash2 = 0 THEN <<>> ELSE Cut(After(Rest(d), slash2), NameSize)) = d.db
    BY <2>2, PlaceParsed DEF Fits
  <2>4. slash2 = slash /\ place2 = place /\ hcolon2 = hcolon
    BY <2>1, <1>2
  <2> HIDE DEF slash2, place2, hcolon2, slash, place, hcolon
  <2> QED BY <2>1, <2>3, <2>4, <1>2
<1> HIDE DEF slash, hcolon, host1, port1, db1
<1> QED BY <1>0, <1>1, <1>2, <1>3 DEF Meaning, s

\* The defaults of the two servers: four letters of a user, or none.
LEMMA DefaultsTyped ==
  ASSUME NEW type \in {"mysql", "postgres"}
  PROVE  /\ Defaults(type).user \in Text /\ Lacks(Defaults(type).host, ":")
         /\ Len(Defaults(type).host) < NameSize
         /\ Len(Defaults(type).user) = IF type = "mysql" THEN 4 ELSE 0
<1>1. /\ "r" \in Chars /\ "o" \in Chars /\ "t" \in Chars /\ "1" \in Chars
      /\ "2" \in Chars /\ "7" \in Chars /\ "l" \in Chars /\ "c" \in Chars
  BY DEF Chars
<1>2. CASE type = "mysql"
  <2>1. Defaults(type).user = <<"r", "o", "o", "t">> /\ Defaults(type).host = <<"1", "2", "7">>
    BY <1>2 DEF Defaults
  <2>2. <<"r", "o", "o", "t">> \in Text /\ <<"1", "2", "7">> \in Text
    BY <1>1 DEF Text
  <2>3. Lacks(<<"1", "2", "7">>, ":") /\ Len(<<"r", "o", "o", "t">>) = 4
    BY <2>2 DEF Lacks
  <2>4. Len(<<"1", "2", "7">>) < NameSize
    BY DsnConstants
  <2> QED BY <2>1, <2>2, <2>3, <2>4, <1>2
<1>3. CASE type = "postgres"
  <2>1. Defaults(type).user = <<>> /\ Defaults(type).host = <<"l", "o", "c">>
    BY <1>3 DEF Defaults
  <2>2. <<>> \in Text /\ <<"l", "o", "c">> \in Text
    BY <1>1 DEF Text
  <2>3. Lacks(<<"l", "o", "c">>, ":") /\ Len(<<>>) = 0
    BY <2>2 DEF Lacks
  <2>4. Len(<<"l", "o", "c">>) < NameSize
    BY DsnConstants
  <2> QED BY <2>1, <2>2, <2>3, <2>4, <1>3
<1> QED BY <1>2, <1>3

\* What a server is told is what its DSN means.
LEMMA ServerTold ==
  ASSUME NEW dsn \in Dsns, BackendOf(dsn.scheme) /= "sqlite", Understood(dsn)
  PROVE  Opened(BackendOf(dsn.scheme), Written(dsn.parts))
           = {Meaning(Defaults(BackendOf(dsn.scheme)), dsn.parts)}
<1>1. dsn.scheme \in Schemes /\ Separable(dsn.parts)
  BY OpeningConstants
<1>2. PICK type \in {"mysql", "postgres"} : type = BackendOf(dsn.scheme)
  BY <1>1 DEF BackendOf, Schemes
<1>3. PICK d : d = dsn.parts
  OBVIOUS
<1>4. (d.host /= <<>> \/ (d.db /= <<>> /\ d.port = <<>>)) /\ Fits(d)
  BY <1>3 DEF Understood
<1>5. d.pass /= <<>> => Len(Defaults(type).user) <= Len(d.user)
  <2> SUFFICES ASSUME d.pass /= <<>> PROVE Len(Defaults(type).user) <= Len(d.user)
    OBVIOUS
  <2>1. d.user /= <<>> /\ d.user \in Text
    BY <1>1, <1>3, PartsAreFree DEF Separable
  <2>2. Len(d.user) \in Nat \ {0}
    BY <2>1, EmptySeq, LenProperties DEF Text
  <2>3. type = "mysql" => Len(d.user) \notin 1..3
    BY <1>2, <1>3 DEF Understood
  <2>4. Len(Defaults(type).user) = IF type = "mysql" THEN 4 ELSE 0
    BY DefaultsTyped
  <2>5. PICK k, n : k = Len(Defaults(type).user) /\ n = Len(d.user)
    OBVIOUS
  <2>6. CASE type = "mysql"
    <3>1. k = 4 /\ n \in Nat \ {0} /\ n \notin 1..3
      BY <2>2, <2>3, <2>4, <2>5, <2>6
    <3>2. k <= n
      BY <3>1
    <3> QED BY <3>2, <2>5
  <2>7. CASE type /= "mysql"
    <3>1. k = 0 /\ n \in Nat \ {0}
      BY <2>2, <2>4, <2>5, <2>7
    <3>2. k <= n
      BY <3>1
    <3> QED BY <3>2, <2>5
  <2> QED BY <2>6, <2>7
<1>6. PICK def : def = Defaults(type)
  OBVIOUS
<1>7. Parse(def, Written(d)) = {Meaning(def, d)}
  <2>1. /\ Separable(d) /\ def.user \in Text /\ Lacks(def.host, ":")
        /\ Len(def.host) < NameSize
    BY <1>1, <1>3, <1>6, DefaultsTyped
  <2>2. d.pass /= <<>> => Len(def.user) <= Len(d.user)
    BY <1>5, <1>6
  <2> QED BY <2>1, <2>2, <1>4, ParseIsMeaning
<1>8. CASE type = "mysql"
  BY <1>2, <1>3, <1>6, <1>7, <1>8 DEF Opened
<1>9. CASE type = "postgres"
  <2>1. PICK told : told = Meaning(def, d)
    OBVIOUS
  <2>2. Readable(told) /\ InfoLen(told) < InfoSize
    BY <2>1, <1>2, <1>3, <1>6, <1>9 DEF Understood
  <2>3. PQconnectdb(Conninfo(told)) = told
    BY <2>2 DEF PQconnectdb, Conninfo
  <2>4. Opened(type, Written(d)) = {PQconnectdb(Conninfo(ps)) : ps \in {told}}
    BY <2>1, <1>6, <1>7, <1>9 DEF Opened
  <2>5. Opened(type, Written(d)) = {told}
    BY <2>3, <2>4
  <2> QED BY <2>1, <2>5, <1>2, <1>3, <1>6
<1> QED BY <1>8, <1>9

(***************************************************************************)
(* Connections                                                             *)
(***************************************************************************)

\* What corm_open_with_config has found out so far.
Told(d) ==
  LET type == db[d].backend.type
      body == Written(db[d].dsn.parts)
  IN  /\ pc[d] /= "closed" => db[d].dsn \in Dsns
      /\ pc[d] \in {"connect", "open"} => type = BackendOf(db[d].dsn.scheme)
      /\ pc[d] = "open" => db[d].params \in Opened(type, body)

\* The record of a connection has its three fields.
Fields(r) == r = [dsn |-> r.dsn, backend |-> r.backend, params |-> r.params]

ConnInv ==
  /\ DOMAIN pc = Dbs /\ db = [d \in Dbs |-> db[d]]
  /\ \A d \in Dbs : Fields(db[d]) /\ Told(d)

\* One connection moves.
LEMMA OneIsTold ==
  ASSUME ConnInv, NEW d \in Dbs, NEW from, NEW to, At(d, from, to),
         NEW r, db' = [db EXCEPT ![d] = r], Fields(r),
         to /= "closed" => r.dsn \in Dsns,
         to \in {"connect", "open"} => r.backend.type = BackendOf(r.dsn.scheme),
         to = "open" => r.params \in Opened(r.backend.type, Written(r.dsn.parts))
  PROVE  ConnInv'
<1>1. pc' = [pc EXCEPT ![d] = to] /\ pc[d] = from
  BY DEF At
<1>2. /\ DOMAIN pc' = Dbs /\ db' = [e \in Dbs |-> db'[e]] /\ pc'[d] = to /\ db'[d] = r
      /\ \A e \in Dbs \ {d} : pc'[e] = pc[e] /\ db'[e] = db[e]
  BY <1>1 DEF ConnInv
<1>3. Fields(db'[d]) /\ Told(d)'
  BY <1>2 DEF Told
<1>4. ASSUME NEW e \in Dbs \ {d} PROVE Fields(db'[e]) /\ Told(e)'
  BY <1>2 DEF ConnInv, Told
<1> QED BY <1>2, <1>3, <1>4 DEF ConnInv

\* The backend that is found has the type that was asked for.
LEMMA FoundHasType ==
  ASSUME BackendInv, NEW t, corm_get_backend(t) /= None
  PROVE  corm_get_backend(t).type = t
<1>1. g_backends \in Seq(Implementations)
  BY DEF BackendInv, TableTyped
<1>2. Index(g_backends, t) /= 0 => g_backends[Index(g_backends, t)].type = t
  BY <1>1, IndexIsFirst
<1> QED BY <1>2 DEF corm_get_backend

\* Every step keeps what corm_open_with_config has found out.
LEMMA ConnStep ==
  ASSUME BackendInv, ConnInv, [Next]_vars
  PROVE  ConnInv'
<1>1. CASE UNCHANGED <<pc, db>>
  BY <1>1 DEF ConnInv, Told
<1>0. ASSUME NEW d \in Dbs, NEW from, NEW to, At(d, from, to), db' = db,
             from \in {"registry", "cache"}, to \in {"cache", "backend"}
      PROVE  ConnInv'
  <2>1. PICK r : r = db[d]
    OBVIOUS
  <2>2. Fields(r) /\ r.dsn \in Dsns
    BY <2>1, <1>0 DEF ConnInv, Told, At
  <2>3. db' = [db EXCEPT ![d] = r]
    BY <2>1, <1>0 DEF ConnInv
  <2> QED BY <2>2, <2>3, <1>0, OneIsTold
<1>2. ASSUME NEW d \in Dbs, NEW dsn \in Dsns, Allocate(d, dsn) PROVE ConnInv'
  <2>1. At(d, "closed", "registry") /\ db' = [db EXCEPT ![d].dsn = dsn]
    BY <1>2 DEF Allocate
  <2>2. PICK r : r = [db[d] EXCEPT !.dsn = dsn]
    OBVIOUS
  <2>3. Fields(r) /\ r.dsn = dsn
    BY <2>2 DEF ConnInv, Fields
  <2>4. db' = [db EXCEPT ![d] = r]
    BY <2>1, <2>2
  <2>5. /\ r.dsn \in Dsns /\ "registry" \notin {"connect", "open"} /\ "registry" /= "open"
    BY <2>3
  <2>6. At(d, "closed", "registry")
    BY <2>1
  <2> QED BY <2>3, <2>4, <2>5, <2>6, OneIsTold
<1>3. ASSUME NEW d \in Dbs, InitRegistry(d) \/ CreateCache(d, {"cache"}) \/ CreateCache(d, {})
      PROVE  ConnInv'
  BY <1>3, <1>0 DEF InitRegistry, CreateCache
<1>4. ASSUME NEW d \in Dbs, NEW from, NEW freed, Abandon(d, from, freed) PROVE ConnInv'
  <2>1. At(d, from, "closed") /\ db' = [db EXCEPT ![d] = Closed]
    BY <1>4 DEF Abandon
  <2>2. Fields(Closed)
    BY DEF Fields, Closed
  <2> QED BY <2>1, <2>2, OneIsTold
<1>5. ASSUME NEW d \in Dbs, FindBackend(d) PROVE ConnInv'
  <2>1. PICK b : b = corm_get_backend(BackendOf(db[d].dsn.scheme))
    OBVIOUS
  <2>2. /\ At(d, "backend", "connect") /\ b /= None
        /\ db' = [db EXCEPT ![d].backend = b]
    BY <1>5, <2>1 DEF FindBackend
  <2>3. b.type = BackendOf(db[d].dsn.scheme)
    BY <2>1, <2>2, FoundHasType
  <2>4. PICK r : r = [db[d] EXCEPT !.backend = b]
    OBVIOUS
  <2>5. Fields(r) /\ r.dsn = db[d].dsn /\ r.backend = b /\ db[d].dsn \in Dsns
    BY <2>2, <2>4 DEF ConnInv, Fields, Told, At
  <2>6. db' = [db EXCEPT ![d] = r]
    BY <2>2, <2>4
  <2>7. /\ Fields(r) /\ r.dsn \in Dsns /\ r.backend.type = BackendOf(r.dsn.scheme)
    BY <2>3, <2>5
  <2>8. PICK from, to : to = "connect" /\ to /= "open" /\ At(d, from, to)
    BY <2>2
  <2>9. /\ to /= "closed" => r.dsn \in Dsns
        /\ to \in {"connect", "open"} => r.backend.type = BackendOf(r.dsn.scheme)
        /\ to = "open" => r.params \in Opened(r.backend.type, Written(r.dsn.parts))
    BY <2>7, <2>8
  <2>10. Fields(r) /\ At(d, from, to)
    BY <2>7, <2>8
  <2> QED BY <2>6, <2>9, <2>10, OneIsTold
<1>6. ASSUME NEW d \in Dbs, Connect(d) PROVE ConnInv'
  <2>1. PICK ps \in Opened(db[d].backend.type, Written(db[d].dsn.parts)) :
          db' = [db EXCEPT ![d].params = ps]
    BY <1>6 DEF Connect
  <2>2. At(d, "connect", "open") /\ db' = [db EXCEPT ![d].params = ps]
    BY <1>6, <2>1 DEF Connect
  <2>3. PICK r : r = [db[d] EXCEPT !.params = ps]
    OBVIOUS
  <2>4. /\ Fields(r) /\ r.dsn = db[d].dsn /\ r.backend = db[d].backend /\ r.params = ps
        /\ db[d].dsn \in Dsns /\ db[d].backend.type = BackendOf(db[d].dsn.scheme)
    BY <2>2, <2>3 DEF ConnInv, Fields, Told, At
  <2>5. db' = [db EXCEPT ![d] = r]
    BY <2>2, <2>3
  <2> QED BY <2>1, <2>2, <2>4, <2>5, OneIsTold
<1>7. ASSUME NEW d \in Dbs,
             InitRegistryFails(d) \/ FindBackendFails(d) \/ ConnectFails(d) \/ corm_close(d)
      PROVE  ConnInv'
  BY <1>4, <1>7 DEF InitRegistryFails, FindBackendFails, ConnectFails, corm_close, AbandonLate
<1>8. ASSUME \/ \E r \in Registrations : Register(r.type, r.backend)
             \/ corm_init
             \/ \E d \in Dbs, m \in Models : corm_register_model(d, m)
             \/ \E d \in Dbs : LeaveStmt(d)
      PROVE  ConnInv'
  BY <1>8, <1>1 DEF Register, corm_init, Registers, corm_register_model, LeaveStmt
<1>9. ASSUME NEW d \in Dbs, Opens(d) PROVE ConnInv'
  BY <1>2, <1>3, <1>5, <1>6, <1>7, <1>9 DEF Opens
<1> QED BY <1>1, <1>7, <1>8, <1>9 DEF Next, vars

\* Every open connection to a server has been made with the user, password, host,
\* port and database that its DSN names, whatever is registered, opened and closed
\* meanwhile: for buffers of any size and all DSNs that fit them, whose parts the
\* grammar can tell apart and, for PostgreSQL, need no quoting.
THEOREM ServersToldAsWritten == Spec => []ConnectedAsWritten
<1>1. Init => ConnInv
  <2> SUFFICES ASSUME Init PROVE ConnInv
    OBVIOUS
  <2>1. Fields(Closed)
    BY DEF Fields, Closed
  <2>2. DOMAIN pc = Dbs /\ db = [d \in Dbs |-> db[d]]
    BY DEF Init
  <2>3. \A d \in Dbs : pc[d] = "closed" /\ db[d] = Closed
    BY DEF Init
  <2> QED BY <2>1, <2>2, <2>3 DEF ConnInv, Told
<1>2. BackendInv /\ ConnInv /\ [Next]_vars => (BackendInv /\ ConnInv)'
  BY BackendStep, ConnStep
<1>3. ConnInv => ConnectedAsWritten
  <2> SUFFICES ASSUME ConnInv, NEW d \in Dbs, pc[d] = "open",
                      db[d].backend.type /= "sqlite", Understood(db[d].dsn)
               PROVE  db[d].params = Meaning(Defaults(db[d].backend.type), db[d].dsn.parts)
    BY DEF ConnectedAsWritten
  <2>1. PICK dsn \in Dsns : dsn = db[d].dsn
    BY DEF ConnInv, Told
  <2>2. /\ db[d].backend.type = BackendOf(dsn.scheme)
        /\ db[d].params \in Opened(db[d].backend.type, Written(dsn.parts))
    BY <2>1 DEF ConnInv, Told
  <2>3. BackendOf(dsn.scheme) /= "sqlite" /\ Understood(dsn)
    BY <2>1, <2>2
  <2>4. Opened(BackendOf(dsn.scheme), Written(dsn.parts))
          = {Meaning(Defaults(BackendOf(dsn.scheme)), dsn.parts)}
    BY <2>3, ServerTold
  <2> QED BY <2>1, <2>2, <2>4
<1> QED BY <1>1, <1>2, <1>3, BackendInit, PTL DEF Spec

=============================================================================
