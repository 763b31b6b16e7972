-------------------------------- MODULE Dsn --------------------------------
(***************************************************************************)
(* Data source names: corm_dsn_parse of src/corm.c, the parsing that       *)
(* mysql_open and pg_open share with its buffers, the conninfo string that *)
(* pg_open makes of the result, and, as the reference, the grammar of the  *)
(* comment at src/backend/mysql.c:18.  Text is a sequence of characters.   *)
(***************************************************************************)
EXTENDS Integers, Sequences, SequencesExt

CONSTANTS NameSize,    \* 256: user, pass, host and dbname with their terminator
          BodySize,    \* 1024: buf
          InfoSize,    \* 1024: conninfo
          Undefined    \* what is connected to after a buffer overrun or a misreading

\* The buffers hold the default user and host.
ASSUME DsnConstants ==
  /\ NameSize \in Nat /\ NameSize > 4
  /\ BodySize \in Nat \ {0} /\ InfoSize \in Nat \ {0}

\* corm_dsn_parse: the prefix chooses the backend; without one it is SQLite and
\* the whole text is the body.
BackendOf(scheme) ==
  CASE scheme \in {"sqlite3://", "sqlite://", "none"} -> "sqlite"
    [] scheme = "mysql://" -> "mysql"
    [] scheme \in {"postgres://", "postgresql://"} -> "postgres"

Defaults(type) ==
  CASE type = "mysql"    -> [user |-> <<"r", "o", "o", "t">>, pass |-> <<>>,
                             host |-> <<"1", "2", "7">>, port |-> 3306, db |-> <<>>]
    [] type = "postgres" -> [user |-> <<>>, pass |-> <<>>,
                             host |-> <<"l", "o", "c">>, port |-> 5432, db |-> <<>>]

\* strchr: the position of the first c, 0 for none.
Find(s, c) == SelectInSeq(s, LAMBDA x : x = c)
Before(s, i) == SubSeq(s, 1, i - 1)
After(s, i) == SubSeq(s, i + 1, Len(s))

\* strncpy(old, new, Len(new)): the rest of old stays.
Overlay(old, new) == new \o After(old, Len(new))

Digits == ("0" :> 0) @@ ("1" :> 1) @@ ("2" :> 2) @@ ("7" :> 7)
atoi(s) ==
  LET i == SelectInSeq(s, LAMBDA c : c \notin DOMAIN Digits)
  IN  FoldLeft(LAMBDA n, c : 10 * n + Digits[c], 0, IF i = 0 THEN s ELSE Before(s, i))

Cut_OffByOne(s, size) ==      \* mutant: the last character that fits is lost
  IF Len(s) < size - 1 THEN s ELSE SubSeq(s, 1, size - 2)

\* strncpy(to, s, size - 1) into a buffer that ends with a zero.
Cut(s, size) == IF Len(s) < size THEN s ELSE SubSeq(s, 1, size - 1)

\* What mysql_open and pg_open make of buf.  The copies of a user that has a
\* password and of a host that has a port and no database are as long as the
\* text; a host and port that do not fit leave the default.
ParseBuf(def, s) ==
  LET at    == Find(s, "@")
      login == Before(s, at)
      colon == IF at = 0 THEN 0 ELSE Find(login, ":")
      p     == After(s, at)
      slash == Find(p, "/")
      place == IF slash = 0 THEN p
               ELSE IF slash \in 2..NameSize THEN Before(p, slash) ELSE def.host
      hcolon == Find(place, ":")
  IN  IF colon > NameSize \/ (slash = 0 /\ hcolon > NameSize) THEN Undefined
      ELSE [user |-> IF at = 0 THEN def.user
                     ELSE IF colon = 0 THEN Cut(login, NameSize)
                     ELSE Overlay(def.user, Before(login, colon)),
            pass |-> IF colon = 0 THEN <<>> ELSE Cut(After(login, colon), NameSize),
            host |-> IF hcolon = 0 THEN Cut(place, NameSize) ELSE Before(place, hcolon),
            port |-> IF hcolon = 0 THEN def.port ELSE atoi(After(place, hcolon)),
            db   |-> IF slash = 0 THEN <<>> ELSE Cut(After(p, slash), NameSize)]

\* The last byte of buf is never written: behind a longer text it may be zero.
Parse(def, body) ==
  IF Len(body) < BodySize - 1 THEN {ParseBuf(def, body)}
  ELSE {ParseBuf(def, Cut(body, BodySize)), Undefined}

\* The length of "host=h port=n dbname=d user=u password=p"; empty parts but the
\* host are left out.
Decimals(n) == CHOOSE k \in 1..10 : n < 10^k /\ (k = 1 \/ n >= 10^(k - 1))
Keyed(key, part) == IF part = <<>> THEN 0 ELSE key + Len(part)
InfoLen(ps) ==
  Len(ps.host) + Decimals(ps.port) + 11
    + Keyed(8, ps.db) + Keyed(6, ps.user) + Keyed(10, ps.pass)

\* pg_open: snprintf cuts the password, which is last; after a cut in front of it
\* the next snprintf writes behind the buffer.
Conninfo(ps) ==
  LET excess == InfoLen(ps) - (InfoSize - 1)
  IN  IF ps = Undefined \/ InfoLen(ps) < InfoSize THEN ps
      ELSE IF excess < Len(ps.pass)
           THEN [ps EXCEPT !.pass = SubSeq(@, 1, Len(@) - excess)]
      ELSE Undefined

\* PQconnectdb reads back values that are not quoted if they begin with no quote
\* and contain neither white space nor a backslash; an empty host swallows what
\* follows it.
Plain(text) == text /= <<>> => Head(text) /= "'"
                                 /\ \A i \in DOMAIN text : text[i] \notin {" ", "\\"}
Readable(ps) ==
  /\ ps.host /= <<>>
  /\ Plain(ps.host) /\ Plain(ps.db) /\ Plain(ps.user) /\ Plain(ps.pass)
PQconnectdb(ps) == IF ps = Undefined \/ Readable(ps) THEN ps ELSE Undefined

\* What backend->open connects to; SQLite takes the body as a file name.
Opened(type, body) ==
  CASE type = "sqlite"   -> {body}
    [] type = "mysql"    -> Parse(Defaults(type), body)
    [] type = "postgres" -> {PQconnectdb(Conninfo(ps)) : ps \in Parse(Defaults(type), body)}

-----------------------------------------------------------------------------
\* The reference: [user[:pass]@][host][:port][/dbname], a part that is <<>>
\* being left out, and what it means.

Opt(pre, part, post) == IF part = <<>> THEN <<>> ELSE pre \o part \o post

Place(d) == d.host \o Opt(<<":">>, d.port, <<>>)
Written(d) ==
  Opt(<<>>, d.user \o Opt(<<":">>, d.pass, <<>>), <<"@">>)
    \o Place(d) \o Opt(<<"/">>, d.db, <<>>)

Meaning(def, d) ==
  [user |-> IF d.user = <<>> THEN def.user ELSE d.user, pass |-> d.pass,
   host |-> IF d.host = <<>> THEN def.host ELSE d.host,
   port |-> IF d.port = <<>> THEN def.port ELSE atoi(d.port), db |-> d.db]

\* The parts that this grammar can tell apart: none contains a separator that is
\* looked for before its end.
Free(text, separators) ==
  text \in Seq(STRING) /\ \A i \in DOMAIN text : text[i] \notin separators

Separable(d) ==
  /\ Free(d.user, {"@", ":"}) /\ Free(d.pass, {"@"})
  /\ Free(d.host, {"@", ":", "/"}) /\ Free(d.port, {"@", "/"}) /\ Free(d.db, {"@"})
  /\ d.user = <<>> => d.pass = <<>>

\* The parts fit the buffers.
Fits(d) ==
  /\ Len(Written(d)) < BodySize - 1
  /\ Len(d.user) < NameSize /\ Len(d.pass) < NameSize /\ Len(d.db) < NameSize
  /\ Len(IF d.db = <<>> THEN d.host ELSE Place(d)) < NameSize

Schemes == {"sqlite3://", "sqlite://", "mysql://", "postgres://", "postgresql://", "none"}

=============================================================================
