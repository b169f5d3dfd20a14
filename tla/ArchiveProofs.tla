---------------------------- MODULE ArchiveProofs ----------------------------
(***************************************************************************)
(* Proofs about Archive: foreign keys always hold, a dump that no write    *)
(* overlapped with can be restored, a restore commits exactly the rows the *)
(* dump read, and it does so in one step (Deployment.tla).                 *)
(*                                                                         *)
(* The argument: an INSERT that PostgreSQL accepts is exactly the text one *)
(* table was written as (AcceptedIsWhole), and its literal reads back as   *)
(* the rows of that table (ObjectsReadBack), so that after each statement  *)
(* the restore has come to the next table with rows (TableReplayed); the   *)
(* order of the tables satisfies the foreign keys on the way (InOrder).    *)
(***************************************************************************)
EXTENDS Archive, SequenceLemmas

-----------------------------------------------------------------------------
(* The tables *)

\* The ten tables; device_updates is the one that is not dumped.
LEMMA TablesAre ==
    /\ Dumped = {"users", "tenants", "settings", "devices", "sessions", "login_attempts",
                 "backup_runs", "backup_events", "device_samples"}
    /\ Tables = Dumped \cup {"device_updates"}
    /\ "device_updates" \notin Dumped
    /\ Len(TABLES) = 9
<1>1. Dumped = {"users", "tenants", "settings", "devices", "sessions", "login_attempts",
                 "backup_runs", "backup_events", "device_samples"}
  <2>1. DOMAIN TABLES = 1..9
    BY DEF TABLES
  <2>2. \A i \in 1..9 : i \in {1, 2, 3, 4, 5, 6, 7, 8, 9}
    OBVIOUS
  <2>3. /\ TABLES[1] = "users" /\ TABLES[2] = "tenants" /\ TABLES[3] = "settings"
        /\ TABLES[4] = "devices" /\ TABLES[5] = "sessions" /\ TABLES[6] = "login_attempts"
        /\ TABLES[7] = "backup_runs" /\ TABLES[8] = "backup_events" /\ TABLES[9] = "device_samples"
    BY DEF TABLES
  <2>4. Dumped = {TABLES[i] : i \in 1..9}
    BY <2>1 DEF Dumped, Range
  <2> QED BY <2>2, <2>3, <2>4
<1>2. Tables = Dumped \cup {"device_updates"}
  <2>1. TABLES \in Seq(Dumped) /\ <<"device_updates">> \in Seq({"device_updates"})
    <3>1. TABLES \in [1..9 -> Range(TABLES)]
      BY DEF TABLES, Range
    <3>2. TABLES \in Seq(Range(TABLES))
      <4>1. PICK f, S, n : f = TABLES /\ S = Range(TABLES) /\ n = 9
        OBVIOUS
      <4>2. n \in Nat /\ f \in [1..n -> S]
        BY <3>1, <4>1
      <4>3. f \in Seq(S)
        BY <4>2
      <4> QED BY <4>1, <4>3
    <3> QED BY <3>2 DEF Dumped
  <2> DEFINE S == Dumped \cup {"device_updates"}
  <2>2. Range(TABLES \o <<"device_updates">>) = Range(TABLES) \cup Range(<<"device_updates">>)
    <3>1. PICK parts, last : parts = TABLES /\ last = <<"device_updates">>
      OBVIOUS
    <3>2. parts \in Seq(S) /\ last \in Seq(S)
      BY <2>1, <3>1, SeqMonotonic
    <3>3. Range(parts \o last) = Range(parts) \cup Range(last)
      BY <3>2, RangeConcatenation
    <3> QED BY <3>1, <3>3
  <2>3. Range(<<"device_updates">>) = {"device_updates"}
    BY DEF Range
  <2> QED BY <2>2, <2>3 DEF Tables, AllTables, Dumped
<1>3. Len(TABLES) = 9
  BY DEF TABLES
<1> QED BY <1>1, <1>2, <1>3

\* TABLES has no table twice, and each after those it refers to.
LEMMA InOrder ==
    /\ \A i \in 1..9 : TABLES[i] \in Dumped
    /\ \A t \in Dumped : \E i \in 1..9 : TABLES[i] = t
    /\ \A i, j \in 1..9 : TABLES[i] = TABLES[j] => i = j
    /\ \A i \in 1..9 : \A p \in Refers(TABLES[i]) : \E j \in 1..i - 1 : TABLES[j] = p
<1>1. /\ TABLES[1] = "users" /\ TABLES[2] = "tenants" /\ TABLES[3] = "settings"
      /\ TABLES[4] = "devices" /\ TABLES[5] = "sessions" /\ TABLES[6] = "login_attempts"
      /\ TABLES[7] = "backup_runs" /\ TABLES[8] = "backup_events" /\ TABLES[9] = "device_samples"
  BY DEF TABLES
<1>2. \A i \in 1..9 : i \in {1, 2, 3, 4, 5, 6, 7, 8, 9}
  OBVIOUS
<1>3. \A i \in 1..9 : TABLES[i] \in Dumped
  BY <1>1, <1>2, TablesAre
<1>4. \A t \in Dumped : \E i \in 1..9 : TABLES[i] = t
  BY <1>1, TablesAre
<1>5. \A i, j \in 1..9 : TABLES[i] = TABLES[j] => i = j
  BY <1>1, <1>2
<1>6. \A i \in 1..9 : \A p \in Refers(TABLES[i]) : \E j \in 1..i - 1 : TABLES[j] = p
  <2> TAKE i \in 1..9
  <2> TAKE p \in Refers(TABLES[i])
  <2>1. CASE i = 4
    <3>1. p = TABLES[2]
      BY <2>1, <1>1 DEF Refers
    <3> QED BY <3>1, <2>1
  <2>2. CASE i = 5
    <3>1. p = TABLES[1]
      BY <2>2, <1>1 DEF Refers
    <3> QED BY <3>1, <2>2
  <2>3. CASE i = 8
    <3>1. p = TABLES[7] \/ p = TABLES[2] \/ p = TABLES[4]
      BY <2>3, <1>1 DEF Refers
    <3> QED BY <3>1, <2>3
  <2>4. CASE i = 9
    <3>1. p = TABLES[4]
      BY <2>4, <1>1 DEF Refers
    <3> QED BY <3>1, <2>4
  <2>5. CASE i \in {1, 2, 3, 6, 7}
    BY <2>5, <1>1 DEF Refers
  <2> QED BY <2>1, <2>2, <2>3, <2>4, <2>5, <1>2
<1> QED BY <1>3, <1>4, <1>5, <1>6

\* References go two tables deep at most, and not in circles.
LEMMA TwoDeep ==
    ASSUME NEW t \in Tables, NEW p \in Refers(t)
    PROVE  /\ p \in Dumped /\ p \in Tables /\ p # t
           /\ \A q \in Refers(p) : q \in Tables /\ q # t /\ Refers(q) = {}
<1>1. t \in {"devices", "sessions", "backup_events", "device_samples", "device_updates"}
  BY DEF Refers
<1>2. CASE t = "devices"
  BY <1>2, TablesAre DEF Refers
<1>3. CASE t = "sessions"
  BY <1>3, TablesAre DEF Refers
<1>4. CASE t = "backup_events"
  BY <1>4, TablesAre DEF Refers
<1>5. CASE t \in {"device_samples", "device_updates"}
  BY <1>5, TablesAre DEF Refers
<1> QED BY <1>1, <1>2, <1>3, <1>4, <1>5

-----------------------------------------------------------------------------
(* References *)

\* More rows, and references are still satisfied.
LEMMA ReferMore ==
    ASSUME NEW c, NEW d, NEW t, NEW rows, Refer(c, t, rows),
           \A p \in Refers(t) : c[p] \subseteq d[p]
    PROVE  Refer(d, t, rows)
BY DEF Refer, Ids

\* Rows that refer to nothing go, one step.
LEMMA WithoutOrphansIs ==
    ASSUME NEW d
    PROVE  /\ WithoutOrphans(d) = [t \in Tables |-> WithoutOrphans(d)[t]]
           /\ \A t \in Tables : WithoutOrphans(d)[t] = {r \in d[t] : Refer(d, t, {r})}
BY DEF WithoutOrphans, Kept

\* In a table that refers to no other, all rows stay.
LEMMA RootsStay ==
    ASSUME NEW d, NEW t \in Tables, Refers(t) = {}
    PROVE  WithoutOrphans(d)[t] = d[t]
<1>1. \A r \in d[t] : Refer(d, t, {r})
  BY DEF Refer
<1>2. WithoutOrphans(d)[t] = {r \in d[t] : Refer(d, t, {r})}
  BY WithoutOrphansIs
<1> QED BY <1>1, <1>2

\* Whatever is taken out of the tables: after ON DELETE CASCADE, all references are satisfied.
LEMMA CascadeRefers ==
    ASSUME NEW d, NEW t \in Tables
    PROVE  /\ Refer(Cascade(d), t, Cascade(d)[t])
           /\ Cascade(d)[t] \subseteq d[t]
<1> DEFINE c == WithoutOrphans(d)
           e == WithoutOrphans(c)
<1>1. \A p \in Refers(t) : e[p] = c[p]
  <2> TAKE p \in Refers(t)
  <2>1. p \in Tables /\ \A q \in Refers(p) : q \in Tables /\ Refers(q) = {}
    BY TwoDeep
  <2>2. \A q \in Refers(p) : c[q] = d[q]
    BY <2>1, RootsStay
  <2>3. c[p] = {r \in d[p] : Refer(d, p, {r})}
    BY <2>1, WithoutOrphansIs
  <2>4. e[p] = {r \in c[p] : Refer(c, p, {r})}
    BY <2>1, WithoutOrphansIs
  <2> HIDE DEF c, e
  <2>5. \A r \in c[p] : Refer(c, p, {r})
    BY <2>2, <2>3 DEF Refer
  <2> QED BY <2>4, <2>5
<1>2. e[t] = {r \in c[t] : Refer(c, t, {r})} /\ c[t] \subseteq d[t]
  BY WithoutOrphansIs
<1> HIDE DEF c, e
<1>3. Refer(e, t, e[t])
  BY <1>1, <1>2 DEF Refer
<1> QED BY <1>2, <1>3 DEF c, e, Cascade

\* The rows of a table go; what is not theirs stays in that table.
LEMMA CascadeOwn ==
    ASSUME NEW d, \A s \in Tables : Refer(d, s, d[s]),
           NEW t \in Tables, NEW rows, rows \subseteq d[t], DOMAIN d = Tables
    PROVE  Cascade([d EXCEPT ![t] = rows])[t] = rows
<1> DEFINE b == [d EXCEPT ![t] = rows]
           c == WithoutOrphans(b)
           e == WithoutOrphans(c)
<1>1. b[t] = rows /\ \A s \in Tables : s # t => b[s] = d[s]
  OBVIOUS
<1> HIDE DEF b
<1>2. \A p \in Refers(t) : p \in Tables /\ p # t /\ \A q \in Refers(p) : q \in Tables /\ q # t
  BY TwoDeep
<1>3. c[t] = {r \in b[t] : Refer(b, t, {r})} /\ e[t] = {r \in c[t] : Refer(c, t, {r})}
  BY WithoutOrphansIs
<1>4. \A p \in Refers(t) : c[p] = {r \in b[p] : Refer(b, p, {r})}
  BY <1>2, WithoutOrphansIs
<1> HIDE DEF c, e
<1>5. \A p \in Refers(t) : c[p] = d[p]
  <2> TAKE p \in Refers(t)
  <2>1. b[p] = d[p] /\ \A q \in Refers(p) : b[q] = d[q]
    BY <1>1, <1>2
  <2>2. Refer(d, p, d[p])
    BY <1>2
  <2>3. \A r \in b[p] : Refer(b, p, {r})
    BY <2>1, <2>2 DEF Refer
  <2> QED BY <2>1, <2>3, <1>4
<1>6. Refer(d, t, d[t])
  OBVIOUS
<1>7. \A r \in rows : Refer(b, t, {r}) /\ Refer(c, t, {r})
  BY <1>1, <1>2, <1>5, <1>6 DEF Refer
<1>8. c[t] = rows /\ e[t] = rows
  BY <1>1, <1>3, <1>7
<1> QED BY <1>8 DEF b, c, e, Cascade

-----------------------------------------------------------------------------
(* Apostrophes *)

\* The apostrophes up to a position are finitely many.
LEMMA QuotesType ==
    ASSUME NEW text, NEW i \in Nat
    PROVE  /\ IsFiniteSet({j \in 1..i : text[j] = QUOTE})
           /\ Quotes(text, i) \in Nat
<1>1. IsFiniteSet(1..i)
  BY FS_Interval
<1>2. {j \in 1..i : text[j] = QUOTE} \in SUBSET (1..i)
  OBVIOUS
<1>3. IsFiniteSet({j \in 1..i : text[j] = QUOTE})
  BY <1>1, <1>2, FS_Subset
<1> QED BY <1>3, FS_CardinalityType DEF Quotes

\* There are none before the first position.
LEMMA QuotesZero ==
    ASSUME NEW text
    PROVE  Quotes(text, 0) = 0
<1>1. {j \in 1..0 : text[j] = QUOTE} = {}
  OBVIOUS
<1> QED BY <1>1, FS_EmptySet DEF Quotes

\* One position on, there is one more or there are as many.
LEMMA QuotesNext ==
    ASSUME NEW text, NEW i \in Nat
    PROVE  Quotes(text, i + 1) = Quotes(text, i) + IF text[i + 1] = QUOTE THEN 1 ELSE 0
<1> DEFINE Upto(k) == {j \in 1..k : text[j] = QUOTE}
<1>1. IsFiniteSet(Upto(i)) /\ Cardinality(Upto(i)) \in Nat
  BY QuotesType DEF Quotes
<1>2. Quotes(text, i) = Cardinality(Upto(i)) /\ Quotes(text, i + 1) = Cardinality(Upto(i + 1))
  BY DEF Quotes
<1>3. CASE text[i + 1] = QUOTE
  <2>1. Upto(i + 1) = Upto(i) \cup {i + 1} /\ i + 1 \notin Upto(i)
    BY <1>3
  <2> HIDE DEF Upto
  <2> QED BY <2>1, <1>1, <1>2, <1>3, FS_AddElement
<1>4. CASE text[i + 1] # QUOTE
  <2>1. Upto(i + 1) = Upto(i)
    BY <1>4
  <2> HIDE DEF Upto
  <2> QED BY <2>1, <1>1, <1>2, <1>4
<1> QED BY <1>3, <1>4

\* No apostrophe, no difference.
LEMMA QuotesSame ==
    ASSUME NEW text, NEW i \in Nat, NEW k \in Nat, i <= k, \A j \in i + 1..k : text[j] # QUOTE
    PROVE  Quotes(text, k) = Quotes(text, i)
<1>1. {j \in 1..k : text[j] = QUOTE} = {j \in 1..i : text[j] = QUOTE}
  OBVIOUS
<1> QED BY <1>1 DEF Quotes

\* They depend only on the text up to that position.
LEMMA QuotesAgree ==
    ASSUME NEW s, NEW t, NEW i \in Nat, \A j \in 1..i : s[j] = t[j]
    PROVE  Quotes(s, i) = Quotes(t, i)
<1>1. {j \in 1..i : s[j] = QUOTE} = {j \in 1..i : t[j] = QUOTE}
  OBVIOUS
<1> QED BY <1>1 DEF Quotes

\* An apostrophe opens a string or closes it.
LEMMA Parity ==
    ASSUME NEW n \in Nat
    PROVE  (n + 1) % 2 = 1 <=> ~(n % 2 = 1)
OBVIOUS

-----------------------------------------------------------------------------
(* Statements *)

\* Where a statement ends, and what it is.
LEMMA EndIs ==
    ASSUME NEW T, NEW sql \in Seq(T)
    PROVE  LET end == EndOfStatement(sql)
           IN  /\ end \in 1..Len(sql) + 1
               /\ end <= Len(sql) => sql[end] = SEMICOLON /\ ~InString(sql, end)
               /\ \A i \in 1..Len(sql) : i < end => ~(sql[i] = SEMICOLON /\ ~InString(sql, i))
               /\ Len(Statement(sql)) = end - 1
               /\ DOMAIN Statement(sql) = 1..end - 1
               /\ \A i \in 1..end - 1 : Statement(sql)[i] = sql[i]
<1> DEFINE ends == {i \in DOMAIN sql : sql[i] = SEMICOLON /\ ~InString(sql, i)}
           end == EndOfStatement(sql)
<1>1. Len(sql) \in Nat /\ DOMAIN sql = 1..Len(sql) /\ \A i \in 1..Len(sql) : sql[i] \in T
  BY LenProperties, ElementOfSeq
<1>2. /\ end \in 1..Len(sql) + 1
      /\ end <= Len(sql) => end \in ends
      /\ \A i \in ends : end <= i
  <2>1. CASE ends = {}
    <3>1. end = Len(sql) + 1
      BY <2>1 DEF EndOfStatement
    <3> HIDE DEF end, ends
    <3> QED BY <2>1, <3>1, <1>1
  <2>2. CASE ends # {}
    <3>1. end = Min(ends)
      BY <2>2 DEF EndOfStatement
    <3>2. ends \subseteq 1..Len(sql) /\ ends \subseteq Nat
      BY <1>1
    <3> HIDE DEF end, ends
    <3>3. end \in ends /\ \A i \in ends : end <= i
      BY <2>2, <3>1, <3>2, MinIs
    <3> QED BY <3>2, <3>3, <1>1
  <2> QED BY <2>1, <2>2
<1>3. end <= Len(sql) => sql[end] = SEMICOLON /\ ~InString(sql, end)
  <2> HIDE DEF end
  <2> QED BY <1>2
<1>4. \A i \in 1..Len(sql) : i < end => ~(sql[i] = SEMICOLON /\ ~InString(sql, i))
  <2> TAKE i \in 1..Len(sql)
  <2> HIDE DEF end
  <2>1. i \in ends => end <= i
    BY <1>2
  <2>2. sql[i] = SEMICOLON /\ ~InString(sql, i) => i \in ends
    BY <1>1
  <2>3. i \in Nat /\ end \in Nat
    BY <1>1, <1>2
  <2> HIDE DEF ends
  <2> QED BY <2>1, <2>2, <2>3
<1> HIDE DEF end
<1>5. end - 1 \in Int /\ \A i \in 1..end - 1 : sql[i] \in T
  BY <1>1, <1>2
<1>6. /\ SubSeq(sql, 1, end - 1) \in Seq(T)
      /\ Len(SubSeq(sql, 1, end - 1)) = end - 1
      /\ \A i \in 1..end - 1 : SubSeq(sql, 1, end - 1)[i] = sql[i]
  <2>1. /\ SubSeq(sql, 1, end - 1) \in Seq(T)
        /\ Len(SubSeq(sql, 1, end - 1)) = IF 1 <= end - 1 THEN (end - 1) - 1 + 1 ELSE 0
        /\ \A i \in 1..(end - 1) - 1 + 1 : SubSeq(sql, 1, end - 1)[i] = sql[1 + i - 1]
    BY <1>5, SubSeqProperties
  <2>2. end \in Nat /\ (end - 1) - 1 + 1 = end - 1 /\ \A i \in 1..end - 1 : 1 + i - 1 = i
    BY <1>1, <1>2
  <2> QED BY <2>1, <2>2, <1>2, <1>1
<1>7. Statement(sql) = SubSeq(sql, 1, end - 1)
  BY DEF Statement, end
<1> QED BY <1>2, <1>3, <1>4, <1>6, <1>7, LenProperties DEF end

\* A text that begins with an INSERT whose literal is n long.
Begins(sql, n) ==
    /\ n \in Nat \ {0} /\ n + 5 <= Len(sql)
    /\ sql[1] \notin {QUOTE, SEMICOLON, JSONB}
    /\ sql[2] = QUOTE /\ sql[n + 3] = QUOTE
    /\ sql[n + 4] = JSONB /\ sql[n + 5] = SEMICOLON
    /\ \A i \in 3..n + 2 : sql[i] # JSONB
    /\ sql[n + 2] # QUOTE

\* The tokens that statements are told apart by.
LEMMA Distinct ==
    /\ QUOTE # SEMICOLON /\ QUOTE # JSONB /\ QUOTE # CLOSE
    /\ SEMICOLON # JSONB /\ SEMICOLON # CLOSE /\ JSONB # CLOSE
BY DEF QUOTE, SEMICOLON, JSONB, CLOSE

\* The apostrophes around the literal.
LEMMA QuotesAround ==
    ASSUME NEW sql, NEW n, Begins(sql, n)
    PROVE  /\ Quotes(sql, 1) = 0 /\ Quotes(sql, 2) = 1
           /\ Quotes(sql, n + 2) \in Nat
           /\ Quotes(sql, n + 3) = Quotes(sql, n + 2) + 1
           /\ Quotes(sql, n + 4) = Quotes(sql, n + 3)
           /\ Quotes(sql, n + 5) = Quotes(sql, n + 3)
<1>1. n \in Nat /\ n + 2 \in Nat /\ n + 3 \in Nat /\ n + 4 \in Nat
  BY DEF Begins
<1>2. Quotes(sql, 0 + 1) = 0
  <2>1. sql[0 + 1] # QUOTE /\ 0 \in Nat
    BY DEF Begins
  <2>2. Quotes(sql, 0) = 0
    BY QuotesZero
  <2> QED BY <2>1, <2>2, QuotesNext
<1>3. Quotes(sql, 1 + 1) = 1
  <2>1. sql[1 + 1] = QUOTE /\ 1 \in Nat
    BY DEF Begins
  <2> QED BY <2>1, <1>2, QuotesNext
<1>4. Quotes(sql, n + 2) \in Nat
  BY <1>1, QuotesType
<1>5. Quotes(sql, (n + 2) + 1) = Quotes(sql, n + 2) + 1
  <2>1. sql[(n + 2) + 1] = QUOTE
    BY <1>1 DEF Begins
  <2> QED BY <2>1, <1>1, QuotesNext
<1>6. Quotes(sql, (n + 3) + 1) = Quotes(sql, n + 3)
  <2>1. sql[(n + 3) + 1] # QUOTE
    BY <1>1, Distinct DEF Begins
  <2>2. Quotes(sql, n + 3) \in Nat
    BY <1>1, QuotesType
  <2> QED BY <2>1, <2>2, <1>1, QuotesNext
<1>7. Quotes(sql, (n + 4) + 1) = Quotes(sql, n + 4)
  <2>1. sql[(n + 4) + 1] # QUOTE
    BY <1>1, Distinct DEF Begins
  <2>2. Quotes(sql, n + 4) \in Nat
    BY <1>1, QuotesType
  <2> QED BY <2>1, <2>2, <1>1, QuotesNext
<1>8. 0 + 1 = 1 /\ 1 + 1 = 2 /\ (n + 2) + 1 = n + 3 /\ (n + 3) + 1 = n + 4 /\ (n + 4) + 1 = n + 5
  BY <1>1
<1> QED BY <1>2, <1>3, <1>4, <1>5, <1>6, <1>7, <1>8

\* Where the code splits differently from where PostgreSQL would, what comes out is
\* no statement: whatever is accepted was split where its literal ends.
LEMMA AcceptedIsWhole ==
    ASSUME NEW T, NEW sql \in Seq(T), NEW n, Begins(sql, n), Parses(Statement(sql))
    PROVE  EndOfStatement(sql) = n + 5
<1> DEFINE end == EndOfStatement(sql)
           statement == Statement(sql)
<1>1. /\ Len(sql) \in Nat /\ n \in Nat /\ n # 0 /\ n + 5 <= Len(sql)
  BY LenProperties DEF Begins
<1>2. /\ end \in 1..Len(sql) + 1
      /\ end <= Len(sql) => sql[end] = SEMICOLON /\ ~InString(sql, end)
      /\ \A i \in 1..Len(sql) : i < end => ~(sql[i] = SEMICOLON /\ ~InString(sql, i))
      /\ Len(statement) = end - 1
      /\ DOMAIN statement = 1..end - 1
      /\ \A i \in 1..end - 1 : statement[i] = sql[i]
  BY EndIs
<1> HIDE DEF end, statement
<1>3. Closing(statement) = {end - 2} /\ statement[end - 1] = JSONB
  <2>1. Len(statement) - 1 = end - 2
    BY <1>2
  <2> QED BY <2>1, <1>2 DEF Parses, statement
<1>4. end - 2 \in 1..end - 1
  <2>1. Closing(statement) \subseteq DOMAIN statement
    BY DEF Closing
  <2> QED BY <2>1, <1>2, <1>3
<1>5. end - 1 \in 1..end - 1 /\ sql[end - 1] = JSONB
  <2>1. end - 1 \in 1..end - 1
    BY <1>2, <1>4
  <2> QED BY <2>1, <1>2, <1>3
<1>6. end >= n + 5
  <2>1. end - 1 # 1 /\ end - 1 # 2 /\ end - 1 # n + 3
    BY <1>5, Distinct DEF Begins
  <2>2. ~(end - 1 \in 3..n + 2)
    BY <1>5 DEF Begins
  <2> QED BY <2>1, <2>2, <1>1, <1>2, <1>5
<1>7. SUFFICES ASSUME end > n + 5 PROVE FALSE
  BY <1>1, <1>2, <1>6 DEF end
<1>8. Quotes(sql, n + 3) % 2 = 1
  <2>1. n + 5 \in 1..Len(sql) /\ n + 5 < end
    BY <1>1, <1>2, <1>7
  <2>2. InString(sql, n + 5)
    BY <2>1, <1>2 DEF Begins
  <2> QED BY <2>2, QuotesAround DEF InString
<1>9. ~(Quotes(sql, n + 2) % 2 = 1)
  <2>1. Quotes(sql, n + 2) \in Nat /\ Quotes(sql, n + 3) = Quotes(sql, n + 2) + 1
    BY QuotesAround
  <2> QED BY <2>1, <1>8, Parity
<1> DEFINE Q == {i \in 3..n + 2 : sql[i] = QUOTE}
<1>10. Q # {}
  <2>1. SUFFICES ASSUME Q = {} PROVE FALSE
    OBVIOUS
  <2>2. \A j \in 2 + 1..n + 2 : sql[j] # QUOTE
    BY <2>1
  <2>3. Quotes(sql, n + 2) = Quotes(sql, 2)
    <3> HIDE DEF Q
    <3>1. 2 \in Nat /\ n + 2 \in Nat /\ 2 <= n + 2
      BY <1>1
    <3> QED BY <3>1, <2>2, QuotesSame
  <2>4. Quotes(sql, n + 2) = 1
    BY <2>3, QuotesAround
  <2> QED BY <2>4, <1>9
<1>11. PICK q \in Q : \A i \in Q : i <= q
  <2>1. Q \subseteq 1..n + 2
    BY <1>1
  <2>2. n + 2 \in Nat
    BY <1>1
  <2> HIDE DEF Q
  <2> QED BY <2>1, <2>2, <1>10, MaxIs
<1>12. q \in Nat /\ 3 <= q /\ q <= n + 1 /\ sql[q] = QUOTE
  <2>1. q # n + 2
    BY <1>11 DEF Begins
  <2> QED BY <2>1, <1>1, <1>11
<1>13. \A j \in q + 1..n + 2 : sql[j] # QUOTE
  <2> TAKE j \in q + 1..n + 2
  <2>1. j \in Nat /\ j \in 3..n + 2 /\ ~(j <= q)
    BY <1>1, <1>12
  <2>2. j \notin Q
    <3> HIDE DEF Q
    <3> QED BY <2>1, <1>11
  <2> QED BY <2>1, <2>2
<1>14. Quotes(sql, n + 2) = Quotes(sql, q)
  <2>1. q \in Nat /\ n + 2 \in Nat /\ q <= n + 2
    BY <1>1, <1>12
  <2> HIDE DEF Q
  <2> QED BY <2>1, <1>13, QuotesSame
<1>15. q \in Closing(statement)
  <2>1. q \in 1..end - 1 /\ q + 1 \in 1..end - 1 /\ q + 1 \in q + 1..n + 2
    BY <1>1, <1>2, <1>7, <1>12
  <2>2. q \in DOMAIN statement /\ statement[q] = QUOTE
    BY <2>1, <1>2, <1>12
  <2>3. statement[q + 1] # QUOTE
    <3> HIDE DEF Q
    <3>1. statement[q + 1] = sql[q + 1]
      BY <2>1, <1>2
    <3>2. sql[q + 1] # QUOTE
      BY <2>1, <1>13
    <3> QED BY <3>1, <3>2
  <2>4. Quotes(statement, q) = Quotes(sql, q)
    <3>1. \A j \in 1..q : statement[j] = sql[j]
      BY <2>1, <1>2
    <3> QED BY <3>1, <1>12, QuotesAgree
  <2>5. ~InString(statement, q)
    BY <2>4, <1>9, <1>14 DEF InString
  <2> QED BY <2>2, <2>3, <2>5 DEF Closing
<1>16. q = end - 2
  <2> HIDE DEF Q
  <2> QED BY <1>15, <1>3
<1> QED BY <1>16, <1>12, <1>1, <1>2, <1>7

\* Without an apostrophe in the literal the statement is split where it ends, and parses.
LEMMA PlainParses ==
    ASSUME NEW T, NEW sql \in Seq(T), NEW n, Begins(sql, n),
           \A i \in 3..n + 2 : sql[i] # QUOTE
    PROVE  EndOfStatement(sql) = n + 5 /\ Parses(Statement(sql))
<1> DEFINE end == EndOfStatement(sql)
           statement == Statement(sql)
<1>1. /\ Len(sql) \in Nat /\ n \in Nat /\ n # 0 /\ n + 5 <= Len(sql)
  BY LenProperties DEF Begins
<1>2. /\ end \in 1..Len(sql) + 1
      /\ end <= Len(sql) => sql[end] = SEMICOLON /\ ~InString(sql, end)
      /\ \A i \in 1..Len(sql) : i < end => ~(sql[i] = SEMICOLON /\ ~InString(sql, i))
      /\ Len(statement) = end - 1
      /\ DOMAIN statement = 1..end - 1
      /\ \A i \in 1..end - 1 : statement[i] = sql[i]
  BY EndIs
<1> HIDE DEF end, statement
<1>3. \A i \in 2..n + 2 : Quotes(sql, i) = 1
  <2> TAKE i \in 2..n + 2
  <2>1. i \in Nat /\ 2 <= i /\ \A j \in 2 + 1..i : sql[j] # QUOTE
    BY <1>1
  <2> QED BY <2>1, QuotesSame, QuotesAround
<1>4. Quotes(sql, n + 3) = 2 /\ Quotes(sql, n + 4) = 2 /\ Quotes(sql, n + 5) = 2
  <2>1. Quotes(sql, n + 2) = 1
    BY <1>1, <1>3
  <2> QED BY <2>1, QuotesAround
<1>5. ~InString(sql, n + 5) /\ ~InString(sql, n + 3) /\ \A i \in 2..n + 2 : InString(sql, i)
  BY <1>3, <1>4 DEF InString
<1>6. end <= n + 5
  <2>1. n + 5 \in 1..Len(sql)
    BY <1>1
  <2>2. ~(n + 5 < end)
    BY <2>1, <1>2, <1>5 DEF Begins
  <2> QED BY <2>2, <1>1, <1>2
<1>7. end = n + 5
  <2>1. sql[end] = SEMICOLON /\ ~InString(sql, end)
    BY <1>1, <1>2, <1>6
  <2>2. end # 1 /\ end # n + 3 /\ end # n + 4
    BY <2>1, Distinct DEF Begins
  <2>3. ~(end \in 2..n + 2)
    BY <2>1, <1>5
  <2> QED BY <2>2, <2>3, <1>1, <1>2, <1>6
<1>8. \A i \in 1..n + 4 : statement[i] = sql[i] /\ (InString(statement, i) <=> InString(sql, i))
  <2> TAKE i \in 1..n + 4
  <2>1. i \in Nat /\ \A j \in 1..i : statement[j] = sql[j]
    BY <1>1, <1>2, <1>7
  <2>2. Quotes(statement, i) = Quotes(sql, i)
    BY <2>1, QuotesAgree
  <2> QED BY <2>1, <2>2 DEF InString
<1>9. Len(statement) = n + 4 /\ DOMAIN statement = 1..n + 4
  BY <1>1, <1>2, <1>7
<1>10. n + 3 \in Closing(statement)
  <2>1. n + 3 \in 1..n + 4 /\ n + 4 \in 1..n + 4 /\ (n + 3) + 1 = n + 4
    BY <1>1
  <2>2. statement[n + 3] = QUOTE /\ ~InString(statement, n + 3)
    BY <2>1, <1>5, <1>8 DEF Begins
  <2>3. statement[n + 4] # QUOTE
    BY <2>1, <1>8, Distinct DEF Begins
  <2> QED BY <2>1, <2>2, <2>3, <1>9 DEF Closing
<1>11. ASSUME NEW i \in Closing(statement) PROVE i = n + 3
  <2>1. i \in 1..n + 4 /\ statement[i] = QUOTE /\ ~InString(statement, i)
    BY <1>9 DEF Closing
  <2>2. sql[i] = QUOTE /\ ~InString(sql, i)
    BY <2>1, <1>8
  <2>3. i # 1 /\ i # n + 4
    BY <2>2, Distinct DEF Begins
  <2>4. ~(i \in 2..n + 2)
    BY <2>2, <1>5
  <2> QED BY <2>1, <2>3, <2>4, <1>1
<1>12. Closing(statement) = {n + 3}
  BY <1>10, <1>11
<1>13. statement[n + 4] = JSONB
  <2>1. n + 4 \in 1..n + 4
    BY <1>1
  <2> QED BY <2>1, <1>8 DEF Begins
<1>14. Len(statement) - 1 = n + 3
  BY <1>1, <1>9
<1>15. Parses(statement)
  BY <1>9, <1>12, <1>13, <1>14 DEF Parses
<1> QED BY <1>7, <1>15 DEF end, statement

-----------------------------------------------------------------------------
(* Rows as text *)

AnyRow == UNION {Row(t) : t \in Tables}

Token ==
    Chars \cup {CLOSE, JSONB, <<"truncate">>} \cup {<<"insert", t>> : t \in Tables}
        \cup {<<"row", r.id, r.of>> : r \in AnyRow}

\* What a text of a row is made of is nothing that the dump puts around it.
LEMMA CharFacts ==
    \A c \in Chars : c[1] # "row" /\ c # CLOSE /\ c # JSONB /\ c \in Token
BY DEF Chars, QUOTE, SEMICOLON, CLOSE, JSONB, Token

\* The token that a row starts with.
LEMMA RowTokenFacts ==
    ASSUME NEW id, NEW of
    PROVE  /\ <<"row", id, of>>[1] = "row" /\ <<"row", id, of>>[2] = id /\ <<"row", id, of>>[3] = of
           /\ <<"row", id, of>> \notin {QUOTE, SEMICOLON, CLOSE, JSONB}
BY DEF QUOTE, SEMICOLON, CLOSE, JSONB

\* The parts of a row.
LEMMA RowFacts ==
    ASSUME NEW r \in AnyRow
    PROVE  /\ r.text \in Seq(Chars) /\ Len(r.text) \in Nat
           /\ \A k \in 1..Len(r.text) : r.text[k] \in Chars
           /\ r = [id |-> r.id, of |-> r.of, text |-> r.text]
           /\ \A text : [r EXCEPT !.text = text] = [id |-> r.id, of |-> r.of, text |-> text]
<1>1. PICK t \in Tables : r \in Row(t)
  BY DEF AnyRow
<1>2. r.text \in Seq(Chars)
  BY <1>1 DEF Row
<1>3. /\ r = [id |-> r.id, of |-> r.of, text |-> r.text]
      /\ \A text : [r EXCEPT !.text = text] = [id |-> r.id, of |-> r.of, text |-> text]
  BY <1>1 DEF Row
<1>4. Len(r.text) \in Nat /\ \A k \in 1..Len(r.text) : r.text[k] \in Chars
  BY <1>2, LenProperties, ElementOfSeq
<1> QED BY <1>2, <1>3, <1>4

\* A row as JSON: its token, its text, its end.
LEMMA JsonIs ==
    ASSUME NEW r \in AnyRow
    PROVE  /\ Json(r) \in Seq(Token) /\ Len(Json(r)) = Len(r.text) + 2
           /\ Json(r)[1] = <<"row", r.id, r.of>>
           /\ \A k \in 1..Len(r.text) : Json(r)[k + 1] = r.text[k]
           /\ Json(r)[Len(r.text) + 2] = CLOSE
<1>1. PICK text : text = r.text
  OBVIOUS
<1>2. PICK head : head = <<"row", r.id, r.of>>
  OBVIOUS
<1>3. head \in Token /\ CLOSE \in Token
  BY <1>2 DEF Token
<1>4. text \in Seq(Token) /\ Len(text) \in Nat
  <2>1. Chars \subseteq Token
    BY DEF Token
  <2> QED BY <1>1, <2>1, RowFacts, SeqMonotonic
<1>5. Json(r) = (<<head>> \o text) \o <<CLOSE>>
  BY <1>1, <1>2 DEF Json
<1>6. <<head>> \in Seq(Token) /\ Len(<<head>>) = 1 /\ <<head>>[1] = head
      /\ <<CLOSE>> \in Seq(Token) /\ Len(<<CLOSE>>) = 1 /\ <<CLOSE>>[1] = CLOSE
  BY <1>3
<1>7. PICK start : start = <<head>> \o text
  OBVIOUS
<1>8. /\ start \in Seq(Token) /\ Len(start) = Len(text) + 1
      /\ start[1] = head /\ \A k \in 1..Len(text) : start[k + 1] = text[k]
  <2>1. /\ start \in Seq(Token) /\ Len(start) = Len(<<head>>) + Len(text)
        /\ \A i \in 1..Len(<<head>>) + Len(text) :
              start[i] = IF i <= Len(<<head>>) THEN <<head>>[i] ELSE text[i - Len(<<head>>)]
    BY <1>4, <1>6, <1>7, ConcatProperties
  <2>2. \A k \in 1..Len(text) : k + 1 \in 1..1 + Len(text) /\ ~(k + 1 <= 1) /\ (k + 1) - 1 = k
    BY <1>4
  <2> QED BY <2>1, <2>2, <1>4, <1>6
<1>9. PICK whole : whole = start \o <<CLOSE>>
  OBVIOUS
<1>10. /\ whole \in Seq(Token) /\ Len(whole) = Len(text) + 2
       /\ \A i \in 1..Len(text) + 1 : whole[i] = start[i]
       /\ whole[Len(text) + 2] = CLOSE
  <2>1. /\ whole \in Seq(Token) /\ Len(whole) = Len(start) + Len(<<CLOSE>>)
        /\ \A i \in 1..Len(start) + Len(<<CLOSE>>) :
              whole[i] = IF i <= Len(start) THEN start[i] ELSE <<CLOSE>>[i - Len(start)]
    BY <1>6, <1>8, <1>9, ConcatProperties
  <2>2. \A i \in 1..Len(text) + 1 : i \in 1..Len(text) + 2 /\ i <= Len(text) + 1
    BY <1>4
  <2>3. Len(text) + 2 \in 1..Len(text) + 2 /\ ~(Len(text) + 2 <= Len(text) + 1)
        /\ (Len(text) + 2) - (Len(text) + 1) = 1
    BY <1>4
  <2> QED BY <2>1, <2>2, <2>3, <1>4, <1>6, <1>8
<1>11. Json(r) = whole
  BY <1>5, <1>7, <1>9
<1>12. \A k \in 1..Len(text) : whole[k + 1] = text[k]
  <2>1. \A k \in 1..Len(text) : k + 1 \in 1..Len(text) + 1
    BY <1>4
  <2> QED BY <2>1, <1>8, <1>10
<1>13. whole[1] = head
  <2>1. 1 \in 1..Len(text) + 1
    BY <1>4
  <2> QED BY <2>1, <1>8, <1>10
<1> QED BY <1>1, <1>2, <1>10, <1>11, <1>12, <1>13

\* What a restore makes of a row.
Back(r) == [r EXCEPT !.text = Unescaped(@)]

RowAt(json) == {i \in DOMAIN json : json[i][1] = "row"}
RowFrom(json, i) ==
    [id |-> json[i][2], of |-> json[i][3],
     text |-> Unescaped(SubSeq(json, i + 1, CloseOf(json, i) - 1))]

\* Every object ends.
Closed(json) == \A i \in RowAt(json) : \E j \in DOMAIN json : j > i /\ json[j] = CLOSE

\* The end of a row in a literal is after its token, with no other end between.
LEMMA CloseIs ==
    ASSUME NEW T, NEW json \in Seq(T), NEW i \in DOMAIN json, NEW c \in DOMAIN json,
           c > i, json[c] = CLOSE, \A j \in i + 1..c - 1 : json[j] # CLOSE
    PROVE  CloseOf(json, i) = c
<1> DEFINE C == {j \in DOMAIN json : j > i /\ json[j] = CLOSE}
<1>1. DOMAIN json = 1..Len(json) /\ Len(json) \in Nat
  BY LenProperties
<1>2. C \subseteq Nat /\ c \in C
  BY <1>1
<1>3. Min(C) \in C /\ \A j \in C : Min(C) <= j
  <2> HIDE DEF C
  <2> QED BY <1>2, MinIs
<1>4. CloseOf(json, i) = Min(C)
  BY DEF CloseOf
<1> DEFINE m == Min(C)
<1> HIDE DEF m
<1>5. m \in 1..Len(json) /\ m > i /\ json[m] = CLOSE /\ m <= c
  BY <1>1, <1>2, <1>3 DEF m
<1>6. ~(m \in i + 1..c - 1)
  BY <1>5
<1>7. m = c
  BY <1>1, <1>5, <1>6
<1> QED BY <1>4, <1>7 DEF m

\* It does not depend on what comes after it.
LEMMA CloseFirst ==
    ASSUME NEW T, NEW json \in Seq(T), Closed(json), NEW i \in RowAt(json)
    PROVE  LET c == CloseOf(json, i)
           IN  /\ c \in DOMAIN json /\ c > i /\ json[c] = CLOSE
               /\ \A j \in i + 1..c - 1 : json[j] # CLOSE
<1> DEFINE C == {j \in DOMAIN json : j > i /\ json[j] = CLOSE}
<1>1. DOMAIN json = 1..Len(json) /\ Len(json) \in Nat
  BY LenProperties
<1>2. C \subseteq Nat /\ C # {}
  BY <1>1 DEF Closed
<1>3. Min(C) \in C /\ \A j \in C : Min(C) <= j
  <2> HIDE DEF C
  <2> QED BY <1>2, MinIs
<1>4. CloseOf(json, i) = Min(C)
  BY DEF CloseOf
<1> DEFINE c == Min(C)
<1> HIDE DEF c
<1>5. c \in DOMAIN json /\ c > i /\ json[c] = CLOSE /\ \A j \in C : c <= j
  BY <1>3 DEF c
<1>6. i \in 1..Len(json)
  BY <1>1 DEF RowAt
<1>7. ASSUME NEW j \in i + 1..c - 1, json[j] = CLOSE PROVE FALSE
  <2>1. j \in DOMAIN json /\ j > i /\ ~(c <= j)
    BY <1>1, <1>5, <1>6
  <2> QED BY <2>1, <1>5, <1>7
<1> QED BY <1>4, <1>5, <1>7 DEF c

\* An object more.
LEMMA ObjectMore ==
    ASSUME NEW x \in Seq(Token), Closed(x), NEW r \in AnyRow
    PROVE  LET y == x \o Json(r)
           IN  /\ y \in Seq(Token) /\ Len(y) = Len(x) + Len(r.text) + 2
               /\ \A i \in 1..Len(x) : y[i] = x[i]
               /\ y[Len(x) + 1] = <<"row", r.id, r.of>>
               /\ \A k \in 1..Len(r.text) : y[Len(x) + 1 + k] = r.text[k]
               /\ y[Len(x) + Len(r.text) + 2] = CLOSE
<1> DEFINE y == x \o Json(r)
           n == Len(x)
           m == Len(r.text)
<1>1. n \in Nat /\ m \in Nat
  BY RowFacts, LenProperties
<1>2. PICK json : json = Json(r)
  OBVIOUS
<1>3. /\ json \in Seq(Token) /\ Len(json) = m + 2 /\ json[1] = <<"row", r.id, r.of>>
      /\ \A k \in 1..m : json[k + 1] = r.text[k]
      /\ json[m + 2] = CLOSE
  BY <1>2, JsonIs
<1>4. /\ y \in Seq(Token) /\ Len(y) = n + (m + 2)
      /\ \A i \in 1..n + (m + 2) : y[i] = IF i <= n THEN x[i] ELSE json[i - n]
  <2>1. /\ x \o json \in Seq(Token) /\ Len(x \o json) = Len(x) + Len(json)
        /\ \A i \in 1..Len(x) + Len(json) : (x \o json)[i] = IF i <= Len(x) THEN x[i] ELSE json[i - Len(x)]
    BY <1>3, ConcatProperties
  <2>2. y = x \o json
    BY <1>2
  <2> HIDE DEF y, m
  <2> QED BY <2>1, <2>2, <1>3
<1> HIDE DEF y, n, m
<1>5. \A i \in 1..n : y[i] = x[i]
  BY <1>1, <1>4
<1>6. \A k \in 1..m + 2 : y[n + k] = json[k]
  <2> TAKE k \in 1..m + 2
  <2>1. n + k \in 1..n + (m + 2) /\ ~(n + k <= n) /\ (n + k) - n = k
    BY <1>1
  <2> QED BY <2>1, <1>4
<1>7. y[n + 1] = <<"row", r.id, r.of>>
  <2>1. 1 \in 1..m + 2
    BY <1>1
  <2> QED BY <2>1, <1>3, <1>6
<1>8. \A k \in 1..m : y[n + 1 + k] = r.text[k]
  <2> TAKE k \in 1..m
  <2>1. k + 1 \in 1..m + 2 /\ n + (k + 1) = n + 1 + k
    BY <1>1
  <2> QED BY <2>1, <1>3, <1>6
<1>9. y[n + m + 2] = CLOSE
  <2>1. m + 2 \in 1..m + 2 /\ n + (m + 2) = n + m + 2
    BY <1>1
  <2> QED BY <2>1, <1>3, <1>6
<1>10. n + (m + 2) = n + m + 2
  BY <1>1
<1> QED BY <1>4, <1>5, <1>7, <1>8, <1>9, <1>10 DEF y, n, m

\* With the JSON of one row more, a literal reads back as one row more.
LEMMA RowsMore ==
    ASSUME NEW x \in Seq(Token), Closed(x), NEW r \in AnyRow
    PROVE  /\ Closed(x \o Json(r))
           /\ RowsOf(x \o Json(r)) = RowsOf(x) \cup {Back(r)}
<1> DEFINE y == x \o Json(r)
           n == Len(x)
           m == Len(r.text)
           end == n + m + 2
<1>1. n \in Nat /\ m \in Nat /\ end \in Nat /\ DOMAIN x = 1..n
  BY RowFacts, LenProperties
<1>2. /\ y \in Seq(Token) /\ Len(y) = end /\ \A i \in 1..n : y[i] = x[i]
      /\ y[n + 1] = <<"row", r.id, r.of>> /\ \A k \in 1..m : y[n + 1 + k] = r.text[k]
      /\ y[end] = CLOSE
  BY ObjectMore
<1> HIDE DEF y, n, m
<1>3. DOMAIN y = 1..end
  BY <1>2, LenProperties
<1>4. \A i \in n + 2..n + m + 1 : y[i] = r.text[i - n - 1] /\ y[i] \in Chars
  <2> TAKE i \in n + 2..n + m + 1
  <2>1. i - n - 1 \in 1..m /\ n + 1 + (i - n - 1) = i
    BY <1>1
  <2>2. r.text[i - n - 1] \in Chars
    BY <2>1, RowFacts DEF m
  <2> QED BY <2>1, <2>2, <1>2
<1>5. RowAt(y) = RowAt(x) \cup {n + 1}
  <2>1. ASSUME NEW i \in RowAt(x) PROVE i \in RowAt(y)
    <3>1. i \in 1..n /\ x[i][1] = "row"
      BY <1>1 DEF RowAt
    <3>2. i \in 1..end
      BY <3>1, <1>1
    <3> QED BY <3>1, <3>2, <1>2, <1>3 DEF RowAt
  <2>2. n + 1 \in RowAt(y)
    <3>1. n + 1 \in 1..end
      BY <1>1
    <3> QED BY <3>1, <1>2, <1>3, RowTokenFacts DEF RowAt
  <2>3. ASSUME NEW i \in RowAt(y), i # n + 1 PROVE i \in RowAt(x)
    <3>1. i \in 1..end /\ y[i][1] = "row"
      BY <1>3 DEF RowAt
    <3>2. i # end
      BY <3>1, <1>2 DEF CLOSE
    <3>3. ~(i \in n + 2..n + m + 1)
      BY <3>1, <1>4, CharFacts
    <3>4. i \in 1..n
      BY <3>1, <3>2, <3>3, <2>3, <1>1
    <3> QED BY <3>1, <3>4, <1>1, <1>2 DEF RowAt
  <2> QED BY <2>1, <2>2, <2>3
<1>6. ASSUME NEW i \in RowAt(x) PROVE CloseOf(y, i) = CloseOf(x, i) /\ RowFrom(y, i) = RowFrom(x, i)
  <2> DEFINE c == CloseOf(x, i)
  <2>1. /\ c \in 1..n /\ c > i /\ x[c] = CLOSE
        /\ \A j \in i + 1..c - 1 : x[j] # CLOSE
    BY <1>1, CloseFirst
  <2>2. i \in 1..n
    BY <1>1 DEF RowAt
  <2> HIDE DEF c
  <2>3. \A j \in i + 1..c - 1 : j \in 1..n /\ y[j] = x[j]
    BY <2>1, <2>2, <1>1, <1>2
  <2>4. c \in DOMAIN y /\ i \in DOMAIN y /\ y[c] = CLOSE /\ y[i] = x[i]
    <3>1. c \in 1..end /\ i \in 1..end
      BY <2>1, <2>2, <1>1
    <3> QED BY <3>1, <2>1, <2>2, <1>2, <1>3
  <2>5. \A j \in i + 1..c - 1 : y[j] # CLOSE
    BY <2>1, <2>3
  <2>6. CloseOf(y, i) = c
    BY <2>1, <2>4, <2>5, <1>2, CloseIs
  <2>7. SubSeq(y, i + 1, c - 1) = SubSeq(x, i + 1, c - 1)
    <3>1. i + 1 \in Int /\ c - 1 \in Int
      BY <2>1, <2>2, <1>1
    <3>2. \A j \in i + 1..c - 1 : x[j] \in Token /\ y[j] \in Token
      BY <2>3, ElementOfSeq DEF n
    <3>3. /\ SubSeq(x, i + 1, c - 1) \in Seq(Token)
          /\ Len(SubSeq(x, i + 1, c - 1)) = IF i + 1 <= c - 1 THEN (c - 1) - (i + 1) + 1 ELSE 0
          /\ \A k \in 1..(c - 1) - (i + 1) + 1 : SubSeq(x, i + 1, c - 1)[k] = x[i + 1 + k - 1]
      BY <3>1, <3>2, SubSeqProperties
    <3>4. /\ SubSeq(y, i + 1, c - 1) \in Seq(Token)
          /\ Len(SubSeq(y, i + 1, c - 1)) = IF i + 1 <= c - 1 THEN (c - 1) - (i + 1) + 1 ELSE 0
          /\ \A k \in 1..(c - 1) - (i + 1) + 1 : SubSeq(y, i + 1, c - 1)[k] = y[i + 1 + k - 1]
      BY <3>1, <3>2, SubSeqProperties
    <3> DEFINE sx == SubSeq(x, i + 1, c - 1)
               sy == SubSeq(y, i + 1, c - 1)
    <3>5. \A k \in 1..(c - 1) - (i + 1) + 1 : i + 1 + k - 1 \in i + 1..c - 1
      BY <2>1, <2>2, <1>1
    <3>6. \A k \in 1..(c - 1) - (i + 1) + 1 : sy[k] = sx[k]
      BY <3>3, <3>4, <3>5, <2>3
    <3>7. Len(sx) = (c - 1) - (i + 1) + 1
      BY <2>1, <2>2, <1>1, <3>3
    <3>8. sx \in Seq(Token) /\ sy \in Seq(Token) /\ Len(sx) = Len(sy)
      BY <3>3, <3>4
    <3> HIDE DEF sx, sy
    <3>9. sy = sx
      BY <3>6, <3>7, <3>8, SeqEqual
    <3> QED BY <3>9 DEF sx, sy
  <2> QED BY <2>4, <2>6, <2>7 DEF RowFrom, c
<1>7. CloseOf(y, n + 1) = end
  <2>1. n + 1 \in DOMAIN y /\ end \in DOMAIN y /\ end > n + 1
    BY <1>1, <1>3
  <2>2. \A j \in (n + 1) + 1..end - 1 : y[j] # CLOSE
    <3> TAKE j \in (n + 1) + 1..end - 1
    <3>1. j \in n + 2..n + m + 1
      BY <1>1
    <3> QED BY <3>1, <1>4, CharFacts
  <2> HIDE DEF end
  <2> QED BY <2>1, <2>2, <1>2, CloseIs
<1>8. SubSeq(y, n + 2, end - 1) = r.text
  <2>1. n + 2 \in Int /\ end - 1 \in Int /\ end - 1 = n + m + 1
    BY <1>1
  <2>2. \A j \in n + 2..end - 1 : y[j] \in Chars
    BY <2>1, <1>4
  <2>3. /\ SubSeq(y, n + 2, end - 1) \in Seq(Chars)
        /\ Len(SubSeq(y, n + 2, end - 1)) = IF n + 2 <= end - 1 THEN (end - 1) - (n + 2) + 1 ELSE 0
        /\ \A k \in 1..(end - 1) - (n + 2) + 1 : SubSeq(y, n + 2, end - 1)[k] = y[n + 2 + k - 1]
    BY <2>1, <2>2, SubSeqProperties
  <2> DEFINE s == SubSeq(y, n + 2, end - 1)
  <2>4. Len(s) = m
    BY <1>1, <2>3
  <2>5. \A k \in 1..m : s[k] = r.text[k]
    <3> TAKE k \in 1..m
    <3>1. k \in 1..(end - 1) - (n + 2) + 1 /\ n + 2 + k - 1 = n + 1 + k
      BY <1>1
    <3> QED BY <3>1, <2>3, <1>2
  <2>6. s \in Seq(Chars) /\ r.text \in Seq(Chars) /\ Len(s) = Len(r.text)
    BY <2>3, <2>4, RowFacts DEF m
  <2> HIDE DEF s
  <2>7. s = r.text
    BY <2>4, <2>5, <2>6, SeqEqual
  <2> QED BY <2>7 DEF s
<1>9. RowFrom(y, n + 1) = Back(r)
  <2>1. RowFrom(y, n + 1) = [id |-> y[n + 1][2], of |-> y[n + 1][3], text |-> Unescaped(r.text)]
    <3>1. (n + 1) + 1 = n + 2
      BY <1>1
    <3> QED BY <3>1, <1>7, <1>8 DEF RowFrom
  <2>2. y[n + 1][2] = r.id /\ y[n + 1][3] = r.of
    BY <1>2, RowTokenFacts
  <2>3. Back(r) = [id |-> r.id, of |-> r.of, text |-> Unescaped(r.text)]
    BY RowFacts DEF Back
  <2> QED BY <2>1, <2>2, <2>3
<1>10. Closed(y)
  <2> SUFFICES ASSUME NEW i \in RowAt(y) PROVE \E j \in DOMAIN y : j > i /\ y[j] = CLOSE
    BY DEF Closed
  <2>1. i # end /\ i \in 1..end
    BY <1>2, <1>3 DEF RowAt, CLOSE
  <2>2. end \in DOMAIN y /\ end > i
    BY <2>1, <1>1, <1>3
  <2> HIDE DEF end
  <2> QED BY <2>2, <1>2
<1>11. RowsOf(y) = RowsOf(x) \cup {Back(r)}
  <2>1. RowsOf(y) = {RowFrom(y, i) : i \in RowAt(y)}
    BY DEF RowsOf, RowFrom, RowAt
  <2>2. RowsOf(x) = {RowFrom(x, i) : i \in RowAt(x)}
    BY DEF RowsOf, RowFrom, RowAt
  <2> QED BY <2>1, <2>2, <1>5, <1>6, <1>9
<1> QED BY <1>10, <1>11 DEF y

-----------------------------------------------------------------------------
(* The rows of a literal *)

Objects(s) == FlattenSeq([i \in DOMAIN s |-> Json(s[i])])

Plain(r) == QUOTE \notin Range(r.text)

\* The literal is read back row by row; nothing in it but texts has an apostrophe.
ReadsBack(s, json) ==
    /\ json \in Seq(Token) /\ Closed(json)
    /\ RowsOf(json) = {Back(s[i]) : i \in 1..Len(s)}
    /\ \A i \in 1..Len(json) : json[i] # JSONB
    /\ s # <<>> => Len(json) # 0 /\ json[Len(json)] # QUOTE
    /\ (\A i \in 1..Len(s) : Plain(s[i])) => \A i \in 1..Len(json) : json[i] # QUOTE

\* The rows of a literal, one by one, as JSON.
LEMMA JsonsType ==
    ASSUME NEW s \in Seq(AnyRow)
    PROVE  /\ [i \in DOMAIN s |-> Json(s[i])] \in Seq(Seq(Token))
           /\ Len([i \in DOMAIN s |-> Json(s[i])]) = Len(s)
<1>1. DOMAIN s = 1..Len(s) /\ Len(s) \in Nat /\ \A i \in 1..Len(s) : s[i] \in AnyRow
  BY LenProperties, ElementOfSeq
<1>2. \A i \in 1..Len(s) : Json(s[i]) \in Seq(Token)
  BY <1>1, JsonIs
<1> DEFINE t == [i \in DOMAIN s |-> Json(s[i])]
<1>3. t = [i \in 1..Len(s) |-> Json(s[i])]
  BY <1>1
<1>4. t \in [1..Len(s) -> Seq(Token)]
  BY <1>2, <1>3
<1> HIDE DEF t
<1>5. t \in Seq(Seq(Token)) /\ Len(t) = Len(s)
  BY <1>1, <1>4
<1> QED BY <1>5 DEF t

\* The literal of one row more is the literal and the JSON of that row.
LEMMA ObjectsAppend ==
    ASSUME NEW u \in Seq(AnyRow), NEW r \in AnyRow
    PROVE  /\ Objects(u) \in Seq(Token)
           /\ Objects(Append(u, r)) = Objects(u) \o Json(r)
<1> DEFINE s == Append(u, r)
           parts(v) == [i \in DOMAIN v |-> Json(v[i])]
<1>1. /\ s \in Seq(AnyRow) /\ Len(s) = Len(u) + 1 /\ s[Len(u) + 1] = r
      /\ \A i \in 1..Len(u) : s[i] = u[i]
  BY AppendProperties
<1>2. Len(u) \in Nat /\ DOMAIN u = 1..Len(u) /\ DOMAIN s = 1..Len(u) + 1
  BY <1>1, LenProperties
<1> HIDE DEF s
<1>3. /\ parts(u) \in Seq(Seq(Token)) /\ parts(s) \in Seq(Seq(Token))
      /\ Len(parts(u)) = Len(u) /\ Len(parts(s)) = Len(u) + 1
  BY <1>1, JsonsType
<1>4. \A i \in 1..Len(u) : parts(s)[i] = parts(u)[i]
  BY <1>1, <1>2
<1>5. parts(s)[Len(u) + 1] = Json(r)
  BY <1>1, <1>2
<1> DEFINE ps == parts(s)
           pu == parts(u)
<1>6. Objects(s) = FlattenSeq(ps) /\ Objects(u) = FlattenSeq(pu)
  BY DEF Objects
<1> HIDE DEF parts, ps, pu
<1>7. /\ pu \in Seq(Seq(Token)) /\ ps \in Seq(Seq(Token)) /\ Len(ps) = Len(pu) + 1
      /\ \A i \in 1..Len(pu) : ps[i] = pu[i]
      /\ ps[Len(ps)] = Json(r)
  BY <1>3, <1>4, <1>5 DEF ps, pu
<1>8. FlattenSeq(ps) = FlattenSeq(pu) \o ps[Len(ps)] /\ FlattenSeq(pu) \in Seq(Token)
  BY <1>7, FlattenLast, FlattenType
<1> QED BY <1>6, <1>7, <1>8 DEF s

\* A literal reads back as the rows it was written from, in any number.
LEMMA ObjectsReadBack ==
    ASSUME NEW s \in Seq(AnyRow)
    PROVE  ReadsBack(s, Objects(s))
<1> DEFINE Wrong(n) == \E v \in Seq(AnyRow) : Len(v) = n /\ ~ReadsBack(v, Objects(v))
           Lens == {n \in Nat : Wrong(n)}
<1>1. SUFFICES ASSUME Lens # {} PROVE FALSE
  <2>1. Len(s) \in Nat /\ (~ReadsBack(s, Objects(s)) => Len(s) \in Lens)
    BY LenProperties
  <2> HIDE DEF Lens
  <2> QED BY <2>1
<1>2. PICK n \in Lens : \A k \in Lens : n <= k
  <2>1. Lens \subseteq Nat
    OBVIOUS
  <2> HIDE DEF Lens
  <2> QED BY <1>1, <2>1, LeastNatural
<1>3. PICK v \in Seq(AnyRow) : Len(v) = n /\ ~ReadsBack(v, Objects(v))
  BY <1>2
<1>4. CASE v = <<>>
  <2> DEFINE t == [i \in DOMAIN v |-> Json(v[i])]
  <2>1. Len(t) = 0 /\ t \in Seq(Seq(Token))
    BY <1>4, JsonsType, EmptySeq
  <2> HIDE DEF t
  <2>2. t = <<>>
    BY <2>1
  <2>3. Objects(v) = <<>>
    BY <2>1, <2>2, FlattenEmpty DEF Objects, t
  <2>4. <<>> \in Seq(Token) /\ Len(<<>>) = 0 /\ DOMAIN <<>> = {}
    BY EmptySeq
  <2>5. RowAt(<<>>) = {}
    BY <2>4 DEF RowAt
  <2>6. RowsOf(<<>>) = {} /\ Closed(<<>>)
    BY <2>5 DEF RowsOf, RowAt, Closed
  <2>7. {Back(v[i]) : i \in 1..Len(v)} = {} /\ 1..Len(<<>>) = {}
    BY <1>4, <2>4
  <2>8. ReadsBack(v, <<>>)
    BY <1>4, <2>4, <2>6, <2>7 DEF ReadsBack
  <2> QED BY <2>3, <2>8, <1>3
<1>5. CASE v # <<>>
  <2>1. PICK u \in Seq(AnyRow), r \in AnyRow : v = Append(u, r)
    BY <1>5, SequenceEmptyOrAppend
  <2>2. /\ Len(v) = Len(u) + 1 /\ v[Len(u) + 1] = r /\ Len(u) \in Nat
        /\ \A i \in 1..Len(u) : v[i] = u[i]
    BY <2>1, AppendProperties, LenProperties
  <2>3. ReadsBack(u, Objects(u))
    <3>1. Len(u) \notin Lens
      <4>1. ~(n <= Len(u)) BY <1>3, <2>2
      <4> HIDE DEF Lens
      <4> QED BY <4>1, <1>2
    <3>2. ~Wrong(Len(u))
      <4> HIDE DEF Wrong
      <4> QED BY <3>1, <2>2
    <3> QED BY <3>2
  <2> DEFINE x == Objects(u)
             y == Objects(v)
  <2>4. y = x \o Json(r)
    BY <2>1, ObjectsAppend
  <2> HIDE DEF x, y
  <2>5. /\ x \in Seq(Token) /\ Closed(x) /\ RowsOf(x) = {Back(u[i]) : i \in 1..Len(u)}
        /\ \A i \in 1..Len(x) : x[i] # JSONB
        /\ (\A i \in 1..Len(u) : Plain(u[i])) => \A i \in 1..Len(x) : x[i] # QUOTE
    BY <2>3 DEF ReadsBack, x
  <2>6. /\ y \in Seq(Token) /\ Len(y) = Len(x) + Len(r.text) + 2
        /\ \A i \in 1..Len(x) : y[i] = x[i]
        /\ y[Len(x) + 1] = <<"row", r.id, r.of>>
        /\ \A k \in 1..Len(r.text) : y[Len(x) + 1 + k] = r.text[k]
        /\ y[Len(x) + Len(r.text) + 2] = CLOSE
    BY <2>4, <2>5, ObjectMore
  <2>7. Closed(y) /\ RowsOf(y) = RowsOf(x) \cup {Back(r)}
    BY <2>4, <2>5, RowsMore
  <2>8. Len(x) \in Nat /\ Len(r.text) \in Nat
    BY <2>5, LenProperties, RowFacts
  <2>9. RowsOf(y) = {Back(v[i]) : i \in 1..Len(v)}
    <3>1. {Back(v[i]) : i \in 1..Len(v)} = {Back(u[i]) : i \in 1..Len(u)} \cup {Back(r)}
      <4>1. \A i \in 1..Len(v) : i = Len(u) + 1 \/ i \in 1..Len(u)
        BY <2>2
      <4>2. Len(u) + 1 \in 1..Len(v) /\ \A i \in 1..Len(u) : i \in 1..Len(v)
        BY <2>2
      <4> QED BY <4>1, <4>2, <2>2
    <3> QED BY <3>1, <2>5, <2>7
  <2>10. ASSUME NEW i \in 1..Len(y)
         PROVE  \/ i \in 1..Len(x) /\ y[i] = x[i]
                \/ i = Len(x) + 1 /\ y[i] = <<"row", r.id, r.of>>
                \/ \E k \in 1..Len(r.text) : y[i] = r.text[k]
                \/ y[i] = CLOSE
    <3>1. CASE i \in Len(x) + 2..Len(x) + Len(r.text) + 1
      <4>1. i - Len(x) - 1 \in 1..Len(r.text) /\ Len(x) + 1 + (i - Len(x) - 1) = i
        BY <3>1, <2>8
      <4> QED BY <4>1, <2>6
    <3>2. CASE i \notin Len(x) + 2..Len(x) + Len(r.text) + 1
      <4> DEFINE a == Len(x)
                 b == Len(r.text)
      <4>1. i \in 1..a + b + 2 /\ i \notin a + 2..a + b + 1 /\ a \in Nat /\ b \in Nat
        BY <3>2, <2>6, <2>8
      <4>2. i \in 1..a \/ i = a + 1 \/ i = a + b + 2
        <5> HIDE DEF a, b
        <5> QED BY <4>1
      <4> QED BY <4>2, <2>6
    <3> QED BY <3>1, <3>2
  <2>11. \A i \in 1..Len(y) : y[i] # JSONB
    <3> TAKE i \in 1..Len(y)
    <3>1. CASE \E k \in 1..Len(r.text) : y[i] = r.text[k]
      BY <3>1, RowFacts, CharFacts
    <3>2. CASE i \in 1..Len(x) /\ y[i] = x[i]
      BY <3>2, <2>5
    <3>3. CASE y[i] = <<"row", r.id, r.of>>
      BY <3>3, RowTokenFacts
    <3>4. CASE y[i] = CLOSE
      BY <3>4, Distinct
    <3> QED BY <3>1, <3>2, <3>3, <3>4, <2>10
  <2>12. Len(y) # 0 /\ y[Len(y)] # QUOTE
    BY <2>6, <2>8, Distinct
  <2>13. ASSUME \A i \in 1..Len(v) : Plain(v[i]) PROVE \A i \in 1..Len(y) : y[i] # QUOTE
    <3>1. Plain(r) /\ \A i \in 1..Len(u) : Plain(u[i])
      <4>1. Len(u) + 1 \in 1..Len(v) /\ \A i \in 1..Len(u) : i \in 1..Len(v)
        BY <2>2
      <4> QED BY <4>1, <2>2, <2>13
    <3> TAKE i \in 1..Len(y)
    <3>2. \A k \in 1..Len(r.text) : r.text[k] # QUOTE
      <4>1. DOMAIN r.text = 1..Len(r.text)
        BY RowFacts, LenProperties
      <4> QED BY <3>1, <4>1 DEF Plain, Range
    <3>3. CASE i \in 1..Len(x) /\ y[i] = x[i]
      BY <3>1, <3>3, <2>5
    <3>4. CASE y[i] = <<"row", r.id, r.of>>
      BY <3>4, RowTokenFacts
    <3>5. CASE y[i] = CLOSE
      BY <3>5, Distinct
    <3> QED BY <3>2, <3>3, <3>4, <3>5, <2>10
  <2>14. ReadsBack(v, y)
    BY <2>6, <2>7, <2>9, <2>11, <2>12, <2>13 DEF ReadsBack
  <2> QED BY <2>14, <1>3 DEF y
<1> QED BY <1>4, <1>5

-----------------------------------------------------------------------------
(* An INSERT and what comes after it *)

Framed(t, lit) == <<<<"insert", t>>, QUOTE>> \o lit \o <<QUOTE, JSONB, SEMICOLON>>

\* What an INSERT and what comes after it have at each position.
LEMMA Layout ==
    ASSUME NEW t \in Tables, NEW lit \in Seq(Token), NEW rest \in Seq(Token)
    PROVE  LET sql == Joined(Framed(t, lit), rest)
               n == Len(lit)
           IN  /\ Framed(t, lit) \in Seq(Token)
               /\ sql \in Seq(Token) /\ Len(sql) = n + 5 + Len(rest)
               /\ sql[1] = <<"insert", t>> /\ sql[2] = QUOTE
               /\ \A i \in 3..n + 2 : sql[i] = lit[i - 2]
               /\ sql[n + 3] = QUOTE /\ sql[n + 4] = JSONB /\ sql[n + 5] = SEMICOLON
               /\ \A i \in n + 6..n + 5 + Len(rest) : sql[i] = rest[i - (n + 5)]
<1>1. PICK a, b, x, y, z, ab, xyz :
        /\ a = <<"insert", t>> /\ b = QUOTE /\ x = QUOTE /\ y = JSONB /\ z = SEMICOLON
        /\ ab = <<a, b>> /\ xyz = <<x, y, z>>
  OBVIOUS
<1>2. /\ ab \in Seq(Token) /\ Len(ab) = 2 /\ ab[1] = a /\ ab[2] = b
      /\ xyz \in Seq(Token) /\ Len(xyz) = 3 /\ xyz[1] = x /\ xyz[2] = y /\ xyz[3] = z
  <2>1. a \in Token /\ b \in Token /\ x \in Token /\ y \in Token /\ z \in Token
    BY <1>1 DEF Token, Chars
  <2>2. ab = <<a, b>> /\ xyz = <<x, y, z>>
    BY <1>1
  <2> QED BY <2>1, <2>2
<1>3. PICK n, m : n = Len(lit) /\ m = Len(rest)
  OBVIOUS
<1>4. n \in Nat /\ m \in Nat
  BY <1>3, LenProperties
<1>5. PICK s1 : s1 = Joined(ab, lit)
  OBVIOUS
<1>6. /\ s1 \in Seq(Token) /\ Len(s1) = 2 + n /\ s1[1] = a /\ s1[2] = b
      /\ \A i \in 2 + 1..2 + n : s1[i] = lit[i - 2]
  <2>1. 1 \in 1..2 /\ 2 \in 1..2
    OBVIOUS
  <2>2. s1 \in Seq(Token) /\ IsJoin(s1, ab, lit, 2, n)
    BY <1>2, <1>3, <1>5, JoinIs
  <2> QED BY <2>1, <2>2, <1>2, <1>4 DEF IsJoin
<1>7. PICK s2 : s2 = Joined(s1, xyz)
  OBVIOUS
<1>8. /\ s2 \in Seq(Token) /\ Len(s2) = 2 + n + 3 /\ \A i \in 1..2 + n : s2[i] = s1[i]
      /\ \A i \in 2 + n + 1..2 + n + 3 : s2[i] = xyz[i - (2 + n)]
  <2>1. s2 \in Seq(Token) /\ IsJoin(s2, s1, xyz, 2 + n, 3)
    BY <1>2, <1>6, <1>7, JoinIs
  <2> QED BY <2>1, <1>4 DEF IsJoin
<1>9. PICK sql : sql = Joined(s2, rest)
  OBVIOUS
<1>10. /\ sql \in Seq(Token) /\ Len(sql) = 2 + n + 3 + m /\ \A i \in 1..2 + n + 3 : sql[i] = s2[i]
       /\ \A i \in 2 + n + 3 + 1..2 + n + 3 + m : sql[i] = rest[i - (2 + n + 3)]
  <2>1. sql \in Seq(Token) /\ IsJoin(sql, s2, rest, 2 + n + 3, m)
    BY <1>3, <1>8, <1>9, JoinIs
  <2> QED BY <2>1, <1>4 DEF IsJoin
<1>11. \A i \in 1..2 + n : sql[i] = s1[i]
  <2> TAKE i \in 1..2 + n
  <2>1. i \in 1..2 + n + 3
    BY <1>4
  <2> QED BY <2>1, <1>8, <1>10
<1>12. sql[1] = a /\ sql[2] = b
  <2>1. 1 \in 1..2 + n /\ 2 \in 1..2 + n
    BY <1>4
  <2> QED BY <2>1, <1>6, <1>11
<1>13. \A i \in 3..n + 2 : sql[i] = lit[i - 2]
  <2> TAKE i \in 3..n + 2
  <2>1. i \in 1..2 + n /\ i \in 2 + 1..2 + n
    BY <1>4
  <2> QED BY <2>1, <1>6, <1>11
<1>14. \A k \in 1..3 : sql[2 + n + k] = xyz[k]
  <2> TAKE k \in 1..3
  <2>1. /\ 2 + n + k \in 1..2 + n + 3 /\ 2 + n + k \in 2 + n + 1..2 + n + 3
        /\ (2 + n + k) - (2 + n) = k
    BY <1>4
  <2> QED BY <2>1, <1>8, <1>10
<1>15. sql[n + 3] = x /\ sql[n + 4] = y /\ sql[n + 5] = z
  <2>1. 2 + n + 1 = n + 3 /\ 2 + n + 2 = n + 4 /\ 2 + n + 3 = n + 5
    BY <1>4
  <2>2. 1 \in 1..3 /\ 2 \in 1..3 /\ 3 \in 1..3
    OBVIOUS
  <2> QED BY <2>1, <2>2, <1>2, <1>14
<1>16. \A i \in n + 6..n + 5 + m : sql[i] = rest[i - (n + 5)]
  <2> TAKE i \in n + 6..n + 5 + m
  <2>1. i \in 2 + n + 3 + 1..2 + n + 3 + m /\ i - (2 + n + 3) = i - (n + 5)
    BY <1>4
  <2> QED BY <2>1, <1>10
<1>17. Len(sql) = n + 5 + m
  BY <1>4, <1>10
<1>18. s2 = Framed(t, lit)
  BY <1>1, <1>5, <1>7 DEF Joined, Framed
<1> QED BY <1>1, <1>3, <1>8, <1>9, <1>10, <1>12, <1>13, <1>15, <1>16, <1>17, <1>18

\* The literal of an INSERT.
Lit(rows) == Objects(SetToSeq(rows))

\* The literal of a set of rows, whatever order they come in.
LEMMA LitIs ==
    ASSUME NEW rows, rows \subseteq AnyRow, IsFiniteSet(rows), rows # {}
    PROVE  /\ Lit(rows) \in Seq(Token) /\ Len(Lit(rows)) \in Nat \ {0}
           /\ RowsOf(Lit(rows)) = {Back(r) : r \in rows}
           /\ \A i \in 1..Len(Lit(rows)) : Lit(rows)[i] # JSONB
           /\ Lit(rows)[Len(Lit(rows))] # QUOTE
           /\ (\A r \in rows : Plain(r)) => \A i \in 1..Len(Lit(rows)) : Lit(rows)[i] # QUOTE
<1> DEFINE s == SetToSeq(rows)
<1>1. s \in Seq(rows) /\ Len(s) = Cardinality(rows) /\ {s[i] : i \in 1..Cardinality(rows)} = rows
  BY SetToSeqIs
<1> HIDE DEF s
<1>2. s \in Seq(AnyRow)
  BY <1>1, SeqMonotonic
<1>3. s # <<>>
  <2>1. SUFFICES ASSUME s = <<>> PROVE FALSE
    OBVIOUS
  <2>2. Len(s) = 0
    BY <2>1, EmptySeq
  <2> QED BY <2>2, <1>1
<1> DEFINE lit == Objects(s)
<1>4. ReadsBack(s, lit)
  BY <1>2, ObjectsReadBack
<1> HIDE DEF lit
<1>5. {Back(s[i]) : i \in 1..Len(s)} = {Back(r) : r \in rows}
  BY <1>1
<1>6. (\A r \in rows : Plain(r)) => \A i \in 1..Len(s) : Plain(s[i])
  BY <1>1
<1>7. lit \in Seq(Token) /\ Len(lit) \in Nat \ {0}
  BY <1>3, <1>4, LenProperties DEF ReadsBack
<1>8. lit = Lit(rows)
  BY DEF lit, s, Lit
<1> QED BY <1>3, <1>4, <1>5, <1>6, <1>7, <1>8 DEF ReadsBack

\* An INSERT is its literal with a frame around it.
LEMMA InsertForm ==
    ASSUME NEW t, NEW rows
    PROVE  InsertInto(t, rows) = Framed(t, Lit(rows))
BY DEF InsertInto, Lit, Objects, Framed

\* A part of a sequence, element by element.
LEMMA PartIs ==
    ASSUME NEW T, NEW s \in Seq(T), NEW part \in Seq(T), NEW m \in Nat, m + Len(part) <= Len(s),
           \A k \in 1..Len(part) : s[m + k] = part[k]
    PROVE  SubSeq(s, m + 1, m + Len(part)) = part
<1> DEFINE n == Len(part)
           sub == SubSeq(s, m + 1, m + n)
<1>1. n \in Nat /\ Len(s) \in Nat
  BY LenProperties
<1> HIDE DEF n
<1>2. \A i \in m + 1..m + n : s[i] \in T
  <2> TAKE i \in m + 1..m + n
  <2>1. i \in 1..Len(s)
    BY <1>1 DEF n
  <2> QED BY <2>1, ElementOfSeq
<1>3. m + 1 \in Int /\ m + n \in Int
  BY <1>1
<1>4. /\ sub \in Seq(T)
      /\ Len(sub) = IF m + 1 <= m + n THEN (m + n) - (m + 1) + 1 ELSE 0
      /\ \A k \in 1..(m + n) - (m + 1) + 1 : sub[k] = s[m + 1 + k - 1]
  BY <1>2, <1>3, SubSeqProperties
<1> HIDE DEF sub
<1>5. Len(sub) = n
  BY <1>1, <1>4
<1>6. \A k \in 1..n : sub[k] = part[k]
  <2> TAKE k \in 1..n
  <2>1. k \in 1..(m + n) - (m + 1) + 1 /\ m + 1 + k - 1 = m + k
    BY <1>1
  <2> QED BY <2>1, <1>4 DEF n
<1>7. sub = part
  BY <1>4, <1>5, <1>6, SeqEqual DEF n
<1> QED BY <1>7 DEF sub, n

\* A text that begins with the INSERT of a table.
LEMMA InsertBegins ==
    ASSUME NEW t \in Tables, NEW rows, rows \subseteq AnyRow, IsFiniteSet(rows), rows # {},
           NEW rest \in Seq(Token)
    PROVE  LET sql == InsertInto(t, rows) \o rest
               n == Len(Lit(rows))
           IN  /\ InsertInto(t, rows) \in Seq(Token) /\ sql \in Seq(Token)
               /\ Len(sql) = n + 5 + Len(rest) /\ n \in Nat /\ Len(rest) \in Nat
               /\ Begins(sql, n) /\ sql[1] = <<"insert", t>>
               /\ \A k \in 1..n : sql[2 + k] = Lit(rows)[k]
               /\ \A k \in 1..Len(rest) : sql[n + 5 + k] = rest[k]
<1> DEFINE sql == InsertInto(t, rows) \o rest
<1>1. PICK lit, a : lit = Lit(rows) /\ a = <<"insert", t>>
  OBVIOUS
<1>2. /\ lit \in Seq(Token) /\ Len(lit) \in Nat \ {0}
      /\ \A i \in 1..Len(lit) : lit[i] # JSONB
      /\ lit[Len(lit)] # QUOTE
  BY <1>1, LitIs
<1>3. a \in Token /\ QUOTE \in Token /\ JSONB \in Token /\ SEMICOLON \in Token
  BY <1>1 DEF Token, Chars
<1>4. InsertInto(t, rows) = Framed(t, lit)
  BY <1>1, InsertForm
<1>5. sql = Joined(Framed(t, lit), rest)
  BY <1>4 DEF Joined
<1> HIDE DEF sql
<1> DEFINE n == Len(lit)
<1>6. /\ InsertInto(t, rows) \in Seq(Token)
      /\ sql \in Seq(Token) /\ Len(sql) = n + 5 + Len(rest)
      /\ sql[1] = a /\ sql[2] = QUOTE
      /\ \A i \in 3..n + 2 : sql[i] = lit[i - 2]
      /\ sql[n + 3] = QUOTE /\ sql[n + 4] = JSONB /\ sql[n + 5] = SEMICOLON
      /\ \A i \in n + 6..n + 5 + Len(rest) : sql[i] = rest[i - (n + 5)]
  <2> DEFINE frame == Framed(t, lit)
             whole == Joined(frame, rest)
  <2>1. /\ frame \in Seq(Token)
        /\ whole \in Seq(Token) /\ Len(whole) = Len(lit) + 5 + Len(rest)
        /\ whole[1] = <<"insert", t>> /\ whole[2] = QUOTE
        /\ whole[Len(lit) + 3] = QUOTE /\ whole[Len(lit) + 4] = JSONB /\ whole[Len(lit) + 5] = SEMICOLON
    BY <1>2, Layout
  <2>3. \A i \in 3..Len(lit) + 2 : whole[i] = lit[i - 2]
    BY <1>2, Layout
  <2>4. \A i \in Len(lit) + 6..Len(lit) + 5 + Len(rest) : whole[i] = rest[i - (Len(lit) + 5)]
    BY <1>2, Layout
  <2>2. sql = whole /\ InsertInto(t, rows) = frame
    BY <1>4, <1>5
  <2> HIDE DEF frame, whole
  <2> QED BY <1>1, <2>1, <2>2, <2>3, <2>4
<1>7. Len(rest) \in Nat /\ n \in Nat
  BY <1>2, LenProperties
<1> HIDE DEF n
<1>8. a \notin {QUOTE, SEMICOLON, JSONB}
  BY <1>1 DEF QUOTE, SEMICOLON, JSONB
<1>9. \A i \in 3..n + 2 : sql[i] # JSONB
  <2> TAKE i \in 3..n + 2
  <2>1. i - 2 \in 1..n
    BY <1>7
  <2> QED BY <2>1, <1>2, <1>6 DEF n
<1>10. sql[n + 2] # QUOTE
  <2>1. n # 0 /\ lit[n] # QUOTE
    BY <1>2 DEF n
  <2>2. n + 2 \in 3..n + 2 /\ (n + 2) - 2 = n
    BY <2>1, <1>7
  <2>3. sql[n + 2] = lit[n]
    BY <2>2, <1>6
  <2> QED BY <2>1, <2>3
<1>11. Begins(sql, n)
  <2>1. n # 0 /\ n + 5 <= Len(sql)
    BY <1>2, <1>6, <1>7 DEF n
  <2> QED BY <2>1, <1>6, <1>7, <1>8, <1>9, <1>10 DEF Begins
<1>12. \A k \in 1..n : sql[2 + k] = lit[k]
  <2> TAKE k \in 1..n
  <2>1. 2 + k \in 3..n + 2 /\ (2 + k) - 2 = k
    BY <1>7
  <2> QED BY <2>1, <1>6
<1>13. \A k \in 1..Len(rest) : sql[n + 5 + k] = rest[k]
  <2> TAKE k \in 1..Len(rest)
  <2>1. n + 5 + k \in n + 6..n + 5 + Len(rest) /\ (n + 5 + k) - (n + 5) = k
    BY <1>7
  <2> QED BY <2>1, <1>6
<1> QED BY <1>1, <1>6, <1>7, <1>11, <1>12, <1>13 DEF n, sql

\* Replaying it: what is accepted has all rows of the table, and the rest comes next.
LEMMA InsertReplayed ==
    ASSUME NEW t \in Tables, NEW rows, rows \subseteq AnyRow, IsFiniteSet(rows), rows # {},
           NEW rest \in Seq(Token)
    PROVE  LET sql == InsertInto(t, rows) \o rest
           IN  /\ sql \in Seq(Token) /\ sql # <<>>
               /\ Statement(sql)[1] = <<"insert", t>>
               /\ Parses(Statement(sql)) =>
                      /\ AfterStatement(sql) = rest
                      /\ RowsOf(Literal(Statement(sql))) = {Back(r) : r \in rows}
               /\ (\A r \in rows : Plain(r)) => Parses(Statement(sql))
<1> DEFINE sql == InsertInto(t, rows) \o rest
           lit == Lit(rows)
           n == Len(lit)
           statement == Statement(sql)
           end == EndOfStatement(sql)
<1>1. /\ sql \in Seq(Token) /\ Len(sql) = n + 5 + Len(rest) /\ n \in Nat /\ Len(rest) \in Nat
      /\ Begins(sql, n) /\ sql[1] = <<"insert", t>>
      /\ \A k \in 1..n : sql[2 + k] = lit[k]
      /\ \A k \in 1..Len(rest) : sql[n + 5 + k] = rest[k]
  BY InsertBegins
<1>2. /\ lit \in Seq(Token)
      /\ RowsOf(lit) = {Back(r) : r \in rows}
      /\ (\A r \in rows : Plain(r)) => \A i \in 1..n : lit[i] # QUOTE
  BY LitIs
<1> HIDE DEF sql, lit
<1>3. /\ end \in 1..Len(sql) + 1
      /\ end <= Len(sql) => sql[end] = SEMICOLON /\ ~InString(sql, end)
      /\ Len(statement) = end - 1
      /\ \A i \in 1..end - 1 : statement[i] = sql[i]
  BY <1>1, EndIs
<1> HIDE DEF end, statement
<1>4. statement[1] = <<"insert", t>>
  <2> HIDE DEF n
  <2>1. end # 1
    <3>1. 1 <= Len(sql) /\ sql[1] # SEMICOLON
      BY <1>1 DEF Begins
    <3> QED BY <3>1, <1>3
  <2>2. 1 \in 1..end - 1
    BY <2>1, <1>1, <1>3
  <2> QED BY <2>2, <1>1, <1>3
<1>5. sql # <<>>
  <2>1. SUFFICES ASSUME sql = <<>> PROVE FALSE
    OBVIOUS
  <2>2. Len(sql) = 0
    BY <2>1, EmptySeq
  <2> HIDE DEF n
  <2>3. Len(sql) >= 5
    BY <1>1
  <2> QED BY <2>2, <2>3
<1>6. ASSUME Parses(statement)
      PROVE  AfterStatement(sql) = rest /\ RowsOf(Literal(statement)) = {Back(r) : r \in rows}
  <2>1. end = n + 5
    BY <1>1, <1>6, AcceptedIsWhole DEF end, statement
  <2>2. AfterStatement(sql) = rest
    <3>1. SubSeq(sql, n + 5 + 1, n + 5 + Len(rest)) = rest
      <4>1. n + 5 \in Nat /\ n + 5 + Len(rest) <= Len(sql)
        BY <1>1
      <4> HIDE DEF n
      <4> QED BY <4>1, <1>1, PartIs
    <3> QED BY <3>1, <2>1, <1>1 DEF AfterStatement, end
  <2>3. Literal(statement) = lit
    <3>1. statement \in Seq(Token)
      <4>1. end - 1 \in Int /\ \A i \in 1..end - 1 : sql[i] \in Token
        <5> HIDE DEF n
        <5>1. \A i \in 1..end - 1 : i \in 1..Len(sql)
          BY <1>1, <1>3
        <5>2. end - 1 \in Int
          BY <1>1, <1>3
        <5> QED BY <5>1, <5>2, <1>1, ElementOfSeq
      <4> QED BY <4>1, SubSeqProperties DEF statement, Statement, end
    <3>2. Len(statement) = n + 4 /\ \A i \in 1..n + 4 : statement[i] = sql[i]
      <4> HIDE DEF n
      <4>1. end - 1 = n + 4
        BY <2>1, <1>1
      <4> QED BY <4>1, <1>3
    <3>3. \A k \in 1..n : statement[2 + k] = lit[k]
      <4> TAKE k \in 1..n
      <4>1. 2 + k \in 1..n + 4
        BY <1>1
      <4> QED BY <4>1, <3>2, <1>1
    <3>4. SubSeq(statement, 2 + 1, 2 + n) = lit
      <4>1. 2 + Len(lit) <= Len(statement)
        BY <3>2, <1>1
      <4> QED BY <3>1, <3>3, <4>1, <1>2, PartIs
    <3>5. Len(statement) - 2 = 2 + n /\ 2 + 1 = 3
      <4> HIDE DEF n
      <4> QED BY <3>2, <1>1
    <3> QED BY <3>4, <3>5 DEF Literal
  <2> QED BY <2>2, <2>3, <1>2
<1>7. ASSUME \A r \in rows : Plain(r) PROVE Parses(statement)
  <2>1. \A i \in 3..n + 2 : sql[i] # QUOTE
    <3> TAKE i \in 3..n + 2
    <3> HIDE DEF n
    <3>1. i - 2 \in 1..n /\ 2 + (i - 2) = i
      BY <1>1
    <3> QED BY <3>1, <1>1, <1>2, <1>7
  <2> QED BY <2>1, <1>1, PlainParses DEF statement
<1> QED BY <1>1, <1>4, <1>5, <1>6, <1>7 DEF sql, statement

-----------------------------------------------------------------------------
(* What a restore makes of rows *)

\* A text without apostrophes comes back as it is.
LEMMA UnescapedIs ==
    ASSUME NEW text \in Seq(Chars)
    PROVE  /\ Unescaped(text) \in Seq(Chars)
           /\ QUOTE \notin Range(text) => Unescaped(text) = text
<1> DEFINE parts == [i \in DOMAIN text |->
                        IF text[i] = QUOTE /\ InString(text, i) THEN <<>> ELSE <<text[i]>>]
<1>1. DOMAIN text = 1..Len(text) /\ Len(text) \in Nat /\ \A i \in 1..Len(text) : text[i] \in Chars
  BY LenProperties, ElementOfSeq
<1>2. <<>> \in Seq(Chars) /\ \A c \in Chars : <<c>> \in Seq(Chars)
  BY EmptySeq
<1>3. parts \in [1..Len(text) -> Seq(Chars)]
  BY <1>1, <1>2
<1>4. Unescaped(text) = FlattenSeq(parts)
  BY DEF Unescaped
<1>5. ASSUME QUOTE \notin Range(text), NEW i \in 1..Len(text) PROVE parts[i] = <<text[i]>>
  <2>1. text[i] # QUOTE
    BY <1>1, <1>5 DEF Range
  <2> QED BY <2>1, <1>1
<1> HIDE DEF parts
<1>6. parts \in Seq(Seq(Chars)) /\ Len(parts) = Len(text)
  BY <1>1, <1>3
<1>7. Unescaped(text) \in Seq(Chars)
  BY <1>4, <1>6, FlattenType
<1>8. ASSUME QUOTE \notin Range(text) PROVE Unescaped(text) = text
  <2>1. \A i \in 1..Len(text) : parts[i] = <<text[i]>>
    BY <1>5, <1>8
  <2> QED BY <2>1, <1>4, <1>6, FlattenSingletons
<1> QED BY <1>7, <1>8

\* A row comes back with its id and what it refers to.
LEMMA BackIs ==
    ASSUME NEW t \in Tables, NEW r \in Row(t)
    PROVE  /\ Back(r) \in Row(t) /\ Back(r).id = r.id /\ Back(r).of = r.of
           /\ Plain(r) => Back(r) = r
<1>1. r.text \in Seq(Chars)
  BY DEF Row
<1>2. Unescaped(r.text) \in Seq(Chars) /\ (QUOTE \notin Range(r.text) => Unescaped(r.text) = r.text)
  BY <1>1, UnescapedIs
<1>3. PICK text : text = Unescaped(r.text)
  OBVIOUS
<1>4. Back(r) = [r EXCEPT !.text = text]
  BY <1>3 DEF Back
<1>5. [r EXCEPT !.text = text] \in Row(t)
  BY <1>2, <1>3 DEF Row
<1>6. [r EXCEPT !.text = text].id = r.id /\ [r EXCEPT !.text = text].of = r.of
  BY DEF Row
<1>7. [r EXCEPT !.text = r.text] = r
  BY DEF Row
<1> QED BY <1>2, <1>3, <1>4, <1>5, <1>6, <1>7 DEF Plain

AllBack(rows) == {Back(r) : r \in rows}

\* What a restore gives back, table by table.
LEMMA ReturnedIs ==
    ASSUME NEW rows, NEW t \in DOMAIN rows
    PROVE  Returned(rows)[t] = AllBack(rows[t])
BY DEF Returned, AllBack, Back

\* The rows of a table come back with the same ids, and as they are if none has an apostrophe.
LEMMA AllBackIs ==
    ASSUME NEW t \in Tables, NEW rows, rows \subseteq Row(t)
    PROVE  /\ AllBack(rows) \subseteq Row(t) /\ Ids(AllBack(rows)) = Ids(rows)
           /\ (\A r \in rows : Plain(r)) => AllBack(rows) = rows
<1>1. AllBack(rows) \subseteq Row(t)
  BY BackIs DEF AllBack
<1>2. Ids(AllBack(rows)) = Ids(rows)
  BY BackIs DEF AllBack, Ids
<1>3. (\A r \in rows : Plain(r)) => AllBack(rows) = rows
  BY BackIs DEF AllBack
<1> QED BY <1>1, <1>2, <1>3

\* References do not look at texts.
LEMMA ReferBack ==
    ASSUME NEW d, NEW t \in Tables, NEW rows, rows \subseteq Row(t), Refer(d, t, rows)
    PROVE  Refer(d, t, AllBack(rows))
BY BackIs DEF Refer, AllBack

-----------------------------------------------------------------------------
(* The text of the dump, table by table *)

FirstTables(k) == {TABLES[i] : i \in 1..k - 1}
Before(rows, k) == FlattenSeq([i \in 1..k - 1 |-> Dump(TABLES[i], rows[TABLES[i]])])
Script(rows, k) ==
    FlattenSeq([i \in 1..10 - k |-> Dump(TABLES[k - 1 + i], rows[TABLES[k - 1 + i]])])

Copies == UNION {[T -> SUBSET AnyRow] : T \in SUBSET Dumped}

IsCopy(rows) ==
    /\ rows \in Copies
    /\ \A t \in DOMAIN rows : rows[t] \subseteq Row(t) /\ IsFiniteSet(rows[t])

\* A row of a table is a row of some table.
LEMMA RowIsAny ==
    ASSUME NEW t \in Tables
    PROVE  Row(t) \subseteq AnyRow
BY DEF AnyRow

\* The text of one table is a text.
LEMMA DumpType ==
    ASSUME NEW t \in Tables, NEW rows, rows \subseteq Row(t), IsFiniteSet(rows)
    PROVE  Dump(t, rows) \in Seq(Token)
<1>1. <<>> \in Seq(Token)
  BY EmptySeq
<1>2. rows \subseteq AnyRow
  BY RowIsAny
<1>3. CASE rows # {}
  BY <1>1, <1>2, <1>3, InsertBegins DEF Dump
<1> QED BY <1>1, <1>3 DEF Dump

\* The texts of the tables from one to another.
TextsFrom(rows, m, n) == [i \in 1..n |-> Dump(TABLES[m + i], rows[TABLES[m + i]])]

\* The texts of some tables in a row.
LEMMA TextsType ==
    ASSUME NEW rows, IsCopy(rows), NEW m \in Nat, NEW n \in Nat, m + n <= 9,
           \A i \in 1..n : TABLES[m + i] \in DOMAIN rows
    PROVE  /\ TextsFrom(rows, m, n) \in Seq(Seq(Token)) /\ Len(TextsFrom(rows, m, n)) = n
           /\ \A i \in 1..n : TextsFrom(rows, m, n)[i] = Dump(TABLES[m + i], rows[TABLES[m + i]])
           /\ FlattenSeq(TextsFrom(rows, m, n)) \in Seq(Token)
<1>1. \A i \in 1..n : Dump(TABLES[m + i], rows[TABLES[m + i]]) \in Seq(Token)
  <2> TAKE i \in 1..n
  <2>1. m + i \in 1..9
    OBVIOUS
  <2>2. TABLES[m + i] \in Tables
    BY <2>1, InOrder, TablesAre
  <2>3. rows[TABLES[m + i]] \subseteq Row(TABLES[m + i]) /\ IsFiniteSet(rows[TABLES[m + i]])
    BY DEF IsCopy
  <2> QED BY <2>2, <2>3, DumpType
<1> DEFINE t == TextsFrom(rows, m, n)
<1>2. t \in [1..n -> Seq(Token)] /\ \A i \in 1..n : t[i] = Dump(TABLES[m + i], rows[TABLES[m + i]])
  BY <1>1 DEF TextsFrom
<1> HIDE DEF t
<1>3. t \in Seq(Seq(Token)) /\ Len(t) = n
  BY <1>2
<1>4. FlattenSeq(t) \in Seq(Token)
  BY <1>3, FlattenType
<1> QED BY <1>2, <1>3, <1>4 DEF t

\* No text is written before the first table, and none is left after the last.
LEMMA ScriptEnd ==
    ASSUME NEW rows
    PROVE  Script(rows, 10) = <<>> /\ Before(rows, 1) = <<>>
<1> DEFINE f(n) == [i \in 1..n |-> Dump(TABLES[i], rows[TABLES[i]])]
           g(n) == [i \in 1..n |-> Dump(TABLES[9 + i], rows[TABLES[9 + i]])]
<1>1. Len(f(0)) = 0 /\ f(0) = <<>> /\ Len(g(0)) = 0 /\ g(0) = <<>>
  OBVIOUS
<1>2. Before(rows, 1) = FlattenSeq(f(0))
  BY DEF Before
<1>3. Script(rows, 10) = FlattenSeq(g(0))
  BY DEF Script
<1> QED BY <1>1, <1>2, <1>3, FlattenEmpty

\* The script from a table on is the text of that table and the script from the next.
LEMMA ScriptStep ==
    ASSUME NEW rows, IsCopy(rows), DOMAIN rows = Dumped, NEW k \in 1..9
    PROVE  /\ Script(rows, k) = Dump(TABLES[k], rows[TABLES[k]]) \o Script(rows, k + 1)
           /\ Script(rows, k) \in Seq(Token) /\ Script(rows, k + 1) \in Seq(Token)
<1>1. PICK m, n \in Nat : m = k - 1 /\ n = 9 - k
  <2>1. k - 1 \in Nat /\ 9 - k \in Nat
    OBVIOUS
  <2> QED BY <2>1
<1> DEFINE t == TextsFrom(rows, m, n + 1)
           s == TextsFrom(rows, m + 1, n)
<1>2. \A i \in 1..9 : TABLES[i] \in DOMAIN rows
  BY InOrder
<1>3. \A i \in 1..n + 1 : TABLES[m + i] \in DOMAIN rows
  <2> TAKE i \in 1..n + 1
  <2>1. m + i \in 1..9
    BY <1>1
  <2> QED BY <2>1, <1>2
<1>4. \A i \in 1..n : TABLES[(m + 1) + i] \in DOMAIN rows
  <2> TAKE i \in 1..n
  <2>1. (m + 1) + i \in 1..9
    BY <1>1
  <2> QED BY <2>1, <1>2
<1>5. /\ t \in Seq(Seq(Token)) /\ Len(t) = n + 1
      /\ \A i \in 1..n + 1 : t[i] = Dump(TABLES[m + i], rows[TABLES[m + i]])
      /\ FlattenSeq(t) \in Seq(Token)
  <2>1. n + 1 \in Nat /\ m + (n + 1) <= 9
    BY <1>1
  <2> QED BY <2>1, <1>3, TextsType
<1>6. /\ s \in Seq(Seq(Token)) /\ Len(s) = n
      /\ \A i \in 1..n : s[i] = Dump(TABLES[(m + 1) + i], rows[TABLES[(m + 1) + i]])
      /\ FlattenSeq(s) \in Seq(Token)
  <2>1. m + 1 \in Nat /\ (m + 1) + n <= 9
    BY <1>1
  <2> QED BY <2>1, <1>4, TextsType
<1>7. Script(rows, k) = FlattenSeq(t) /\ Script(rows, k + 1) = FlattenSeq(s)
  <2>1. k - 1 = m /\ 10 - k = n + 1 /\ (k + 1) - 1 = m + 1 /\ 10 - (k + 1) = n
    BY <1>1
  <2> QED BY <2>1 DEF Script, TextsFrom
<1> HIDE DEF s, t
<1>8. \A i \in 1..n : t[i + 1] = s[i]
  <2> TAKE i \in 1..n
  <2>1. i + 1 \in 1..n + 1 /\ m + (i + 1) = (m + 1) + i
    BY <1>1
  <2> QED BY <2>1, <1>5, <1>6
<1>9. FlattenSeq(t) = t[1] \o FlattenSeq(s)
  BY <1>5, <1>6, <1>8, FlattenFirst
<1>10. t[1] = Dump(TABLES[k], rows[TABLES[k]])
  <2>1. 1 \in 1..n + 1 /\ m + 1 = k
    BY <1>1
  <2> QED BY <2>1, <1>5
<1> QED BY <1>5, <1>6, <1>7, <1>9, <1>10

\* What a dump has written, when it has read one table more.
LEMMA BeforeStep ==
    ASSUME NEW rows, NEW more, IsCopy(rows), IsCopy(more), NEW k \in 1..9,
           DOMAIN rows = FirstTables(k), DOMAIN more = FirstTables(k + 1),
           \A u \in FirstTables(k) : more[u] = rows[u]
    PROVE  /\ Before(more, k + 1) = Before(rows, k) \o Dump(TABLES[k], more[TABLES[k]])
           /\ Before(rows, k) \in Seq(Token) /\ Before(more, k + 1) \in Seq(Token)
<1>1. PICK n \in Nat : n = k - 1
  <2>1. k - 1 \in Nat
    OBVIOUS
  <2> QED BY <2>1
<1> DEFINE s == TextsFrom(rows, 0, n)
           t == TextsFrom(more, 0, n + 1)
<1>2. (\A i \in 1..n : TABLES[i] \in DOMAIN rows) /\ (\A i \in 1..n + 1 : TABLES[i] \in DOMAIN more)
  BY <1>1 DEF FirstTables
<1>3. \A i \in 1..n + 1 : 0 + i = i
  BY <1>1
<1>4. /\ s \in Seq(Seq(Token)) /\ Len(s) = n
      /\ \A i \in 1..n : s[i] = Dump(TABLES[0 + i], rows[TABLES[0 + i]])
      /\ FlattenSeq(s) \in Seq(Token)
  <2>1. 0 \in Nat /\ 0 + n <= 9 /\ \A i \in 1..n : TABLES[0 + i] \in DOMAIN rows
    BY <1>1, <1>2
  <2> QED BY <2>1, TextsType
<1>5. /\ t \in Seq(Seq(Token)) /\ Len(t) = n + 1
      /\ \A i \in 1..n + 1 : t[i] = Dump(TABLES[0 + i], more[TABLES[0 + i]])
      /\ FlattenSeq(t) \in Seq(Token)
  <2>1. 0 \in Nat /\ n + 1 \in Nat /\ 0 + (n + 1) <= 9 /\ \A i \in 1..n + 1 : TABLES[0 + i] \in DOMAIN more
    BY <1>1, <1>2
  <2> QED BY <2>1, TextsType
<1>6. Before(rows, k) = FlattenSeq(s) /\ Before(more, k + 1) = FlattenSeq(t)
  <2>1. k - 1 = n /\ (k + 1) - 1 = n + 1
    BY <1>1
  <2>2. [i \in 1..n |-> Dump(TABLES[i], rows[TABLES[i]])] = TextsFrom(rows, 0, n)
    BY <1>3 DEF TextsFrom
  <2>3. [i \in 1..n + 1 |-> Dump(TABLES[i], more[TABLES[i]])] = TextsFrom(more, 0, n + 1)
    BY <1>3 DEF TextsFrom
  <2> QED BY <2>1, <2>2, <2>3 DEF Before
<1> HIDE DEF s, t
<1>7. \A i \in 1..n : t[i] = s[i]
  <2> TAKE i \in 1..n
  <2>1. i \in 1..n + 1 /\ 0 + i = i /\ TABLES[i] \in FirstTables(k)
    BY <1>1 DEF FirstTables
  <2>2. s[i] = Dump(TABLES[i], rows[TABLES[i]])
    BY <2>1, <1>4
  <2>3. t[i] = Dump(TABLES[i], more[TABLES[i]])
    BY <2>1, <1>5
  <2> QED BY <2>1, <2>2, <2>3
<1>8. FlattenSeq(t) = FlattenSeq(s) \o t[n + 1]
  <2>1. Len(t) = Len(s) + 1 /\ \A i \in 1..Len(s) : t[i] = s[i]
    BY <1>4, <1>5, <1>7
  <2>2. FlattenSeq(t) = FlattenSeq(s) \o t[Len(t)]
    BY <2>1, <1>4, <1>5, FlattenLast
  <2> QED BY <2>2, <1>5
<1>9. t[n + 1] = Dump(TABLES[k], more[TABLES[k]])
  <2>1. n + 1 \in 1..n + 1 /\ 0 + (n + 1) = k
    BY <1>1
  <2> QED BY <2>1, <1>5
<1> QED BY <1>4, <1>5, <1>6, <1>8, <1>9

\* A dump that has read every table has written the script from the first one on.
LEMMA BeforeAll ==
    ASSUME NEW rows
    PROVE  Before(rows, 10) = Script(rows, 1)
<1>1. \A i \in 1..9 : 1 - 1 + i = i
  OBVIOUS
<1>2. 10 - 1 = 9
  OBVIOUS
<1>3. [i \in 1..9 |-> Dump(TABLES[1 - 1 + i], rows[TABLES[1 - 1 + i]])]
      = [i \in 1..9 |-> Dump(TABLES[i], rows[TABLES[i]])]
  BY <1>1
<1> QED BY <1>2, <1>3 DEF Before, Script

\* The tables before each table have all that it refers to.
LEMMA FirstTablesAre ==
    /\ FirstTables(1) = {} /\ FirstTables(10) = Dumped
    /\ \A k \in 1..9 : /\ FirstTables(k + 1) = FirstTables(k) \cup {TABLES[k]}
                       /\ TABLES[k] \notin FirstTables(k)
                       /\ Refers(TABLES[k]) \subseteq FirstTables(k)
    /\ \A k \in 1..10 : FirstTables(k) \subseteq Dumped
<1>1. FirstTables(1) = {}
  BY DEF FirstTables
<1>2. FirstTables(10) = Dumped
  <2>1. 10 - 1 = 9
    OBVIOUS
  <2> QED BY <2>1, InOrder DEF FirstTables
<1>3. ASSUME NEW k \in 1..9
      PROVE  /\ FirstTables(k + 1) = FirstTables(k) \cup {TABLES[k]}
             /\ TABLES[k] \notin FirstTables(k)
             /\ Refers(TABLES[k]) \subseteq FirstTables(k)
  <2>1. \A i : i \in 1..(k + 1) - 1 <=> i \in 1..k - 1 \/ i = k
    OBVIOUS
  <2>2. FirstTables(k + 1) = FirstTables(k) \cup {TABLES[k]}
    BY <2>1 DEF FirstTables
  <2>3. \A i \in 1..k - 1 : i \in 1..9 /\ i # k
    OBVIOUS
  <2>4. TABLES[k] \notin FirstTables(k)
    BY <2>3, InOrder DEF FirstTables
  <2>5. Refers(TABLES[k]) \subseteq FirstTables(k)
    BY InOrder DEF FirstTables
  <2> QED BY <2>2, <2>4, <2>5
<1>4. ASSUME NEW k \in 1..10 PROVE FirstTables(k) \subseteq Dumped
  <2>1. \A i \in 1..k - 1 : i \in 1..9
    OBVIOUS
  <2> QED BY <2>1, InOrder DEF FirstTables
<1> QED BY <1>1, <1>2, <1>3, <1>4

\* The first statement of a dump empties the tables; the script is what follows it.
LEMMA TruncateReplayed ==
    ASSUME NEW rest \in Seq(Token)
    PROVE  LET sql == Truncate \o rest
           IN  /\ sql \in Seq(Token) /\ sql # <<>>
               /\ IsTruncate(Statement(sql))
               /\ AfterStatement(sql) = rest
<1>1. PICK x, y, xy : x = <<"truncate">> /\ y = SEMICOLON /\ xy = <<x, y>>
  OBVIOUS
<1>2. x \in Token /\ y \in Token /\ x # QUOTE /\ x # SEMICOLON
  BY <1>1 DEF Token, Chars, QUOTE, SEMICOLON
<1>3. xy \in Seq(Token) /\ Len(xy) = 2 /\ xy[1] = x /\ xy[2] = y
  BY <1>1, <1>2
<1>4. PICK sql : sql = Joined(xy, rest)
  OBVIOUS
<1>5. sql = Truncate \o rest
  BY <1>1, <1>4 DEF Joined, Truncate
<1>6. /\ sql \in Seq(Token) /\ Len(rest) \in Nat /\ Len(sql) = 2 + Len(rest)
      /\ \A i \in 1..2 : sql[i] = xy[i]
      /\ \A i \in 3..2 + Len(rest) : sql[i] = rest[i - 2]
  <2>1. sql \in Seq(Token) /\ Len(rest) \in Nat /\ IsJoin(sql, xy, rest, 2, Len(rest))
    BY <1>3, <1>4, JoinIs
  <2> QED BY <2>1 DEF IsJoin
<1>7. sql[1] = x /\ sql[2] = SEMICOLON
  <2>1. 1 \in 1..2 /\ 2 \in 1..2
    OBVIOUS
  <2> QED BY <2>1, <1>1, <1>3, <1>6
<1>8. ~InString(sql, 2)
  <2>1. \A j \in 0 + 1..2 : sql[j] # QUOTE
    <3>1. \A j \in 0 + 1..2 : j \in {1, 2}
      OBVIOUS
    <3> QED BY <3>1, <1>2, <1>7, Distinct
  <2>2. Quotes(sql, 2) = Quotes(sql, 0)
    <3>1. 0 \in Nat /\ 2 \in Nat /\ 0 <= 2
      OBVIOUS
    <3> QED BY <3>1, <2>1, QuotesSame
  <2>3. ~(0 % 2 = 1)
    OBVIOUS
  <2> QED BY <2>2, <2>3, QuotesZero DEF InString
<1> DEFINE end == EndOfStatement(sql)
<1>9. /\ end \in 1..Len(sql) + 1
      /\ end <= Len(sql) => sql[end] = SEMICOLON /\ ~InString(sql, end)
      /\ \A i \in 1..Len(sql) : i < end => ~(sql[i] = SEMICOLON /\ ~InString(sql, i))
      /\ Len(Statement(sql)) = end - 1
      /\ \A i \in 1..end - 1 : Statement(sql)[i] = sql[i]
  BY <1>6, EndIs
<1> HIDE DEF end
<1>10. end = 2
  <2>1. end <= 2
    <3>1. 2 \in 1..Len(sql)
      BY <1>6
    <3> QED BY <3>1, <1>7, <1>8, <1>9
  <2>2. end # 1
    <3>1. 1 <= Len(sql) /\ sql[1] # SEMICOLON
      BY <1>2, <1>6, <1>7
    <3> QED BY <3>1, <1>9
  <2> QED BY <2>1, <2>2, <1>9
<1>11. IsTruncate(Statement(sql))
  <2>1. 1 \in 1..end - 1
    BY <1>10
  <2> QED BY <2>1, <1>1, <1>7, <1>9 DEF IsTruncate
<1>12. AfterStatement(sql) = rest
  <2>1. \A k \in 1..Len(rest) : sql[2 + k] = rest[k]
    <3> TAKE k \in 1..Len(rest)
    <3>1. 2 + k \in 3..2 + Len(rest) /\ (2 + k) - 2 = k
      BY <1>6
    <3> QED BY <3>1, <1>6
  <2>2. 2 \in Nat /\ 2 + Len(rest) <= Len(sql)
    BY <1>6
  <2>3. SubSeq(sql, 2 + 1, 2 + Len(rest)) = rest
    BY <2>1, <2>2, <1>6, PartIs
  <2> QED BY <2>3, <1>6, <1>10 DEF AfterStatement, end
<1>13. sql # <<>>
  <2>1. SUFFICES ASSUME sql = <<>> PROVE FALSE
    OBVIOUS
  <2>2. Len(sql) = 0
    BY <2>1, EmptySeq
  <2> QED BY <2>2, <1>6
<1> QED BY <1>5, <1>6, <1>11, <1>12, <1>13

-----------------------------------------------------------------------------
(* The file *)

\* (write_entry, read_entry.) What is written as an entry is read as one, and what follows it is left.
LEMMA EntryIs ==
    ASSUME NEW T, NEW name, NEW data \in Seq(T), NEW rest \in Seq(T), <<name, Len(data)>> \in T
    PROVE  LET s == Joined(Entry(name, data), rest)
           IN  /\ Entry(name, data) \in Seq(T) /\ Entry(name, data) # <<>>
               /\ s \in Seq(T)
               /\ ReadEntry(s) = [name |-> name, data |-> data]
               /\ AfterEntry(s) = rest
<1>1. PICK n, head, h : n = Len(data) /\ head = <<name, n>> /\ h = <<head>>
  OBVIOUS
<1>a. PICK entry : entry = Joined(h, data)
  OBVIOUS
<1>2. head \in T /\ head[1] = name /\ head[2] = n
  BY <1>1
<1>3. h \in Seq(T) /\ Len(h) = 1 /\ h[1] = head
  BY <1>1, <1>2
<1>4. entry = Entry(name, data)
  BY <1>1, <1>a DEF Joined, Entry
<1>5. /\ entry \in Seq(T) /\ n \in Nat /\ Len(entry) = 1 + n
      /\ entry[1] = head
      /\ \A i \in 2..1 + n : entry[i] = data[i - 1]
  <2>1. n = Len(data)
    BY <1>1
  <2>2. entry \in Seq(T) /\ n \in Nat /\ IsJoin(entry, h, data, 1, n)
    BY <2>1, <1>3, <1>a, JoinIs
  <2> QED BY <2>2, <1>3 DEF IsJoin
<1>6. PICK s, m : s = Joined(entry, rest) /\ m = Len(rest)
  OBVIOUS
<1>7. /\ s \in Seq(T) /\ m \in Nat /\ Len(s) = 1 + n + m
      /\ \A i \in 1..1 + n : s[i] = entry[i]
      /\ \A i \in 1 + n + 1..1 + n + m : s[i] = rest[i - (1 + n)]
  <2>1. s \in Seq(T) /\ m \in Nat /\ IsJoin(s, entry, rest, 1 + n, m)
    BY <1>5, <1>6, JoinIs
  <2> QED BY <2>1 DEF IsJoin
<1>8. s[1][1] = name /\ s[1][2] = n
  <2>1. 1 \in 1..1 + n
    BY <1>5
  <2> QED BY <2>1, <1>2, <1>5, <1>7
<1>9. SubSeq(s, 2, 1 + n) = data
  <2>1. \A k \in 1..n : s[1 + k] = data[k]
    <3> TAKE k \in 1..n
    <3>1. 1 + k \in 1..1 + n /\ 1 + k \in 2..1 + n /\ (1 + k) - 1 = k
      BY <1>5
    <3> QED BY <3>1, <1>5, <1>7
  <2>2. 1 + Len(data) <= Len(s) /\ 1 \in Nat
    BY <1>1, <1>5, <1>7
  <2>3. SubSeq(s, 1 + 1, 1 + Len(data)) = data
    BY <2>1, <2>2, <1>1, <1>7, PartIs
  <2> QED BY <2>3, <1>1
<1>10. SubSeq(s, 2 + n, Len(s)) = rest
  <2>1. \A k \in 1..m : s[1 + n + k] = rest[k]
    <3> TAKE k \in 1..m
    <3>1. 1 + n + k \in 1 + n + 1..1 + n + m /\ (1 + n + k) - (1 + n) = k
      BY <1>5, <1>7
    <3> QED BY <3>1, <1>7
  <2>2. 1 + n \in Nat /\ 1 + n + Len(rest) <= Len(s)
    BY <1>5, <1>6, <1>7
  <2>3. SubSeq(s, 1 + n + 1, 1 + n + Len(rest)) = rest
    BY <2>1, <2>2, <1>6, <1>7, PartIs
  <2>4. 1 + n + 1 = 2 + n
    BY <1>5
  <2> QED BY <2>3, <2>4, <1>6, <1>7
<1>11. entry # <<>>
  <2>1. SUFFICES ASSUME entry = <<>> PROVE FALSE
    OBVIOUS
  <2>2. Len(entry) = 0
    BY <2>1, EmptySeq
  <2> QED BY <2>2, <1>5
<1>12. ReadEntry(s) = [name |-> name, data |-> data] /\ AfterEntry(s) = rest
  BY <1>8, <1>9, <1>10 DEF ReadEntry, AfterEntry
<1> QED BY <1>4, <1>5, <1>6, <1>7, <1>11, <1>12

\* What is left when the first element is taken off.
LEMMA TailIs ==
    ASSUME NEW T, NEW x \in T, NEW s \in Seq(T)
    PROVE  Tail(Joined(<<x>>, s)) = s
<1>1. PICK h : h = <<x>>
  OBVIOUS
<1>a. PICK t, n : t = Joined(h, s) /\ n = Len(s)
  OBVIOUS
<1>2. h \in Seq(T) /\ Len(h) = 1
  BY <1>1
<1>3. /\ t \in Seq(T) /\ n \in Nat /\ Len(t) = 1 + n
      /\ \A i \in 1 + 1..1 + n : t[i] = s[i - 1]
  <2>1. t \in Seq(T) /\ n \in Nat /\ IsJoin(t, h, s, 1, n)
    BY <1>2, <1>a, JoinIs
  <2> QED BY <2>1 DEF IsJoin
<1>4. t # <<>>
  <2>1. SUFFICES ASSUME t = <<>> PROVE FALSE
    OBVIOUS
  <2>2. Len(t) = 0
    BY <2>1, EmptySeq
  <2> QED BY <2>2, <1>3
<1>5. /\ Tail(t) \in Seq(T) /\ Len(Tail(t)) = Len(t) - 1
      /\ \A i \in 1..Len(Tail(t)) : Tail(t)[i] = t[i + 1]
  BY <1>3, <1>4, HeadTailProperties
<1>6. Len(Tail(t)) = n
  BY <1>3, <1>5
<1>7. \A i \in 1..n : Tail(t)[i] = s[i]
  <2> TAKE i \in 1..n
  <2>1. i + 1 \in 1 + 1..1 + n /\ (i + 1) - 1 = i
    BY <1>3
  <2> QED BY <2>1, <1>3, <1>5, <1>6
<1>8. Tail(t) = s
  BY <1>5, <1>6, <1>7, <1>a, SeqEqual
<1> QED BY <1>1, <1>8, <1>a

\* The archive gives back the text of the dump, and .env if there was one.
LEMMA FilesAre ==
    ASSUME NEW sql \in Seq(Token)
    PROVE  LET files == Files(Payload(sql))
           IN  /\ HasFile(files, "database.sql") /\ File(files, "database.sql") = sql
               /\ HasFile(files, ".env") => EnvFile # None /\ File(files, ".env") = EnvFile
<1> DEFINE T == Token \cup {<<"manifest">>} \cup {<<name, n>> : name \in {"database.sql", ".env"}, n \in Nat}
           payload == Payload(sql)
           first == Tail(payload)
           second == AfterEntry(first)
           env == IF EnvFile = None THEN <<>> ELSE Entry(".env", EnvFile)
           files == Files(payload)
<1>1. sql \in Seq(T) /\ <<"database.sql", Len(sql)>> \in T /\ <<"manifest">> \in T /\ <<>> \in Seq(T)
  <2>1. Len(sql) \in Nat
    BY LenProperties
  <2>2. sql \in Seq(T)
    BY SeqMonotonic
  <2> QED BY <2>1, <2>2, EmptySeq
<1>2. ASSUME EnvFile # None PROVE EnvFile \in Seq(T) /\ <<".env", Len(EnvFile)>> \in T
  <2>1. EnvFile \in Seq(Chars) /\ Chars \subseteq T
    BY <1>2, ArchiveAssumption, CharFacts
  <2>2. EnvFile \in Seq(T) /\ Len(EnvFile) \in Nat
    <3> HIDE DEF T
    <3> QED BY <2>1, SeqMonotonic, LenProperties
  <2> QED BY <2>2
<1> HIDE DEF T
<1>3. ASSUME EnvFile # None
      PROVE  /\ Entry(".env", EnvFile) \in Seq(T) /\ Entry(".env", EnvFile) # <<>>
             /\ ReadEntry(Entry(".env", EnvFile)) = [name |-> ".env", data |-> EnvFile]
  <2>1. PICK e : e = <<>>
    OBVIOUS
  <2>2. LET s == Joined(Entry(".env", EnvFile), e)
        IN  /\ Entry(".env", EnvFile) \in Seq(T) /\ Entry(".env", EnvFile) # <<>>
            /\ ReadEntry(s) = [name |-> ".env", data |-> EnvFile]
    <3>1. e \in Seq(T)
      BY <1>1, <2>1
    <3> QED BY <3>1, <1>2, <1>3, EntryIs
  <2>3. Joined(Entry(".env", EnvFile), e) = Entry(".env", EnvFile)
    BY <2>1, <2>2, ConcatEmptySeq DEF Joined
  <2> QED BY <2>2, <2>3
<1>4. env \in Seq(T)
  BY <1>1, <1>3
<1>5. PICK entry, rest : entry = Entry("database.sql", sql) /\ rest = env
  OBVIOUS
<1>6. /\ entry \in Seq(T) /\ Joined(entry, rest) \in Seq(T)
      /\ ReadEntry(Joined(entry, rest)) = [name |-> "database.sql", data |-> sql]
      /\ AfterEntry(Joined(entry, rest)) = rest
  <2>1. rest \in Seq(T)
    BY <1>4, <1>5
  <2>2. /\ Entry("database.sql", sql) \in Seq(T) /\ Joined(Entry("database.sql", sql), rest) \in Seq(T)
        /\ ReadEntry(Joined(Entry("database.sql", sql), rest)) = [name |-> "database.sql", data |-> sql]
        /\ AfterEntry(Joined(Entry("database.sql", sql), rest)) = rest
    BY <2>1, <1>1, EntryIs
  <2>3. entry = Entry("database.sql", sql)
    BY <1>5
  <2> QED BY <2>2, <2>3
<1>7. first = Joined(entry, rest)
  <2>1. PICK x, h : x = <<"manifest">> /\ h = <<x>>
    OBVIOUS
  <2>2. h \in Seq(T)
    BY <2>1, <1>1
  <2>3. payload = Joined(Joined(h, entry), rest)
    BY <2>1, <1>5 DEF Joined, Payload
  <2>4. payload = Joined(h, Joined(entry, rest))
    <3>1. entry \in Seq(T) /\ rest \in Seq(T)
      BY <1>4, <1>5, <1>6
    <3>2. Joined(h, Joined(entry, rest)) = Joined(Joined(h, entry), rest)
      BY <3>1, <2>2, JoinedAssociative
    <3> QED BY <3>2, <2>3
  <2> QED BY <2>1, <2>4, <1>1, <1>6, TailIs
<1>8. files = IF second = <<>> THEN <<ReadEntry(first)>> ELSE <<ReadEntry(first), ReadEntry(second)>>
  BY DEF Files
<1>9. second = env /\ ReadEntry(first) = [name |-> "database.sql", data |-> sql]
  BY <1>5, <1>6, <1>7
<1> HIDE DEF first, second, files, payload
<1>10. PICK one : one = [name |-> "database.sql", data |-> sql]
  OBVIOUS
<1>11. one.name = "database.sql" /\ one.data = sql
  BY <1>10
<1>12. CASE EnvFile = None
  <2>1. files = <<one>>
    BY <1>8, <1>9, <1>10, <1>12
  <2>2. Named(files, "database.sql") = {1} /\ Named(files, ".env") = {} /\ files[1] = one
    BY <2>1, <1>11 DEF Named
  <2>3. Min({1}) = 1
    <3>1. {1} \subseteq Nat /\ {1} # {}
      OBVIOUS
    <3> QED BY <3>1, MinIs
  <2> QED BY <2>2, <2>3, <1>11 DEF HasFile, File, files, payload
<1>13. CASE EnvFile # None
  <2>1. PICK two : two = [name |-> ".env", data |-> EnvFile]
    OBVIOUS
  <2>2. two.name = ".env" /\ two.data = EnvFile
    BY <2>1
  <2>3. files = <<one, two>>
    BY <2>1, <1>3, <1>8, <1>9, <1>10, <1>13
  <2>4. Named(files, "database.sql") = {1} /\ Named(files, ".env") = {2} /\ files[1] = one /\ files[2] = two
    BY <2>3, <2>2, <1>11 DEF Named
  <2>5. Min({1}) = 1 /\ Min({2}) = 2
    <3>1. {1} \subseteq Nat /\ {1} # {} /\ {2} \subseteq Nat /\ {2} # {}
      OBVIOUS
    <3> QED BY <3>1, MinIs
  <2> QED BY <2>2, <2>4, <2>5, <1>11, <1>13 DEF HasFile, File, files, payload
<1> QED BY <1>12, <1>13

\* The tables after the statements of the tables before the k-th.
Restored(rows, k) == [t \in Tables |-> IF t \in FirstTables(k) THEN Returned(rows)[t] ELSE {}]

\* A replay that has come to the k-th table.
AtTable(rows, left, tx, k) ==
    /\ left = Script(rows, k)
    /\ tx = Restored(rows, k)
    /\ \A t \in Tables : Refer(tx, t, tx[t])

\* The tables as a replay has them when it has come to the k-th.
LEMMA RestoredIs ==
    ASSUME NEW rows, IsCopy(rows), DOMAIN rows = Dumped, NEW k \in 1..10
    PROVE  /\ DOMAIN Restored(rows, k) = Tables
           /\ \A t \in FirstTables(k) : Restored(rows, k)[t] = AllBack(rows[t])
           /\ \A t \in Tables : t \notin FirstTables(k) => Restored(rows, k)[t] = {}
           /\ \A t \in Tables : Restored(rows, k)[t] \subseteq Row(t)
           /\ Restored(rows, k) \in [Tables -> SUBSET AnyRow]
<1>1. FirstTables(k) \subseteq Dumped /\ Dumped \subseteq Tables
  BY FirstTablesAre, TablesAre
<1>2. \A t \in FirstTables(k) : Restored(rows, k)[t] = AllBack(rows[t])
  BY <1>1, ReturnedIs DEF Restored
<1>3. DOMAIN Restored(rows, k) = Tables
  BY DEF Restored
<1>4. \A t \in Tables : t \notin FirstTables(k) => Restored(rows, k)[t] = {}
  BY DEF Restored
<1>5. \A t \in Tables : Restored(rows, k)[t] \subseteq Row(t)
  <2> TAKE t \in Tables
  <2>1. CASE t \in FirstTables(k)
    <3>1. rows[t] \subseteq Row(t)
      BY <2>1, <1>1 DEF IsCopy
    <3> QED BY <3>1, <2>1, <1>2, AllBackIs
  <2> QED BY <2>1, <1>4
<1>6. Restored(rows, k) = [t \in Tables |-> Restored(rows, k)[t]]
  BY DEF Restored
<1>7. Restored(rows, k) \in [Tables -> SUBSET AnyRow]
  BY <1>5, <1>6, RowIsAny
<1> QED BY <1>2, <1>3, <1>4, <1>5, <1>7

\* A table without rows has no statement, and nothing to restore.
LEMMA TableSkipped ==
    ASSUME NEW rows, IsCopy(rows), DOMAIN rows = Dumped, NEW k \in 1..9,
           NEW left, NEW tx, AtTable(rows, left, tx, k), rows[TABLES[k]] = {}
    PROVE  AtTable(rows, left, tx, k + 1)
<1>1. PICK t \in Dumped : t = TABLES[k]
  BY InOrder
<1>2. PICK s : s = Script(rows, k + 1)
  OBVIOUS
<1>3. Script(rows, k) = Dump(t, {}) \o s /\ s \in Seq(Token)
  BY <1>1, <1>2, ScriptStep
<1>4. Script(rows, k) = s
  <2>1. Dump(t, {}) = <<>>
    BY DEF Dump
  <2>2. <<>> \o s = s
    BY <1>3, ConcatEmptySeq
  <2> QED BY <2>1, <2>2, <1>3
<1>5. FirstTables(k + 1) = FirstTables(k) \cup {t} /\ t \notin FirstTables(k)
  BY <1>1, FirstTablesAre
<1>6. Returned(rows)[t] = {}
  <2>1. AllBack({}) = {}
    BY DEF AllBack
  <2> QED BY <2>1, <1>1, ReturnedIs
<1>7. Restored(rows, k + 1) = Restored(rows, k)
  BY <1>5, <1>6 DEF Restored
<1> QED BY <1>2, <1>4, <1>7 DEF AtTable

\* A table with rows is one statement.
LEMMA TableReplayed ==
    ASSUME NEW rows, IsCopy(rows), DOMAIN rows = Dumped, NEW k \in 1..9,
           NEW left, NEW tx, AtTable(rows, left, tx, k), rows[TABLES[k]] # {}
    PROVE  /\ left # <<>>
           /\ Succeeds(Statement(left), tx) =>
                  AtTable(rows, AfterStatement(left), Execute(Statement(left), tx), k + 1)
           /\ ~Succeeds(Statement(left), tx) =>
                  \/ \E t \in Dumped : ~Refer(rows, t, rows[t])
                  \/ \E t \in Dumped : \E r \in rows[t] : ~Plain(r)
<1>1. PICK t \in Dumped : t = TABLES[k]
  BY InOrder
<1>2. PICK rest, more : rest = Script(rows, k + 1) /\ more = rows[t]
  OBVIOUS
<1>3. t \in Tables /\ more \subseteq Row(t) /\ IsFiniteSet(more) /\ more # {}
  BY <1>1, <1>2, TablesAre DEF IsCopy
<1>4. left = InsertInto(t, more) \o rest /\ rest \in Seq(Token)
  <2>1. left = Dump(t, more) \o rest /\ rest \in Seq(Token)
    BY <1>1, <1>2, ScriptStep DEF AtTable
  <2> QED BY <2>1, <1>3 DEF Dump
<1>5. PICK statement, after : statement = Statement(left) /\ after = AfterStatement(left)
  OBVIOUS
<1>6. /\ left # <<>>
      /\ statement[1] = <<"insert", t>>
      /\ Parses(statement) => after = rest /\ RowsOf(Literal(statement)) = {Back(r) : r \in more}
      /\ (\A r \in more : Plain(r)) => Parses(statement)
  <2>1. more \subseteq AnyRow
    BY <1>3, RowIsAny
  <2> QED BY <2>1, <1>3, <1>4, <1>5, InsertReplayed
<1>7. ~IsTruncate(statement) /\ statement[1][2] = t
  <2>1. <<"insert", t>> # <<"truncate">> /\ <<"insert", t>>[2] = t
    OBVIOUS
  <2> QED BY <2>1, <1>6 DEF IsTruncate
<1>8. Succeeds(statement, tx) <=> Parses(statement) /\ Refer(tx, t, AllBack(more))
  BY <1>6, <1>7 DEF Succeeds, AllBack
<1>9. /\ FirstTables(k + 1) = FirstTables(k) \cup {t} /\ t \notin FirstTables(k)
      /\ Refers(t) \subseteq FirstTables(k) /\ FirstTables(k) \subseteq Dumped
  <2>1. k \in 1..10
    OBVIOUS
  <2> QED BY <2>1, <1>1, FirstTablesAre
<1>10. /\ tx = Restored(rows, k) /\ DOMAIN tx = Tables /\ tx[t] = {}
       /\ \A p \in FirstTables(k) : tx[p] = AllBack(rows[p])
  <2>1. k \in 1..10
    OBVIOUS
  <2> QED BY <2>1, <1>3, <1>9, RestoredIs DEF AtTable
<1>11. ASSUME Succeeds(statement, tx) PROVE AtTable(rows, after, Execute(statement, tx), k + 1)
  <2>1. PICK d : d = Execute(statement, tx)
    OBVIOUS
  <2>2. d = [tx EXCEPT ![t] = AllBack(more)]
    <3>1. d = [tx EXCEPT ![t] = tx[t] \cup AllBack(more)]
      BY <2>1, <1>6, <1>7, <1>8, <1>11 DEF Execute, AllBack
    <3>2. tx[t] \cup AllBack(more) = AllBack(more)
      BY <1>10
    <3> QED BY <3>1, <3>2
  <2>3. d[t] = AllBack(more) /\ \A s \in Tables : s # t => d[s] = tx[s]
    BY <2>2, <1>3, <1>10
  <2>4. d = Restored(rows, k + 1)
    <3>1. Returned(rows)[t] = AllBack(more)
      BY <1>1, <1>2, ReturnedIs
    <3>2. d = [s \in Tables |-> IF s = t THEN AllBack(more) ELSE tx[s]]
      BY <2>2, <1>10
    <3>3. \A s \in Tables : tx[s] = IF s \in FirstTables(k) THEN Returned(rows)[s] ELSE {}
      BY <1>10 DEF Restored
    <3> QED BY <3>1, <3>2, <3>3, <1>9 DEF Restored
  <2>5. \A s \in Tables : Refer(d, s, d[s])
    <3> TAKE s \in Tables
    <3>1. \A p \in Refers(s) : tx[p] \subseteq d[p]
      BY <2>3, <1>10, TwoDeep
    <3>2. Refer(tx, s, d[s])
      <4>1. CASE s = t
        BY <4>1, <2>3, <1>8, <1>11
      <4>2. CASE s # t
        BY <4>2, <2>3 DEF AtTable
      <4> QED BY <4>1, <4>2
    <3> QED BY <3>1, <3>2, ReferMore
  <2>6. after = rest
    BY <1>6, <1>8, <1>11
  <2> QED BY <2>1, <2>4, <2>5, <2>6, <1>2 DEF AtTable
<1>12. ASSUME \A s \in Dumped : Refer(rows, s, rows[s]),
              \A s \in Dumped : \A r \in rows[s] : Plain(r)
       PROVE  Succeeds(statement, tx)
  <2>1. Parses(statement)
    BY <1>2, <1>6, <1>12
  <2>2. Refer(rows, t, AllBack(more))
    BY <1>2, <1>3, <1>12, ReferBack
  <2>3. \A p \in Refers(t) : Ids(tx[p]) = Ids(rows[p])
    <3> TAKE p \in Refers(t)
    <3>1. p \in FirstTables(k) /\ p \in Tables /\ rows[p] \subseteq Row(p)
      BY <1>9, TablesAre DEF IsCopy
    <3> QED BY <3>1, <1>10, AllBackIs
  <2>4. Refer(tx, t, AllBack(more))
    BY <2>2, <2>3 DEF Refer
  <2> QED BY <2>1, <2>4, <1>8
<1> QED BY <1>5, <1>6, <1>11, <1>12

\* A replay with statements left has come to a table with rows.
LEMMA NextTable ==
    ASSUME NEW rows, IsCopy(rows), DOMAIN rows = Dumped,
           NEW left, NEW tx, \E k \in 1..10 : AtTable(rows, left, tx, k)
    PROVE  \/ AtTable(rows, left, tx, 10)
           \/ \E k \in 1..9 : AtTable(rows, left, tx, k) /\ rows[TABLES[k]] # {}
<1>1. PICK k \in 1..10 : /\ AtTable(rows, left, tx, k)
                         /\ \A i \in 1..10 : AtTable(rows, left, tx, i) => i <= k
  <2> DEFINE K == {i \in 1..10 : AtTable(rows, left, tx, i)}
  <2>1. K \subseteq 1..10 /\ K # {} /\ 10 \in Nat
    OBVIOUS
  <2>2. \A i : i \in K <=> i \in 1..10 /\ AtTable(rows, left, tx, i)
    OBVIOUS
  <2> HIDE DEF K
  <2>3. Max(K) \in K /\ \A i \in K : i <= Max(K)
    BY <2>1, MaxIs
  <2> QED BY <2>2, <2>3
<1>2. CASE k = 10
  BY <1>1, <1>2
<1>3. CASE k \in 1..9
  <2>1. k + 1 \in 1..10 /\ ~(k + 1 <= k)
    BY <1>3
  <2>2. rows[TABLES[k]] # {}
    BY <2>1, <1>1, <1>3, TableSkipped
  <2> QED BY <2>2, <1>1, <1>3
<1> QED BY <1>2, <1>3

\* A replay with nothing left has come through all tables.
LEMMA AllReplayed ==
    ASSUME NEW rows, IsCopy(rows), DOMAIN rows = Dumped,
           NEW tx, \E k \in 1..10 : AtTable(rows, <<>>, tx, k)
    PROVE  AtTable(rows, <<>>, tx, 10)
<1>1. \A k \in 1..9 : ~(AtTable(rows, <<>>, tx, k) /\ rows[TABLES[k]] # {})
  BY TableReplayed
<1> QED BY <1>1, NextTable

\* The first statement of a restore.
LEMMA TablesEmptied ==
    ASSUME NEW rows, IsCopy(rows), DOMAIN rows = Dumped, NEW left, left = Truncate \o Script(rows, 1),
           NEW d
    PROVE  /\ left # <<>> /\ left \in Seq(Token)
           /\ Succeeds(Statement(left), d)
           /\ AtTable(rows, AfterStatement(left), Execute(Statement(left), d), 1)
<1>1. PICK rest : rest = Script(rows, 1)
  OBVIOUS
<1>2. rest \in Seq(Token)
  BY <1>1, ScriptStep
<1>3. /\ left \in Seq(Token) /\ left # <<>>
      /\ IsTruncate(Statement(left)) /\ AfterStatement(left) = rest
  BY <1>1, <1>2, TruncateReplayed
<1>4. Succeeds(Statement(left), d)
  BY <1>3 DEF Succeeds
<1>5. Execute(Statement(left), d) = [t \in Tables |-> {}]
  <2>1. \A t \in Tables : t \in Dumped \/ Refers(t) # {}
    BY TablesAre DEF Refers
  <2> QED BY <2>1, <1>3 DEF Execute
<1>6. Restored(rows, 1) = [t \in Tables |-> {}]
  BY FirstTablesAre DEF Restored
<1>7. \A t \in Tables : Refer([s \in Tables |-> {}], t, [s \in Tables |-> {}][t])
  BY DEF Refer
<1> QED BY <1>1, <1>3, <1>4, <1>5, <1>6, <1>7 DEF AtTable

\* Finitely many rows come back as finitely many.
LEMMA AllBackFinite ==
    ASSUME NEW rows, IsFiniteSet(rows)
    PROVE  IsFiniteSet(AllBack(rows))
<1> DEFINE f == [r \in rows |-> Back(r)]
<1>1. f \in Surjection(rows, AllBack(rows))
  BY DEF Surjection, AllBack
<1> HIDE DEF f
<1> QED BY <1>1, FS_Surjection

-----------------------------------------------------------------------------
(* The inductive invariant *)

TablesInv(d) ==
    /\ d = [t \in Tables |-> d[t]]
    /\ \A t \in Tables : d[t] \subseteq Row(t) /\ Refer(d, t, d[t]) /\ IsFiniteSet(d[t])

\* A dump has written the tables it has read, as they were then.
DumpInv(of, d) ==
    /\ of \in [at : 1..10, sql : Seq(Token), rows : Copies, quiet : BOOLEAN]
    /\ DOMAIN of.rows = FirstTables(of.at) /\ IsCopy(of.rows)
    /\ of.sql = Truncate \o Before(of.rows, of.at)
    /\ of.quiet => \A t \in DOMAIN of.rows : of.rows[t] = d[t]

\* An archive is the text of what its dump read, and consistent if that was quiet.
CopyInv(archive) ==
    /\ DOMAIN archive.rows = Dumped /\ IsCopy(archive.rows)
    /\ archive.payload = Payload(Truncate \o Script(archive.rows, 1))
    /\ archive.quiet => \A t \in Dumped : Refer(archive.rows, t, archive.rows[t])

Archived == [payload : {Payload(sql) : sql \in Seq(Token)}, damaged : BOOLEAN,
             rows : Copies, quiet : BOOLEAN]
ArchivesInv(all) == all \in Seq(Archived) /\ \A a \in DOMAIN all : CopyInv(all[a])

\* A restore has come to some table, and the transaction has the tables before it.
RestoreInv(of, all) ==
    /\ of \in [of : DOMAIN all, tx : [Tables -> SUBSET AnyRow] \cup {None}, left : Seq(Token)]
    /\ \/ of.tx = None /\ of.left = Truncate \o Script(all[of.of].rows, 1)
       \/ \E k \in 1..10 : AtTable(all[of.of].rows, of.left, of.tx, k)

RefusedInv(some, all) ==
    /\ some \subseteq DOMAIN all
    /\ \A a \in some : all[a].quiet => \E t \in Dumped : \E r \in all[a].rows[t] : ~Plain(r)

IInv ==
    /\ TablesInv(db)
    /\ dump # None => DumpInv(dump, db) /\ Len(archives) < MaxDumps
    /\ ArchivesInv(archives) /\ Len(archives) <= MaxDumps
    /\ restore # None => RestoreInv(restore, archives)
    /\ RefusedInv(refused, archives)
    /\ envFile \in {None, EnvFile}
    /\ writes \in 0..MaxWrites

\* The inductive invariant implies the type invariant and what quiet dumps promise.
LEMMA InvImplies == IInv => TypeOK /\ QuietDumpsRestore
<1> SUFFICES ASSUME IInv PROVE TypeOK /\ QuietDumpsRestore
  OBVIOUS
<1>1. Len(archives) \in 0..MaxDumps
  <2>1. Len(archives) \in Nat /\ MaxDumps \in Nat /\ Len(archives) <= MaxDumps
    BY LenProperties, ArchiveAssumption DEF IInv, ArchivesInv
  <2> QED BY <2>1
<1>2. dump # None => dump.at \in 1..Len(TABLES) + 1 /\ dump.quiet \in BOOLEAN
  <2>1. Len(TABLES) + 1 = 10
    BY TablesAre
  <2> QED BY <2>1 DEF IInv, DumpInv
<1>3. restore # None => restore.of \in DOMAIN archives
  BY DEF IInv, RestoreInv
<1>4. /\ db = [t \in Tables |-> db[t]]
      /\ \A t \in Tables : db[t] \subseteq Row(t) /\ Refer(db, t, db[t])
  BY DEF IInv, TablesInv
<1>5. refused \subseteq DOMAIN archives /\ envFile \in {None, EnvFile} /\ writes \in 0..MaxWrites
  BY DEF IInv, RefusedInv
<1>6. QuietDumpsRestore
  BY DEF IInv, RefusedInv, QuietDumpsRestore, Apostrophe, Plain
<1> QED BY <1>1, <1>2, <1>3, <1>4, <1>5, <1>6 DEF TypeOK

-----------------------------------------------------------------------------
(* Each part of it, from one state to the next *)

\* An insert whose references are satisfied keeps the tables consistent.
LEMMA RowInserted ==
    ASSUME NEW d, TablesInv(d), NEW t \in Tables, NEW row \in Row(t), Refer(d, t, {row})
    PROVE  TablesInv([d EXCEPT ![t] = @ \cup {row}])
<1> DEFINE e == [d EXCEPT ![t] = @ \cup {row}]
<1>1. /\ d = [s \in Tables |-> d[s]]
      /\ \A s \in Tables : d[s] \subseteq Row(s) /\ Refer(d, s, d[s]) /\ IsFiniteSet(d[s])
  BY DEF TablesInv
<1>2. e[t] = d[t] \cup {row} /\ \A s \in Tables : s # t => e[s] = d[s]
  BY <1>1
<1>3. e = [s \in Tables |-> e[s]]
  BY <1>1
<1> HIDE DEF e
<1>4. ASSUME NEW s \in Tables PROVE e[s] \subseteq Row(s) /\ Refer(e, s, e[s]) /\ IsFiniteSet(e[s])
  <2>1. e[s] \subseteq Row(s)
    BY <1>1, <1>2
  <2>2. IsFiniteSet(e[s])
    BY <1>1, <1>2, FS_AddElement
  <2>3. Refer(d, s, e[s])
    <3>1. CASE s = t
      BY <3>1, <1>1, <1>2 DEF Refer
    <3>2. CASE s # t
      BY <3>2, <1>1, <1>2
    <3> QED BY <3>1, <3>2
  <2>4. \A p \in Refers(s) : d[p] \subseteq e[p]
    BY <1>2, TwoDeep
  <2> QED BY <2>1, <2>2, <2>3, <2>4, ReferMore
<1> QED BY <1>3, <1>4 DEF e, TablesInv

\* So does a delete with all that refers to the row; of the table itself nothing else goes.
LEMMA RowsDeleted ==
    ASSUME NEW d, TablesInv(d), NEW t \in Tables, NEW rows, rows \subseteq d[t]
    PROVE  /\ TablesInv(Cascade([d EXCEPT ![t] = rows]))
           /\ \A s \in Tables : Cascade([d EXCEPT ![t] = rows])[s] \subseteq d[s]
           /\ Cascade([d EXCEPT ![t] = rows])[t] = rows
<1> DEFINE b == [d EXCEPT ![t] = rows]
           e == Cascade(b)
<1>1. /\ d = [s \in Tables |-> d[s]] /\ DOMAIN d = Tables
      /\ \A s \in Tables : d[s] \subseteq Row(s) /\ Refer(d, s, d[s]) /\ IsFiniteSet(d[s])
  BY DEF TablesInv
<1>2. \A s \in Tables : b[s] \subseteq d[s]
  BY <1>1
<1>3. e[t] = rows
  BY <1>1, CascadeOwn
<1> HIDE DEF b
<1>4. e = [s \in Tables |-> e[s]]
  <2>1. PICK c : c = WithoutOrphans(b)
    OBVIOUS
  <2>2. e = WithoutOrphans(c)
    BY <2>1 DEF Cascade
  <2> QED BY <2>2, WithoutOrphansIs
<1>5. \A s \in Tables : Refer(e, s, e[s]) /\ e[s] \subseteq b[s]
  BY CascadeRefers
<1> HIDE DEF e
<1>6. \A s \in Tables : e[s] \subseteq d[s]
  BY <1>2, <1>5
<1>7. \A s \in Tables : IsFiniteSet(e[s])
  BY <1>1, <1>6, FS_Subset
<1>8. \A s \in Tables : e[s] \subseteq Row(s)
  BY <1>1, <1>6
<1> QED BY <1>3, <1>4, <1>5, <1>6, <1>7, <1>8 DEF TablesInv, b, e

\* A write makes the dump in progress an overlapped one.
LEMMA DumpDisturbed ==
    ASSUME NEW of, NEW d, NEW e, DumpInv(of, d)
    PROVE  DumpInv([of EXCEPT !.quiet = FALSE], e)
<1>1. of \in [at : 1..10, sql : Seq(Token), rows : Copies, quiet : BOOLEAN]
  BY DEF DumpInv
<1> DEFINE u == [of EXCEPT !.quiet = FALSE]
<1>2. u \in [at : 1..10, sql : Seq(Token), rows : Copies, quiet : BOOLEAN]
  BY <1>1
<1>3. u.at = of.at /\ u.sql = of.sql /\ u.rows = of.rows /\ u.quiet = FALSE
  BY <1>1
<1> HIDE DEF u
<1>4. DumpInv(u, e)
  BY <1>2, <1>3 DEF DumpInv
<1> QED BY <1>4 DEF u

\* A new dump has read no table.
LEMMA DumpStarted ==
    ASSUME NEW d
    PROVE  DumpInv([at |-> 1, sql |-> Truncate, rows |-> <<>>, quiet |-> TRUE], d)
<1>1. PICK none, sql : none = <<>> /\ sql = Truncate
  OBVIOUS
<1> DEFINE u == [at |-> 1, sql |-> sql, rows |-> none, quiet |-> TRUE]
<1>2. DOMAIN none = {} /\ none \in Copies
  <2>1. DOMAIN none = {}
    BY <1>1
  <2>2. none = [t \in {} |-> {}]
    BY <1>1
  <2>3. none \in [{} -> SUBSET AnyRow]
    BY <2>2
  <2> QED BY <2>1, <2>3 DEF Copies
<1>3. IsCopy(none)
  BY <1>2 DEF IsCopy
<1>4. sql \in Seq(Token) /\ sql = sql \o <<>>
  <2>1. PICK x, y : x = <<"truncate">> /\ y = SEMICOLON
    OBVIOUS
  <2>2. x \in Token /\ y \in Token
    BY <2>1 DEF Token, Chars
  <2>3. sql = <<x, y>>
    BY <2>1, <1>1 DEF Truncate
  <2>4. sql \in Seq(Token)
    BY <2>2, <2>3
  <2> QED BY <2>4, ConcatEmptySeq
<1>5. Before(none, 1) = <<>> /\ FirstTables(1) = {}
  BY ScriptEnd, FirstTablesAre
<1>6. u \in [at : 1..10, sql : Seq(Token), rows : Copies, quiet : BOOLEAN]
  BY <1>2, <1>4
<1>7. u.at = 1 /\ u.sql = sql /\ u.rows = none
  OBVIOUS
<1> HIDE DEF u
<1>8. DumpInv(u, d)
  BY <1>1, <1>2, <1>3, <1>4, <1>5, <1>6, <1>7 DEF DumpInv
<1> QED BY <1>1, <1>8 DEF u

\* A dump that reads its next table.
LEMMA TableDumped ==
    ASSUME NEW of, NEW d, TablesInv(d), DumpInv(of, d), of.at <= Len(TABLES)
    PROVE  LET t == ParentsFirst(of.at)
           IN  DumpInv([of EXCEPT
                   !.at = @ + 1,
                   !.sql = @ \o Dump(t, d[t]),
                   !.rows = [u \in DOMAIN @ \cup {t} |-> IF u = t THEN d[t] ELSE of.rows[u]]], d)
<1>1. /\ of \in [at : 1..10, sql : Seq(Token), rows : Copies, quiet : BOOLEAN]
      /\ DOMAIN of.rows = FirstTables(of.at) /\ IsCopy(of.rows)
      /\ of.sql = Truncate \o Before(of.rows, of.at)
      /\ of.quiet => \A t \in DOMAIN of.rows : of.rows[t] = d[t]
  BY DEF DumpInv
<1>2. PICK k \in 1..9 : k = of.at
  <2>1. of.at \in 1..10 /\ of.at <= 9
    BY <1>1, TablesAre
  <2> QED BY <2>1
<1>3. PICK t \in Dumped : t = TABLES[k] /\ t = ParentsFirst(of.at)
  BY <1>2, InOrder DEF ParentsFirst
<1>4. PICK rows, text : rows = of.rows /\ text = Dump(t, d[t])
  OBVIOUS
<1>5. PICK more : more = [u \in FirstTables(k) \cup {t} |-> IF u = t THEN d[t] ELSE rows[u]]
  OBVIOUS
<1>6. /\ FirstTables(k + 1) = FirstTables(k) \cup {t} /\ t \notin FirstTables(k)
      /\ FirstTables(k + 1) \subseteq Dumped
  <2>1. k + 1 \in 1..10
    OBVIOUS
  <2> QED BY <2>1, <1>3, FirstTablesAre
<1>7. DOMAIN more = FirstTables(k + 1) /\ more[t] = d[t] /\ \A u \in FirstTables(k) : more[u] = rows[u]
  BY <1>5, <1>6
<1>8. t \in Tables /\ d[t] \subseteq Row(t) /\ IsFiniteSet(d[t])
  BY TablesAre DEF TablesInv
<1>9. IsCopy(more)
  <2>1. \A u \in DOMAIN more : more[u] \subseteq Row(u) /\ IsFiniteSet(more[u])
    BY <1>1, <1>2, <1>4, <1>6, <1>7, <1>8 DEF IsCopy
  <2>2. \A u \in DOMAIN more : more[u] \subseteq AnyRow
    BY <2>1, <1>6, <1>7, RowIsAny, TablesAre
  <2>3. more = [u \in DOMAIN more |-> more[u]]
    BY <1>5
  <2>4. more \in [DOMAIN more -> SUBSET AnyRow]
    BY <2>2, <2>3
  <2>5. more \in Copies
    BY <2>4, <1>6, <1>7 DEF Copies
  <2> QED BY <2>1, <2>5 DEF IsCopy
<1>10. PICK before, after, truncate : before = Before(rows, k) /\ after = Before(more, k + 1) /\ truncate = Truncate
  OBVIOUS
<1>11. after = before \o text /\ before \in Seq(Token) /\ after \in Seq(Token) /\ text \in Seq(Token)
  <2>1. text \in Seq(Token)
    BY <1>4, <1>8, DumpType
  <2>2. IsCopy(rows) /\ DOMAIN rows = FirstTables(k)
    BY <1>1, <1>2, <1>4
  <2>3. /\ Before(more, k + 1) = Before(rows, k) \o Dump(TABLES[k], more[TABLES[k]])
        /\ Before(rows, k) \in Seq(Token) /\ Before(more, k + 1) \in Seq(Token)
    BY <2>2, <1>7, <1>9, BeforeStep
  <2> QED BY <2>1, <2>3, <1>3, <1>4, <1>7, <1>10
<1>12. truncate \in Seq(Token)
  <2>1. PICK x, y : x = <<"truncate">> /\ y = SEMICOLON
    OBVIOUS
  <2>2. x \in Token /\ y \in Token
    BY <2>1 DEF Token, Chars
  <2>3. truncate = <<x, y>>
    BY <2>1, <1>10 DEF Truncate
  <2> QED BY <2>2, <2>3
<1>13. of.sql \o text = truncate \o after /\ of.sql \o text \in Seq(Token)
  <2>1. Joined(truncate, Joined(before, text)) = Joined(Joined(truncate, before), text)
    BY <1>11, <1>12, JoinedAssociative
  <2>2. after = Joined(before, text) /\ of.sql = Joined(truncate, before)
    BY <1>1, <1>2, <1>4, <1>10, <1>11 DEF Joined
  <2>3. Joined(truncate, after) \in Seq(Token)
    BY <1>11, <1>12, JoinIs
  <2>4. Joined(of.sql, text) = Joined(truncate, after)
    BY <2>1, <2>2
  <2> QED BY <2>3, <2>4 DEF Joined
<1>14. PICK sql : sql = of.sql \o text
  OBVIOUS
<1> DEFINE u == [of EXCEPT !.at = k + 1, !.sql = sql, !.rows = more]
<1>15. u \in [at : 1..10, sql : Seq(Token), rows : Copies, quiet : BOOLEAN]
  <2>1. k + 1 \in 1..10
    OBVIOUS
  <2>2. sql \in Seq(Token)
    BY <1>13, <1>14
  <2>3. more \in Copies
    BY <1>9 DEF IsCopy
  <2> QED BY <2>1, <2>2, <2>3, <1>1
<1>16. u.at = k + 1 /\ u.sql = sql /\ u.rows = more /\ u.quiet = of.quiet
  BY <1>1
<1>17. [of EXCEPT !.at = @ + 1, !.sql = @ \o Dump(t, d[t]),
                  !.rows = [v \in DOMAIN @ \cup {t} |-> IF v = t THEN d[t] ELSE of.rows[v]]] = u
  <2>1. [v \in DOMAIN of.rows \cup {t} |-> IF v = t THEN d[t] ELSE of.rows[v]] = more
    BY <1>1, <1>2, <1>4, <1>5
  <2>2. of.at + 1 = k + 1 /\ of.sql \o Dump(t, d[t]) = sql
    BY <1>2, <1>4, <1>14
  <2> QED BY <2>1, <2>2, <1>1
<1> HIDE DEF u
<1>18. u.quiet => \A v \in DOMAIN u.rows : u.rows[v] = d[v]
  BY <1>1, <1>2, <1>4, <1>6, <1>7, <1>16
<1>19. u.sql = Truncate \o Before(u.rows, u.at)
  BY <1>10, <1>13, <1>14, <1>16
<1>20. DumpInv(u, d)
  BY <1>7, <1>9, <1>15, <1>16, <1>18, <1>19 DEF DumpInv
<1> QED BY <1>3, <1>17, <1>20

\* What is left of a dump is a text.
LEMMA ScriptType ==
    ASSUME NEW rows, IsCopy(rows), DOMAIN rows = Dumped, NEW k \in 1..10
    PROVE  Script(rows, k) \in Seq(Token)
<1>1. CASE k = 10
  BY <1>1, ScriptEnd, EmptySeq
<1>2. CASE k \in 1..9
  BY <1>2, ScriptStep
<1> QED BY <1>1, <1>2

\* A dump that has read all tables makes an archive.
LEMMA DumpArchived ==
    ASSUME NEW of, NEW d, TablesInv(d), DumpInv(of, d), of.at > Len(TABLES)
    PROVE  LET archive == [payload |-> Payload(of.sql), damaged |-> FALSE,
                           rows |-> of.rows, quiet |-> of.quiet]
           IN  archive \in Archived /\ CopyInv(archive)
<1>1. /\ of \in [at : 1..10, sql : Seq(Token), rows : Copies, quiet : BOOLEAN]
      /\ DOMAIN of.rows = FirstTables(of.at) /\ IsCopy(of.rows)
      /\ of.sql = Truncate \o Before(of.rows, of.at)
      /\ of.quiet => \A t \in DOMAIN of.rows : of.rows[t] = d[t]
  BY DEF DumpInv
<1>2. of.at = 10
  <2>1. of.at \in 1..10 /\ of.at > 9
    BY <1>1, TablesAre
  <2> QED BY <2>1
<1>3. DOMAIN of.rows = Dumped
  BY <1>1, <1>2, FirstTablesAre
<1>4. of.sql = Truncate \o Script(of.rows, 1)
  BY <1>1, <1>2, BeforeAll
<1>5. ASSUME of.quiet PROVE \A t \in Dumped : Refer(of.rows, t, of.rows[t])
  <2> TAKE t \in Dumped
  <2>1. t \in Tables /\ \A p \in Refers(t) : p \in Dumped
    BY TablesAre, TwoDeep
  <2>2. Refer(d, t, d[t])
    BY <2>1 DEF TablesInv
  <2> QED BY <2>1, <2>2, <1>1, <1>3, <1>5 DEF Refer
<1>6. PICK payload : payload = Payload(of.sql)
  OBVIOUS
<1> DEFINE archive == [payload |-> payload, damaged |-> FALSE, rows |-> of.rows, quiet |-> of.quiet]
<1>7. payload \in {Payload(sql) : sql \in Seq(Token)}
  BY <1>1, <1>6
<1>8. archive \in Archived
  BY <1>1, <1>7 DEF Archived
<1>9. archive.payload = payload /\ archive.rows = of.rows /\ archive.quiet = of.quiet
  OBVIOUS
<1> HIDE DEF archive
<1>10. CopyInv(archive)
  BY <1>1, <1>3, <1>4, <1>5, <1>6, <1>9 DEF CopyInv
<1> QED BY <1>6, <1>8, <1>10 DEF archive

\* The archives written so far, and those of a later state: none goes, none changes.
Kin(all, more) ==
    /\ DOMAIN all \subseteq DOMAIN more
    /\ \A a \in DOMAIN all : more[a].rows = all[a].rows /\ more[a].quiet = all[a].quiet

\* One archive more.
LEMMA ArchiveAdded ==
    ASSUME NEW all, ArchivesInv(all), NEW archive \in Archived, CopyInv(archive)
    PROVE  LET more == Append(all, archive)
           IN  /\ ArchivesInv(more) /\ Kin(all, more)
               /\ Len(more) = Len(all) + 1 /\ Len(all) \in Nat
               /\ DOMAIN more = DOMAIN all \cup {Len(all) + 1}
               /\ more[Len(all) + 1] = archive
<1>1. all \in Seq(Archived) /\ \A a \in DOMAIN all : CopyInv(all[a])
  BY DEF ArchivesInv
<1>2. PICK more, n : more = Append(all, archive) /\ n = Len(all)
  OBVIOUS
<1>3. /\ more \in Seq(Archived) /\ Len(more) = n + 1
      /\ \A i \in 1..n : more[i] = all[i]
      /\ more[n + 1] = archive
  BY <1>1, <1>2, AppendProperties
<1>4. n \in Nat /\ DOMAIN all = 1..n /\ DOMAIN more = 1..n + 1
  BY <1>1, <1>2, <1>3, LenProperties
<1>5. 1..n + 1 = 1..n \cup {n + 1}
  BY <1>4
<1>6. \A a \in DOMAIN more : CopyInv(more[a])
  BY <1>1, <1>3, <1>4, <1>5
<1>7. ArchivesInv(more) /\ Kin(all, more)
  BY <1>3, <1>4, <1>5, <1>6 DEF ArchivesInv, Kin
<1> QED BY <1>2, <1>3, <1>4, <1>5, <1>7

\* Damage does not change what an archive was written from.
LEMMA ArchiveDamaged ==
    ASSUME NEW all, ArchivesInv(all), NEW a \in DOMAIN all
    PROVE  LET more == [all EXCEPT ![a].damaged = TRUE]
           IN  /\ ArchivesInv(more) /\ Kin(all, more)
               /\ Len(more) = Len(all) /\ DOMAIN more = DOMAIN all
<1>1. all \in Seq(Archived) /\ \A b \in DOMAIN all : CopyInv(all[b])
  BY DEF ArchivesInv
<1>2. PICK n \in Nat : n = Len(all)
  BY <1>1, LenProperties
<1>3. DOMAIN all = 1..n /\ all \in [1..n -> Archived]
  BY <1>1, <1>2, LenProperties
<1>4. PICK one : one = [all[a] EXCEPT !.damaged = TRUE]
  OBVIOUS
<1>5. all[a] \in Archived
  BY <1>3
<1>6. one \in Archived /\ one.payload = all[a].payload /\ one.rows = all[a].rows /\ one.quiet = all[a].quiet
  BY <1>4, <1>5 DEF Archived
<1>7. CopyInv(one)
  BY <1>1, <1>6 DEF CopyInv
<1>8. PICK more : more = [all EXCEPT ![a] = one]
  OBVIOUS
<1>9. more \in [1..n -> Archived] /\ more[a] = one /\ \A b \in 1..n : b # a => more[b] = all[b]
  BY <1>3, <1>6, <1>8
<1>10. more \in Seq(Archived) /\ Len(more) = n /\ DOMAIN more = 1..n
  BY <1>9
<1>11. ArchivesInv(more) /\ Kin(all, more)
  BY <1>1, <1>3, <1>6, <1>7, <1>9, <1>10 DEF ArchivesInv, Kin
<1>12. [all EXCEPT ![a].damaged = TRUE] = more
  BY <1>4, <1>8
<1> QED BY <1>2, <1>3, <1>10, <1>11, <1>12

\* A restore goes on when archives are added or damaged.
LEMMA RestoreKept ==
    ASSUME NEW of, NEW all, NEW more, RestoreInv(of, all), Kin(all, more)
    PROVE  RestoreInv(of, more)
<1>1. of \in [of : DOMAIN all, tx : [Tables -> SUBSET AnyRow] \cup {None}, left : Seq(Token)]
  BY DEF RestoreInv
<1>2. of.of \in DOMAIN all
  BY <1>1
<1>3. more[of.of].rows = all[of.of].rows
  BY <1>2 DEF Kin
<1>4. of \in [of : DOMAIN more, tx : [Tables -> SUBSET AnyRow] \cup {None}, left : Seq(Token)]
  BY <1>1 DEF Kin
<1> QED BY <1>3, <1>4 DEF RestoreInv

\* What was refused stays so.
LEMMA RefusedKept ==
    ASSUME NEW some, NEW all, NEW more, RefusedInv(some, all), Kin(all, more)
    PROVE  RefusedInv(some, more)
BY DEF RefusedInv, Kin

\* An archive gives back its dump and its .env.
LEMMA RestoreStarted ==
    ASSUME NEW all, ArchivesInv(all), NEW a \in DOMAIN all
    PROVE  LET files == Files(all[a].payload)
           IN  /\ HasFile(files, "database.sql")
               /\ RestoreInv([of |-> a, tx |-> None, left |-> File(files, "database.sql")], all)
               /\ HasFile(files, ".env") => File(files, ".env") = EnvFile
<1>1. PICK rows : rows = all[a].rows
  OBVIOUS
<1>2. DOMAIN rows = Dumped /\ IsCopy(rows) /\ all[a].payload = Payload(Truncate \o Script(rows, 1))
  BY <1>1 DEF ArchivesInv, CopyInv
<1>3. PICK sql : sql = Truncate \o Script(rows, 1)
  OBVIOUS
<1>4. sql \in Seq(Token)
  BY <1>2, <1>3, TablesEmptied
<1>5. PICK files : files = Files(all[a].payload)
  OBVIOUS
<1>6. /\ HasFile(files, "database.sql") /\ File(files, "database.sql") = sql
      /\ HasFile(files, ".env") => File(files, ".env") = EnvFile
  BY <1>2, <1>3, <1>4, <1>5, FilesAre
<1> DEFINE of == [of |-> a, tx |-> None, left |-> sql]
<1>7. of \in [of : DOMAIN all, tx : [Tables -> SUBSET AnyRow] \cup {None}, left : Seq(Token)]
  BY <1>4
<1>8. of.of = a /\ of.tx = None /\ of.left = sql
  OBVIOUS
<1> HIDE DEF of
<1>9. RestoreInv(of, all)
  BY <1>1, <1>3, <1>7, <1>8 DEF RestoreInv
<1> QED BY <1>5, <1>6, <1>9 DEF of

\* A statement of a restore that succeeds.
LEMMA StatementReplayed ==
    ASSUME NEW of, NEW all, NEW d, ArchivesInv(all), RestoreInv(of, all), of.left # <<>>
    PROVE  LET statement == Statement(of.left)
               before == IF of.tx = None THEN d ELSE of.tx
               rows == all[of.of].rows
           IN  /\ Succeeds(statement, before) =>
                      RestoreInv([of EXCEPT !.left = AfterStatement(@), !.tx = Execute(statement, before)], all)
               /\ ~Succeeds(statement, before) =>
                      \/ ~all[of.of].quiet
                      \/ \E t \in Dumped : \E r \in rows[t] : ~Plain(r)
<1>1. /\ of \in [of : DOMAIN all, tx : [Tables -> SUBSET AnyRow] \cup {None}, left : Seq(Token)]
      /\ \/ of.tx = None /\ of.left = Truncate \o Script(all[of.of].rows, 1)
         \/ \E k \in 1..10 : AtTable(all[of.of].rows, of.left, of.tx, k)
  BY DEF RestoreInv
<1>2. PICK rows, left, tx : rows = all[of.of].rows /\ left = of.left /\ tx = of.tx
  OBVIOUS
<1>3. /\ DOMAIN rows = Dumped /\ IsCopy(rows)
      /\ all[of.of].quiet => \A t \in Dumped : Refer(rows, t, rows[t])
  BY <1>1, <1>2 DEF ArchivesInv, CopyInv
<1>4. PICK before, statement, after :
        /\ before = IF of.tx = None THEN d ELSE of.tx
        /\ statement = Statement(left) /\ after = AfterStatement(left)
  OBVIOUS
<1>5. ASSUME NEW k \in 1..10, NEW e, AtTable(rows, after, e, k)
      PROVE  RestoreInv([of EXCEPT !.left = after, !.tx = e], all)
  <2> DEFINE u == [of EXCEPT !.left = after, !.tx = e]
  <2>1. after \in Seq(Token)
    BY <1>3, <1>5, ScriptType DEF AtTable
  <2>2. e \in [Tables -> SUBSET AnyRow]
    BY <1>3, <1>5, RestoredIs DEF AtTable
  <2>3. u \in [of : DOMAIN all, tx : [Tables -> SUBSET AnyRow] \cup {None}, left : Seq(Token)]
    BY <2>1, <2>2, <1>1
  <2>4. u.of = of.of /\ u.left = after /\ u.tx = e
    BY <1>1
  <2> HIDE DEF u
  <2>5. RestoreInv(u, all)
    BY <2>3, <2>4, <1>2, <1>5 DEF RestoreInv
  <2> QED BY <2>5 DEF u
<1>6. CASE of.tx = None /\ of.left = Truncate \o Script(rows, 1)
  <2>1. Succeeds(statement, before) /\ AtTable(rows, after, Execute(statement, before), 1)
    BY <1>2, <1>3, <1>4, <1>6, TablesEmptied
  <2>2. RestoreInv([of EXCEPT !.left = after, !.tx = Execute(statement, before)], all)
    <3>1. 1 \in 1..10
      OBVIOUS
    <3> QED BY <3>1, <2>1, <1>5
  <2> QED BY <2>1, <2>2, <1>2, <1>4
<1>7. CASE \E k \in 1..10 : AtTable(rows, left, tx, k)
  <2>1. tx # None
    <3>1. tx \in [Tables -> SUBSET AnyRow]
      BY <1>3, <1>7, RestoredIs DEF AtTable
    <3> QED BY <3>1, ArchiveAssumption DEF AnyRow
  <2>2. before = tx
    BY <2>1, <1>2, <1>4
  <2>3. PICK k \in 1..9 : AtTable(rows, left, tx, k) /\ rows[TABLES[k]] # {}
    <3>1. ~AtTable(rows, left, tx, 10)
      BY <1>2, ScriptEnd DEF AtTable
    <3> QED BY <3>1, <1>3, <1>7, NextTable
  <2>4. /\ Succeeds(statement, before) => AtTable(rows, after, Execute(statement, before), k + 1)
        /\ ~Succeeds(statement, before) =>
              \/ \E t \in Dumped : ~Refer(rows, t, rows[t])
              \/ \E t \in Dumped : \E r \in rows[t] : ~Plain(r)
    BY <2>2, <2>3, <1>3, <1>4, TableReplayed
  <2>5. Succeeds(statement, before) =>
            RestoreInv([of EXCEPT !.left = after, !.tx = Execute(statement, before)], all)
    <3>1. k + 1 \in 1..10
      OBVIOUS
    <3> QED BY <3>1, <2>4, <1>5
  <2> QED BY <2>4, <2>5, <1>2, <1>3, <1>4
<1> QED BY <1>1, <1>2, <1>6, <1>7

\* With nothing left of it, a restore has exactly the rows of its archive.
LEMMA AllRestored ==
    ASSUME NEW of, NEW all, ArchivesInv(all), RestoreInv(of, all), of.left = <<>>
    PROVE  LET rows == all[of.of].rows
           IN  /\ of.tx # None /\ of.tx = Restored(rows, 10) /\ TablesInv(of.tx)
               /\ of.of \in DOMAIN all /\ IsCopy(rows) /\ DOMAIN rows = Dumped
<1>1. /\ of \in [of : DOMAIN all, tx : [Tables -> SUBSET AnyRow] \cup {None}, left : Seq(Token)]
      /\ \/ of.tx = None /\ of.left = Truncate \o Script(all[of.of].rows, 1)
         \/ \E k \in 1..10 : AtTable(all[of.of].rows, of.left, of.tx, k)
  BY DEF RestoreInv
<1>2. PICK rows, tx : rows = all[of.of].rows /\ tx = of.tx
  OBVIOUS
<1>3. of.of \in DOMAIN all /\ DOMAIN rows = Dumped /\ IsCopy(rows)
  BY <1>1, <1>2 DEF ArchivesInv, CopyInv
<1>4. of.left # Truncate \o Script(rows, 1)
  BY <1>3, TablesEmptied
<1>5. \E k \in 1..10 : AtTable(rows, <<>>, tx, k)
  BY <1>1, <1>2, <1>4
<1>6. AtTable(rows, <<>>, tx, 10)
  BY <1>3, <1>5, AllReplayed
<1>7. tx = Restored(rows, 10) /\ \A t \in Tables : Refer(tx, t, tx[t])
  BY <1>6 DEF AtTable
<1>8. /\ DOMAIN tx = Tables /\ tx \in [Tables -> SUBSET AnyRow]
      /\ \A t \in Tables : tx[t] \subseteq Row(t)
      /\ \A t \in FirstTables(10) : tx[t] = AllBack(rows[t])
      /\ \A t \in Tables : t \notin FirstTables(10) => tx[t] = {}
  BY <1>3, <1>7, RestoredIs
<1>9. tx # None
  BY <1>8, ArchiveAssumption DEF AnyRow
<1>10. \A t \in Tables : IsFiniteSet(tx[t])
  <2> TAKE t \in Tables
  <2>1. CASE t \in FirstTables(10)
    <3>1. IsFiniteSet(rows[t])
      BY <2>1, <1>3, FirstTablesAre DEF IsCopy
    <3> QED BY <3>1, <2>1, <1>8, AllBackFinite
  <2>2. CASE t \notin FirstTables(10)
    BY <2>2, <1>8, FS_EmptySet
  <2> QED BY <2>1, <2>2
<1>11. tx = [t \in Tables |-> tx[t]]
  BY <1>8
<1>12. TablesInv(tx)
  BY <1>7, <1>8, <1>10, <1>11 DEF TablesInv
<1> QED BY <1>2, <1>3, <1>7, <1>9, <1>12

-----------------------------------------------------------------------------
(* Invariance *)

\* The invariant holds at first.
LEMMA InvInit == Init => IInv
<1> SUFFICES ASSUME Init PROVE IInv
  OBVIOUS
<1>1. /\ db = [t \in Tables |-> {}] /\ dump = None /\ archives = <<>> /\ restore = None
      /\ refused = {} /\ envFile = None /\ writes = 0
  BY DEF Init
<1>2. TablesInv(db)
  BY <1>1, FS_EmptySet DEF TablesInv, Refer
<1>3. ArchivesInv(archives) /\ Len(archives) = 0 /\ DOMAIN archives = {}
  <2>1. archives \in Seq(Archived) /\ Len(archives) = 0 /\ DOMAIN archives = {}
    BY <1>1
  <2> QED BY <2>1 DEF ArchivesInv
<1>4. RefusedInv(refused, archives)
  BY <1>1 DEF RefusedInv
<1>5. Len(archives) <= MaxDumps /\ writes \in 0..MaxWrites
  BY <1>1, <1>3, ArchiveAssumption
<1> QED BY <1>1, <1>2, <1>3, <1>4, <1>5 DEF IInv

\* What a write changes, and what it leaves alone.
LEMMA WriteStep ==
    ASSUME IInv, NEW d, TablesInv(d), WrittenAs(d)
    PROVE  IInv'
<1>1. /\ writes < MaxWrites /\ writes' = writes + 1 /\ db' = d /\ dump' = Disturbed
      /\ archives' = archives /\ restore' = restore /\ refused' = refused /\ envFile' = envFile
  BY DEF WrittenAs
<1>2. TablesInv(db')
  BY <1>1
<1>3. dump' # None => DumpInv(dump', db') /\ Len(archives) < MaxDumps
  <2>1. CASE dump = None
    BY <2>1, <1>1 DEF Disturbed
  <2>2. CASE dump # None
    <3>1. dump' = [dump EXCEPT !.quiet = FALSE]
      BY <2>2, <1>1 DEF Disturbed
    <3>2. DumpInv(dump, db) /\ Len(archives) < MaxDumps
      BY <2>2 DEF IInv
    <3>3. DumpInv([dump EXCEPT !.quiet = FALSE], d)
      BY <3>2, DumpDisturbed
    <3> QED BY <3>1, <3>2, <3>3, <1>1
  <2> QED BY <2>1, <2>2
<1>4. writes' \in 0..MaxWrites
  <2>1. writes \in 0..MaxWrites /\ MaxWrites \in Nat
    BY ArchiveAssumption DEF IInv
  <2> QED BY <2>1, <1>1
<1> QED BY <1>1, <1>2, <1>3, <1>4 DEF IInv

\* A row is inserted.
LEMMA InsertStep ==
    ASSUME IInv, NEW t \in Written, NEW text \in Texts, Insert(t, text)
    PROVE  /\ IInv'
           /\ \E row : db' = [db EXCEPT ![t] = @ \cup {row}] /\ row \in db'[t]
<1>1. PICK of \in [Refers(t) -> 1..MaxWrites] :
        LET row == [id |-> writes + 1, of |-> of, text |-> text]
        IN  Refer(db, t, {row}) /\ WrittenAs([db EXCEPT ![t] = @ \cup {row}])
  BY DEF Insert
<1>2. PICK row : row = [id |-> writes + 1, of |-> of, text |-> text]
  OBVIOUS
<1>3. Refer(db, t, {row}) /\ WrittenAs([db EXCEPT ![t] = @ \cup {row}])
  BY <1>1, <1>2
<1>4. t \in Tables /\ text \in Seq(Chars) /\ MaxWrites \in Nat
  BY ArchiveAssumption
<1>5. writes + 1 \in 1..MaxWrites
  <2>1. writes \in 0..MaxWrites /\ writes < MaxWrites
    BY <1>3 DEF IInv, WrittenAs
  <2> QED BY <2>1, <1>4
<1>6. row \in Row(t)
  BY <1>2, <1>4, <1>5 DEF Row
<1>7. TablesInv(db)
  BY DEF IInv
<1>8. PICK d : d = [db EXCEPT ![t] = @ \cup {row}]
  OBVIOUS
<1>9. TablesInv(d) /\ WrittenAs(d)
  BY <1>3, <1>4, <1>6, <1>7, <1>8, RowInserted
<1>10. IInv'
  BY <1>9, WriteStep
<1>11. db' = d /\ row \in d[t]
  BY <1>4, <1>7, <1>8, <1>9 DEF WrittenAs, TablesInv
<1> QED BY <1>8, <1>10, <1>11

\* A row is deleted, and what refers to it.
LEMMA DeleteStep ==
    ASSUME IInv, NEW t \in Written, Delete(t)
    PROVE  /\ IInv'
           /\ \A s \in Tables : db'[s] \subseteq db[s]
           /\ \E row \in db[t] : db'[t] = db[t] \ {row}
<1>1. PICK row \in db[t] : WrittenAs(Cascade([db EXCEPT ![t] = @ \ {row}]))
  BY DEF Delete
<1>2. PICK rows : rows = db[t] \ {row}
  OBVIOUS
<1>3. PICK d : d = Cascade([db EXCEPT ![t] = rows])
  OBVIOUS
<1>4. WrittenAs(d)
  <2>1. [db EXCEPT ![t] = @ \ {row}] = [db EXCEPT ![t] = rows]
    BY <1>2
  <2> QED BY <2>1, <1>1, <1>3
<1>5. TablesInv(db) /\ t \in Tables /\ rows \subseteq db[t]
  BY <1>2, ArchiveAssumption DEF IInv
<1>6. TablesInv(d) /\ (\A s \in Tables : d[s] \subseteq db[s]) /\ d[t] = rows
  BY <1>3, <1>5, RowsDeleted
<1>7. IInv'
  BY <1>4, <1>6, WriteStep
<1>8. db' = d
  BY <1>4 DEF WrittenAs
<1> QED BY <1>2, <1>6, <1>7, <1>8

\* A dump starts, reads a table or fails.
LEMMA DumpSteps ==
    ASSUME IInv, StartDump \/ DumpTable \/ DumpFails
    PROVE  IInv' /\ UNCHANGED <<db, archives>>
<1>1. /\ db' = db /\ archives' = archives /\ restore' = restore /\ refused' = refused
      /\ envFile' = envFile /\ writes' = writes
  BY DEF StartDump, DumpTable, DumpFails
<1>2. TablesInv(db) /\ (dump # None => DumpInv(dump, db) /\ Len(archives) < MaxDumps)
  BY DEF IInv
<1>3. dump' # None => DumpInv(dump', db) /\ Len(archives) < MaxDumps
  <2>1. CASE StartDump
    <3>1. dump' = [at |-> 1, sql |-> Truncate, rows |-> <<>>, quiet |-> TRUE] /\ Len(archives) < MaxDumps
      BY <2>1 DEF StartDump
    <3> QED BY <3>1, DumpStarted
  <2>2. CASE DumpTable
    <3>1. PICK t : t = ParentsFirst(dump.at)
      OBVIOUS
    <3>2. PICK u : u = [dump EXCEPT
               !.at = @ + 1,
               !.sql = @ \o Dump(t, db[t]),
               !.rows = [v \in DOMAIN @ \cup {t} |-> IF v = t THEN db[t] ELSE dump.rows[v]]]
      OBVIOUS
    <3>3. dump # None /\ dump.at <= Len(TABLES) /\ dump' = u
      BY <2>2, <3>1, <3>2 DEF DumpTable
    <3>4. DumpInv(u, db)
      BY <3>1, <3>2, <3>3, <1>2, TableDumped
    <3> QED BY <3>3, <3>4, <1>2
  <2>3. CASE DumpFails
    BY <2>3 DEF DumpFails
  <2> QED BY <2>1, <2>2, <2>3
<1> QED BY <1>1, <1>3 DEF IInv

\* A dump becomes an archive.
LEMMA WriteArchiveStep ==
    ASSUME IInv, WriteArchive
    PROVE  /\ IInv' /\ db' = db
           /\ \E archive : /\ archives' = Append(archives, archive)
                           /\ archive \in Archived /\ CopyInv(archive)
<1>1. PICK archive : archive = [payload |-> Payload(dump.sql), damaged |-> FALSE,
                                rows |-> dump.rows, quiet |-> dump.quiet]
  OBVIOUS
<1>2. /\ dump # None /\ dump.at > Len(TABLES)
      /\ archives' = Append(archives, archive) /\ dump' = None
      /\ db' = db /\ restore' = restore /\ refused' = refused /\ envFile' = envFile /\ writes' = writes
  BY <1>1 DEF WriteArchive
<1>3. /\ TablesInv(db) /\ DumpInv(dump, db) /\ Len(archives) < MaxDumps
      /\ ArchivesInv(archives)
      /\ restore # None => RestoreInv(restore, archives)
      /\ RefusedInv(refused, archives)
  BY <1>2 DEF IInv
<1>4. archive \in Archived /\ CopyInv(archive)
  BY <1>1, <1>2, <1>3, DumpArchived
<1>5. PICK more : more = Append(archives, archive)
  OBVIOUS
<1>6. ArchivesInv(more) /\ Kin(archives, more) /\ Len(more) = Len(archives) + 1 /\ Len(archives) \in Nat
  BY <1>3, <1>4, <1>5, ArchiveAdded
<1>7. Len(more) <= MaxDumps
  BY <1>3, <1>6, ArchiveAssumption
<1>8. restore # None => RestoreInv(restore, more)
  BY <1>3, <1>6, RestoreKept
<1>9. RefusedInv(refused, more)
  BY <1>3, <1>6, RefusedKept
<1>10. IInv'
  BY <1>2, <1>5, <1>6, <1>7, <1>8, <1>9 DEF IInv
<1> QED BY <1>2, <1>4, <1>10

\* An archive is damaged.
LEMMA DamageStep ==
    ASSUME IInv, NEW a \in DOMAIN archives, Damage(a)
    PROVE  IInv' /\ db' = db /\ Kin(archives, archives') /\ DOMAIN archives' = DOMAIN archives
<1>1. PICK more : more = [archives EXCEPT ![a].damaged = TRUE]
  OBVIOUS
<1>2. /\ archives' = more /\ dump' = dump
      /\ db' = db /\ restore' = restore /\ refused' = refused /\ envFile' = envFile /\ writes' = writes
  BY <1>1 DEF Damage
<1>3. /\ ArchivesInv(archives)
      /\ restore # None => RestoreInv(restore, archives)
      /\ RefusedInv(refused, archives)
  BY DEF IInv
<1>4. /\ ArchivesInv(more) /\ Kin(archives, more) /\ Len(more) = Len(archives)
      /\ DOMAIN more = DOMAIN archives
  BY <1>1, <1>3, ArchiveDamaged
<1>5. restore # None => RestoreInv(restore, more)
  BY <1>3, <1>4, RestoreKept
<1>6. RefusedInv(refused, more)
  BY <1>3, <1>4, RefusedKept
<1>7. IInv'
  BY <1>2, <1>4, <1>5, <1>6 DEF IInv
<1> QED BY <1>2, <1>4, <1>7

\* A restore starts, replays a statement or fails: the tables do not change.
LEMMA RestoreSteps ==
    ASSUME IInv, (\E a \in DOMAIN archives : StartRestore(a)) \/ Replay \/ RestoreFails
    PROVE  IInv' /\ UNCHANGED <<db, archives>>
<1>1. /\ db' = db /\ archives' = archives /\ dump' = dump /\ envFile' = envFile /\ writes' = writes
  BY DEF StartRestore, Replay, RestoreFails
<1>2. /\ ArchivesInv(archives) /\ RefusedInv(refused, archives)
      /\ restore # None => RestoreInv(restore, archives)
  BY DEF IInv
<1>3. (restore' # None => RestoreInv(restore', archives)) /\ RefusedInv(refused', archives)
  <2>1. CASE \E a \in DOMAIN archives : StartRestore(a)
    <3>1. PICK a \in DOMAIN archives : StartRestore(a)
      BY <2>1
    <3>2. PICK files : files = Files(archives[a].payload)
      OBVIOUS
    <3>3. PICK of : of = [of |-> a, tx |-> None, left |-> File(files, "database.sql")]
      OBVIOUS
    <3>4. HasFile(files, "database.sql") /\ RestoreInv(of, archives)
      BY <3>2, <3>3, <1>2, RestoreStarted
    <3>5. restore' = of /\ refused' = refused
      BY <3>1, <3>2, <3>3, <3>4 DEF StartRestore
    <3> QED BY <3>4, <3>5, <1>2
  <2>2. CASE Replay
    <3>1. PICK statement, before, left :
            /\ statement = Statement(restore.left)
            /\ before = IF restore.tx = None THEN db ELSE restore.tx
            /\ left = AfterStatement(restore.left)
      OBVIOUS
    <3>2. PICK of : of = [restore EXCEPT !.left = AfterStatement(@), !.tx = Execute(statement, before)]
      OBVIOUS
    <3>3. restore # None /\ restore.left # <<>>
      BY <2>2 DEF Replay
    <3>4. IF Succeeds(statement, before)
          THEN restore' = of /\ refused' = refused
          ELSE restore' = None /\ refused' = refused \cup {restore.of}
      BY <2>2, <3>1, <3>2 DEF Replay
    <3>5. /\ Succeeds(statement, before) => RestoreInv(of, archives)
          /\ ~Succeeds(statement, before) =>
                \/ ~archives[restore.of].quiet
                \/ \E t \in Dumped : \E r \in archives[restore.of].rows[t] : ~Plain(r)
      BY <3>1, <3>2, <3>3, <1>2, StatementReplayed
    <3>6. restore.of \in DOMAIN archives
      BY <3>3, <1>2 DEF RestoreInv
    <3>7. CASE Succeeds(statement, before)
      BY <3>4, <3>5, <3>7, <1>2
    <3>8. CASE ~Succeeds(statement, before)
      <4>1. RefusedInv(refused \cup {restore.of}, archives)
        BY <3>5, <3>6, <3>8, <1>2 DEF RefusedInv
      <4> QED BY <4>1, <3>4, <3>8
    <3> QED BY <3>7, <3>8
  <2>3. CASE RestoreFails
    BY <2>3, <1>2 DEF RestoreFails
  <2> QED BY <2>1, <2>2, <2>3
<1> QED BY <1>1, <1>3 DEF IInv

\* A restore commits: the tables are those of its archive.
LEMMA CommitStep ==
    ASSUME IInv, NEW writeEnv \in BOOLEAN, Commit(writeEnv)
    PROVE  /\ IInv' /\ archives' = archives
           /\ \E a \in DOMAIN archives :
                db' = [t \in Tables |-> IF t \in Dumped THEN Returned(archives[a].rows)[t] ELSE {}]
<1>1. PICK files : files = Files(archives[restore.of].payload)
  OBVIOUS
<1>2. /\ restore # None /\ restore.left = <<>>
      /\ db' = (IF restore.tx = None THEN db ELSE restore.tx)
      /\ restore' = None /\ dump' = Disturbed
      /\ envFile' = (IF writeEnv /\ HasFile(files, ".env") THEN File(files, ".env") ELSE envFile)
      /\ archives' = archives /\ refused' = refused /\ writes' = writes
  BY <1>1 DEF Commit
<1>3. ArchivesInv(archives) /\ RestoreInv(restore, archives)
  BY <1>2 DEF IInv
<1>4. PICK rows : rows = archives[restore.of].rows
  OBVIOUS
<1>5. /\ restore.tx # None /\ restore.tx = Restored(rows, 10) /\ TablesInv(restore.tx)
      /\ restore.of \in DOMAIN archives
  BY <1>2, <1>3, <1>4, AllRestored
<1>6. db' = restore.tx
  BY <1>2, <1>5
<1>7. dump' # None => DumpInv(dump', db') /\ Len(archives) < MaxDumps
  <2>1. CASE dump = None
    BY <2>1, <1>2 DEF Disturbed
  <2>2. CASE dump # None
    <3>1. dump' = [dump EXCEPT !.quiet = FALSE]
      BY <2>2, <1>2 DEF Disturbed
    <3>2. DumpInv(dump, db) /\ Len(archives) < MaxDumps
      BY <2>2 DEF IInv
    <3>3. DumpInv([dump EXCEPT !.quiet = FALSE], restore.tx)
      BY <3>2, DumpDisturbed
    <3> QED BY <3>1, <3>2, <3>3, <1>6
  <2> QED BY <2>1, <2>2
<1>8. envFile' \in {None, EnvFile}
  <2>1. HasFile(files, ".env") => File(files, ".env") = EnvFile
    BY <1>1, <1>3, <1>5, RestoreStarted
  <2> QED BY <2>1, <1>2 DEF IInv
<1>9. IInv'
  BY <1>2, <1>5, <1>6, <1>7, <1>8 DEF IInv
<1>10. Restored(rows, 10) = [t \in Tables |-> IF t \in Dumped THEN Returned(rows)[t] ELSE {}]
  BY FirstTablesAre DEF Restored
<1> QED BY <1>2, <1>4, <1>5, <1>6, <1>9, <1>10

\* Every step keeps the invariant.
LEMMA InvStep == IInv /\ [Next]_vars => IInv'
<1> SUFFICES ASSUME IInv, [Next]_vars PROVE IInv'
  OBVIOUS
<1>1. ASSUME NEW t \in Written, Delete(t) PROVE IInv'
  BY <1>1, DeleteStep
<1>2. ASSUME NEW t \in Written, NEW text \in Texts, Insert(t, text) PROVE IInv'
  BY <1>2, InsertStep
<1>3. CASE StartDump \/ DumpTable \/ DumpFails
  BY <1>3, DumpSteps
<1>4. CASE WriteArchive
  BY <1>4, WriteArchiveStep
<1>5. ASSUME NEW a \in DOMAIN archives, Damage(a) PROVE IInv'
  BY <1>5, DamageStep
<1>6. CASE (\E a \in DOMAIN archives : StartRestore(a)) \/ Replay \/ RestoreFails
  BY <1>6, RestoreSteps
<1>7. ASSUME NEW writeEnv \in BOOLEAN, Commit(writeEnv) PROVE IInv'
  BY <1>7, CommitStep
<1>8. CASE UNCHANGED vars
  BY <1>8 DEF vars, IInv
<1> QED BY <1>1, <1>2, <1>3, <1>4, <1>5, <1>6, <1>7, <1>8 DEF Next

-----------------------------------------------------------------------------
(* What holds of every behaviour *)

\* The inductive invariant: a dump has written what it has read, an archive is the text of its
\* dump, and a restore in progress has the tables before the one it has come to.
THEOREM Invariant == Spec => []IInv
BY InvInit, InvStep, PTL DEF Spec

\* Type correctness, with it that every row refers to rows there are (db/mod.rs: foreign keys,
\* ON DELETE CASCADE), also after a restore.
THEOREM TypeCorrect == Spec => []TypeOK
<1>1. IInv => TypeOK
  BY InvImplies
<1> QED BY <1>1, Invariant, PTL

\* A dump that no write overlapped with can be restored, whatever rows there were, unless a
\* text has an apostrophe (dump_sql, restore_sql).
THEOREM QuietDumpsCanBeRestored == Spec => []QuietDumpsRestore
<1>1. IInv => QuietDumpsRestore
  BY InvImplies
<1> QED BY <1>1, Invariant, PTL

\* A restore that has replayed all statements has, in the tables that were dumped, the rows the
\* dump read, no more and no less, unless a text has an apostrophe (restore_sql).
THEOREM DumpIsRestored == Spec => []RestoresTheDump
<1>1. IInv => RestoresTheDump
  <2> SUFFICES ASSUME IInv, restore # None, restore.tx # None, restore.left = <<>>,
                      ~Apostrophe(restore.of), NEW t \in Dumped
               PROVE  restore.tx[t] = archives[restore.of].rows[t]
    BY DEF RestoresTheDump
  <2>1. PICK rows : rows = archives[restore.of].rows
    OBVIOUS
  <2>2. restore.tx = Restored(rows, 10) /\ IsCopy(rows) /\ DOMAIN rows = Dumped
    BY <2>1, AllRestored DEF IInv
  <2>3. restore.tx[t] = AllBack(rows[t])
    BY <2>2, FirstTablesAre, RestoredIs
  <2>4. \A r \in rows[t] : Plain(r)
    BY <2>1 DEF Apostrophe, Plain
  <2>5. AllBack(rows[t]) = rows[t]
    BY <2>2, <2>4, TablesAre, AllBackIs DEF IsCopy, Dumped, Tables
  <2> QED BY <2>1, <2>3, <2>5
<1> QED BY <1>1, Invariant, PTL

\* The copies that archives hold, as a restore gives them back.
CopyRows(all) == {Returned(all[a].rows) : a \in DOMAIN all}

\* For the tables, a restore is one step that replaces all of them by a copy, or none: Archive
\* implements Deployment ("inside a single transaction", restore_sql).
THEOREM RestoreIsOneStep == Spec => AllOrNothing
<1>1. Init => Promised!Init
  <2> SUFFICES ASSUME Init PROVE Promised!Init
    OBVIOUS
  <2>1. DOMAIN archives = {}
    BY DEF Init
  <2> QED BY <2>1 DEF Init, Promised!Init
<1>2. IInv /\ [Next]_vars => [Promised!Next]_<<db, CopyRows(archives)>>
  <2> SUFFICES ASSUME IInv, [Next]_vars PROVE [Promised!Next]_<<db, CopyRows(archives)>>
    OBVIOUS
  <2>1. ASSUME NEW t \in Written, NEW text \in Texts, Insert(t, text) PROVE Promised!Insert
    <3>1. PICK row : db' = [db EXCEPT ![t] = @ \cup {row}] /\ row \in db'[t]
      BY <2>1, InsertStep
    <3>2. t \in Tables /\ archives' = archives
      BY <2>1, ArchiveAssumption DEF Insert, WrittenAs
    <3> QED BY <3>1, <3>2 DEF Promised!Insert
  <2>2. ASSUME NEW t \in Written, Delete(t) PROVE Promised!Delete
    <3>1. IInv' /\ (\A s \in Tables : db'[s] \subseteq db[s]) /\ \E row \in db[t] : db'[t] = db[t] \ {row}
      BY <2>2, DeleteStep
    <3>2. t \in Tables /\ archives' = archives
      BY <2>2, ArchiveAssumption DEF Delete, WrittenAs
    <3>3. db' = [s \in Tables |-> db'[s]]
      BY <3>1 DEF IInv, TablesInv
    <3> QED BY <3>1, <3>2, <3>3 DEF Promised!Delete
  <2>3. CASE StartDump \/ DumpTable \/ DumpFails
    BY <2>3, DumpSteps DEF CopyRows
  <2>4. CASE WriteArchive
    <3>1. db' = db /\ \E archive : /\ archives' = Append(archives, archive)
                                   /\ archive \in Archived /\ CopyInv(archive)
      BY <2>4, WriteArchiveStep
    <3>2. PICK archive \in Archived : archives' = Append(archives, archive) /\ CopyInv(archive)
      BY <3>1
    <3>3. ArchivesInv(archives)
      BY DEF IInv
    <3>4. PICK all, more, n : all = archives /\ more = Append(archives, archive) /\ n = Len(archives) + 1
      OBVIOUS
    <3>5. /\ Kin(all, more) /\ DOMAIN more = DOMAIN all \cup {n} /\ more[n] = archive
      BY <3>2, <3>3, <3>4, ArchiveAdded
    <3>6. PICK copy : copy = Returned(archive.rows)
      OBVIOUS
    <3>7. CopyRows(more) = CopyRows(all) \cup {copy}
      BY <3>5, <3>6 DEF CopyRows, Kin
    <3>8. DOMAIN copy = Dumped
      BY <3>2, <3>6 DEF CopyInv, Returned
    <3>9. CopyRows(archives)' = CopyRows(archives) \cup {copy}
      <4>1. archives' = more
        BY <3>2, <3>4
      <4>2. CopyRows(archives)' = CopyRows(more)
        BY <4>1 DEF CopyRows
      <4> QED BY <4>2, <3>4, <3>7
    <3>10. Promised!Backup
      BY <3>1, <3>8, <3>9 DEF Promised!Backup, CopyRows
    <3> QED BY <3>10 DEF Promised!Next
  <2>5. ASSUME NEW a \in DOMAIN archives, Damage(a) PROVE UNCHANGED <<db, CopyRows(archives)>>
    <3>1. db' = db /\ Kin(archives, archives') /\ DOMAIN archives' = DOMAIN archives
      BY <2>5, DamageStep
    <3> QED BY <3>1 DEF CopyRows, Kin
  <2>6. CASE (\E a \in DOMAIN archives : StartRestore(a)) \/ Replay \/ RestoreFails
    BY <2>6, RestoreSteps DEF CopyRows
  <2>7. ASSUME NEW writeEnv \in BOOLEAN, Commit(writeEnv) PROVE Promised!Restore
    <3>1. /\ archives' = archives
          /\ \E a \in DOMAIN archives :
                db' = [t \in Tables |-> IF t \in Dumped THEN Returned(archives[a].rows)[t] ELSE {}]
      BY <2>7, CommitStep
    <3> QED BY <3>1 DEF Promised!Restore
  <2>8. CASE UNCHANGED vars
    BY <2>8 DEF vars, CopyRows
  <2> QED BY <2>1, <2>2, <2>3, <2>4, <2>5, <2>6, <2>7, <2>8 DEF Next, Promised!Next
<1>3. Spec => Promised!Spec
  <2>1. [Promised!Next]_<<db, CopyRows(archives)>>
          <=> [Promised!Next]_<<db, {Returned(archives[a].rows) : a \in DOMAIN archives}>>
    BY DEF CopyRows
  <2> QED BY <1>1, <1>2, <2>1, Invariant, PTL DEF Spec, Promised!Spec
<1> QED BY <1>3 DEF AllOrNothing
==============================================================================
