------------------------------- MODULE Archive -------------------------------
(***************************************************************************)
(* Backup of a deployment to one encrypted file, and its restore: dump and *)
(* replay (db/mod.rs), the archive (backup_archive.rs), the db command     *)
(* (main.rs) and the download (routes.rs).                                 *)
(*                                                                         *)
(* A dump reads one table after another without a transaction, while the   *)
(* server goes on writing.  It is SQL text: rows are JSON in a literal.    *)
(* A restore splits the text into statements again and replays them in one *)
(* transaction, whose TRUNCATE locks every table until it ends.  The code  *)
(* makes the list of all statements first; here each is split off the text *)
(* when its turn comes.                                                    *)
(*                                                                         *)
(* The text is a sequence of tokens: an apostrophe, a semicolon, and one   *)
(* for every other piece.  Left out: columns (a row is an id, the rows it  *)
(* refers to and one text), comments in the dump, the version and date in  *)
(* the manifest, and what the cipher does, except that a damaged archive,  *)
(* or another key, is noticed.                                             *)
(***************************************************************************)
EXTENDS Naturals, FiniteSets, Sequences, SequencesExt

CONSTANTS
    Written,     \* the tables that are written to
    Texts,       \* texts of a row: sequences of characters
    EnvFile,     \* the contents of .env, or None
    MaxWrites,   \* bound on rows written and deleted
    MaxDumps,    \* bound on dumps
    None

QUOTE == <<"quote">>
SEMICOLON == <<"semicolon">>
Chars == {QUOTE, SEMICOLON, <<"word">>}
CLOSE == <<"close">>
JSONB == <<"::jsonb">>

\* Every table that is dumped, parents first.
TABLES == <<"users", "tenants", "settings", "devices", "sessions", "login_attempts",
            "backup_runs", "backup_events", "device_samples">>

\* Every table there is, parents first, and the tables that each one refers to.
AllTables == TABLES \o <<"device_updates">>
Refers(t) ==
    CASE t = "devices" -> {"tenants"}
      [] t = "sessions" -> {"users"}
      [] t = "backup_events" -> {"backup_runs", "tenants", "devices"}
      [] t \in {"device_samples", "device_updates"} -> {"devices"}
      [] OTHER -> {}

Dumped == Range(TABLES)
Tables == Range(AllTables)

Row(t) == [id : 1..MaxWrites, of : [Refers(t) -> 1..MaxWrites], text : Seq(Chars)]

ASSUME ArchiveAssumption ==
    /\ Written \subseteq Tables
    /\ \A text \in Texts : text \in Seq(Chars)
    /\ EnvFile # None => EnvFile \in Seq(Chars)
    /\ MaxWrites \in Nat /\ MaxDumps \in Nat
    /\ None \notin [Tables -> SUBSET UNION {Row(t) : t \in Tables}]

VARIABLES
    db,         \* the rows of each table
    dump,       \* the dump in progress
    archives,   \* the archives written, with what their dump read
    restore,    \* the restore in progress
    refused,    \* history: archives that opened and could not be restored
    envFile,    \* .env.restored
    writes      \* rows written and deleted so far

vars == <<db, dump, archives, restore, refused, envFile, writes>>

-----------------------------------------------------------------------------
(* Rows and references *)

Ids(rows) == {r.id : r \in rows}

\* What foreign keys demand of the rows of a table.
Refer(d, t, rows) == \A r \in rows : \A p \in Refers(t) : r.of[p] \in Ids(d[p])

Kept(d, t) == {r \in d[t] : Refer(d, t, {r})}
WithoutOrphans(d) == [t \in Tables |-> Kept(d, t)]

\* A slip: only the tables that are dumped.
CascadeDumped(d) ==
    [t \in Tables |-> IF t \in Dumped THEN Kept(WithoutOrphans(d), t) ELSE d[t]]
\* ON DELETE CASCADE.  References go two tables deep at most.
Cascade(d) == WithoutOrphans(WithoutOrphans(d))

-----------------------------------------------------------------------------
(* The dump as text *)

\* to_jsonb, as the text of one row.  Nothing in it is escaped for SQL.
Json(row) == <<<<"row", row.id, row.of>>>> \o row.text \o <<CLOSE>>

\* The rows come in any order.
InsertInto(t, rows) ==
    LET sorted == SetToSeq(rows)
    IN  <<<<"insert", t>>, QUOTE>> \o FlattenSeq([i \in DOMAIN sorted |-> Json(sorted[i])])
            \o <<QUOTE, JSONB, SEMICOLON>>

\* A table without rows has no statement.
Dump(t, rows) == IF rows = {} THEN <<>> ELSE InsertInto(t, rows)

\* A slip: the tables are not emptied.
NoTruncate == <<>>
Truncate == <<<<"truncate">>, SEMICOLON>>

Quotes(text, i) == Cardinality({j \in 1..i : text[j] = QUOTE})
InString(text, i) == Quotes(text, i) % 2 = 1

\* A slip: strings are not respected.
FirstSemicolon(sql) ==
    LET ends == {i \in DOMAIN sql : sql[i] = SEMICOLON}
    IN  IF ends = {} THEN Len(sql) + 1 ELSE Min(ends)

\* split_statements: on semicolons outside of strings.  An escaped apostrophe closes
\* the string and opens it again.
EndOfStatement(sql) ==
    LET ends == {i \in DOMAIN sql : sql[i] = SEMICOLON /\ ~InString(sql, i)}
    IN  IF ends = {} THEN Len(sql) + 1 ELSE Min(ends)
Statement(sql) == SubSeq(sql, 1, EndOfStatement(sql) - 1)
AfterStatement(sql) == SubSeq(sql, EndOfStatement(sql) + 1, Len(sql))

-----------------------------------------------------------------------------
(* What PostgreSQL makes of a statement (external) *)

\* An INSERT parses if the first apostrophe that ends a string, which is one with
\* no other after it, comes right before its last token.
Closing(statement) ==
    {i \in DOMAIN statement :
        /\ statement[i] = QUOTE /\ ~InString(statement, i)
        /\ i < Len(statement) => statement[i + 1] # QUOTE}
Parses(statement) ==
    /\ Closing(statement) = {Len(statement) - 1}
    /\ statement[Len(statement)] = JSONB
Literal(statement) == SubSeq(statement, 3, Len(statement) - 2)

\* Two apostrophes in a row are one.
Unescaped(text) ==
    FlattenSeq([i \in DOMAIN text |->
        IF text[i] = QUOTE /\ InString(text, i) THEN <<>> ELSE <<text[i]>>])

\* jsonb_populate_recordset.
CloseOf(json, i) == Min({j \in DOMAIN json : j > i /\ json[j] = CLOSE})
RowsOf(json) ==
    {[id |-> json[i][2], of |-> json[i][3],
      text |-> Unescaped(SubSeq(json, i + 1, CloseOf(json, i) - 1))] :
        i \in {j \in DOMAIN json : json[j][1] = "row"}}

\* Whether a statement succeeds, and the tables after it.  TRUNCATE ... CASCADE
\* empties the tables it names and all that refer to them.
IsTruncate(statement) == statement[1] = <<"truncate">>
Succeeds(statement, d) ==
    \/ IsTruncate(statement)
    \/ Parses(statement) /\ Refer(d, statement[1][2], RowsOf(Literal(statement)))
Execute(statement, d) ==
    IF IsTruncate(statement)
    THEN [t \in Tables |-> IF t \in Dumped \/ Refers(t) # {} THEN {} ELSE d[t]]
    ELSE [d EXCEPT ![statement[1][2]] = @ \cup RowsOf(Literal(statement))]

-----------------------------------------------------------------------------
(* The file *)

\* write_entry: the name and the data, after their lengths.
Entry(name, data) == <<<<name, Len(data)>>>> \o data

\* read_entry, at the beginning of what is left.
ReadEntry(rest) == [name |-> rest[1][1], data |-> SubSeq(rest, 2, 1 + rest[1][2])]
AfterEntry(rest) == SubSeq(rest, 2 + rest[1][2], Len(rest))

\* archive_bytes: the manifest and the files; known_hosts goes like .env.
Payload(sql) ==
    <<<<"manifest">>>> \o Entry("database.sql", sql)
        \o (IF EnvFile = None THEN <<>> ELSE Entry(".env", EnvFile))

\* Archive::read: past the manifest, the entries until nothing is left.
Files(payload) ==
    LET first == Tail(payload)
        second == AfterEntry(first)
    IN  IF second = <<>> THEN <<ReadEntry(first)>> ELSE <<ReadEntry(first), ReadEntry(second)>>

\* Archive::file: the first of that name.
Named(files, name) == {i \in DOMAIN files : files[i].name = name}
HasFile(files, name) == Named(files, name) # {}
File(files, name) == files[Min(Named(files, name))].data

-----------------------------------------------------------------------------
(* The server writes *)

\* A restore has every table locked from its first statement to its end.
Locked == restore # None /\ restore.tx # None

\* A dump in progress is overlapped with.
Disturbed == IF dump = None THEN None ELSE [dump EXCEPT !.quiet = FALSE]

WrittenAs(d) ==
    /\ writes < MaxWrites /\ ~Locked
    /\ writes' = writes + 1
    /\ db' = d
    /\ dump' = Disturbed
    /\ UNCHANGED <<archives, restore, refused, envFile>>

Insert(t, text) ==
    \E of \in [Refers(t) -> 1..MaxWrites] :
        LET row == [id |-> writes + 1, of |-> of, text |-> text]
        IN  Refer(db, t, {row}) /\ WrittenAs([db EXCEPT ![t] = @ \cup {row}])

Delete(t) ==
    \E row \in db[t] : WrittenAs(Cascade([db EXCEPT ![t] = @ \ {row}]))

-----------------------------------------------------------------------------
(* Dump *)

StartDump ==
    /\ dump = None
    /\ Len(archives) < MaxDumps
    /\ dump' = [at |-> 1, sql |-> Truncate, rows |-> <<>>, quiet |-> TRUE]
    /\ UNCHANGED <<db, archives, restore, refused, envFile, writes>>

\* A slip: children first.
ChildrenFirst(i) == TABLES[Len(TABLES) + 1 - i]
ParentsFirst(i) == TABLES[i]

\* SELECT to_jsonb(t).
DumpTable ==
    /\ dump # None /\ dump.at <= Len(TABLES) /\ ~Locked
    /\ LET t == ParentsFirst(dump.at)
       IN  dump' = [dump EXCEPT
               !.at = @ + 1,
               !.sql = @ \o Dump(t, db[t]),
               !.rows = [u \in DOMAIN @ \cup {t} |-> IF u = t THEN db[t] ELSE dump.rows[u]]]
    /\ UNCHANGED <<db, archives, restore, refused, envFile, writes>>

\* The archive is written, or sent to the browser.
WriteArchive ==
    /\ dump # None /\ dump.at > Len(TABLES)
    /\ archives' = Append(archives, [payload |-> Payload(dump.sql), damaged |-> FALSE,
                                     rows |-> dump.rows, quiet |-> dump.quiet])
    /\ dump' = None
    /\ UNCHANGED <<db, restore, refused, envFile, writes>>

DumpFails ==
    /\ dump # None
    /\ dump' = None
    /\ UNCHANGED <<db, archives, restore, refused, envFile, writes>>

\* The file is damaged, or the master key is another one.
Damage(a) ==
    /\ ~archives[a].damaged
    /\ archives' = [archives EXCEPT ![a].damaged = TRUE]
    /\ UNCHANGED <<db, dump, restore, refused, envFile, writes>>

-----------------------------------------------------------------------------
(* Restore *)

\* Archive::read, and the question.  A damaged archive ends it here.
StartRestore(a) ==
    /\ restore = None
    /\ ~archives[a].damaged
    /\ LET files == Files(archives[a].payload)
       IN  IF HasFile(files, "database.sql")
           THEN /\ restore' = [of |-> a, tx |-> None,
                               left |-> File(files, "database.sql")]
                /\ UNCHANGED refused
           ELSE refused' = refused \cup {a} /\ UNCHANGED restore
    /\ UNCHANGED <<db, dump, archives, envFile, writes>>

\* A slip: no transaction.
ReplayInPlace ==
    /\ restore # None /\ restore.left # <<>>
    /\ LET statement == Statement(restore.left)
       IN  IF Succeeds(statement, db)
           THEN /\ restore' = [restore EXCEPT !.left = AfterStatement(@), !.tx = Execute(statement, db)]
                /\ db' = Execute(statement, db)
                /\ UNCHANGED refused
           ELSE restore' = None /\ refused' = refused \cup {restore.of} /\ UNCHANGED db
    /\ UNCHANGED <<dump, archives, envFile, writes>>

\* restore_sql, a statement; the first that fails rolls the transaction back.
Replay ==
    /\ restore # None /\ restore.left # <<>>
    /\ LET statement == Statement(restore.left)
           d == IF restore.tx = None THEN db ELSE restore.tx
       IN  IF Succeeds(statement, d)
           THEN /\ restore' = [restore EXCEPT !.left = AfterStatement(@), !.tx = Execute(statement, d)]
                /\ UNCHANGED refused
           ELSE restore' = None /\ refused' = refused \cup {restore.of}
    /\ UNCHANGED <<db, dump, archives, envFile, writes>>

\* The commit, and .env.restored if it was asked for.
Commit(writeEnv) ==
    /\ restore # None /\ restore.left = <<>>
    /\ db' = IF restore.tx = None THEN db ELSE restore.tx
    /\ restore' = None
    /\ dump' = Disturbed
    /\ LET files == Files(archives[restore.of].payload)
       IN  envFile' = IF writeEnv /\ HasFile(files, ".env") THEN File(files, ".env") ELSE envFile
    /\ UNCHANGED <<archives, refused, writes>>

\* The command is stopped, or its connection is lost.
RestoreFails ==
    /\ restore # None
    /\ restore' = None
    /\ UNCHANGED <<db, dump, archives, refused, envFile, writes>>

-----------------------------------------------------------------------------
(* Specification *)

Init ==
    /\ db = [t \in Tables |-> {}]
    /\ dump = None
    /\ archives = <<>>
    /\ restore = None
    /\ refused = {}
    /\ envFile = None
    /\ writes = 0

Next ==
    \/ \E t \in Written : Delete(t) \/ \E text \in Texts : Insert(t, text)
    \/ StartDump \/ DumpTable \/ WriteArchive \/ DumpFails
    \/ \E a \in DOMAIN archives : Damage(a) \/ StartRestore(a)
    \/ Replay \/ RestoreFails
    \/ \E writeEnv \in BOOLEAN : Commit(writeEnv)

Spec == Init /\ [][Next]_vars

-----------------------------------------------------------------------------
(* Properties *)

TypeOK ==
    /\ db = [t \in Tables |-> db[t]]
    /\ \A t \in Tables : db[t] \subseteq Row(t) /\ Refer(db, t, db[t])
    /\ dump # None => dump.at \in 1..Len(TABLES) + 1 /\ dump.quiet \in BOOLEAN
    /\ Len(archives) \in 0..MaxDumps
    /\ restore # None => restore.of \in DOMAIN archives
    /\ refused \subseteq DOMAIN archives
    /\ envFile \in {None, EnvFile}
    /\ writes \in 0..MaxWrites

\* Some row has an apostrophe in its text.
Apostrophe(a) ==
    \E t \in Dumped : \E r \in archives[a].rows[t] : QUOTE \in Range(r.text)

\* A dump that no write overlapped with can be restored: its tables are in an order
\* that satisfies the foreign keys, whatever semicolons the texts have, and the archive
\* gives back the text of the dump -- if there is no apostrophe in it.
QuietDumpsRestore == \A a \in refused : ~archives[a].quiet \/ Apostrophe(a)

\* The rows of a copy as a restore gives them back.
Returned(rows) == [t \in DOMAIN rows |-> {[r EXCEPT !.text = Unescaped(@)] : r \in rows[t]}]

\* What is about to be committed is, in the tables that were dumped, what the dump read
\* and nothing else, also if writes overlapped with it or came since.
RestoresTheDump ==
    restore # None /\ restore.tx # None /\ restore.left = <<>> /\ ~Apostrophe(restore.of) =>
        \A t \in Dumped : restore.tx[t] = archives[restore.of].rows[t]

\* "Inside a single transaction": however many statements a restore has been through,
\* and whatever ends it, the tables are as before or all of the copy (Deployment.tla),
\* whose texts have one apostrophe where there were two in a row.
Promised == INSTANCE Deployment WITH
    Copied <- Dumped, rows <- db,
    copies <- {Returned(archives[a].rows) : a \in DOMAIN archives}
AllOrNothing == Promised!Spec

-----------------------------------------------------------------------------
(* What the comments say, and the code does not do *)

\* "[This] sidesteps every literal-quoting edge case, because Postgres renders and
\* re-parses its own values" (dump_sql).
QuotingSidestepped == \A a \in refused : ~archives[a].quiet

\* "Logical dump of every table" (backup_archive.rs): a restore from a dump that no write
\* overlapped with gives back the rows that were there before it and are there still.
\* Ids are given in the order of the writes, so a row with a smaller id than one that was
\* dumped was there.
There(a, r) == \E t \in Dumped : \E s \in archives[a].rows[t] : s.id > r.id
EveryTableComesBack ==
    restore # None /\ restore.tx # None /\ restore.left = <<>>
        /\ archives[restore.of].quiet /\ ~Apostrophe(restore.of) =>
        \A t \in Tables : \A r \in db[t] : There(restore.of, r) => r \in restore.tx[t]
=============================================================================
