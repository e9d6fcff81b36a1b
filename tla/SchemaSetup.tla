----------------------------- MODULE SchemaSetup -----------------------------
(***************************************************************************)
(* Publishing, applying and verifying a schema.                            *)
(*                                                                         *)
(* Each store publishes its tables as a document per dialect.  Applying it *)
(* runs its statements one by one, with no lock and no transaction, so     *)
(* runs may be cut off anywhere, repeated and overlap.  Verification reads *)
(* the columns and then the indexes of the live tables and reports every   *)
(* discrepancy.  Stores with different prefixes share a database, and a    *)
(* host that migrates on its own may be behind with a table.               *)
(***************************************************************************)
EXTENDS Naturals, SequencesExt, TLC

CONSTANTS TablePrefixes,
          Tables,             \* the tables, in the order they are created
          Columns,            \* the columns each table is expected to have
          IdentifierColumns,  \* those of them that must compare case-sensitively
          Indexes,            \* the indexes each table is expected to have
          IndexedColumns,     \* the columns an index is on
          References,         \* the tables a table refers to
          Migrators, Verifiers

VARIABLES
    database,
    tables,      \* the live tables: the collation of each column
    indexes,     \* the live indexes, by name and table
    hostMade,    \* the tables of the host's own making
    migrators,   \* what each run of the document is up to
    verifiers    \* what each verification has read and reported

schemaVars == <<database, tables, indexes, hostMade, migrators, verifiers>>

Databases == {"postgres", "mysql", "sqlite"}

\* The collation a published schema pins, the database's default, and others.
Pinned == "pinned"
Default == "default"
Other == "other"

\* MySQL's default ignores case; the others' does not.
IgnoresCase(collation) ==
    collation = Other \/ (collation = Default /\ database = "mysql")

(* The document *********************************************************)

\* The prefix goes into the names of tables and of indexes alike.
PrefixedName(prefix, name) == <<prefix, name>>

IndexName(prefix, index) == PrefixedName(prefix, index)

TableStatement(t) == [creates |-> "table", name |-> t]
IndexStatement(i) == [creates |-> "index", name |-> i]

\* MySQL declares indexes inside their table.
Inline(d) == d = "mysql"

IndexesInOrder ==
    FoldLeft(LAMBDA all, t : all \o SetToSeq(Indexes[t]), << >>, Tables)

\* The document as lines: a comment and a blank before each statement, and two
\* lines to a statement, the last of which ends it.
Document(d) ==
    LET statements == [k \in DOMAIN Tables |-> TableStatement(Tables[k])]
                      \o IF Inline(d) THEN << >>
                         ELSE [k \in DOMAIN IndexesInOrder |-> IndexStatement(IndexesInOrder[k])] IN
    FoldLeft(LAMBDA lines, s : lines \o <<[is |-> "comment"], [is |-> "blank"],
                                          [is |-> "sql", of |-> s, ends |-> FALSE],
                                          [is |-> "sql", of |-> s, ends |-> TRUE]>>,
             << >>, statements)

\* Lines are gathered until one ends a statement; comments and blanks are dropped.
SplitStatements(document) ==
    LET step(acc, line) ==
            IF line.is # "sql" THEN acc
            ELSE IF line.ends THEN [done |-> Append(acc.done, Append(acc.current, line.of)),
                                    current |-> << >>]
            ELSE [acc EXCEPT !.current = Append(@, line.of)]
        split == FoldLeft(step, [done |-> << >>, current |-> << >>], document) IN
    IF split.current = << >> THEN split.done ELSE Append(split.done, split.current)

Migrations ==
    [d \in Databases |-> LET statements == SplitStatements(Document(d)) IN
                        [k \in DOMAIN statements |-> Head(statements[k])]]

(* Init *****************************************************************)

\* A host's table may lack a column, or have identifiers that were not pinned.
\* In SQLite nothing can tell that a column overrides the default.
Outdated(t) ==
    LET published == [c \in Columns[t] |-> Pinned]
        collations == IF database = "sqlite" THEN {Default} ELSE {Default, Other} IN
    {[c \in Columns[t] \ {missing} |-> Pinned] : missing \in Columns[t] \ IdentifierColumns[t]}
    \cup {[published EXCEPT ![c] = collation] : c \in IdentifierColumns[t], collation \in collations}

NoRun == [at |-> "idle", prefix |-> CHOOSE p \in TablePrefixes : TRUE, next |-> 1]

NoReport ==
    [at |-> "idle", prefix |-> CHOOSE p \in TablePrefixes : TRUE, columns |-> << >>,
     indexes |-> {}, issues |-> {}]

SchemaInit ==
    /\ database \in Databases
    /\ \/ tables = << >> /\ hostMade = {}
       \/ \E prefix \in TablePrefixes, t \in Range(Tables) : \E table \in Outdated(t) :
              /\ tables = PrefixedName(prefix, t) :> table
              /\ hostMade = {PrefixedName(prefix, t)}
    /\ indexes = {}
    /\ migrators = [m \in Migrators |-> NoRun]
    /\ verifiers = [v \in Verifiers |-> NoReport]
(* Applying the document ************************************************)

LiveIndex(name) == \E i \in indexes : i.name = name

\* A table that exists is left as it is; one that refers to another needs it.
CreateTable(prefix, t) ==
    LET name == PrefixedName(prefix, t) IN
    IF name \in DOMAIN tables THEN UNCHANGED <<tables, indexes>>
    ELSE /\ \A other \in References[t] : PrefixedName(prefix, other) \in DOMAIN tables
         /\ tables' = tables @@ name :> [c \in Columns[t] |-> Pinned]
         /\ indexes' = IF Inline(database)
                       THEN indexes \cup {[table |-> name, name |-> IndexName(prefix, i)] :
                                              i \in Indexes[t]}
                       ELSE indexes

\* An index that exists, on whatever table, is left as it is.
CreateIndex(prefix, index) ==
    LET t == CHOOSE t \in Range(Tables) : index \in Indexes[t]
        table == PrefixedName(prefix, t)
        name == IndexName(prefix, index) IN
    IF LiveIndex(name) THEN UNCHANGED <<tables, indexes>>
    ELSE /\ table \in DOMAIN tables /\ IndexedColumns[index] \subseteq DOMAIN tables[table]
         /\ indexes' = indexes \cup {[table |-> table, name |-> name]}
         /\ UNCHANGED tables

Migrate(m, prefix) ==
    /\ migrators[m].at = "idle"
    /\ migrators' = [migrators EXCEPT ![m] = [at |-> "applying", prefix |-> prefix, next |-> 1]]
    /\ UNCHANGED <<database, tables, indexes, hostMade, verifiers>>

ApplySchema(m) ==
    LET run == migrators[m]
        statement == Migrations[database][run.next] IN
    /\ run.at = "applying" /\ run.next <= Len(Migrations[database])
    /\ IF statement.creates = "table" THEN CreateTable(run.prefix, statement.name)
       ELSE CreateIndex(run.prefix, statement.name)
    /\ migrators' = [migrators EXCEPT ![m].next = @ + 1]
    /\ UNCHANGED <<database, hostMade, verifiers>>

Applied(m) ==
    /\ migrators[m].at = "applying" /\ migrators[m].next > Len(Migrations[database])
    /\ migrators' = [migrators EXCEPT ![m].at = "applied"]
    /\ UNCHANGED <<database, tables, indexes, hostMade, verifiers>>

\* A statement fails, or the run is cut off before it.
StopApplying(m) ==
    /\ migrators[m].at \in {"applying", "applied"}
    /\ migrators' = [migrators EXCEPT ![m] = NoRun]
    /\ UNCHANGED <<database, tables, indexes, hostMade, verifiers>>

\* The host's own pipeline brings its table up to date, but for indexes.
Alter(name) ==
    /\ name \in hostMade
    /\ tables' = [tables EXCEPT ![name] = [c \in Columns[name[2]] |-> Pinned]]
    /\ UNCHANGED <<database, indexes, hostMade, migrators, verifiers>>

(* Verifying ************************************************************)

\* SQLite reports no collation, and PostgreSQL none that is the default.
Reported(collation) ==
    IF database = "sqlite" \/ (database = "postgres" /\ collation = Default) THEN "" ELSE collation

SchemaQuery(prefix) ==
    LET names == {PrefixedName(prefix, t) : t \in Range(Tables)} IN
    [name \in names \cap DOMAIN tables |-> [c \in DOMAIN tables[name] |-> Reported(tables[name][c])]]

IndexQuery(prefix) == {i \in indexes : i.table \in {PrefixedName(prefix, t) : t \in Range(Tables)}}

Issue(table, kind, name) == [table |-> table, kind |-> kind, name |-> name]

\* A missing table is one issue, without its columns or indexes.
ColumnIssues(prefix, t, columns) ==
    LET name == PrefixedName(prefix, t) IN
    IF name \notin DOMAIN columns THEN {Issue(name, "table", t)}
    ELSE {Issue(name, "column", c) : c \in Columns[t] \ DOMAIN columns[name]}
         \cup {Issue(name, "collation", c) :
                 c \in {d \in IdentifierColumns[t] \cap DOMAIN columns[name] :
                           columns[name][d] \notin {"", Pinned}}}

IndexIssues(prefix, t, columns, found) ==
    LET name == PrefixedName(prefix, t) IN
    IF name \notin DOMAIN columns THEN {}
    ELSE {Issue(name, "index", i) :
             i \in {j \in Indexes[t] : [table |-> name, name |-> IndexName(prefix, j)] \notin found}}

\* Mutant: the first table with an issue ends the verification.
FirstIssues(prefix, columns, found) ==
    LET issues == [k \in DOMAIN Tables |->
                      ColumnIssues(prefix, Tables[k], columns)
                      \cup IndexIssues(prefix, Tables[k], columns, found)]
        wrong == {k \in DOMAIN Tables : issues[k] # {}} IN
    IF wrong = {} THEN {} ELSE issues[CHOOSE k \in wrong : \A j \in wrong : k <= j]

AllIssues(prefix, columns, found) ==
    UNION {ColumnIssues(prefix, t, columns) \cup IndexIssues(prefix, t, columns, found) :
              t \in Range(Tables)}

ReadColumns(v, prefix) ==
    /\ verifiers[v].at \in {"idle", "verified"}
    /\ verifiers' = [verifiers EXCEPT ![v] = [NoReport EXCEPT !.at = "columns", !.prefix = prefix,
                                                             !.columns = SchemaQuery(prefix)]]
    /\ UNCHANGED <<database, tables, indexes, hostMade, migrators>>

\* The indexes are read next, and everything is compared.
ReadIndexes(v) ==
    LET report == verifiers[v] IN
    /\ report.at = "columns"
    /\ verifiers' = [verifiers EXCEPT
           ![v] = [NoReport EXCEPT !.at = "verified", !.prefix = report.prefix,
                       !.issues = AllIssues(report.prefix, report.columns, IndexQuery(report.prefix))]]
    /\ UNCHANGED <<database, tables, indexes, hostMade, migrators>>

SchemaNext ==
    \/ \E m \in Migrators : \/ \E prefix \in TablePrefixes : Migrate(m, prefix)
                           \/ ApplySchema(m) \/ Applied(m) \/ StopApplying(m)
    \/ \E name \in hostMade : Alter(name)
    \/ \E v \in Verifiers : ReadIndexes(v) \/ \E prefix \in TablePrefixes : ReadColumns(v, prefix)

SchemaSpec == SchemaInit /\ [][SchemaNext]_schemaVars

(* What a store can rely on *********************************************)

\* What the statements of a store need of one of its tables and does not hold.
Lacks(prefix, t) ==
    LET name == PrefixedName(prefix, t) IN
    IF name \notin DOMAIN tables THEN {<<"table", t>>}
    ELSE {<<"column", c>> : c \in Columns[t] \ DOMAIN tables[name]}
         \cup {<<"collation", c>> : c \in {d \in IdentifierColumns[t] \cap DOMAIN tables[name] :
                                               IgnoresCase(tables[name][d])}}
         \cup {<<"index", i>> : i \in {j \in Indexes[t] :
                                          ~\E live \in indexes : live.table = name /\ live.name[2] = j}}

\* A verification that reports nothing is to be trusted: every table the store's
\* statements use is there with its columns, its indexes and identifiers that
\* tell case apart, although it was read in two statements while others were
\* creating it, and although another prefix's tables are there too.  And what
\* it reports is the whole list: whatever is lacking by the end of it is in the
\* report, or the table it belongs to is.
VerifiedTellsAll ==
    \A v \in Verifiers :
        verifiers[v].at = "verified" =>
            \A t \in Range(Tables) :
                LET table == {i \in verifiers[v].issues : i.table = PrefixedName(verifiers[v].prefix, t)} IN
                \/ \E i \in table : i.kind = "table"
                \/ \A lack \in Lacks(verifiers[v].prefix, t) :
                       \E i \in table : i.kind = lack[1] /\ i.name = lack[2]

\* A run of the document that ends has made the schema, whatever earlier runs
\* and other prefixes' had left or were doing, unless a table was there that the
\* document did not make.
AppliedIsComplete ==
    \A m \in Migrators :
        migrators[m].at = "applied" =>
            \/ \E t \in Range(Tables) : PrefixedName(migrators[m].prefix, t) \in hostMade
            \/ \A t \in Range(Tables) : Lacks(migrators[m].prefix, t) = {}

\* A schema that was applied, or verified without an issue, is all that the
\* store's statements need.
SchemaIsSound == VerifiedTellsAll /\ AppliedIsComplete
=============================================================================
