----------------------------- MODULE StoreScopes -----------------------------
(***************************************************************************)
(* The stores, statement by statement.                                     *)
(*                                                                         *)
(* The SQL adapters keep a task in two tables, its row and its candidate   *)
(* rows, so reading or writing one task is several statements; a claim     *)
(* selects identifiers, updates them one by one and reads each row back.   *)
(* Scopes run side by side, each a transaction of one operation, and what  *)
(* a statement sees depends on the database:                               *)
(*                                                                         *)
(*   memory    scopes take turns, and a task is one value;                 *)
(*   postgres  a select sees what is committed by then, and a write waits  *)
(*             for a row another scope wrote or locked;                    *)
(*   mysql     likewise, but plain selects see the rows as they were at    *)
(*             the scope's first one;                                      *)
(*   sqlite    one writer at a time, which must have seen the latest rows. *)
(*                                                                         *)
(* Any statement may fail, which rolls the scope back.  A lapsed lease is a *)
(* free one, so leases do not lapse here; tasks are overdue throughout.    *)
(***************************************************************************)
EXTENDS Naturals, Sequences

CONSTANTS TaskIDs,
          Pools,        \* what a task's candidates can be
          Scopes,       \* transactions, each the owner of what it claims
          MaxVersion    \* bound: no task is written past this version

VARIABLES
    dialect,   \* the database in use
    db,        \* the committed rows
    scopes,    \* each scope's operation, what it has read and what it has written
    written    \* history variable: the candidates each version was written with

scopeVars == <<dialect, db, scopes, written>>

Dialects == {"memory", "postgres", "mysql", "sqlite"}
Nobody == "nobody"
NoPool == "no pool"
Events == TaskIDs \X (1..MaxVersion)

ASSUME ScopesAssumption ==
    TaskIDs # {} /\ Nobody \notin Scopes /\ MaxVersion \in Nat \ {0}

NoEdits == [tasks |-> << >>, candidates |-> << >>, history |-> << >>, outbox |-> << >>]

\* An event is due as soon as it is recorded.  No next attempt and not
\* published is a dead letter.
OutboxRow == [recorded |-> TRUE, published |-> FALSE, due |-> TRUE, lease |-> Nobody]

Closed ==
    [op |-> "none", at |-> "idle", id |-> CHOOSE id \in TaskIDs : TRUE,
     read |-> [version |-> 0, lease |-> Nobody, pool |-> NoPool],
     todo |-> {}, locks |-> {}, answers |-> {}, edits |-> NoEdits, snapshot |-> << >>]

ScopesInit ==
    /\ dialect \in Dialects
    /\ db = [tasks |-> [id \in TaskIDs |-> [version |-> 0, lease |-> Nobody]],
             candidates |-> [id \in TaskIDs |-> NoPool],
             history |-> [id \in TaskIDs |-> << >>],
             outbox |-> [e \in Events |-> [recorded |-> FALSE, published |-> FALSE,
                                           due |-> FALSE, lease |-> Nobody]]]
    /\ scopes = [s \in Scopes |-> Closed]
    /\ written = [id \in TaskIDs |-> << >>]

(* What a statement sees ************************************************)

Overlay(edits, base) ==
    [table \in DOMAIN base |->
        [row \in DOMAIN base[table] |->
            IF row \in DOMAIN edits[table] THEN edits[table][row] ELSE base[table][row]]]

\* What a write or a locking select sees: its own writes, over what is committed.
Latest(s) == Overlay(scopes[s].edits, db)

TakesSnapshot(s) == dialect \in {"mysql", "sqlite"} /\ scopes[s].snapshot = << >>

\* What a plain select sees.
Seen(s) ==
    IF scopes[s].snapshot = << >> THEN Latest(s)
    ELSE Overlay(scopes[s].edits, scopes[s].snapshot)

Reading(s) == IF TakesSnapshot(s) THEN [scopes[s] EXCEPT !.snapshot = db] ELSE scopes[s]

Touched(s, table) == DOMAIN scopes[s].edits[table] \cup scopes[s].locks

Writable(s, table, row) ==
    /\ \A q \in Scopes \ {s} : row \notin Touched(q, table)
    /\ dialect = "sqlite" =>
           /\ \A q \in Scopes \ {s} : scopes[q].edits = NoEdits
           /\ scopes[s].snapshot \in {<< >>, db}

\* The scope's edits with one row written.
Edited(s, table, row, value) ==
    [scopes[s].edits EXCEPT ![table] =
        [r \in DOMAIN @ \cup {row} |-> IF r = row THEN value ELSE @[r]]]

At(s, op, at) == scopes[s].op = op /\ scopes[s].at = at

Goes(s, scope) == scopes' = [scopes EXCEPT ![s] = scope] /\ UNCHANGED <<dialect, db, written>>

(* Scopes ***************************************************************)

Begin(s, op, at, id) ==
    /\ scopes[s].at = "idle"
    /\ dialect = "memory" => \A q \in Scopes : scopes[q].at = "idle"
    /\ Goes(s, [Closed EXCEPT !.op = op, !.at = at, !.id = id])

\* An error, a conflict or a cancelled context: nothing the scope wrote is left.
Rollback(s) == scopes[s].at # "idle" /\ Goes(s, Closed)

Done(s) == scopes[s].at = "commit" \/ (scopes[s].at = "claim" /\ scopes[s].todo = {})

Commit(s) ==
    LET pools == scopes[s].edits.candidates IN
    /\ Done(s)
    /\ db' = Latest(s)
    /\ written' = [id \in TaskIDs |->
                      IF id \in DOMAIN pools THEN Append(written[id], pools[id]) ELSE written[id]]
    /\ scopes' = [scopes EXCEPT ![s] = Closed]
    /\ UNCHANGED dialect

(* Reading one task *****************************************************)

SelectTask(s) == Seen(s).tasks[scopes[s].id]

SelectCandidates(s) == Seen(s).candidates[scopes[s].id]

\* The task as it was read, for a change of it or for the answer of a claim.
Found(s, scope, read) ==
    IF scope.op = "sweep"
    THEN Goes(s, [scope EXCEPT !.at = "claim", !.read = Closed.read,
                               !.answers = @ \cup {[row |-> scope.id, entry |-> read]}])
    ELSE Goes(s, [scope EXCEPT !.at = "write", !.read = read])

\* Mutant: the candidates are read before the task.
GetReversed(s) ==
    LET task == SelectTask(s)
        pool == SelectCandidates(s) IN
    \/ scopes[s].at = "task" /\ Goes(s, [Reading(s) EXCEPT !.at = "attach", !.read.pool = pool])
    \/ /\ scopes[s].at = "attach" /\ task.version > 0
       /\ Found(s, Reading(s), [version |-> task.version, lease |-> task.lease,
                                pool |-> scopes[s].read.pool])

\* The task's row, then its candidate rows.  In memory they are one value.
Get(s) ==
    LET task == SelectTask(s)
        pool == SelectCandidates(s)
        read == [version |-> task.version, lease |-> task.lease, pool |-> pool] IN
    \/ /\ scopes[s].at = "task" /\ task.version > 0
       /\ IF dialect = "memory" THEN Found(s, scopes[s], read)
          ELSE Goes(s, [Reading(s) EXCEPT !.at = "attach", !.read = [read EXCEPT !.pool = NoPool]])
    \/ scopes[s].at = "attach" /\ Found(s, Reading(s), [scopes[s].read EXCEPT !.pool = pool])

(* Creating and updating ************************************************)

\* The identifier is looked up before the insert, which would fail on it.
CheckVersion(s) ==
    /\ At(s, "create", "version")
    /\ SelectTask(s).version = 0
    /\ Goes(s, [Reading(s) EXCEPT !.at = "insert"])

InsertTask(s) ==
    LET id == scopes[s].id IN
    /\ At(s, "create", "insert")
    /\ Writable(s, "tasks", id)
    /\ Latest(s).tasks[id].version = 0
    /\ Goes(s, [scopes[s] EXCEPT !.at = "candidates",
                                 !.edits = Edited(s, "tasks", id, [version |-> 1, lease |-> Nobody])])

\* Conditional on the version that was read; no row affected is a conflict.
UpdateTask(s) ==
    LET id == scopes[s].id
        row == [version |-> scopes[s].read.version + 1, lease |-> scopes[s].read.lease] IN
    /\ At(s, "update", "write")
    /\ row.version <= MaxVersion
    /\ Writable(s, "tasks", id)
    /\ Latest(s).tasks[id].version = scopes[s].read.version
    /\ Goes(s, [scopes[s] EXCEPT !.at = "candidates", !.edits = Edited(s, "tasks", id, row)])

\* The old candidate rows are deleted and the new ones inserted.  No read follows,
\* so the snapshot is dropped.
WriteCandidates(s, pool) ==
    /\ scopes[s].at = "candidates"
    /\ Goes(s, [scopes[s] EXCEPT !.at = "append", !.snapshot = << >>,
                                 !.edits = Edited(s, "candidates", scopes[s].id, pool)])

InsertHistory(s, id, version) ==
    Edited(s, "history", id, Append(Latest(s).history[id], version))

\* The record of the step and its event, which no other scope can see yet.
AppendOutcome(s) ==
    LET id == scopes[s].id
        version == scopes[s].edits.tasks[id].version IN
    /\ scopes[s].at = "append"
    /\ Goes(s, [scopes[s] EXCEPT !.at = "commit",
                                 !.edits = [InsertHistory(s, id, version)
                                                EXCEPT !.outbox = [e \in {<<id, version>>} |-> OutboxRow]]])

(* Claiming *************************************************************)

Overdue(rows, id) == rows.tasks[id].version > 0 /\ rows.tasks[id].lease = Nobody

\* Mutant: an event that is leased is due.
DueLeased(rows, e) == ~rows.outbox[e].published /\ rows.outbox[e].due

Due(rows, e) ==
    LET row == rows.outbox[e] IN ~row.published /\ row.due /\ row.lease = Nobody

SupportsSkipLocked == dialect \in {"postgres", "mysql"}

OverdueIDs(rows) == {id \in TaskIDs : Overdue(rows, id)}

DueEvents(rows) == {e \in Events : Due(rows, e)}

\* The candidates of a claim, by the latest rows or by those a plain select sees.
\* Where the database can, the rows are locked, and rows already locked are
\* passed over.
Select(s, table, latest, seen) ==
    /\ scopes[s].at = "select"
    /\ IF SupportsSkipLocked
       THEN LET free == {row \in latest : \A q \in Scopes \ {s} : row \notin Touched(q, table)} IN
            Goes(s, [scopes[s] EXCEPT !.at = "claim", !.todo = free, !.locks = free])
       ELSE Goes(s, [Reading(s) EXCEPT !.at = "claim", !.todo = seen])

SelectOverdue(s) ==
    scopes[s].op = "sweep" /\ Select(s, "tasks", OverdueIDs(Latest(s)), OverdueIDs(Seen(s)))

SelectDueEvents(s) ==
    scopes[s].op = "relay" /\ Select(s, "outbox", DueEvents(Latest(s)), DueEvents(Seen(s)))

\* The whole predicate is checked again; a row it no longer holds of is left.
ClaimLease(s, id) ==
    /\ At(s, "sweep", "claim") /\ id \in scopes[s].todo
    /\ Writable(s, "tasks", id)
    /\ LET claimed == Edited(s, "tasks", id, [Latest(s).tasks[id] EXCEPT !.lease = s])
           rest == [scopes[s] EXCEPT !.todo = @ \ {id}] IN
       IF Overdue(Latest(s), id)
       THEN Goes(s, [rest EXCEPT !.at = "task", !.id = id, !.edits = claimed])
       ELSE Goes(s, rest)

\* The row is read back after the claim.
OutboxEntry(s, e) == [row |-> e, entry |-> Seen(s).outbox[e]]

ClaimEvent(s, e) ==
    /\ At(s, "relay", "claim") /\ e \in scopes[s].todo
    /\ Writable(s, "outbox", e)
    /\ LET claimed == Edited(s, "outbox", e, [Latest(s).outbox[e] EXCEPT !.lease = s])
           rest == [scopes[s] EXCEPT !.todo = @ \ {e}] IN
       IF Due(Latest(s), e)
       THEN Goes(s, [rest EXCEPT !.at = "entry", !.id = e, !.edits = claimed])
       ELSE Goes(s, rest)

ReadEntry(s) ==
    /\ At(s, "relay", "entry")
    /\ Goes(s, [Reading(s) EXCEPT !.at = "claim", !.answers = @ \cup {OutboxEntry(s, scopes[s].id)}])

(* Settling *************************************************************)

\* Every settlement releases the event, whoever holds it by then.
Release(row) == [row EXCEPT !.lease = Nobody]

RecordAttempt(row) == Release([row EXCEPT !.due = TRUE])

\* A partial acceptance is written with no time of publication, which in memory
\* leaves one that is there and in SQL clears it.
MarkAccepted(row, complete) ==
    Release([row EXCEPT !.published = complete \/ (dialect = "memory" /\ @),
                        !.due = @ \/ ~complete])

MarkDeadLettered(row) == Release([row EXCEPT !.due = FALSE])

\* The event is named and nothing else is asked of it; one that is not there
\* is an error.
SettleOutbox(s) ==
    LET e == scopes[s].id
        row == Latest(s).outbox[e] IN
    /\ At(s, "settle", "settle")
    /\ Writable(s, "outbox", e)
    /\ row.recorded
    /\ \E settled \in {RecordAttempt(row), MarkAccepted(row, TRUE), MarkAccepted(row, FALSE),
                       MarkDeadLettered(row)} :
           Goes(s, [scopes[s] EXCEPT !.at = "commit", !.edits = Edited(s, "outbox", e, settled)])

(* The specification ****************************************************)

\* A relay settles what was claimed; another may have settled it by then.
Opens(s) ==
    \/ \E id \in TaskIDs : Begin(s, "create", "version", id) \/ Begin(s, "update", "task", id)
    \/ Begin(s, "sweep", "select", Closed.id)
    \/ Begin(s, "relay", "select", Closed.id)
    \/ \E e \in Events : db.outbox[e].lease # Nobody /\ Begin(s, "settle", "settle", e)

Statement(s) ==
    \/ Get(s)
    \/ CheckVersion(s) \/ InsertTask(s) \/ UpdateTask(s)
    \/ (\E pool \in Pools : WriteCandidates(s, pool)) \/ AppendOutcome(s)
    \/ SelectOverdue(s) \/ (\E id \in TaskIDs : ClaimLease(s, id))
    \/ SelectDueEvents(s) \/ (\E e \in Events : ClaimEvent(s, e)) \/ ReadEntry(s)
    \/ SettleOutbox(s)

ScopesNext == \E s \in Scopes : Opens(s) \/ Statement(s) \/ Commit(s) \/ Rollback(s)

ScopesSpec == ScopesInit /\ [][ScopesNext]_scopeVars

(* What the engine relies on ********************************************)

Port == INSTANCE StorePort WITH
    tasks <- [id \in TaskIDs |-> [version |-> db.tasks[id].version, lease |-> db.tasks[id].lease,
                                  pool |-> db.candidates[id]]],
    history <- db.history, outbox <- db.outbox, Owners <- Scopes

\* On every database, every scope takes effect as one step of the port: a task
\* is written with its candidates, its record and its event or not at all, each write builds
\* on the version before it, and of scopes that claim a row one gets it.
ImplementsPort == Port!PortSpec

\* A change of a task rests on one version of it.  A read of a task may mix two
\* (its row from before another scope's commit, its candidates from after),
\* but no write is ever made from such a read: its condition fails.
WritesRestOnOneVersion ==
    \A s \in Scopes :
        LET scope == scopes[s] IN
        scope.op = "update" /\ scope.at \in {"candidates", "append", "commit"} =>
            scope.read.pool = written[scope.id][scope.read.version]

\* What a claim answers is what it holds, as it is when the claim commits: the
\* rows it leased and no others, with the lease, and tasks with the candidates
\* of the version answered.
ClaimsAnswerTrue ==
    \A s \in Scopes :
        LET scope == scopes[s] IN
        Done(s) =>
            /\ scope.op = "sweep" =>
                   scope.answers = {[row |-> id,
                                     entry |-> [version |-> db.tasks[id].version, lease |-> s,
                                                pool |-> db.candidates[id]]] :
                                       id \in DOMAIN scope.edits.tasks}
            /\ scope.op = "relay" =>
                   scope.answers = {[row |-> e, entry |-> [db.outbox[e] EXCEPT !.lease = s]] :
                                       e \in DOMAIN scope.edits.outbox}

\* What a scope acts on and what it answers is one version of what is stored.
ScopesSeeOneVersion == WritesRestOnOneVersion /\ ClaimsAnswerTrue
=============================================================================
