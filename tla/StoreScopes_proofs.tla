-------------------------- MODULE StoreScopes_proofs --------------------------
(***************************************************************************)
(* Proofs about the stores, for every number of tasks and of scopes that   *)
(* run side by side, on each of the four databases: statement by statement *)
(* they implement the port, and a scope acts on and answers one version.   *)
(***************************************************************************)
EXTENDS StoreScopes, TLAPS

(* Types ****************************************************************)

Owner == Scopes \cup {Nobody}
Candidates == Pools \cup {NoPool}
TaskRow == [version : Nat, lease : Owner]
EventRow == [recorded : BOOLEAN, published : BOOLEAN, due : BOOLEAN, lease : Owner]
TaskRead == [version : Nat, lease : Owner, pool : Candidates]
RowIDs == TaskIDs \cup Events

Tables ==
    [tasks : [TaskIDs -> TaskRow], candidates : [TaskIDs -> Candidates],
     history : [TaskIDs -> Seq(Nat)], outbox : [Events -> EventRow]]

Partial(D, R) == UNION {[d -> R] : d \in SUBSET D}

EditSet ==
    [tasks : Partial(TaskIDs, TaskRow), candidates : Partial(TaskIDs, Candidates),
     history : Partial(TaskIDs, Seq(Nat)), outbox : Partial(Events, EventRow)]

Operations == {"none", "create", "update", "sweep", "relay", "settle"}

Steps == {"idle", "version", "insert", "candidates", "append", "commit", "task", "attach",
          "write", "select", "claim", "entry", "settle"}

Scope ==
    [op : Operations, at : Steps, id : RowIDs, read : TaskRead, todo : SUBSET RowIDs,
     locks : SUBSET RowIDs, answers : SUBSET [row : RowIDs, entry : TaskRead \cup EventRow],
     edits : EditSet, snapshot : {<< >>} \cup Tables]

ScopeTypes ==
    /\ dialect \in Dialects
    /\ db \in Tables
    /\ scopes \in [Scopes -> Scope]
    /\ written \in [TaskIDs -> Seq(Pools)]

(* The inductive invariant **********************************************)

\* The rows a scope has written.
Wrote(edits, tasks, candidates, history, outbox) ==
    /\ DOMAIN edits.tasks = tasks /\ DOMAIN edits.candidates = candidates
    /\ DOMAIN edits.history = history /\ DOMAIN edits.outbox = outbox

\* A scope that has written nothing yet.
Fresh(c) ==
    /\ c.edits = NoEdits
    /\ \/ c.op = "none" /\ c.at = "idle"
       \/ c.op = "create" /\ c.at \in {"version", "insert"} /\ c.id \in TaskIDs
       \/ c.op = "update" /\ c.at \in {"task", "attach", "write"} /\ c.id \in TaskIDs
       \/ c.op \in {"sweep", "relay"} /\ c.at = "select"
       \/ c.op = "settle" /\ c.at = "settle" /\ c.id \in Events

\* A scope that writes the version v of a task: it builds on the committed version.
WrotePool(c) == c.edits.candidates[c.id] \in Pools

WroteOutcome(c, v) ==
    /\ c.edits.history[c.id] = Append(db.history[c.id], v)
    /\ c.edits.outbox[<<c.id, v>>] = OutboxRow

Writing(c, v) ==
    /\ c.op \in {"create", "update"} /\ c.id \in TaskIDs
    /\ v = db.tasks[c.id].version + 1 /\ v <= MaxVersion
    /\ c.edits.tasks[c.id].version = v
    /\ c.op = "create" => v = 1 /\ c.edits.tasks[c.id].lease = Nobody
    /\ c.op = "update" => v = c.read.version + 1 /\ v > 1
    /\ \/ c.at = "candidates" /\ Wrote(c.edits, {c.id}, {}, {}, {})
       \/ c.at = "append" /\ Wrote(c.edits, {c.id}, {c.id}, {}, {}) /\ WrotePool(c)
       \/ /\ c.at = "commit" /\ Wrote(c.edits, {c.id}, {c.id}, {c.id}, {<<c.id, v>>})
          /\ WrotePool(c) /\ WroteOutcome(c, v)

\* A scope that claims tasks: what it has written is the lease of committed rows
\* that are free.
Sweeping(s, c) ==
    /\ c.op = "sweep" /\ c.at \in {"claim", "task", "attach"} /\ c.todo \subseteq TaskIDs
    /\ Wrote(c.edits, DOMAIN c.edits.tasks, {}, {}, {})
    /\ \A id \in DOMAIN c.edits.tasks :
           /\ db.tasks[id].version > 0 /\ db.tasks[id].lease = Nobody
           /\ c.edits.tasks[id] = [version |-> db.tasks[id].version, lease |-> s]
    /\ c.at \in {"task", "attach"} => c.id \in DOMAIN c.edits.tasks

\* A scope that claims events, likewise.
Relaying(s, c) ==
    /\ c.op = "relay" /\ c.at \in {"claim", "entry"} /\ c.todo \subseteq Events
    /\ Wrote(c.edits, {}, {}, {}, DOMAIN c.edits.outbox)
    /\ \A e \in DOMAIN c.edits.outbox :
           db.outbox[e] = OutboxRow /\ c.edits.outbox[e] = [OutboxRow EXCEPT !.lease = s]
    /\ c.at = "entry" => c.id \in DOMAIN c.edits.outbox

\* A scope that has settled an event.
Settling(c) ==
    /\ c.op = "settle" /\ c.at = "commit" /\ c.id \in Events
    /\ Wrote(c.edits, {}, {}, {}, {c.id})
    /\ db.outbox[c.id].recorded
    /\ c.edits.outbox[c.id].recorded /\ c.edits.outbox[c.id].lease = Nobody

Staged(s, c) ==
    Fresh(c) \/ (\E v \in Nat : Writing(c, v)) \/ Sweeping(s, c) \/ Relaying(s, c) \/ Settling(c)

\* No row is written by two scopes at a time.
Apart(c, d) ==
    /\ DOMAIN c.edits.tasks \cap DOMAIN d.edits.tasks = {}
    /\ DOMAIN c.edits.outbox \cap DOMAIN d.edits.outbox = {}

\* What is committed: a task that does not exist has no candidates and no lease, and
\* there are events of the versions that were written, and no others.
Committed ==
    /\ \A id \in TaskIDs : db.tasks[id].version = 0 =>
           db.tasks[id].lease = Nobody /\ db.candidates[id] = NoPool
    /\ \A id \in TaskIDs, v \in 1..MaxVersion :
           /\ db.outbox[<<id, v>>].recorded => v <= db.tasks[id].version
           /\ db.outbox[<<id, v>>].due => db.outbox[<<id, v>>].recorded

\* Enough for the port.
PInv ==
    /\ ScopeTypes /\ Committed
    /\ \A s \in Scopes : Staged(s, scopes[s])
    /\ \A s, q \in Scopes : s # q => Apart(scopes[s], scopes[q])

\* Every version was written with the candidates it has.
VersionsWritten ==
    \A id \in TaskIDs :
        /\ Len(written[id]) = db.tasks[id].version
        /\ db.tasks[id].version > 0 => db.candidates[id] = written[id][db.tasks[id].version]

\* The rows are those of some moment up to now.
Past(rows) ==
    \A id \in TaskIDs :
        /\ rows.tasks[id].version <= db.tasks[id].version
        /\ rows.tasks[id].version > 0 => rows.candidates[id] = written[id][rows.tasks[id].version]

\* What a plain select of a scope that wrote nothing sees.
Base(c) == IF c.snapshot = << >> THEN db ELSE c.snapshot

\* A task that was read for an update: its candidates are of the version read or of
\* a later one, and of that one when the conditional write went through.
PoolBetween(c) ==
    \E w \in Nat : /\ c.read.version <= w /\ w <= db.tasks[c.id].version
                   /\ c.read.pool = written[c.id][w]

ReadSound(c) ==
    c.op = "update" =>
        /\ c.at = "attach" => 0 < c.read.version /\ c.read.version <= Base(c).tasks[c.id].version
        /\ c.at = "write" => 0 < c.read.version /\ PoolBetween(c)
        /\ c.at \in {"candidates", "append", "commit"} =>
               c.read.pool = written[c.id][c.read.version]

\* What a claim has answered so far, and is about to.
Claimed(s, id) ==
    [row |-> id, entry |-> [version |-> db.tasks[id].version, lease |-> s, pool |-> db.candidates[id]]]

Taken(s, e) == [row |-> e, entry |-> [OutboxRow EXCEPT !.lease = s]]

AnswersSound(s, c) ==
    /\ c.op \in {"sweep", "relay"} /\ c.at = "select" => c.answers = {}
    /\ c.op = "sweep" /\ c.at = "claim" => c.answers = {Claimed(s, id) : id \in DOMAIN c.edits.tasks}
    /\ c.op = "sweep" /\ c.at \in {"task", "attach"} =>
           c.answers = {Claimed(s, id) : id \in DOMAIN c.edits.tasks \ {c.id}}
    /\ c.op = "sweep" /\ c.at = "attach" =>
           c.read.version = db.tasks[c.id].version /\ c.read.lease = s
    /\ c.op = "relay" /\ c.at = "claim" => c.answers = {Taken(s, e) : e \in DOMAIN c.edits.outbox}
    /\ c.op = "relay" /\ c.at = "entry" =>
           c.answers = {Taken(s, e) : e \in DOMAIN c.edits.outbox \ {c.id}}

\* The candidates a claim reads from its snapshot are the committed ones: it has the
\* rows locked, or is the only writer.
SnapshotAgrees(c) ==
    c.op = "sweep" =>
        /\ c.at = "select" => c.snapshot = << >>
        /\ c.snapshot # << >> => dialect \in {"mysql", "sqlite"}
        /\ c.snapshot # << >> /\ dialect = "mysql" =>
               \A id \in c.locks : c.snapshot.candidates[id] = db.candidates[id]
        /\ c.snapshot # << >> /\ dialect = "sqlite" =>
               c.edits = NoEdits \/ c.snapshot = db
        /\ c.at # "select" /\ dialect = "mysql" => c.todo \cup DOMAIN c.edits.tasks \subseteq c.locks
        /\ c.locks \subseteq TaskIDs

\* No other scope writes what a sweep has locked.
LocksKept(c, d) == c.op = "sweep" => c.locks \cap DOMAIN d.edits.tasks = {}

\* SQLite has one writer.
OneWrites(c, d) == dialect = "sqlite" => c.edits = NoEdits \/ d.edits = NoEdits

Sound(s, c) ==
    /\ c.snapshot # << >> => Past(c.snapshot)
    /\ ReadSound(c) /\ AnswersSound(s, c) /\ SnapshotAgrees(c)

VInv ==
    /\ VersionsWritten
    /\ \A s \in Scopes : Sound(s, scopes[s])
    /\ \A s, q \in Scopes : s # q => LocksKept(scopes[s], scopes[q]) /\ OneWrites(scopes[s], scopes[q])

(* Rows and edits *******************************************************)

\* A table with some of its rows written, and with one more.
Extended(f, x, y) == [r \in DOMAIN f \cup {x} |-> IF r = x THEN y ELSE f[r]]

\* Only rows of the table are written, with values of its rows.
LEMMA PartialFacts ==
    ASSUME NEW D, NEW R, NEW f \in Partial(D, R)
    PROVE  DOMAIN f \subseteq D /\ \A x \in DOMAIN f : f[x] \in R
    BY Zenon DEF Partial

\* So it is when one more row is written.
LEMMA PartialExtend ==
    ASSUME NEW D, NEW R, NEW f \in Partial(D, R), NEW x \in D, NEW y \in R
    PROVE  Extended(f, x, y) \in Partial(D, R)
<1> DEFINE g == Extended(f, x, y)
<1> DEFINE d == DOMAIN f \cup {x}
<1>1. d \in SUBSET D
    BY PartialFacts
<1>2. \A r \in d : (IF r = x THEN y ELSE f[r]) \in R
    BY PartialFacts
<1>3. g \in [d -> R]
    BY <1>2 DEF Extended
<1> QED
    BY <1>1, <1>3 DEF Partial

\* A scope's edits with one row written: that row has the value, every other row
\* and every other table is as it was.
LEMMA EditTasks ==
    ASSUME NEW s, NEW edits \in EditSet, scopes[s].edits = edits, NEW id \in TaskIDs,
           NEW row \in TaskRow, NEW e, e = Edited(s, "tasks", id, row)
    PROVE  /\ e \in EditSet
           /\ DOMAIN e.tasks = DOMAIN edits.tasks \cup {id} /\ e.tasks[id] = row
           /\ \A i \in DOMAIN edits.tasks \ {id} : e.tasks[i] = edits.tasks[i]
           /\ e.candidates = edits.candidates /\ e.history = edits.history
           /\ e.outbox = edits.outbox
<1> DEFINE g == Extended(edits.tasks, id, row)
<1>1. edits.tasks \in Partial(TaskIDs, TaskRow)
    BY DEF EditSet
<1>2. g \in Partial(TaskIDs, TaskRow)
    BY <1>1, PartialExtend
<1>3. /\ DOMAIN g = DOMAIN edits.tasks \cup {id} /\ g[id] = row
      /\ \A r \in DOMAIN edits.tasks \ {id} : g[r] = edits.tasks[r]
    BY DEF Extended
<1>4. e = [edits EXCEPT !.tasks = g]
    BY Zenon DEF Edited, Extended
<1> HIDE DEF g
<1>5. e \in EditSet /\ e.tasks = g /\ e.candidates = edits.candidates
      /\ e.history = edits.history /\ e.outbox = edits.outbox
    BY <1>2, <1>4 DEF EditSet
<1> QED
    BY <1>3, <1>5

LEMMA EditCandidates ==
    ASSUME NEW s, NEW edits \in EditSet, scopes[s].edits = edits, NEW id \in TaskIDs,
           NEW pool \in Candidates, NEW e, e = Edited(s, "candidates", id, pool)
    PROVE  /\ e \in EditSet
           /\ DOMAIN e.candidates = DOMAIN edits.candidates \cup {id} /\ e.candidates[id] = pool
           /\ e.tasks = edits.tasks /\ e.history = edits.history /\ e.outbox = edits.outbox
<1> DEFINE g == Extended(edits.candidates, id, pool)
<1>1. edits.candidates \in Partial(TaskIDs, Candidates)
    BY DEF EditSet
<1>2. g \in Partial(TaskIDs, Candidates)
    BY <1>1, PartialExtend
<1>3. DOMAIN g = DOMAIN edits.candidates \cup {id} /\ g[id] = pool
    BY DEF Extended
<1>4. e = [edits EXCEPT !.candidates = g]
    BY Zenon DEF Edited, Extended
<1> HIDE DEF g
<1>5. e \in EditSet /\ e.candidates = g /\ e.tasks = edits.tasks
      /\ e.history = edits.history /\ e.outbox = edits.outbox
    BY <1>2, <1>4 DEF EditSet
<1> QED
    BY <1>3, <1>5

LEMMA EditHistory ==
    ASSUME NEW s, NEW edits \in EditSet, scopes[s].edits = edits, NEW id \in TaskIDs,
           NEW story \in Seq(Nat), NEW e, e = Edited(s, "history", id, story)
    PROVE  /\ e \in EditSet
           /\ DOMAIN e.history = DOMAIN edits.history \cup {id} /\ e.history[id] = story
           /\ e.tasks = edits.tasks /\ e.candidates = edits.candidates /\ e.outbox = edits.outbox
<1> DEFINE g == Extended(edits.history, id, story)
<1>1. edits.history \in Partial(TaskIDs, Seq(Nat))
    BY DEF EditSet
<1>2. g \in Partial(TaskIDs, Seq(Nat))
    BY <1>1, PartialExtend
<1>3. DOMAIN g = DOMAIN edits.history \cup {id} /\ g[id] = story
    BY DEF Extended
<1>4. e = [edits EXCEPT !.history = g]
    BY Zenon DEF Edited, Extended
<1> HIDE DEF g
<1>5. e \in EditSet /\ e.history = g /\ e.tasks = edits.tasks
      /\ e.candidates = edits.candidates /\ e.outbox = edits.outbox
    BY <1>2, <1>4 DEF EditSet
<1> QED
    BY <1>3, <1>5

LEMMA EditOutbox ==
    ASSUME NEW s, NEW edits \in EditSet, scopes[s].edits = edits, NEW v \in Events,
           NEW row \in EventRow, NEW e, e = Edited(s, "outbox", v, row)
    PROVE  /\ e \in EditSet
           /\ DOMAIN e.outbox = DOMAIN edits.outbox \cup {v} /\ e.outbox[v] = row
           /\ \A i \in DOMAIN edits.outbox \ {v} : e.outbox[i] = edits.outbox[i]
           /\ e.tasks = edits.tasks /\ e.candidates = edits.candidates
           /\ e.history = edits.history
<1> DEFINE g == Extended(edits.outbox, v, row)
<1>1. edits.outbox \in Partial(Events, EventRow)
    BY DEF EditSet
<1>2. g \in Partial(Events, EventRow)
    BY <1>1, PartialExtend
<1>3. /\ DOMAIN g = DOMAIN edits.outbox \cup {v} /\ g[v] = row
      /\ \A r \in DOMAIN edits.outbox \ {v} : g[r] = edits.outbox[r]
    BY DEF Extended
<1>4. e = [edits EXCEPT !.outbox = g]
    BY Zenon DEF Edited, Extended
<1> HIDE DEF g
<1>5. e \in EditSet /\ e.outbox = g /\ e.tasks = edits.tasks
      /\ e.candidates = edits.candidates /\ e.history = edits.history
    BY <1>2, <1>4 DEF EditSet
<1> QED
    BY <1>3, <1>5

\* What a scope that wrote nothing has written.
LEMMA NoEditsFacts ==
    /\ NoEdits \in EditSet
    /\ DOMAIN NoEdits.tasks = {} /\ DOMAIN NoEdits.candidates = {}
    /\ DOMAIN NoEdits.history = {} /\ DOMAIN NoEdits.outbox = {}
<1>1. << >> \in [{} -> TaskRow] /\ << >> \in [{} -> Candidates]
      /\ << >> \in [{} -> Seq(Nat)] /\ << >> \in [{} -> EventRow]
    OBVIOUS
<1>2. /\ << >> \in Partial(TaskIDs, TaskRow) /\ << >> \in Partial(TaskIDs, Candidates)
      /\ << >> \in Partial(TaskIDs, Seq(Nat)) /\ << >> \in Partial(Events, EventRow)
    BY <1>1, Zenon DEF Partial
<1> QED
    BY <1>2 DEF NoEdits, EditSet

\* A scope sees its own writes over the rows it reads.
LEMMA OverlayFacts ==
    ASSUME NEW edits \in EditSet, NEW base \in Tables, NEW rows, rows = Overlay(edits, base)
    PROVE  /\ rows \in Tables
           /\ \A id \in TaskIDs : rows.tasks[id] =
                  IF id \in DOMAIN edits.tasks THEN edits.tasks[id] ELSE base.tasks[id]
           /\ \A id \in TaskIDs : rows.candidates[id] =
                  IF id \in DOMAIN edits.candidates THEN edits.candidates[id] ELSE base.candidates[id]
           /\ \A id \in TaskIDs : rows.history[id] =
                  IF id \in DOMAIN edits.history THEN edits.history[id] ELSE base.history[id]
           /\ \A e \in Events : rows.outbox[e] =
                  IF e \in DOMAIN edits.outbox THEN edits.outbox[e] ELSE base.outbox[e]
<1> DEFINE tasks == [id \in TaskIDs |->
               IF id \in DOMAIN edits.tasks THEN edits.tasks[id] ELSE base.tasks[id]]
           candidates == [id \in TaskIDs |->
               IF id \in DOMAIN edits.candidates THEN edits.candidates[id] ELSE base.candidates[id]]
           history == [id \in TaskIDs |->
               IF id \in DOMAIN edits.history THEN edits.history[id] ELSE base.history[id]]
           outbox == [e \in Events |->
               IF e \in DOMAIN edits.outbox THEN edits.outbox[e] ELSE base.outbox[e]]
<1>1. /\ DOMAIN base = {"tasks", "candidates", "history", "outbox"}
      /\ DOMAIN base.tasks = TaskIDs /\ DOMAIN base.candidates = TaskIDs
      /\ DOMAIN base.history = TaskIDs /\ DOMAIN base.outbox = Events
    BY DEF Tables
<1>2. rows.tasks = tasks /\ rows.candidates = candidates
      /\ rows.history = history /\ rows.outbox = outbox
    BY <1>1 DEF Overlay
<1>3. DOMAIN rows = {"tasks", "candidates", "history", "outbox"}
    BY <1>1 DEF Overlay
<1>4. rows = [tasks |-> rows.tasks, candidates |-> rows.candidates, history |-> rows.history,
              outbox |-> rows.outbox]
    BY <1>3 DEF Overlay
<1>5. tasks \in [TaskIDs -> TaskRow]
    BY PartialFacts DEF EditSet, Tables
<1>6. candidates \in [TaskIDs -> Candidates]
    BY PartialFacts DEF EditSet, Tables
<1>7. history \in [TaskIDs -> Seq(Nat)]
    BY PartialFacts DEF EditSet, Tables
<1>8. outbox \in [Events -> EventRow]
    BY PartialFacts DEF EditSet, Tables
<1>9. rows \in Tables
    BY <1>2, <1>4, <1>5, <1>6, <1>7, <1>8, Zenon DEF Tables
<1> QED
    BY <1>2, <1>9

\* The types of the rows.
LEMMA RowTypes ==
    ASSUME NEW rows \in Tables
    PROVE  /\ \A id \in TaskIDs :
                 /\ rows.tasks[id] \in TaskRow /\ rows.tasks[id].version \in Nat
                 /\ rows.tasks[id].lease \in Owner
                 /\ rows.candidates[id] \in Candidates /\ rows.history[id] \in Seq(Nat)
           /\ \A e \in Events : rows.outbox[e] \in EventRow
<1>1. \A id \in TaskIDs : rows.tasks[id] \in TaskRow
    BY DEF Tables
<1> QED
    BY <1>1 DEF Tables, TaskRow

\* Rows are all there is to tables.
LEMMA SameTables ==
    ASSUME NEW a \in Tables, NEW b \in Tables,
           \A id \in TaskIDs : /\ a.tasks[id] = b.tasks[id] /\ a.candidates[id] = b.candidates[id]
                               /\ a.history[id] = b.history[id],
           \A e \in Events : a.outbox[e] = b.outbox[e]
    PROVE  a = b
<1>1. a.tasks = b.tasks
    BY DEF Tables
<1>2. a.candidates = b.candidates
    BY DEF Tables
<1>3. a.history = b.history
    BY DEF Tables
<1>4. a.outbox = b.outbox
    BY DEF Tables
<1> QED
    BY <1>1, <1>2, <1>3, <1>4 DEF Tables

(* Steps of one scope ***************************************************)

\* A plain select may fix the rows that later ones see, and changes nothing else.
Selected(s, c) ==
    /\ c \in Scope
    /\ c.op = scopes[s].op /\ c.at = scopes[s].at /\ c.id = scopes[s].id
    /\ c.read = scopes[s].read /\ c.todo = scopes[s].todo /\ c.locks = scopes[s].locks
    /\ c.answers = scopes[s].answers /\ c.edits = scopes[s].edits
    /\ \/ c.snapshot = scopes[s].snapshot
       \/ c.snapshot = db /\ scopes[s].snapshot = << >> /\ dialect \in {"mysql", "sqlite"}

LEMMA ReadingFacts ==
    ASSUME ScopeTypes, NEW s \in Scopes
    PROVE  Selected(s, Reading(s)) /\ Selected(s, scopes[s])
<1>1. scopes[s] \in Scope /\ db \in Tables
    BY DEF ScopeTypes
<1>2. CASE TakesSnapshot(s)
    BY <1>1, <1>2 DEF Reading, TakesSnapshot, Scope, Selected
<1>3. CASE ~TakesSnapshot(s)
    BY <1>1, <1>3 DEF Reading, Selected
<1> QED
    BY <1>1, <1>2, <1>3, Zenon DEF Selected

\* One scope moves on and nothing is committed: the others are where they were.
LEMMA GoesPInv ==
    ASSUME PInv, NEW s \in Scopes, NEW c \in Scope, Goes(s, c), Staged(s, c),
           \A q \in Scopes \ {s} : Apart(c, scopes[q])
    PROVE  PInv'
<1>1. scopes' = [scopes EXCEPT ![s] = c] /\ dialect' = dialect /\ db' = db /\ written' = written
    BY DEF Goes
<1>2. ScopeTypes'
    BY <1>1 DEF PInv, ScopeTypes
<1>3. Committed'
    BY <1>1 DEF PInv, Committed
<1>4. \A q \in Scopes : scopes'[q] = IF q = s THEN c ELSE scopes[q]
    BY <1>1 DEF PInv, ScopeTypes
<1>5. \A q \in Scopes : Staged(q, scopes[q])'
  <2> SUFFICES ASSUME NEW q \in Scopes PROVE Staged(q, scopes[q])'
      OBVIOUS
  <2>1. PICK d : d = scopes'[q] /\ Staged(q, d)
      BY <1>4 DEF PInv
  <2>2. Fresh(d) => Fresh(scopes[q])'
      BY <2>1 DEF Fresh
  <2>3. \A v \in Nat : Writing(d, v) => Writing(scopes[q], v)'
      BY <2>1, <1>1, Zenon DEF Writing, Wrote, WrotePool, WroteOutcome
  <2>4. Sweeping(q, d) => Sweeping(q, scopes[q])'
      BY <2>1, <1>1, Zenon DEF Sweeping, Wrote
  <2>5. Relaying(q, d) => Relaying(q, scopes[q])'
      BY <2>1, <1>1 DEF Relaying, Wrote
  <2>6. Settling(d) => Settling(scopes[q])'
      BY <2>1, <1>1, Zenon DEF Settling, Wrote
  <2> QED
      BY <2>1, <2>2, <2>3, <2>4, <2>5, <2>6 DEF Staged
<1>6. \A p, q \in Scopes : p # q => Apart(scopes[p], scopes[q])'
    BY <1>4 DEF PInv, Apart
<1> QED
    BY <1>2, <1>3, <1>5, <1>6 DEF PInv

LEMMA GoesVInv ==
    ASSUME PInv, VInv, NEW s \in Scopes, NEW c \in Scope, Goes(s, c), Sound(s, c),
           \A q \in Scopes \ {s} : /\ LocksKept(c, scopes[q]) /\ LocksKept(scopes[q], c)
                                   /\ OneWrites(c, scopes[q])
    PROVE  VInv'
<1>1. scopes' = [scopes EXCEPT ![s] = c] /\ dialect' = dialect /\ db' = db /\ written' = written
    BY DEF Goes
<1>2. VersionsWritten'
    BY <1>1 DEF VInv, VersionsWritten
<1>3. \A q \in Scopes : scopes'[q] = IF q = s THEN c ELSE scopes[q]
    BY <1>1 DEF PInv, ScopeTypes
<1>4. \A q \in Scopes : Sound(q, scopes[q])'
  <2> SUFFICES ASSUME NEW q \in Scopes PROVE Sound(q, scopes[q])'
      OBVIOUS
  <2>1. PICK d : d = scopes'[q] /\ Sound(q, d)
      BY <1>3 DEF VInv
  <2>2. (d.snapshot # << >> => Past(d.snapshot)) => (scopes[q].snapshot # << >> => Past(scopes[q].snapshot))'
      BY <2>1, <1>1, Zenon DEF Past
  <2>3. ReadSound(d) => ReadSound(scopes[q])'
      BY ONLY <2>1, <1>1 DEF ReadSound, PoolBetween, Base
  <2>4. AnswersSound(q, d) => AnswersSound(q, scopes[q])'
      BY <2>1, <1>1 DEF AnswersSound, Claimed, Taken
  <2>5. SnapshotAgrees(d) => SnapshotAgrees(scopes[q])'
      BY <2>1, <1>1, Zenon DEF SnapshotAgrees
  <2> QED
      BY <2>1, <2>2, <2>3, <2>4, <2>5, Zenon DEF Sound
<1>5. \A p, q \in Scopes : p # q => (LocksKept(scopes[p], scopes[q]) /\ OneWrites(scopes[p], scopes[q]))'
  <2> SUFFICES ASSUME NEW p \in Scopes, NEW q \in Scopes, p # q
               PROVE  LocksKept(scopes[p], scopes[q])' /\ OneWrites(scopes[p], scopes[q])'
      OBVIOUS
  <2>1. PICK a, b : /\ a = scopes'[p] /\ b = scopes'[q]
                    /\ LocksKept(a, b) /\ OneWrites(a, b)
    <3>1. OneWrites(scopes'[p], scopes'[q])
        BY <1>3 DEF VInv, OneWrites
    <3>2. LocksKept(scopes'[p], scopes'[q])
        BY <1>3 DEF VInv
    <3> QED
        BY <3>1, <3>2
  <2>2. LocksKept(scopes[p], scopes[q])'
      BY <2>1 DEF LocksKept
  <2>3. OneWrites(scopes[p], scopes[q])'
      BY <2>1, <1>1 DEF OneWrites
  <2> QED
      BY <2>2, <2>3
<1> QED
    BY <1>2, <1>4, <1>5 DEF VInv

\* A scope as a step of it may leave it.
Fits(s, c) ==
    /\ c \in Scope /\ Staged(s, c) /\ Sound(s, c)
    /\ \A q \in Scopes \ {s} :
           /\ Apart(c, scopes[q]) /\ OneWrites(c, scopes[q])
           /\ LocksKept(c, scopes[q]) /\ LocksKept(scopes[q], c)

Inv == PInv /\ VInv

\* A step of one scope that leaves it fitting keeps the invariant.
LEMMA GoesInv ==
    ASSUME Inv, NEW s \in Scopes, NEW c, Goes(s, c), Fits(s, c)
    PROVE  Inv'
    BY GoesPInv, GoesVInv DEF Inv, Fits

\* A scope that writes and locks nothing more meets the others as before.
LEMMA MeetsAsBefore ==
    ASSUME Inv, NEW s \in Scopes, NEW c, c.edits = scopes[s].edits \/ c.edits = NoEdits,
           c.op = "sweep" => c.locks = {} \/ (scopes[s].op = "sweep" /\ c.locks = scopes[s].locks)
    PROVE  \A q \in Scopes \ {s} :
               /\ Apart(c, scopes[q]) /\ OneWrites(c, scopes[q])
               /\ LocksKept(c, scopes[q]) /\ LocksKept(scopes[q], c)
<1> SUFFICES ASSUME NEW q \in Scopes \ {s}
             PROVE  /\ Apart(c, scopes[q]) /\ OneWrites(c, scopes[q])
                    /\ LocksKept(c, scopes[q]) /\ LocksKept(scopes[q], c)
    OBVIOUS
<1>1. /\ Apart(scopes[s], scopes[q]) /\ OneWrites(scopes[s], scopes[q])
      /\ LocksKept(scopes[s], scopes[q]) /\ LocksKept(scopes[q], scopes[s])
    BY DEF Inv, PInv, VInv
<1>2. Apart(c, scopes[q])
    BY <1>1, NoEditsFacts DEF Apart
<1>3. OneWrites(c, scopes[q])
    BY <1>1 DEF OneWrites
<1>4. LocksKept(c, scopes[q])
    BY <1>1 DEF LocksKept
<1>5. LocksKept(scopes[q], c)
    BY <1>1, NoEditsFacts DEF LocksKept
<1> QED
    BY <1>2, <1>3, <1>4, <1>5

\* A scope that has done nothing.
Unused(c) ==
    /\ c \in Scope /\ c.edits = NoEdits /\ c.snapshot = << >> /\ c.locks = {} /\ c.answers = {}
    /\ \/ c.op = "none" /\ c.at = "idle"
       \/ c.op = "create" /\ c.at = "version" /\ c.id \in TaskIDs
       \/ c.op = "update" /\ c.at = "task" /\ c.id \in TaskIDs
       \/ c.op \in {"sweep", "relay"} /\ c.at = "select"
       \/ c.op = "settle" /\ c.at = "settle" /\ c.id \in Events

LEMMA UnusedFits == ASSUME Inv, NEW s \in Scopes, NEW c, Unused(c) PROVE Fits(s, c)
<1>1. Staged(s, c)
    BY DEF Unused, Staged, Fresh
<1>2. Sound(s, c)
    BY Zenon DEF Unused, Sound, ReadSound, AnswersSound, SnapshotAgrees
<1> QED
    BY <1>1, <1>2, MeetsAsBefore DEF Unused, Fits

\* A closed scope has done nothing, nor has one that is opened.
LEMMA ClosedFacts == Closed \in Scope /\ Closed.id \in RowIDs /\ Unused(Closed)
<1>1. Closed.id \in RowIDs
    BY ScopesAssumption DEF Closed, RowIDs
<1>2. Closed.read \in TaskRead
    BY DEF Closed, TaskRead, Owner, Candidates
<1>3. Closed \in Scope
    BY <1>1, <1>2, NoEditsFacts, Zenon DEF Closed, Scope, Operations, Steps
<1> QED
    BY <1>1, <1>3, Zenon DEF Unused, Closed

LEMMA OpenedUnused ==
    ASSUME NEW op, NEW at, NEW id \in RowIDs, NEW c, c = [Closed EXCEPT !.op = op, !.at = at, !.id = id],
           \/ op = "create" /\ at = "version" /\ id \in TaskIDs
           \/ op = "update" /\ at = "task" /\ id \in TaskIDs
           \/ op \in {"sweep", "relay"} /\ at = "select"
           \/ op = "settle" /\ at = "settle" /\ id \in Events
    PROVE  Unused(c)
<1>1. op \in Operations /\ at \in Steps
    BY DEF Operations, Steps
<1>2. c \in Scope /\ c.op = op /\ c.at = at /\ c.id = id
    BY <1>1, ClosedFacts, Zenon DEF Scope
<1>3. c.edits = NoEdits /\ c.snapshot = << >> /\ c.locks = {} /\ c.answers = {}
    BY DEF Closed
<1> QED
    BY <1>2, <1>3 DEF Unused

LEMMA BeginInv ==
    ASSUME Inv, NEW s \in Scopes, NEW op, NEW at, NEW id \in RowIDs, Begin(s, op, at, id),
           \/ op = "create" /\ at = "version" /\ id \in TaskIDs
           \/ op = "update" /\ at = "task" /\ id \in TaskIDs
           \/ op \in {"sweep", "relay"} /\ at = "select"
           \/ op = "settle" /\ at = "settle" /\ id \in Events
    PROVE  Inv'
<1>1. PICK c : c = [Closed EXCEPT !.op = op, !.at = at, !.id = id]
    OBVIOUS
<1>2. Unused(c)
    BY <1>1, OpenedUnused, Zenon
<1>3. Goes(s, c)
    BY <1>1 DEF Begin
<1> QED
    BY <1>2, <1>3, UnusedFits, GoesInv

\* A scope opens, or is rolled back.
LEMMA OpensInv ==
    ASSUME Inv, NEW s \in Scopes, Opens(s) \/ Rollback(s)
    PROVE  Inv'
<1>1. TaskIDs \subseteq RowIDs /\ Events \subseteq RowIDs
    BY DEF RowIDs
<1>2. ASSUME NEW id \in TaskIDs, Begin(s, "create", "version", id) PROVE Inv'
    BY <1>1, <1>2, BeginInv
<1>3. ASSUME NEW id \in TaskIDs, Begin(s, "update", "task", id) PROVE Inv'
    BY <1>1, <1>3, BeginInv
<1>4. CASE Begin(s, "sweep", "select", Closed.id)
    BY ClosedFacts, <1>4, BeginInv
<1>5. CASE Begin(s, "relay", "select", Closed.id)
    BY ClosedFacts, <1>5, BeginInv
<1>6. ASSUME NEW e \in Events, Begin(s, "settle", "settle", e) PROVE Inv'
    BY <1>1, <1>6, BeginInv
<1>7. CASE Rollback(s)
    BY <1>7, ClosedFacts, UnusedFits, GoesInv DEF Rollback
<1> QED
    BY <1>2, <1>3, <1>4, <1>5, <1>6, <1>7 DEF Opens

\* What a write sees, and what a plain select sees.
LEMMA LatestFacts ==
    ASSUME ScopeTypes, NEW s \in Scopes, NEW edits, edits = scopes[s].edits
    PROVE  /\ Latest(s) \in Tables
           /\ \A id \in TaskIDs : Latest(s).tasks[id] =
                  IF id \in DOMAIN edits.tasks THEN edits.tasks[id] ELSE db.tasks[id]
           /\ \A id \in TaskIDs : Latest(s).candidates[id] =
                  IF id \in DOMAIN edits.candidates THEN edits.candidates[id] ELSE db.candidates[id]
           /\ \A id \in TaskIDs : Latest(s).history[id] =
                  IF id \in DOMAIN edits.history THEN edits.history[id] ELSE db.history[id]
           /\ \A e \in Events : Latest(s).outbox[e] =
                  IF e \in DOMAIN edits.outbox THEN edits.outbox[e] ELSE db.outbox[e]
<1>1. edits \in EditSet /\ db \in Tables
    BY DEF ScopeTypes, Scope
<1>2. Latest(s) = Overlay(edits, db)
    BY DEF Latest
<1> QED
    BY <1>1, <1>2, OverlayFacts

LEMMA SeenFacts ==
    ASSUME ScopeTypes, NEW s \in Scopes, NEW edits, edits = scopes[s].edits,
           NEW base, base = Base(scopes[s])
    PROVE  /\ Seen(s) \in Tables /\ base \in Tables
           /\ \A id \in TaskIDs : Seen(s).tasks[id] =
                  IF id \in DOMAIN edits.tasks THEN edits.tasks[id] ELSE base.tasks[id]
           /\ \A id \in TaskIDs : Seen(s).candidates[id] =
                  IF id \in DOMAIN edits.candidates THEN edits.candidates[id] ELSE base.candidates[id]
           /\ \A e \in Events : Seen(s).outbox[e] =
                  IF e \in DOMAIN edits.outbox THEN edits.outbox[e] ELSE base.outbox[e]
<1>1. edits \in EditSet /\ db \in Tables /\ scopes[s].snapshot \in {<< >>} \cup Tables
    BY Zenon DEF ScopeTypes, Scope
<1>2. Seen(s) = Overlay(edits, base) /\ base \in Tables
    BY <1>1 DEF Seen, Latest, Base
<1> QED
    BY <1>1, <1>2, OverlayFacts

\* A plain select keeps what is known of the rows a scope reads.
LEMMA SelectedFacts ==
    ASSUME Inv, NEW s \in Scopes, NEW c, Selected(s, c)
    PROVE  /\ c.snapshot # << >> => Past(c.snapshot)
           /\ Base(c) = Base(scopes[s]) /\ Past(Base(c))
           /\ c.at # "select" => SnapshotAgrees(c)
<1>1. Past(db)
  <2>1. \A id \in TaskIDs : db.tasks[id].version \in Nat
      BY RowTypes, Zenon DEF Inv, PInv, ScopeTypes
  <2>2. VersionsWritten
      BY DEF Inv, VInv
  <2>3. \A id \in TaskIDs : db.tasks[id].version <= db.tasks[id].version
    <3>1. \A n \in Nat : n <= n
        OBVIOUS
    <3> QED
        BY <2>1, <3>1, Zenon
  <2>4. \A id \in TaskIDs : db.tasks[id].version > 0 =>
            db.candidates[id] = written[id][db.tasks[id].version]
      BY <2>2, Zenon DEF VersionsWritten
  <2> QED
      BY <2>3, <2>4, Zenon DEF Past
<1>2. /\ scopes[s].snapshot # << >> => Past(scopes[s].snapshot)
      /\ SnapshotAgrees(scopes[s])
    BY Zenon DEF Inv, VInv, Sound
<1>3. c.snapshot # << >> => Past(c.snapshot)
    BY <1>1, <1>2 DEF Selected
<1>4. Base(c) = Base(scopes[s])
    BY DEF Selected, Base
<1>5. Past(Base(c))
    BY <1>1, <1>3 DEF Base
<1>6. c.at # "select" => SnapshotAgrees(c)
    BY <1>2, Zenon DEF Selected, SnapshotAgrees
<1> QED
    BY <1>3, <1>4, <1>5, <1>6

\* Which stage a scope is in can be told from its operation and its next statement.
LEMMA StageFacts ==
    ASSUME Inv, NEW s \in Scopes, NEW c, c = scopes[s]
    PROVE  /\ c.op = "create" /\ c.at \in {"version", "insert"} => Fresh(c)
           /\ c.op = "update" /\ c.at \in {"task", "attach", "write"} => Fresh(c)
           /\ c.at = "select" => Fresh(c) /\ c.op \in {"sweep", "relay"}
           /\ c.at = "settle" => Fresh(c) /\ c.op = "settle"
           /\ c.at \in {"candidates", "append"} => \E v \in Nat : Writing(c, v)
           /\ c.op = "sweep" /\ c.at # "select" => Sweeping(s, c)
           /\ c.op = "relay" /\ c.at # "select" => Relaying(s, c)
           /\ c.at \in {"task", "attach"} => c.op \in {"sweep", "update"}
<1>1. Fresh(c) \/ (\E v \in Nat : Writing(c, v)) \/ Sweeping(s, c) \/ Relaying(s, c) \/ Settling(c)
    BY Zenon DEF Inv, PInv, Staged
<1>2. CASE Fresh(c)
    BY <1>2, Zenon DEF Fresh
<1>3. CASE \E v \in Nat : Writing(c, v)
    BY <1>3, Zenon DEF Writing
<1>4. CASE Sweeping(s, c)
    BY <1>4, Zenon DEF Sweeping
<1>5. CASE Relaying(s, c)
    BY <1>5 DEF Relaying
<1>6. CASE Settling(c)
    BY <1>6, Zenon DEF Settling
<1> QED
    BY <1>1, <1>2, <1>3, <1>4, <1>5, <1>6, Zenon

(* Reading **************************************************************)

\* The identifier is free: nothing is written yet.
LEMMA CheckVersionInv ==
    ASSUME Inv, NEW s \in Scopes, CheckVersion(s)
    PROVE  Inv'
<1>1. PICK d : d = Reading(s) /\ Selected(s, d)
    BY ReadingFacts DEF Inv, PInv
<1>2. PICK c : c = [d EXCEPT !.at = "insert"]
    BY Zenon
<1>3. /\ c \in Scope /\ c.at = "insert" /\ c.op = "create" /\ c.id = scopes[s].id
      /\ c.edits = scopes[s].edits /\ c.snapshot = d.snapshot
    BY <1>1, <1>2 DEF Selected, Scope, Steps, CheckVersion, At
<1>4. Fresh(scopes[s])
    BY StageFacts DEF CheckVersion, At
<1>5. Staged(s, c)
    BY <1>3, <1>4 DEF Staged, Fresh, CheckVersion, At
<1>6. Sound(s, c)
    BY <1>1, <1>3, SelectedFacts, Zenon DEF Sound, ReadSound, AnswersSound, SnapshotAgrees
<1>7. Fits(s, c)
    BY <1>3, <1>5, <1>6, MeetsAsBefore, Zenon DEF Fits
<1>8. Goes(s, c)
    BY <1>1, <1>2 DEF CheckVersion
<1> QED
    BY <1>7, <1>8, GoesInv

\* The first of the two selects that read a task.
LEMMA GetTaskInv ==
    ASSUME Inv, NEW s \in Scopes, NEW read \in TaskRead, NEW task, task = SelectTask(s),
           scopes[s].at = "task", task.version > 0,
           read.version = task.version, read.lease = task.lease,
           Goes(s, [Reading(s) EXCEPT !.at = "attach", !.read = read])
    PROVE  Inv'
<1>1. PICK d : d = Reading(s) /\ Selected(s, d)
    BY ReadingFacts DEF Inv, PInv
<1>2. PICK c : c = [d EXCEPT !.at = "attach", !.read = read]
    OBVIOUS
<1>3. /\ c \in Scope /\ c.at = "attach" /\ c.read = read
      /\ c.op = scopes[s].op /\ c.id = scopes[s].id /\ c.todo = scopes[s].todo
      /\ c.locks = scopes[s].locks /\ c.answers = scopes[s].answers
      /\ c.edits = scopes[s].edits /\ c.snapshot = d.snapshot
    BY <1>1, <1>2, Zenon DEF Selected, Scope, Steps
<1>4. ScopeTypes
    BY DEF Inv, PInv
<1>5. Base(c) = Base(scopes[s]) /\ (c.snapshot # << >> => Past(c.snapshot)) /\ SnapshotAgrees(c)
  <2>1. Base(c) = Base(d)
      BY <1>3 DEF Base
  <2>2. d.at = "task" /\ d.op = c.op /\ d.todo = c.todo /\ d.locks = c.locks /\ d.edits = c.edits
      BY <1>1, <1>3 DEF Selected
  <2>3. SnapshotAgrees(d)
      BY <1>1, <2>2, SelectedFacts
  <2>4. SnapshotAgrees(c)
      BY <1>3, <2>2, <2>3, Zenon DEF SnapshotAgrees
  <2> QED
      BY <1>1, <1>3, <2>1, <2>4, SelectedFacts
<1>6. CASE scopes[s].op = "update"
  <2>1. Fresh(scopes[s]) /\ c.id \in TaskIDs
      BY <1>3, <1>6, StageFacts, Zenon DEF Fresh
  <2>2. Staged(s, c)
      BY <1>3, <1>6, <2>1 DEF Staged, Fresh
  <2>3. task = Base(scopes[s]).tasks[c.id]
      BY <1>3, <1>4, <2>1, SeenFacts, NoEditsFacts DEF SelectTask, Fresh
  <2>4. task.version \in Nat
      BY ONLY <1>4, <2>1, <2>3, SeenFacts, RowTypes
  <2>5. ReadSound(c)
      BY <1>3, <1>5, <2>3, <2>4 DEF ReadSound
  <2>6. Sound(s, c)
      BY <1>3, <1>5, <1>6, <2>5 DEF Sound, AnswersSound
  <2> QED
      BY <2>2, <2>6, <1>1, <1>2, <1>3, MeetsAsBefore, GoesInv, Zenon DEF Fits
<1>7. CASE scopes[s].op = "sweep"
  <2>1. Sweeping(s, scopes[s])
      BY <1>7, StageFacts, Zenon
  <2>2. Sweeping(s, c)
      BY <1>3, <1>7, <2>1, Zenon DEF Sweeping
  <2>3. c.id \in DOMAIN c.edits.tasks /\ c.id \in TaskIDs
    <3>1. c.edits.tasks \in Partial(TaskIDs, TaskRow)
        BY <1>3, Zenon DEF Scope, EditSet
    <3> QED
        BY <1>3, <2>2, <3>1, PartialFacts DEF Sweeping
  <2>4. task = c.edits.tasks[c.id]
      BY <1>3, <1>4, <2>3, SeenFacts DEF SelectTask
  <2>5. c.read.version = db.tasks[c.id].version /\ c.read.lease = s
    <3>1. task = [version |-> db.tasks[c.id].version, lease |-> s]
        BY <2>2, <2>3, <2>4, Zenon DEF Sweeping
    <3> QED
        BY <1>3, <3>1
  <2>6. AnswersSound(s, scopes[s])
      BY DEF Inv, VInv, Sound
  <2>7. AnswersSound(s, c)
      BY <1>3, <1>7, <2>5, <2>6, Zenon DEF AnswersSound
  <2>8. Sound(s, c)
      BY <1>3, <1>5, <1>7, <2>7 DEF Sound, ReadSound
  <2>9. Staged(s, c)
      BY <2>2 DEF Staged
  <2> QED
      BY <2>8, <2>9, <1>1, <1>2, <1>3, MeetsAsBefore, GoesInv, Zenon DEF Fits
<1> QED
    BY <1>6, <1>7, StageFacts

\* The row a sweep reads back is one it has claimed, and its candidates are the
\* committed ones.
LEMMA SweepReads ==
    ASSUME Inv, NEW s \in Scopes, NEW c, c = scopes[s], c.op = "sweep", c.at \in {"task", "attach"}
    PROVE  /\ c.id \in DOMAIN c.edits.tasks /\ c.id \in TaskIDs
           /\ SelectTask(s) = [version |-> db.tasks[c.id].version, lease |-> s]
           /\ SelectCandidates(s) = db.candidates[c.id]
<1>1. ScopeTypes /\ c \in Scope /\ Sweeping(s, c)
    BY StageFacts, Zenon DEF Inv, PInv, ScopeTypes
<1>2. c.edits.tasks \in Partial(TaskIDs, TaskRow)
    BY <1>1, Zenon DEF Scope, EditSet
<1>3. c.id \in DOMAIN c.edits.tasks /\ c.id \in TaskIDs
    BY <1>1, <1>2, PartialFacts DEF Sweeping
<1>4. SelectTask(s) = [version |-> db.tasks[c.id].version, lease |-> s]
    BY <1>1, <1>3, SeenFacts, ZenonT(30) DEF SelectTask, Sweeping
<1>5. SelectCandidates(s) = Base(c).candidates[c.id]
    BY <1>1, <1>3, SeenFacts DEF SelectCandidates, Sweeping, Wrote
<1>6. Base(c).candidates[c.id] = db.candidates[c.id]
  <2>1. SnapshotAgrees(c)
      BY Zenon DEF Inv, VInv, Sound
  <2>2. c.edits # NoEdits
      BY <1>3, NoEditsFacts
  <2>3. CASE c.snapshot = << >>
      BY <2>3 DEF Base
  <2>4. CASE c.snapshot # << >> /\ dialect = "mysql"
    <3>1. c.id \in c.locks
        BY <1>3, <2>1, <2>4, Zenon DEF SnapshotAgrees
    <3> QED
        BY <2>1, <2>4, <3>1, Zenon DEF SnapshotAgrees, Base
  <2>5. CASE c.snapshot # << >> /\ dialect = "sqlite"
      BY <2>1, <2>2, <2>5, Zenon DEF SnapshotAgrees, Base
  <2> QED
      BY <2>1, <2>3, <2>4, <2>5, Zenon DEF SnapshotAgrees
<1> QED
    BY <1>3, <1>4, <1>5, <1>6, Zenon

\* What an update reads is of the version it sees.
LEMMA UpdateReads ==
    ASSUME Inv, NEW s \in Scopes, NEW c, c = scopes[s], c.op = "update", c.at \in {"task", "attach"}
    PROVE  /\ c.id \in TaskIDs /\ c.edits = NoEdits
           /\ SelectTask(s) = Base(c).tasks[c.id] /\ SelectTask(s).version \in Nat
           /\ SelectTask(s).version <= db.tasks[c.id].version
           /\ SelectTask(s).version > 0 =>
                  SelectCandidates(s) = written[c.id][SelectTask(s).version]
<1>1. ScopeTypes /\ Fresh(c)
    BY StageFacts, Zenon DEF Inv, PInv
<1>2. c.id \in TaskIDs /\ c.edits = NoEdits
    BY <1>1 DEF Fresh
<1>3. SelectTask(s) = Base(c).tasks[c.id] /\ SelectCandidates(s) = Base(c).candidates[c.id]
    BY <1>1, <1>2, SeenFacts, NoEditsFacts DEF SelectTask, SelectCandidates
<1>4. Base(c).tasks[c.id].version \in Nat
    BY <1>1, <1>2, SeenFacts, RowTypes, Zenon
<1>5. Past(Base(c))
    BY <1>1, ReadingFacts, SelectedFacts, Zenon
<1> QED
    BY <1>2, <1>3, <1>4, <1>5, Zenon DEF Past

\* A task has been read, in one select or two.
LEMMA FoundInv ==
    ASSUME Inv, NEW s \in Scopes, NEW d, Selected(s, d), NEW read \in TaskRead, Found(s, d, read),
           scopes[s].at \in {"task", "attach"},
           scopes[s].op = "sweep" => read = Claimed(s, scopes[s].id).entry,
           scopes[s].op = "update" => /\ 0 < read.version
                                      /\ \E w \in Nat : /\ read.version <= w
                                                        /\ w <= db.tasks[scopes[s].id].version
                                                        /\ read.pool = written[scopes[s].id][w]
    PROVE  Inv'
<1>1. /\ d \in Scope /\ d.op = scopes[s].op /\ d.id = scopes[s].id /\ d.at = scopes[s].at
      /\ d.todo = scopes[s].todo /\ d.locks = scopes[s].locks /\ d.answers = scopes[s].answers
      /\ d.edits = scopes[s].edits
    BY Zenon DEF Selected
<1>2. (d.snapshot # << >> => Past(d.snapshot)) /\ SnapshotAgrees(d)
    BY <1>1, SelectedFacts, Zenon
<1>3. CASE scopes[s].op = "update"
  <2>1. PICK c : c = [d EXCEPT !.at = "write", !.read = read] /\ Goes(s, c)
      BY <1>1, <1>3, Zenon DEF Found
  <2>2. /\ c \in Scope /\ c.at = "write" /\ c.read = read /\ c.op = "update"
        /\ c.id = scopes[s].id /\ c.edits = scopes[s].edits /\ c.snapshot = d.snapshot
      BY <1>1, <1>3, <2>1, Zenon DEF Scope, Steps
  <2>3. Fresh(scopes[s])
      BY <1>3, StageFacts, Zenon
  <2>4. Staged(s, c)
      BY <1>3, <2>2, <2>3, Zenon DEF Staged, Fresh
  <2>5. ReadSound(c)
      BY <1>3, <2>2, Zenon DEF ReadSound, PoolBetween
  <2>6. Sound(s, c)
      BY <1>2, <2>2, <2>5, Zenon DEF Sound, AnswersSound, SnapshotAgrees
  <2> QED
      BY <2>1, <2>2, <2>4, <2>6, MeetsAsBefore, GoesInv, Zenon DEF Fits
<1>4. CASE scopes[s].op = "sweep"
  <2>1. PICK answer : answer = [row |-> d.id, entry |-> read]
      BY Zenon
  <2>2. PICK c : c = [d EXCEPT !.at = "claim", !.read = Closed.read, !.answers = @ \cup {answer}]
                 /\ Goes(s, c)
      BY <1>1, <1>4, <2>1 DEF Found
  <2>3. answer \in [row : RowIDs, entry : TaskRead \cup EventRow] /\ Closed.read \in TaskRead
      BY <1>1, <2>1, ClosedFacts, Zenon DEF Scope
  <2>4. d.answers \cup {answer} \in SUBSET [row : RowIDs, entry : TaskRead \cup EventRow]
      BY <1>1, <2>3, Zenon DEF Scope
  <2>5. /\ c \in Scope /\ c.at = "claim" /\ c.op = "sweep" /\ c.todo = scopes[s].todo
        /\ c.id = scopes[s].id /\ c.edits = scopes[s].edits /\ c.snapshot = d.snapshot
        /\ c.locks = scopes[s].locks /\ c.answers = scopes[s].answers \cup {answer}
      BY <1>1, <1>4, <2>2, <2>3, <2>4, Zenon DEF Scope, Steps
  <2>6. Sweeping(s, scopes[s]) /\ scopes[s].id \in DOMAIN scopes[s].edits.tasks
      BY <1>4, StageFacts, Zenon DEF Sweeping
  <2>7. Staged(s, c)
      BY <2>5, <2>6, Zenon DEF Staged, Sweeping
  <2>8. answer = Claimed(s, c.id)
      BY <1>1, <1>4, <2>1, <2>5, Zenon DEF Claimed
  <2>9. scopes[s].answers = {Claimed(s, id) : id \in DOMAIN c.edits.tasks \ {c.id}}
      BY <1>4, <2>5 DEF Inv, VInv, Sound, AnswersSound
  <2>10. c.answers = {Claimed(s, id) : id \in DOMAIN c.edits.tasks}
      BY <2>5, <2>6, <2>8, <2>9, Zenon
  <2>11. AnswersSound(s, c)
      BY <2>5, <2>10, Zenon DEF AnswersSound
  <2>12. SnapshotAgrees(c)
      BY <1>1, <1>2, <1>4, <2>5, Zenon DEF SnapshotAgrees
  <2>13. Sound(s, c)
      BY <1>2, <2>5, <2>11, <2>12, Zenon DEF Sound, ReadSound
  <2> QED
      BY <1>4, <2>2, <2>5, <2>7, <2>13, MeetsAsBefore, GoesInv, Zenon DEF Fits
<1> QED
    BY <1>3, <1>4, StageFacts, Zenon

\* One select of a task, in a sweep or before an update.
LEMMA GetInv ==
    ASSUME Inv, NEW s \in Scopes, Get(s)
    PROVE  Inv'
<1> DEFINE c == scopes[s]
<1>1. PICK task : task = SelectTask(s)
    BY Zenon
<1>2. PICK pool : pool = SelectCandidates(s)
    OBVIOUS
<1>3. PICK read : read = [version |-> task.version, lease |-> task.lease, pool |-> pool]
    BY Zenon
<1>4. /\ ScopeTypes /\ c.at \in {"task", "attach"} /\ c.op \in {"update", "sweep"}
      /\ Selected(s, c) /\ Selected(s, Reading(s))
    BY StageFacts, ReadingFacts DEF Get, Inv, PInv
<1>5. c.id \in TaskIDs
    BY <1>4, SweepReads, UpdateReads, Zenon
<1>6. task \in TaskRow /\ task.version \in Nat /\ task.lease \in Owner /\ pool \in Candidates
    BY <1>1, <1>2, <1>4, <1>5, SeenFacts, RowTypes, Zenon DEF SelectTask, SelectCandidates
<1>7. read \in TaskRead
    BY <1>3, <1>6, Zenon DEF TaskRead
<1> HIDE DEF c
<1>8. CASE scopes[s].at = "task" /\ dialect = "memory"
  <2>1. Found(s, scopes[s], read) /\ task.version > 0
      BY <1>1, <1>2, <1>3, <1>8, Zenon DEF Get
  <2>2. ASSUME scopes[s].op = "sweep" PROVE read = Claimed(s, scopes[s].id).entry
      BY <1>1, <1>2, <1>3, <1>4, <2>2, SweepReads DEF Claimed, c
  <2>3. ASSUME scopes[s].op = "update"
        PROVE  /\ read.version \in Nat /\ 0 < read.version /\ read.version <= read.version
               /\ read.version <= db.tasks[scopes[s].id].version
               /\ read.pool = written[scopes[s].id][read.version]
    <3>1. /\ task.version <= db.tasks[scopes[s].id].version
          /\ pool = written[scopes[s].id][task.version]
        BY <1>1, <1>2, <1>4, <2>1, <2>3, UpdateReads, Zenon DEF c
    <3> QED
        BY <1>3, <1>6, <2>1, <3>1
  <2> QED
      BY <1>4, <1>7, <2>1, <2>2, <2>3, FoundInv, Zenon DEF c
<1>9. CASE scopes[s].at = "task" /\ dialect # "memory"
  <2>1. PICK half : half = [read EXCEPT !.pool = NoPool]
      BY Zenon
  <2>2. half \in TaskRead /\ half.version = task.version /\ half.lease = task.lease
      BY <1>3, <1>7, <2>1 DEF TaskRead, Candidates
  <2>3. /\ Goes(s, [Reading(s) EXCEPT !.at = "attach", !.read = half])
        /\ task.version > 0
      BY <1>1, <1>2, <1>3, <1>9, <2>1 DEF Get
  <2> QED
      BY <1>1, <1>9, <2>2, <2>3, GetTaskInv, Zenon
<1>10. CASE scopes[s].at = "attach"
  <2>1. PICK old \in TaskRead : old = scopes[s].read
      BY <1>4, Zenon DEF Selected, Scope, c
  <2>2. PICK full : full = [old EXCEPT !.pool = pool]
      BY Zenon
  <2>3. /\ full \in TaskRead /\ full.version = old.version /\ full.lease = old.lease
        /\ full.pool = pool /\ full = [version |-> old.version, lease |-> old.lease, pool |-> pool]
      BY <1>6, <2>2 DEF TaskRead
  <2>4. Found(s, Reading(s), full)
      BY <1>1, <1>2, <1>3, <1>10, <2>1, <2>2 DEF Get
  <2>5. ASSUME scopes[s].op = "sweep" PROVE full = Claimed(s, scopes[s].id).entry
    <3>1. pool = db.candidates[scopes[s].id]
        BY <1>2, <1>4, <2>5, SweepReads, Zenon DEF c
    <3>2. old.version = db.tasks[scopes[s].id].version /\ old.lease = s
        BY <1>10, <2>1, <2>5, Zenon DEF Inv, VInv, Sound, AnswersSound
    <3> QED
        BY <2>3, <3>1, <3>2, Zenon DEF Claimed
  <2>6. ASSUME scopes[s].op = "update"
        PROVE  /\ 0 < full.version /\ task.version \in Nat /\ full.version <= task.version
               /\ task.version <= db.tasks[scopes[s].id].version
               /\ full.pool = written[scopes[s].id][task.version]
    <3>1. 0 < old.version /\ old.version <= Base(scopes[s]).tasks[scopes[s].id].version
        BY <1>10, <2>1, <2>6, Zenon DEF Inv, VInv, Sound, ReadSound
    <3>2. task = Base(scopes[s]).tasks[scopes[s].id]
        BY <1>1, <1>4, <2>6, UpdateReads, Zenon DEF c
    <3>3. old.version \in Nat /\ task.version > 0
        BY <1>6, <3>1, <3>2 DEF TaskRead
    <3>4. /\ task.version <= db.tasks[scopes[s].id].version
          /\ pool = written[scopes[s].id][task.version]
        BY <1>1, <1>2, <1>4, <2>6, <3>3, UpdateReads, Zenon DEF c
    <3> QED
        BY <1>6, <2>3, <3>1, <3>2, <3>4, Zenon
  <2> QED
      BY <1>4, <2>3, <2>4, <2>5, <2>6, FoundInv, Zenon DEF c
<1> QED
    BY <1>4, <1>8, <1>9, <1>10, Zenon DEF c

(* Writing **************************************************************)

\* A row that a scope may write is nobody else's: writing it keeps scopes apart.
LEMMA MeetsWithTask ==
    ASSUME Inv, NEW s \in Scopes, NEW c, NEW id, Writable(s, "tasks", id),
           DOMAIN c.edits.tasks = DOMAIN scopes[s].edits.tasks \cup {id},
           c.edits.outbox = scopes[s].edits.outbox,
           c.op = "sweep" => scopes[s].op = "sweep" /\ c.locks = scopes[s].locks
    PROVE  \A q \in Scopes \ {s} :
               /\ Apart(c, scopes[q]) /\ OneWrites(c, scopes[q])
               /\ LocksKept(c, scopes[q]) /\ LocksKept(scopes[q], c)
<1> SUFFICES ASSUME NEW q \in Scopes \ {s}
             PROVE  /\ Apart(c, scopes[q]) /\ OneWrites(c, scopes[q])
                    /\ LocksKept(c, scopes[q]) /\ LocksKept(scopes[q], c)
    BY Zenon
<1>1. /\ Apart(scopes[s], scopes[q]) /\ LocksKept(scopes[s], scopes[q])
      /\ LocksKept(scopes[q], scopes[s])
    BY Zenon DEF Inv, PInv, VInv
<1>2. id \notin DOMAIN scopes[q].edits.tasks /\ id \notin scopes[q].locks
    BY Zenon DEF Writable, Touched
<1>3. Apart(c, scopes[q])
    BY <1>1, <1>2, Zenon DEF Apart
<1>4. OneWrites(c, scopes[q])
    BY Zenon DEF OneWrites, Writable
<1>5. LocksKept(c, scopes[q])
    BY <1>1, Zenon DEF LocksKept
<1>6. LocksKept(scopes[q], c)
    BY <1>1, <1>2, Zenon DEF LocksKept
<1> QED
    BY <1>3, <1>4, <1>5, <1>6, Zenon

LEMMA MeetsWithEvent ==
    ASSUME Inv, NEW s \in Scopes, NEW c, NEW e, Writable(s, "outbox", e),
           c.edits.tasks = scopes[s].edits.tasks,
           DOMAIN c.edits.outbox = DOMAIN scopes[s].edits.outbox \cup {e},
           c.op # "sweep"
    PROVE  \A q \in Scopes \ {s} :
               /\ Apart(c, scopes[q]) /\ OneWrites(c, scopes[q])
               /\ LocksKept(c, scopes[q]) /\ LocksKept(scopes[q], c)
<1> SUFFICES ASSUME NEW q \in Scopes \ {s}
             PROVE  /\ Apart(c, scopes[q]) /\ OneWrites(c, scopes[q])
                    /\ LocksKept(c, scopes[q]) /\ LocksKept(scopes[q], c)
    BY Zenon
<1>1. Apart(scopes[s], scopes[q]) /\ LocksKept(scopes[q], scopes[s])
    BY Zenon DEF Inv, PInv, VInv
<1>2. e \notin DOMAIN scopes[q].edits.outbox
    BY Zenon DEF Writable, Touched
<1>3. Apart(c, scopes[q])
    BY <1>1, <1>2, Zenon DEF Apart
<1>4. OneWrites(c, scopes[q])
    BY Zenon DEF OneWrites, Writable
<1>5. LocksKept(scopes[q], c)
    BY <1>1, Zenon DEF LocksKept
<1> QED
    BY <1>3, <1>4, <1>5, Zenon DEF LocksKept

\* A task's row is written, on the committed version of it.
LEMMA WroteTaskInv ==
    ASSUME Inv, NEW s \in Scopes, NEW id, id = scopes[s].id, NEW row \in TaskRow,
           Fresh(scopes[s]), Writable(s, "tasks", id), id \in TaskIDs,
           Goes(s, [scopes[s] EXCEPT !.at = "candidates", !.edits = Edited(s, "tasks", id, row)]),
           row.version = db.tasks[id].version + 1, row.version <= MaxVersion,
           \/ scopes[s].op = "create" /\ row.version = 1 /\ row.lease = Nobody
           \/ /\ scopes[s].op = "update" /\ row.version = scopes[s].read.version + 1
              /\ row.version > 1 /\ scopes[s].read.pool = written[id][scopes[s].read.version]
    PROVE  Inv'
<1>1. scopes[s] \in Scope /\ scopes[s].edits = NoEdits /\ NoEdits \in EditSet
    BY NoEditsFacts, Zenon DEF Inv, PInv, ScopeTypes, Fresh
<1>2. PICK e : e = Edited(s, "tasks", id, row)
    BY Zenon
<1>3. /\ e \in EditSet /\ e.tasks[id] = row
      /\ Wrote(e, {id}, {}, {}, {}) /\ e.outbox = NoEdits.outbox
  <2>1. PICK edits \in EditSet : edits = scopes[s].edits
      BY <1>1, Zenon
  <2>2. /\ e \in EditSet
        /\ DOMAIN e.tasks = DOMAIN edits.tasks \cup {id} /\ e.tasks[id] = row
        /\ e.candidates = edits.candidates /\ e.history = edits.history
        /\ e.outbox = edits.outbox
    <3>1. id \in TaskIDs /\ scopes[s].edits = edits
        BY <2>1, Zenon
    <3> QED
        BY ONLY <1>2, <3>1, row \in TaskRow, EditTasks
  <2> QED
      BY <1>1, <2>1, <2>2, NoEditsFacts, Zenon DEF Wrote
<1>4. PICK c : c = [scopes[s] EXCEPT !.at = "candidates", !.edits = e] /\ Goes(s, c)
    BY <1>2, Zenon
<1>5. /\ c \in Scope /\ c.at = "candidates" /\ c.edits = e /\ c.op = scopes[s].op
      /\ c.id = id /\ c.read = scopes[s].read /\ c.snapshot = scopes[s].snapshot
    BY <1>1, <1>3, <1>4, Zenon DEF Scope, Steps
<1>6. Writing(c, row.version)
    BY <1>3, <1>5, Zenon DEF Writing
<1>7. Staged(s, c)
    BY <1>6, Zenon DEF Staged, TaskRow
<1>8. c.snapshot # << >> => Past(c.snapshot)
    BY <1>5, Zenon DEF Inv, VInv, Sound
<1>9. Sound(s, c)
    BY <1>5, <1>8, Zenon DEF Sound, ReadSound, AnswersSound, SnapshotAgrees
<1>10. DOMAIN c.edits.tasks = DOMAIN scopes[s].edits.tasks \cup {id}
       /\ c.edits.outbox = scopes[s].edits.outbox
    BY <1>1, <1>3, <1>5, NoEditsFacts, Zenon DEF Wrote
<1>11. c.op # "sweep"
    BY <1>5, Zenon
<1>12. Fits(s, c)
    BY <1>5, <1>7, <1>9, <1>10, <1>11, MeetsWithTask, Zenon DEF Fits
<1> QED
    BY <1>4, <1>12, GoesInv, Zenon

LEMMA InsertTaskInv ==
    ASSUME Inv, NEW s \in Scopes, InsertTask(s)
    PROVE  Inv'
<1>1. PICK id : id = scopes[s].id
    BY Zenon
<1>2. Fresh(scopes[s]) /\ id \in TaskIDs /\ ScopeTypes
    BY <1>1, StageFacts DEF InsertTask, At, Fresh, Inv, PInv
<1>3. PICK row : row = [version |-> 1, lease |-> Nobody]
    BY Zenon
<1>4. row \in TaskRow /\ row.version = 1 /\ row.lease = Nobody
    BY <1>3, Zenon DEF TaskRow, Owner
<1>5. db.tasks[id].version = 0
    BY <1>1, <1>2, LatestFacts, NoEditsFacts DEF InsertTask, Fresh
<1>6. row.version = db.tasks[id].version + 1 /\ row.version <= MaxVersion
    BY <1>4, <1>5, ScopesAssumption
<1> QED
    BY <1>1, <1>2, <1>3, <1>4, <1>6, WroteTaskInv, Zenon DEF InsertTask, At

LEMMA UpdateTaskInv ==
    ASSUME Inv, NEW s \in Scopes, UpdateTask(s)
    PROVE  Inv'
<1>1. PICK id : id = scopes[s].id
    BY Zenon
<1>2. Fresh(scopes[s]) /\ id \in TaskIDs /\ ScopeTypes
    BY <1>1, StageFacts, Zenon DEF UpdateTask, At, Fresh, Inv, PInv
<1>3. PICK read \in TaskRead : read = scopes[s].read
    BY <1>2, Zenon DEF ScopeTypes, Scope
<1>4. PICK row : row = [version |-> read.version + 1, lease |-> read.lease]
    BY Zenon
<1>5. read.version \in Nat /\ row \in TaskRow /\ row.version = read.version + 1
    BY <1>4 DEF TaskRow, TaskRead
<1>6. db.tasks[id].version = read.version
    BY <1>1, <1>2, <1>3, LatestFacts, NoEditsFacts DEF UpdateTask, Fresh
<1>7. 0 < read.version /\ read.pool = written[id][read.version]
  <2>1. 0 < read.version /\ PoolBetween(scopes[s])
      BY <1>3, Zenon DEF UpdateTask, At, Inv, VInv, Sound, ReadSound
  <2> QED
      BY ONLY <1>1, <1>3, <1>5, <1>6, <2>1 DEF PoolBetween
<1>8. row.version = db.tasks[id].version + 1 /\ row.version <= MaxVersion /\ row.version > 1
    BY <1>3, <1>4, <1>5, <1>6, <1>7 DEF UpdateTask
<1>9. /\ Goes(s, [scopes[s] EXCEPT !.at = "candidates", !.edits = Edited(s, "tasks", id, row)])
      /\ Writable(s, "tasks", id) /\ scopes[s].op = "update"
    BY <1>1, <1>3, <1>4, Zenon DEF UpdateTask, At
<1> QED
    BY <1>1, <1>2, <1>3, <1>5, <1>7, <1>8, <1>9, WroteTaskInv, Zenon

\* The candidates are written with their task.
LEMMA WriteCandidatesInv ==
    ASSUME Inv, NEW s \in Scopes, NEW pool \in Pools, WriteCandidates(s, pool)
    PROVE  Inv'
<1>1. PICK edits \in EditSet : edits = scopes[s].edits
    BY Zenon DEF Inv, PInv, ScopeTypes, Scope
<1>2. PICK v \in Nat : Writing(scopes[s], v)
    BY StageFacts DEF WriteCandidates
<1>3. PICK id \in TaskIDs : id = scopes[s].id
    BY <1>2, Zenon DEF Writing
<1>4. PICK e : e = Edited(s, "candidates", id, pool)
    BY Zenon
<1>5. /\ e \in EditSet /\ e.candidates[id] = pool
      /\ DOMAIN e.candidates = DOMAIN edits.candidates \cup {id}
      /\ e.tasks = edits.tasks /\ e.history = edits.history /\ e.outbox = edits.outbox
    BY <1>1, <1>4, EditCandidates DEF Candidates
<1>6. PICK c : c = [scopes[s] EXCEPT !.at = "append", !.snapshot = << >>, !.edits = e] /\ Goes(s, c)
    BY <1>3, <1>4 DEF WriteCandidates
<1>7. /\ c \in Scope /\ c.at = "append" /\ c.edits = e /\ c.op = scopes[s].op
      /\ c.id = id /\ c.read = scopes[s].read /\ c.snapshot = << >>
  <2>1. scopes[s] \in Scope
      BY Zenon DEF Inv, PInv, ScopeTypes
  <2> QED
      BY <1>3, <1>5, <1>6, <2>1, Zenon DEF Scope, Steps
<1>8. Wrote(e, {id}, {id}, {}, {})
    BY <1>1, <1>2, <1>3, <1>5, Zenon DEF Wrote, Writing, WriteCandidates
<1>9. Writing(c, v)
    BY <1>1, <1>2, <1>3, <1>5, <1>7, <1>8, Zenon DEF Writing, WrotePool
<1>10. Staged(s, c)
    BY <1>9, Zenon DEF Staged
<1>11. c.op \in {"create", "update"}
    BY <1>9, Zenon DEF Writing
<1>12. ReadSound(scopes[s])
    BY Zenon DEF Inv, VInv, Sound
<1>13. ReadSound(c)
    BY <1>3, <1>7, <1>12, Zenon DEF ReadSound, WriteCandidates
<1>14. Sound(s, c)
    BY <1>7, <1>11, <1>13, Zenon DEF Sound, AnswersSound, SnapshotAgrees
<1>15. \A q \in Scopes \ {s} :
           /\ Apart(c, scopes[q]) /\ OneWrites(c, scopes[q])
           /\ LocksKept(c, scopes[q]) /\ LocksKept(scopes[q], c)
  <2> SUFFICES ASSUME NEW q \in Scopes \ {s}
               PROVE  /\ Apart(c, scopes[q]) /\ OneWrites(c, scopes[q])
                      /\ LocksKept(c, scopes[q]) /\ LocksKept(scopes[q], c)
      BY Zenon
  <2>1. /\ Apart(scopes[s], scopes[q]) /\ OneWrites(scopes[s], scopes[q])
        /\ LocksKept(scopes[q], scopes[s])
      BY Zenon DEF Inv, PInv, VInv
  <2>2. Apart(c, scopes[q])
      BY <1>1, <1>5, <1>7, <2>1, Zenon DEF Apart
  <2>3. OneWrites(c, scopes[q])
    <3>1. scopes[s].edits # NoEdits
        BY <1>1, <1>5, <1>8, NoEditsFacts, Zenon DEF Wrote
    <3> QED
        BY <2>1, <3>1, Zenon DEF OneWrites
  <2>4. LocksKept(scopes[q], c)
      BY <1>1, <1>5, <1>7, <2>1, Zenon DEF LocksKept
  <2>5. LocksKept(c, scopes[q])
      BY <1>11, Zenon DEF LocksKept
  <2> QED
      BY <2>2, <2>3, <2>4, <2>5, Zenon
<1> QED
    BY <1>6, <1>7, <1>10, <1>14, <1>15, GoesInv, Zenon DEF Fits

\* The record and the event are those of the version being written.  No other scope
\* has that event: nobody else writes the task, and the version is not committed.
LEMMA AppendOutcomeInv ==
    ASSUME Inv, NEW s \in Scopes, AppendOutcome(s)
    PROVE  Inv'
<1>1. PICK edits \in EditSet : edits = scopes[s].edits
    BY Zenon DEF Inv, PInv, ScopeTypes, Scope
<1>2. PICK v \in Nat : Writing(scopes[s], v)
    BY StageFacts, Zenon DEF AppendOutcome
<1>3. PICK id \in TaskIDs : id = scopes[s].id
    BY <1>2, Zenon DEF Writing
<1>4. /\ v = db.tasks[id].version + 1 /\ v <= MaxVersion /\ edits.tasks[id].version = v
      /\ Wrote(edits, {id}, {id}, {}, {}) /\ edits.candidates[id] \in Pools
    BY <1>1, <1>2, <1>3, Zenon DEF Writing, AppendOutcome, WrotePool
<1>5. v \in 1..MaxVersion /\ <<id, v>> \in Events
  <2>1. db.tasks[id].version \in Nat /\ MaxVersion \in Nat
      BY RowTypes, ScopesAssumption, Zenon DEF Inv, PInv, ScopeTypes
  <2>2. v \in 1..MaxVersion
      BY <1>4, <2>1
  <2> QED
      BY <2>2, Zenon DEF Events
<1>6. PICK story \in Seq(Nat) : story = Append(Latest(s).history[id], v)
                                /\ story = Append(db.history[id], v)
  <2>1. Latest(s).history[id] = db.history[id]
      BY <1>1, <1>4, LatestFacts DEF Inv, PInv, Wrote
  <2>2. db.history[id] \in Seq(Nat)
      BY RowTypes, Zenon DEF Inv, PInv, ScopeTypes
  <2>3. Append(db.history[id], v) \in Seq(Nat)
      BY <2>2
  <2> QED
      BY <2>1, <2>3, Zenon
<1>7. PICK h : h = Edited(s, "history", id, story)
    BY Zenon
<1>8. /\ h \in EditSet /\ h.history[id] = story /\ DOMAIN h.history = DOMAIN edits.history \cup {id}
      /\ h.tasks = edits.tasks /\ h.candidates = edits.candidates
    BY <1>1, <1>7, EditHistory
<1>9. PICK born : born = [x \in {<<id, v>>} |-> OutboxRow]
    BY Zenon
<1>10. born \in Partial(Events, EventRow) /\ DOMAIN born = {<<id, v>>} /\ born[<<id, v>>] = OutboxRow
  <2>1. OutboxRow \in EventRow
      BY Zenon DEF OutboxRow, EventRow, Owner
  <2>2. born \in [{<<id, v>>} -> EventRow] /\ {<<id, v>>} \in SUBSET Events
      BY <1>5, <1>9, <2>1, Zenon
  <2> QED
      BY <1>9, <2>2, Zenon DEF Partial
<1>11. PICK e : e = [h EXCEPT !.outbox = born]
    BY Zenon
<1>12. /\ e \in EditSet /\ e.outbox = born /\ e.history = h.history
       /\ e.tasks = edits.tasks /\ e.candidates = edits.candidates
    BY <1>8, <1>10, <1>11, Zenon DEF EditSet
<1>13. PICK c : c = [scopes[s] EXCEPT !.at = "commit", !.edits = e] /\ Goes(s, c)
  <2>1. edits.tasks[id].version = v /\ h = InsertHistory(s, id, v)
      BY <1>4, <1>6, <1>7, Zenon DEF InsertHistory
  <2> QED
      BY <1>1, <1>3, <1>9, <1>11, <2>1, Zenon DEF AppendOutcome
<1>14. /\ c \in Scope /\ c.at = "commit" /\ c.edits = e /\ c.op = scopes[s].op
       /\ c.id = id /\ c.read = scopes[s].read /\ c.snapshot = scopes[s].snapshot
    BY <1>3, <1>12, <1>13, ZenonT(30) DEF Scope, Steps, Inv, PInv, ScopeTypes
<1>15. Wrote(e, {id}, {id}, {id}, {<<id, v>>})
    BY <1>4, <1>8, <1>10, <1>12, Zenon DEF Wrote
<1>16. WrotePool(c) /\ WroteOutcome(c, v)
    BY <1>4, <1>6, <1>8, <1>10, <1>12, <1>14, Zenon DEF WrotePool, WroteOutcome
<1>17. Writing(c, v)
    BY <1>1, <1>2, <1>3, <1>12, <1>14, <1>15, <1>16, Zenon DEF Writing
<1>18. Staged(s, c) /\ c.op \in {"create", "update"}
    BY <1>17, Zenon DEF Staged, Writing
<1>19. Sound(s, scopes[s])
    BY Zenon DEF Inv, VInv
<1>20. ReadSound(c)
    BY <1>3, <1>14, <1>19, Zenon DEF Sound, ReadSound, AppendOutcome
<1>21. Sound(s, c)
    BY <1>14, <1>18, <1>19, <1>20, Zenon DEF Sound, AnswersSound, SnapshotAgrees
<1>22. \A q \in Scopes \ {s} :
           /\ Apart(c, scopes[q]) /\ OneWrites(c, scopes[q])
           /\ LocksKept(c, scopes[q]) /\ LocksKept(scopes[q], c)
  <2> SUFFICES ASSUME NEW q \in Scopes \ {s}
               PROVE  /\ Apart(c, scopes[q]) /\ OneWrites(c, scopes[q])
                      /\ LocksKept(c, scopes[q]) /\ LocksKept(scopes[q], c)
      BY Zenon
  <2>1. /\ Apart(scopes[s], scopes[q]) /\ OneWrites(scopes[s], scopes[q])
        /\ LocksKept(scopes[q], scopes[s])
      BY Zenon DEF Inv, PInv, VInv
  <2>2. <<id, v>> \notin DOMAIN scopes[q].edits.outbox
    <3>1. ~db.outbox[<<id, v>>].recorded
      <4>1. db.tasks[id].version \in Nat
          BY RowTypes, Zenon DEF Inv, PInv, ScopeTypes
      <4>2. db.outbox[<<id, v>>].recorded => v <= db.tasks[id].version
          BY <1>5, Zenon DEF Inv, PInv, Committed
      <4> QED
          BY <1>4, <4>1, <4>2
    <3>2. Staged(q, scopes[q])
        BY Zenon DEF Inv, PInv
    <3>3. CASE Fresh(scopes[q])
        BY <3>3, NoEditsFacts, Zenon DEF Fresh
    <3>4. CASE \E w \in Nat : Writing(scopes[q], w)
      <4>1. PICK w \in Nat : Writing(scopes[q], w)
          BY <3>4, Zenon
      <4>2. scopes[q].id \in DOMAIN scopes[q].edits.tasks
          BY <4>1, Zenon DEF Writing, Wrote
      <4>3. scopes[q].id # id
          BY <1>1, <1>4, <2>1, <4>2, Zenon DEF Apart, Wrote
      <4>4. DOMAIN scopes[q].edits.outbox \subseteq {<<scopes[q].id, w>>}
          BY <4>1, Zenon DEF Writing, Wrote
      <4> QED
          BY <4>3, <4>4, Zenon
    <3>5. CASE Sweeping(q, scopes[q])
        BY <3>5, Zenon DEF Sweeping, Wrote
    <3>6. CASE Relaying(q, scopes[q])
        BY <3>1, <3>6 DEF Relaying, OutboxRow
    <3>7. CASE Settling(scopes[q])
        BY <3>1, <3>7, Zenon DEF Settling, Wrote
    <3> QED
        BY <3>2, <3>3, <3>4, <3>5, <3>6, <3>7, Zenon DEF Staged
  <2>3. Apart(c, scopes[q])
      BY <1>1, <1>10, <1>12, <1>14, <2>1, <2>2, Zenon DEF Apart
  <2>4. OneWrites(c, scopes[q])
    <3>1. scopes[s].edits # NoEdits
        BY <1>1, <1>4, NoEditsFacts, Zenon DEF Wrote
    <3> QED
        BY <2>1, <3>1, Zenon DEF OneWrites
  <2>5. LocksKept(scopes[q], c)
      BY <1>1, <1>12, <1>14, <2>1, Zenon DEF LocksKept
  <2>6. LocksKept(c, scopes[q])
      BY <1>18, Zenon DEF LocksKept
  <2> QED
      BY <2>3, <2>4, <2>5, <2>6, Zenon
<1> QED
    BY <1>13, <1>14, <1>18, <1>21, <1>22, GoesInv DEF Fits

(* Claiming *************************************************************)

\* The candidates of a claim: locked where the database can, and nothing claimed yet.
LEMMA SelectInv ==
    ASSUME Inv, NEW s \in Scopes, NEW table, NEW latest, NEW seen, Select(s, table, latest, seen),
           \/ /\ scopes[s].op = "sweep" /\ table = "tasks"
              /\ latest \subseteq TaskIDs /\ seen \subseteq TaskIDs
           \/ /\ scopes[s].op = "relay" /\ latest \subseteq Events /\ seen \subseteq Events
    PROVE  Inv'
<1>1. /\ scopes[s].at = "select" /\ Fresh(scopes[s]) /\ scopes[s].edits = NoEdits /\ ScopeTypes
      /\ Sound(s, scopes[s])
    BY StageFacts, Zenon DEF Select, Fresh, Inv, PInv, VInv
<1>2. scopes[s].answers = {} /\ (scopes[s].op = "sweep" => scopes[s].snapshot = << >>)
      /\ (scopes[s].op = "sweep" => scopes[s].locks \subseteq TaskIDs)
    BY <1>1, Zenon DEF Sound, AnswersSound, SnapshotAgrees
<1>3. TaskIDs \subseteq RowIDs /\ Events \subseteq RowIDs
    BY Zenon DEF RowIDs
<1>4. ASSUME NEW c, c.edits = NoEdits, c.at = "claim", c.op = scopes[s].op, c.todo \subseteq latest \cup seen,
             c.answers = {}
      PROVE  Staged(s, c) /\ AnswersSound(s, c)
  <2>1. Sweeping(s, c) \/ Relaying(s, c)
      BY <1>4, NoEditsFacts DEF Sweeping, Relaying, Wrote
  <2>2. AnswersSound(s, c)
      BY <1>4, NoEditsFacts, Zenon DEF AnswersSound
  <2> QED
      BY <2>1, <2>2, Zenon DEF Staged
<1>5. CASE SupportsSkipLocked
  <2>1. PICK free : /\ free = {row \in latest : \A q \in Scopes \ {s} : row \notin Touched(q, table)}
                    /\ Goes(s, [scopes[s] EXCEPT !.at = "claim", !.todo = free, !.locks = free])
      BY <1>5, Zenon DEF Select
  <2>2. free \in SUBSET RowIDs /\ free \subseteq latest
      BY <1>3, <2>1
  <2>3. PICK c : c = [scopes[s] EXCEPT !.at = "claim", !.todo = free, !.locks = free] /\ Goes(s, c)
      BY <2>1, Zenon
  <2>4. /\ c \in Scope /\ c.at = "claim" /\ c.todo = free /\ c.locks = free /\ c.op = scopes[s].op
        /\ c.edits = NoEdits /\ c.answers = {} /\ c.snapshot = scopes[s].snapshot
      BY <1>1, <1>2, <2>2, <2>3, ZenonT(30) DEF ScopeTypes, Scope, Steps
  <2>5. Staged(s, c) /\ AnswersSound(s, c)
      BY <1>4, <2>2, <2>4, Zenon
  <2>6. SnapshotAgrees(c)
      BY <1>2, <2>2, <2>4, NoEditsFacts, Zenon DEF SnapshotAgrees
  <2>7. Sound(s, c)
      BY <1>1, <2>4, <2>5, <2>6, Zenon DEF Sound, ReadSound
  <2>8. \A q \in Scopes \ {s} :
            /\ Apart(c, scopes[q]) /\ OneWrites(c, scopes[q])
            /\ LocksKept(c, scopes[q]) /\ LocksKept(scopes[q], c)
      BY <2>1, <2>4, NoEditsFacts, Zenon DEF Apart, OneWrites, LocksKept, Touched
  <2> QED
      BY <2>3, <2>4, <2>5, <2>7, <2>8, GoesInv, Zenon DEF Fits
<1>6. CASE ~SupportsSkipLocked
  <2>1. PICK d : d = Reading(s) /\ Selected(s, d)
      BY <1>1, ReadingFacts, Zenon
  <2>2. PICK c : c = [d EXCEPT !.at = "claim", !.todo = seen] /\ Goes(s, c)
      BY <1>6, <2>1, Zenon DEF Select
  <2>3. /\ c \in Scope /\ c.at = "claim" /\ c.todo = seen /\ c.locks = scopes[s].locks
        /\ c.op = scopes[s].op /\ c.edits = NoEdits /\ c.answers = {} /\ c.snapshot = d.snapshot
      BY <1>1, <1>2, <1>3, <2>1, <2>2, Zenon DEF Selected, Scope, Steps
  <2>4. Staged(s, c) /\ AnswersSound(s, c)
      BY <1>4, <2>3, Zenon
  <2>5. SnapshotAgrees(c)
    <3>1. dialect # "mysql"
        BY <1>6, Zenon DEF SupportsSkipLocked
    <3>2. c.op = "sweep" /\ c.snapshot # << >> => dialect = "sqlite"
        BY <1>2, <2>1, <2>3, <3>1, Zenon DEF Selected
    <3> QED
        BY <1>2, <2>3, <3>1, <3>2, Zenon DEF SnapshotAgrees
  <2>6. Sound(s, c)
      BY <2>1, <2>3, <2>4, <2>5, SelectedFacts, Zenon DEF Sound, ReadSound
  <2> QED
      BY <2>2, <2>3, <2>4, <2>6, MeetsAsBefore, GoesInv, Zenon DEF Fits
<1> QED
    BY <1>5, <1>6, Zenon

\* A task is claimed if it is still free; the row is read back next.
LEMMA ClaimLeaseInv ==
    ASSUME Inv, NEW s \in Scopes, NEW id \in TaskIDs, ClaimLease(s, id)
    PROVE  Inv'
<1>1. PICK todo : todo = scopes[s].todo \ {id}
    BY Zenon
<1>2. PICK rest : rest = [scopes[s] EXCEPT !.todo = todo]
    BY Zenon
<1>3. /\ ScopeTypes /\ scopes[s] \in Scope /\ Sound(s, scopes[s]) /\ Sweeping(s, scopes[s])
      /\ scopes[s].op = "sweep" /\ scopes[s].at = "claim" /\ id \in scopes[s].todo
      /\ Writable(s, "tasks", id) /\ todo \in SUBSET RowIDs /\ id \in RowIDs
    BY <1>1, StageFacts DEF ClaimLease, At, Inv, PInv, VInv, ScopeTypes, Scope, RowIDs
<1>4. /\ rest \in Scope /\ rest.op = "sweep" /\ rest.at = "claim" /\ rest.todo = todo
      /\ rest.id = scopes[s].id /\ rest.read = scopes[s].read /\ rest.locks = scopes[s].locks
      /\ rest.answers = scopes[s].answers /\ rest.edits = scopes[s].edits
      /\ rest.snapshot = scopes[s].snapshot
    BY <1>2, <1>3 DEF Scope
<1>5. CASE ~Overdue(Latest(s), id)
  <2>1. Goes(s, rest)
      BY <1>1, <1>2, <1>5, Zenon DEF ClaimLease
  <2>2. Staged(s, rest)
      BY <1>1, <1>3, <1>4, Zenon DEF Staged, Sweeping
  <2>3. AnswersSound(s, rest)
      BY <1>3, <1>4, Zenon DEF Sound, AnswersSound
  <2>4. SnapshotAgrees(rest)
      BY <1>1, <1>3, <1>4, Zenon DEF Sound, SnapshotAgrees
  <2>5. Sound(s, rest)
      BY <1>3, <1>4, <2>3, <2>4, Zenon DEF Sound, ReadSound
  <2> QED
      BY <1>3, <1>4, <2>1, <2>2, <2>5, MeetsAsBefore, GoesInv, Zenon DEF Fits
<1>6. CASE Overdue(Latest(s), id)
  <2>1. PICK edits \in EditSet : edits = scopes[s].edits
      BY <1>3, Zenon DEF Scope
  <2>2. /\ Latest(s).tasks[id] = db.tasks[id] /\ id \notin DOMAIN edits.tasks
        /\ db.tasks[id].version > 0 /\ db.tasks[id].lease = Nobody
    <3>1. Latest(s).tasks[id] = IF id \in DOMAIN edits.tasks THEN edits.tasks[id] ELSE db.tasks[id]
        BY <1>3, <2>1, LatestFacts, Zenon
    <3>2. id \notin DOMAIN edits.tasks
      <4>1. SUFFICES ASSUME id \in DOMAIN edits.tasks PROVE FALSE
          BY Zenon
      <4>2. edits.tasks[id] = [version |-> db.tasks[id].version, lease |-> s]
          BY <1>3, <2>1, <4>1, Zenon DEF Sweeping
      <4>3. Latest(s).tasks[id].lease = s
          BY <3>1, <4>1, <4>2
      <4> QED
          BY <1>6, <4>3, ScopesAssumption, Zenon DEF Overdue
    <3> QED
        BY <1>6, <3>1, <3>2, Zenon DEF Overdue
  <2>3. PICK row : row = [Latest(s).tasks[id] EXCEPT !.lease = s]
      BY Zenon
  <2>4. row \in TaskRow /\ row = [version |-> db.tasks[id].version, lease |-> s]
    <3>1. db.tasks[id] \in TaskRow /\ s \in Owner
        BY <1>3, RowTypes, Zenon DEF ScopeTypes, Owner
    <3> QED
        BY <2>2, <2>3, <3>1 DEF TaskRow
  <2>5. PICK e : e = Edited(s, "tasks", id, row)
      BY Zenon
  <2>6. /\ e \in EditSet
        /\ DOMAIN e.tasks = DOMAIN edits.tasks \cup {id} /\ e.tasks[id] = row
        /\ \A i \in DOMAIN edits.tasks \ {id} : e.tasks[i] = edits.tasks[i]
        /\ e.candidates = edits.candidates /\ e.history = edits.history
        /\ e.outbox = edits.outbox
      BY ONLY <2>1, <2>4, <2>5, EditTasks
  <2>7. PICK c : c = [rest EXCEPT !.at = "task", !.id = id, !.edits = e] /\ Goes(s, c)
      BY <1>1, <1>2, <1>6, <2>3, <2>5, Zenon DEF ClaimLease
  <2>8. /\ c \in Scope /\ c.op = "sweep" /\ c.at = "task" /\ c.todo = todo
        /\ c.id = id /\ c.locks = scopes[s].locks /\ c.answers = scopes[s].answers
        /\ c.edits = e /\ c.snapshot = scopes[s].snapshot
      BY <1>3, <1>4, <2>6, <2>7, Zenon DEF Scope, Steps
  <2>9. Sweeping(s, c)
    <3>1. \A i \in DOMAIN e.tasks :
              /\ db.tasks[i].version > 0 /\ db.tasks[i].lease = Nobody
              /\ e.tasks[i] = [version |-> db.tasks[i].version, lease |-> s]
        BY <1>3, <2>1, <2>2, <2>4, <2>6, ZenonT(30) DEF Sweeping
    <3>2. Wrote(e, DOMAIN e.tasks, {}, {}, {})
        BY <1>3, <2>1, <2>6, Zenon DEF Sweeping, Wrote
    <3> QED
        BY <1>1, <1>3, <2>6, <2>8, <3>1, <3>2, Zenon DEF Sweeping
  <2>10. AnswersSound(s, c)
    <3>1. c.answers = {Claimed(s, i) : i \in DOMAIN edits.tasks}
        BY <1>3, <2>1, <2>8, Zenon DEF Sound, AnswersSound
    <3>2. DOMAIN edits.tasks = DOMAIN c.edits.tasks \ {c.id}
        BY <2>2, <2>6, <2>8, Zenon
    <3> QED
        BY <2>8, <3>1, <3>2, Zenon DEF AnswersSound
  <2>11. SnapshotAgrees(c)
    <3>1. dialect = "mysql" => c.todo \cup DOMAIN c.edits.tasks \subseteq c.locks
        BY <1>1, <1>3, <2>1, <2>6, <2>8, Zenon DEF Sound, SnapshotAgrees
    <3>2. dialect = "sqlite" => c.snapshot = << >> \/ c.snapshot = db
        BY <1>3, <2>8, Zenon DEF Writable
    <3> QED
        BY <1>3, <2>8, <3>1, <3>2, Zenon DEF Sound, SnapshotAgrees
  <2>12. Sound(s, c)
      BY <1>3, <2>8, <2>10, <2>11, Zenon DEF Sound, ReadSound
  <2>13. \A q \in Scopes \ {s} :
             /\ Apart(c, scopes[q]) /\ OneWrites(c, scopes[q])
             /\ LocksKept(c, scopes[q]) /\ LocksKept(scopes[q], c)
    <3>1. /\ DOMAIN c.edits.tasks = DOMAIN scopes[s].edits.tasks \cup {id}
          /\ c.edits.outbox = scopes[s].edits.outbox
        BY <2>1, <2>6, <2>8, Zenon
    <3> QED
        BY <1>3, <2>8, <3>1, MeetsWithTask, Zenon
  <2> QED
      BY <2>7, <2>8, <2>9, <2>12, <2>13, GoesInv, Zenon DEF Fits, Staged
<1> QED
    BY <1>5, <1>6, Zenon

\* An event that is due is as it was recorded.
LEMMA DueRow ==
    ASSUME Inv, NEW e \in Events, Due(db, e)
    PROVE  db.outbox[e] = OutboxRow
<1>1. PICK row \in EventRow : row = db.outbox[e]
    BY RowTypes, Zenon DEF Inv, PInv, ScopeTypes
<1>2. row.due => row.recorded
    BY <1>1 DEF Inv, PInv, Committed, Events
<1>3. row.recorded = TRUE /\ row.published = FALSE /\ row.due = TRUE /\ row.lease = Nobody
    BY <1>1, <1>2, Zenon DEF Due, EventRow
<1>4. row = [recorded |-> row.recorded, published |-> row.published, due |-> row.due,
             lease |-> row.lease]
    BY Zenon DEF EventRow
<1> QED
    BY <1>1, <1>3, <1>4, Zenon DEF OutboxRow

\* An event is claimed if it is still due; the row is read back next.
LEMMA ClaimEventInv ==
    ASSUME Inv, NEW s \in Scopes, NEW v \in Events, ClaimEvent(s, v)
    PROVE  Inv'
<1>1. PICK todo : todo = scopes[s].todo \ {v}
    BY Zenon
<1>2. PICK rest : rest = [scopes[s] EXCEPT !.todo = todo]
    BY Zenon
<1>3. /\ ScopeTypes /\ scopes[s] \in Scope /\ Sound(s, scopes[s]) /\ Relaying(s, scopes[s])
      /\ scopes[s].op = "relay" /\ scopes[s].at = "claim"
      /\ Writable(s, "outbox", v) /\ todo \in SUBSET RowIDs /\ v \in RowIDs
    BY <1>1, StageFacts DEF ClaimEvent, At, Inv, PInv, VInv, ScopeTypes, Scope, RowIDs
<1>4. /\ rest \in Scope /\ rest.op = "relay" /\ rest.at = "claim" /\ rest.todo = todo
      /\ rest.id = scopes[s].id /\ rest.read = scopes[s].read /\ rest.locks = scopes[s].locks
      /\ rest.answers = scopes[s].answers /\ rest.edits = scopes[s].edits
      /\ rest.snapshot = scopes[s].snapshot
    BY <1>2, <1>3, Zenon DEF Scope
<1>5. CASE ~Due(Latest(s), v)
  <2>1. Goes(s, rest)
      BY <1>1, <1>2, <1>5, Zenon DEF ClaimEvent
  <2>2. Staged(s, rest)
      BY <1>1, <1>3, <1>4, Zenon DEF Staged, Relaying
  <2>3. AnswersSound(s, rest)
      BY <1>3, <1>4, Zenon DEF Sound, AnswersSound
  <2>4. Sound(s, rest)
      BY <1>3, <1>4, <2>3, Zenon DEF Sound, ReadSound, SnapshotAgrees
  <2> QED
      BY <1>3, <1>4, <2>1, <2>2, <2>4, MeetsAsBefore, GoesInv, Zenon DEF Fits
<1>6. CASE Due(Latest(s), v)
  <2>1. PICK edits \in EditSet : edits = scopes[s].edits
      BY <1>3, Zenon DEF Scope
  <2>2. Latest(s).outbox[v] = db.outbox[v] /\ v \notin DOMAIN edits.outbox /\ db.outbox[v] = OutboxRow
    <3>1. Latest(s).outbox[v] = IF v \in DOMAIN edits.outbox THEN edits.outbox[v] ELSE db.outbox[v]
        BY <1>3, <2>1, LatestFacts, Zenon
    <3>2. v \notin DOMAIN edits.outbox
      <4>1. SUFFICES ASSUME v \in DOMAIN edits.outbox PROVE FALSE
          BY Zenon
      <4>2. edits.outbox[v] = [OutboxRow EXCEPT !.lease = s]
          BY <1>3, <2>1, <4>1 DEF Relaying
      <4>3. Latest(s).outbox[v].lease = s
          BY <3>1, <4>1, <4>2 DEF OutboxRow
      <4> QED
          BY <1>6, <4>3, ScopesAssumption, Zenon DEF Due
    <3>3. Due(db, v)
        BY <1>6, <3>1, <3>2, Zenon DEF Due
    <3> QED
        BY <3>1, <3>2, <3>3, DueRow, Zenon
  <2>3. PICK row : row = [Latest(s).outbox[v] EXCEPT !.lease = s]
      BY Zenon
  <2>4. row \in EventRow /\ row = [OutboxRow EXCEPT !.lease = s]
    <3>1. row = [OutboxRow EXCEPT !.lease = s]
        BY <2>2, <2>3, Zenon
    <3>2. [OutboxRow EXCEPT !.lease = s] \in EventRow
        BY Zenon DEF OutboxRow, EventRow, Owner
    <3> QED
        BY <3>1, <3>2, Zenon
  <2>5. PICK e : e = Edited(s, "outbox", v, row)
      BY Zenon
  <2>6. /\ e \in EditSet
        /\ DOMAIN e.outbox = DOMAIN edits.outbox \cup {v} /\ e.outbox[v] = row
        /\ \A i \in DOMAIN edits.outbox \ {v} : e.outbox[i] = edits.outbox[i]
        /\ e.tasks = edits.tasks /\ e.candidates = edits.candidates /\ e.history = edits.history
      BY <2>1, <2>4, <2>5, EditOutbox
  <2>7. PICK c : c = [rest EXCEPT !.at = "entry", !.id = v, !.edits = e] /\ Goes(s, c)
      BY <1>1, <1>2, <1>6, <2>3, <2>5, Zenon DEF ClaimEvent
  <2>8. /\ c \in Scope /\ c.op = "relay" /\ c.at = "entry" /\ c.todo = todo
        /\ c.id = v /\ c.answers = scopes[s].answers /\ c.edits = e
        /\ c.snapshot = scopes[s].snapshot
      BY <1>3, <1>4, <2>6, <2>7, Zenon DEF Scope, Steps
  <2>9. Relaying(s, c)
    <3>1. \A i \in DOMAIN e.outbox :
              db.outbox[i] = OutboxRow /\ e.outbox[i] = [OutboxRow EXCEPT !.lease = s]
        BY ONLY <1>3, <2>1, <2>2, <2>4, <2>6 DEF Relaying
    <3>2. Wrote(e, {}, {}, {}, DOMAIN e.outbox)
        BY <1>3, <2>1, <2>6, Zenon DEF Relaying, Wrote
    <3> QED
        BY <1>1, <1>3, <2>6, <2>8, <3>1, <3>2, Zenon DEF Relaying
  <2>10. AnswersSound(s, c)
    <3>1. c.answers = {Taken(s, i) : i \in DOMAIN edits.outbox}
        BY <1>3, <2>1, <2>8, Zenon DEF Sound, AnswersSound
    <3>2. DOMAIN edits.outbox = DOMAIN c.edits.outbox \ {c.id}
        BY <2>2, <2>6, <2>8, Zenon
    <3> QED
        BY <2>8, <3>1, <3>2, Zenon DEF AnswersSound
  <2>11. Sound(s, c)
      BY <1>3, <2>8, <2>10, Zenon DEF Sound, ReadSound, SnapshotAgrees
  <2>12. \A q \in Scopes \ {s} :
             /\ Apart(c, scopes[q]) /\ OneWrites(c, scopes[q])
             /\ LocksKept(c, scopes[q]) /\ LocksKept(scopes[q], c)
    <3>1. /\ DOMAIN c.edits.outbox = DOMAIN scopes[s].edits.outbox \cup {v}
          /\ c.edits.tasks = scopes[s].edits.tasks /\ c.op # "sweep"
        BY <2>1, <2>6, <2>8, Zenon
    <3> QED
        BY <1>3, <3>1, MeetsWithEvent, Zenon
  <2> QED
      BY <2>7, <2>8, <2>9, <2>11, <2>12, GoesInv, Zenon DEF Fits, Staged
<1> QED
    BY <1>5, <1>6, Zenon

\* The event that was claimed is read back as it was claimed.
LEMMA ReadEntryInv ==
    ASSUME Inv, NEW s \in Scopes, ReadEntry(s)
    PROVE  Inv'
<1>1. PICK d : d = Reading(s) /\ Selected(s, d)
    BY ReadingFacts, Zenon DEF Inv, PInv
<1>2. /\ ScopeTypes /\ scopes[s] \in Scope /\ scopes[s].op = "relay" /\ scopes[s].at = "entry"
      /\ Relaying(s, scopes[s]) /\ AnswersSound(s, scopes[s])
    BY StageFacts, Zenon DEF ReadEntry, At, Inv, PInv, ScopeTypes, VInv, Sound
<1>3. PICK v : v = scopes[s].id
    OBVIOUS
<1>4. v \in DOMAIN scopes[s].edits.outbox /\ v \in Events
  <2>1. scopes[s].edits.outbox \in Partial(Events, EventRow)
      BY <1>2, Zenon DEF Scope, EditSet
  <2> QED
      BY <1>2, <1>3, <2>1, PartialFacts DEF Relaying
<1>5. PICK answer : answer = OutboxEntry(s, v)
    BY Zenon
<1>6. answer = Taken(s, v)
    BY <1>2, <1>4, <1>5, SeenFacts DEF OutboxEntry, Taken, Relaying
<1>7. answer \in [row : RowIDs, entry : TaskRead \cup EventRow]
    BY <1>4, <1>6, Zenon DEF Taken, RowIDs, EventRow, OutboxRow, Owner
<1>8. PICK c : c = [d EXCEPT !.at = "claim", !.answers = @ \cup {answer}] /\ Goes(s, c)
    BY <1>1, <1>3, <1>5 DEF ReadEntry
<1>9. d \in Scope /\ d.answers = scopes[s].answers
    BY <1>1, Zenon DEF Selected
<1>10. d.answers \cup {answer} \in SUBSET [row : RowIDs, entry : TaskRead \cup EventRow]
    BY <1>7, <1>9, Zenon DEF Scope
<1>11. /\ c \in Scope /\ c.at = "claim" /\ c.op = "relay" /\ c.todo = scopes[s].todo
       /\ c.edits = scopes[s].edits /\ c.snapshot = d.snapshot
       /\ c.answers = scopes[s].answers \cup {answer}
    BY <1>1, <1>2, <1>8, <1>9, <1>10, ZenonT(30) DEF Selected, Scope, Steps
<1>12. Staged(s, c)
    BY <1>2, <1>11, Zenon DEF Staged, Relaying
<1>13. c.answers = {Taken(s, i) : i \in DOMAIN c.edits.outbox}
  <2>1. scopes[s].answers = {Taken(s, i) : i \in DOMAIN c.edits.outbox \ {v}}
      BY <1>2, <1>3, <1>11, Zenon DEF AnswersSound
  <2> QED
      BY <1>4, <1>6, <1>11, <2>1, Zenon
<1>14. AnswersSound(s, c)
    BY <1>11, <1>13, Zenon DEF AnswersSound
<1>15. Sound(s, c)
    BY <1>1, <1>11, <1>14, SelectedFacts, Zenon DEF Sound, ReadSound, SnapshotAgrees
<1> QED
    BY <1>8, <1>11, <1>12, <1>15, MeetsAsBefore, GoesInv, Zenon DEF Fits

\* Every settlement leaves the event recorded and releases it.
LEMMA SettledRow ==
    ASSUME NEW row \in EventRow, row.recorded,
           NEW settled \in {RecordAttempt(row), MarkAccepted(row, TRUE), MarkAccepted(row, FALSE),
                            MarkDeadLettered(row)}
    PROVE  settled \in EventRow /\ settled.recorded /\ settled.lease = Nobody
<1>1. ASSUME NEW complete \in BOOLEAN, settled = MarkAccepted(row, complete)
      PROVE  settled \in EventRow /\ settled.recorded /\ settled.lease = Nobody
  <2>1. PICK published \in BOOLEAN : published = (complete \/ (dialect = "memory" /\ row.published))
      BY Zenon
  <2>2. PICK due \in BOOLEAN : due = (row.due \/ ~complete)
      BY Zenon
  <2>3. settled = [[row EXCEPT !.published = published, !.due = due] EXCEPT !.lease = Nobody]
      BY <1>1, <2>1, <2>2 DEF MarkAccepted, Release
  <2> QED
      BY <2>3, Zenon DEF EventRow, Owner
<1>2. CASE settled = RecordAttempt(row)
    BY <1>2, Zenon DEF RecordAttempt, Release, EventRow, Owner
<1>3. CASE settled = MarkDeadLettered(row)
    BY <1>3, Zenon DEF MarkDeadLettered, Release, EventRow, Owner
<1> QED
    BY <1>1, <1>2, <1>3, Zenon

LEMMA SettleOutboxInv ==
    ASSUME Inv, NEW s \in Scopes, SettleOutbox(s)
    PROVE  Inv'
<1>1. PICK v : v = scopes[s].id
    BY Zenon
<1>2. /\ ScopeTypes /\ scopes[s] \in Scope /\ scopes[s].op = "settle" /\ Fresh(scopes[s])
      /\ scopes[s].edits = NoEdits /\ v \in Events /\ Writable(s, "outbox", v)
      /\ (scopes[s].snapshot # << >> => Past(scopes[s].snapshot))
    BY <1>1, StageFacts, Zenon DEF SettleOutbox, At, Inv, PInv, ScopeTypes, Fresh, VInv, Sound
<1>3. PICK row : row = Latest(s).outbox[v]
    BY Zenon
<1>4. row = db.outbox[v] /\ row \in EventRow /\ row.recorded
  <2>1. row = db.outbox[v]
      BY <1>2, <1>3, LatestFacts, NoEditsFacts, Zenon
  <2>2. row.recorded
      BY <1>1, <1>3, Zenon DEF SettleOutbox
  <2>3. row \in EventRow
      BY <1>2, <2>1, RowTypes, Zenon DEF ScopeTypes
  <2> QED
      BY <2>1, <2>2, <2>3, Zenon
<1>5. PICK settled \in {RecordAttempt(row), MarkAccepted(row, TRUE), MarkAccepted(row, FALSE),
                        MarkDeadLettered(row)} :
          Goes(s, [scopes[s] EXCEPT !.at = "commit", !.edits = Edited(s, "outbox", v, settled)])
    BY <1>1, <1>3, Zenon DEF SettleOutbox
<1>6. settled \in EventRow /\ settled.recorded /\ settled.lease = Nobody
    BY <1>4, SettledRow, Zenon
<1>7. PICK edits \in EditSet : edits = scopes[s].edits
    BY <1>2, Zenon DEF Scope
<1>8. PICK e : e = Edited(s, "outbox", v, settled)
    BY Zenon
<1>9. /\ e \in EditSet
      /\ DOMAIN e.outbox = DOMAIN edits.outbox \cup {v} /\ e.outbox[v] = settled
      /\ e.tasks = edits.tasks /\ e.candidates = edits.candidates /\ e.history = edits.history
    BY ONLY <1>2, <1>6, <1>7, <1>8, EditOutbox
<1>10. PICK c : c = [scopes[s] EXCEPT !.at = "commit", !.edits = e] /\ Goes(s, c)
    BY <1>5, <1>8, Zenon
<1>11. /\ c \in Scope /\ c.op = "settle" /\ c.at = "commit" /\ c.id = v /\ c.edits = e
       /\ c.snapshot = scopes[s].snapshot
    BY <1>1, <1>2, <1>9, <1>10, Zenon DEF Scope, Steps
<1>12. Wrote(e, {}, {}, {}, {v})
    BY <1>2, <1>7, <1>9, NoEditsFacts, Zenon DEF Wrote
<1>13. Staged(s, c)
    BY <1>2, <1>4, <1>6, <1>9, <1>11, <1>12, Zenon DEF Staged, Settling
<1>14. Sound(s, c)
    BY <1>2, <1>11, Zenon DEF Sound, ReadSound, AnswersSound, SnapshotAgrees
<1>15. /\ DOMAIN c.edits.outbox = DOMAIN scopes[s].edits.outbox \cup {v}
       /\ c.edits.tasks = scopes[s].edits.tasks /\ c.op # "sweep"
    BY <1>7, <1>9, <1>11, Zenon
<1>16. \A q \in Scopes \ {s} :
           /\ Apart(c, scopes[q]) /\ OneWrites(c, scopes[q])
           /\ LocksKept(c, scopes[q]) /\ LocksKept(scopes[q], c)
    BY <1>2, <1>15, MeetsWithEvent, Zenon
<1> QED
    BY <1>10, <1>11, <1>13, <1>14, <1>16, GoesInv DEF Fits

LEMMA StatementInv ==
    ASSUME Inv, NEW s \in Scopes, Statement(s)
    PROVE  Inv'
<1>1. ASSUME SelectOverdue(s) PROVE Inv'
    BY <1>1, SelectInv, Zenon DEF SelectOverdue, OverdueIDs
<1>2. ASSUME SelectDueEvents(s) PROVE Inv'
    BY <1>2, SelectInv, Zenon DEF SelectDueEvents, DueEvents
<1> QED
    BY <1>1, <1>2, GetInv, CheckVersionInv, InsertTaskInv, UpdateTaskInv, WriteCandidatesInv,
       AppendOutcomeInv, ClaimLeaseInv, ClaimEventInv, ReadEntryInv, SettleOutboxInv, Zenon DEF Statement

(* Commits **************************************************************)

\* What a scope that is done has written: whole versions, each the next of its task,
\* or leases, and events of versions that are committed or written with them.
LEMMA DoneFacts ==
    ASSUME Inv, NEW s \in Scopes, Done(s), NEW edits, edits = scopes[s].edits
    PROVE  /\ edits \in EditSet /\ DOMAIN edits.tasks \subseteq TaskIDs
           /\ DOMAIN edits.candidates \subseteq DOMAIN edits.tasks
           /\ DOMAIN edits.history \subseteq DOMAIN edits.tasks
           /\ \A id \in DOMAIN edits.candidates :
                  /\ edits.tasks[id].version = db.tasks[id].version + 1
                  /\ edits.candidates[id] \in Pools
           /\ \A id \in DOMAIN edits.tasks \ DOMAIN edits.candidates :
                  edits.tasks[id].version = db.tasks[id].version /\ db.tasks[id].version > 0
           /\ \A e \in DOMAIN edits.outbox :
                  /\ edits.outbox[e].recorded
                  /\ \/ db.outbox[e].recorded
                     \/ \E id \in DOMAIN edits.tasks : e = <<id, edits.tasks[id].version>>
<1>1. edits \in EditSet /\ edits.tasks \in Partial(TaskIDs, TaskRow)
    BY Zenon DEF Inv, PInv, ScopeTypes, Scope, EditSet
<1>2. DOMAIN edits.tasks \subseteq TaskIDs
    BY <1>1, PartialFacts, Zenon
<1>3. Staged(s, scopes[s])
    BY Zenon DEF Inv, PInv
<1>4. CASE Fresh(scopes[s])
    BY <1>4, Zenon DEF Fresh, Done
<1>5. CASE \E v \in Nat : Writing(scopes[s], v)
  <2>1. PICK v \in Nat : Writing(scopes[s], v)
      BY <1>5, Zenon
  <2>2. PICK id \in TaskIDs : id = scopes[s].id
      BY <2>1, Zenon DEF Writing
  <2>3. /\ Wrote(edits, {id}, {id}, {id}, {<<id, v>>}) /\ edits.candidates[id] \in Pools
        /\ edits.outbox[<<id, v>>] = OutboxRow
        /\ edits.tasks[id].version = v /\ v = db.tasks[id].version + 1
      BY <2>1, <2>2, Zenon DEF Writing, Done, WrotePool, WroteOutcome
  <2> QED
    <3>1. edits.outbox[<<id, v>>].recorded
        BY ONLY <2>3 DEF OutboxRow
    <3>2. /\ DOMAIN edits.tasks = {id} /\ DOMAIN edits.candidates = {id}
          /\ DOMAIN edits.history = {id} /\ DOMAIN edits.outbox = {<<id, v>>}
        BY <2>3, Zenon DEF Wrote
    <3> QED
        BY <1>1, <2>3, <3>1, <3>2, Zenon
<1>6. CASE Sweeping(s, scopes[s])
  <2>1. Wrote(edits, DOMAIN edits.tasks, {}, {}, {})
      BY <1>6, Zenon DEF Sweeping
  <2>2. ASSUME NEW id \in DOMAIN edits.tasks
        PROVE  edits.tasks[id].version = db.tasks[id].version /\ db.tasks[id].version > 0
    <3>1. /\ edits.tasks[id] = [version |-> db.tasks[id].version, lease |-> s]
          /\ db.tasks[id].version > 0
        BY <1>6, Zenon DEF Sweeping
    <3> QED
        BY <3>1
  <2> QED
      BY <1>1, <1>2, <2>1, <2>2, Zenon DEF Wrote
<1>7. CASE Relaying(s, scopes[s])
    BY <1>1, <1>2, <1>7 DEF Relaying, Wrote, OutboxRow
<1>8. CASE Settling(scopes[s])
    BY <1>1, <1>2, <1>8, Zenon DEF Settling, Wrote
<1> QED
    BY <1>3, <1>4, <1>5, <1>6, <1>7, <1>8, Zenon DEF Staged

\* A commit leaves the rows its scope did not write, versions rise, and what earlier
\* versions were written with stays known.
LEMMA CommitFacts ==
    ASSUME Inv, NEW s \in Scopes, Commit(s), NEW edits, edits = scopes[s].edits
    PROVE  /\ db' \in Tables /\ written' \in [TaskIDs -> Seq(Pools)]
           /\ \A id \in TaskIDs \ DOMAIN edits.tasks :
                  /\ db'.tasks[id] = db.tasks[id] /\ db'.candidates[id] = db.candidates[id]
                  /\ db'.history[id] = db.history[id]
           /\ \A e \in Events \ DOMAIN edits.outbox : db'.outbox[e] = db.outbox[e]
           /\ \A id \in TaskIDs :
                  /\ db.tasks[id].version \in Nat /\ db'.tasks[id].version \in Nat
                  /\ db.tasks[id].version <= db'.tasks[id].version
                  /\ Len(written'[id]) = db'.tasks[id].version
                  /\ db'.tasks[id].version > 0 =>
                         db'.candidates[id] = written'[id][db'.tasks[id].version]
                  /\ \A w \in Nat : 0 < w /\ w <= db.tasks[id].version =>
                         written'[id][w] = written[id][w]
<1>1. ScopeTypes /\ Done(s) /\ db' = Latest(s) /\ VersionsWritten
    BY Zenon DEF Inv, PInv, VInv, Commit
<1>2. /\ edits \in EditSet /\ DOMAIN edits.tasks \subseteq TaskIDs
      /\ DOMAIN edits.candidates \subseteq DOMAIN edits.tasks
      /\ DOMAIN edits.history \subseteq DOMAIN edits.tasks
    BY <1>1, DoneFacts, Zenon
<1>3. /\ db' \in Tables
      /\ \A id \in TaskIDs : db'.tasks[id] =
             IF id \in DOMAIN edits.tasks THEN edits.tasks[id] ELSE db.tasks[id]
      /\ \A id \in TaskIDs : db'.candidates[id] =
             IF id \in DOMAIN edits.candidates THEN edits.candidates[id] ELSE db.candidates[id]
      /\ \A id \in TaskIDs : db'.history[id] =
             IF id \in DOMAIN edits.history THEN edits.history[id] ELSE db.history[id]
      /\ \A e \in Events : db'.outbox[e] =
             IF e \in DOMAIN edits.outbox THEN edits.outbox[e] ELSE db.outbox[e]
    BY <1>1, LatestFacts
<1>4. \A id \in TaskIDs \ DOMAIN edits.tasks :
          /\ db'.tasks[id] = db.tasks[id] /\ db'.candidates[id] = db.candidates[id]
          /\ db'.history[id] = db.history[id]
    BY <1>2, <1>3, Zenon
<1>5. written' = [id \in TaskIDs |-> IF id \in DOMAIN edits.candidates
                                     THEN Append(written[id], edits.candidates[id]) ELSE written[id]]
    BY Zenon DEF Commit
<1>6. ASSUME NEW id \in TaskIDs
      PROVE  /\ written'[id] \in Seq(Pools)
             /\ db.tasks[id].version \in Nat /\ db'.tasks[id].version \in Nat
             /\ db.tasks[id].version <= db'.tasks[id].version
             /\ Len(written'[id]) = db'.tasks[id].version
             /\ db'.tasks[id].version > 0 =>
                    db'.candidates[id] = written'[id][db'.tasks[id].version]
             /\ \A w \in Nat : 0 < w /\ w <= db.tasks[id].version =>
                    written'[id][w] = written[id][w]
  <2>1. PICK n \in Nat : n = db.tasks[id].version
      BY <1>1, RowTypes, Zenon DEF ScopeTypes
  <2>2. PICK m \in Nat : m = db'.tasks[id].version
      BY <1>3, RowTypes, Zenon
  <2>3. PICK past \in Seq(Pools) : past = written[id] /\ Len(past) = n
      BY <1>1, <2>1, Zenon DEF ScopeTypes, VersionsWritten
  <2>4. n > 0 => db.candidates[id] = past[n]
      BY <1>1, <2>1, <2>3, Zenon DEF VersionsWritten
  <2>5. CASE id \in DOMAIN edits.candidates
    <3>1. PICK pool \in Pools : pool = edits.candidates[id]
        BY <1>1, <2>5, DoneFacts, Zenon
    <3>2. m = n + 1
        BY <1>1, <1>2, <1>3, <2>1, <2>2, <2>5, DoneFacts
    <3>3. written'[id] = Append(past, pool) /\ db'.candidates[id] = pool
        BY <1>3, <1>5, <2>3, <2>5, <3>1, Zenon
    <3>4. /\ Append(past, pool) \in Seq(Pools) /\ Len(Append(past, pool)) = m
          /\ Append(past, pool)[m] = pool
          /\ \A w \in Nat : 0 < w /\ w <= n => Append(past, pool)[w] = past[w]
        BY <2>3, <3>2
    <3> QED
        BY <2>1, <2>2, <2>3, <3>2, <3>3, <3>4
  <2>6. CASE id \notin DOMAIN edits.candidates
    <3>1. m = n
      <4>1. CASE id \in DOMAIN edits.tasks
          BY <1>1, <1>3, <2>1, <2>2, <2>6, <4>1, DoneFacts
      <4>2. CASE id \notin DOMAIN edits.tasks
          BY <1>3, <2>1, <2>2, <4>2, Zenon
      <4> QED
          BY <4>1, <4>2, Zenon
    <3>2. written'[id] = past /\ db'.candidates[id] = db.candidates[id]
        BY <1>3, <1>5, <2>3, <2>6, Zenon
    <3>3. n <= n
        OBVIOUS
    <3> QED
        BY <2>1, <2>2, <2>3, <2>4, <3>1, <3>2, <3>3, Zenon
  <2> QED
      BY <2>5, <2>6, Zenon
<1>7. written' \in [TaskIDs -> Seq(Pools)]
    BY <1>5, <1>6, Zenon
<1> QED
    BY <1>3, <1>4, <1>6, <1>7, Zenon

\* The rows a commit writes fit what is committed.
LEMMA CommitCommitted ==
    ASSUME Inv, NEW s \in Scopes, Commit(s)
    PROVE  Committed'
<1>1. PICK edits : edits = scopes[s].edits
    BY Zenon
<1>2. ScopeTypes /\ Done(s) /\ db' = Latest(s) /\ Committed
    BY Zenon DEF Inv, PInv, Commit
<1>3. ASSUME NEW id \in TaskIDs, db'.tasks[id].version = 0
      PROVE  db'.tasks[id].lease = Nobody /\ db'.candidates[id] = NoPool
  <2>1. id \notin DOMAIN edits.tasks
    <3>1. SUFFICES ASSUME id \in DOMAIN edits.tasks PROVE FALSE
        BY Zenon
    <3>2. db'.tasks[id] = edits.tasks[id] /\ db.tasks[id].version \in Nat
        BY <1>1, <1>2, <3>1, LatestFacts, RowTypes, Zenon DEF ScopeTypes
    <3>3. edits.tasks[id].version > 0
        BY <1>1, <1>2, <3>1, <3>2, DoneFacts
    <3> QED
        BY <1>3, <3>2, <3>3
  <2>2. db'.tasks[id] = db.tasks[id] /\ db'.candidates[id] = db.candidates[id]
      BY <1>1, <2>1, CommitFacts
  <2> QED
      BY <1>2, <1>3, <2>2, Zenon DEF Committed
<1>4. ASSUME NEW id \in TaskIDs, NEW v \in 1..MaxVersion
      PROVE  /\ db'.outbox[<<id, v>>].recorded => v <= db'.tasks[id].version
             /\ db'.outbox[<<id, v>>].due => db'.outbox[<<id, v>>].recorded
  <2>1. PICK e \in Events : e = <<id, v>>
      BY Zenon DEF Events
  <2>2. /\ db.tasks[id].version \in Nat /\ db'.tasks[id].version \in Nat
        /\ db.tasks[id].version <= db'.tasks[id].version
      BY <1>1, CommitFacts, Zenon
  <2>3. /\ db.outbox[e].recorded => v <= db.tasks[id].version
        /\ db.outbox[e].due => db.outbox[e].recorded
      BY <1>2, <2>1, Zenon DEF Committed
  <2>4. v \in Nat
      BY ScopesAssumption
  <2>5. db.outbox[e].recorded => v <= db'.tasks[id].version
      BY ONLY <2>2, <2>3, <2>4
  <2>6. CASE e \notin DOMAIN edits.outbox
    <3>1. db'.outbox[e] = db.outbox[e]
        BY <1>1, <2>6, CommitFacts
    <3> QED
        BY <2>1, <2>3, <2>5, <3>1, Zenon
  <2>7. CASE e \in DOMAIN edits.outbox
    <3>1. db'.outbox[e] = edits.outbox[e] /\ edits.outbox[e].recorded
        BY <1>1, <1>2, <2>7, LatestFacts, DoneFacts, Zenon
    <3>2. v <= db'.tasks[id].version
      <4>1. ASSUME NEW i \in DOMAIN edits.tasks, e = <<i, edits.tasks[i].version>>
            PROVE  v <= db'.tasks[id].version
        <5>1. i = id /\ edits.tasks[id].version = v
            BY <2>1, <4>1
        <5>2. db'.tasks[id] = edits.tasks[id]
            BY <1>1, <1>2, <4>1, <5>1, LatestFacts, Zenon
        <5> QED
            BY <2>4, <5>1, <5>2
      <4> QED
          BY <1>1, <1>2, <2>5, <2>7, <4>1, DoneFacts
    <3> QED
        BY <2>1, <3>1, <3>2, Zenon
  <2> QED
      BY <2>6, <2>7, Zenon
<1> QED
    BY <1>3, <1>4, Zenon DEF Committed

\* A scope that is open when another commits is where it was: they share no row.
LEMMA CommitStaged ==
    ASSUME Inv, NEW s \in Scopes, Commit(s), NEW q \in Scopes \ {s}, scopes'[q] = scopes[q]
    PROVE  Staged(q, scopes[q])'
<1>1. PICK edits : edits = scopes[s].edits
    BY Zenon
<1>2. PICK d : d = scopes[q] /\ d = scopes'[q]
    BY Zenon
<1>3. Staged(q, d) /\ Apart(d, scopes[s]) /\ d \in Scope
    BY <1>2, Zenon DEF Inv, PInv, ScopeTypes
<1>4. \A id \in TaskIDs : id \in DOMAIN d.edits.tasks =>
          db'.tasks[id] = db.tasks[id] /\ db'.history[id] = db.history[id]
    BY <1>1, <1>3, CommitFacts DEF Apart
<1>5. \A e \in Events : e \in DOMAIN d.edits.outbox => db'.outbox[e] = db.outbox[e]
    BY <1>1, <1>3, CommitFacts DEF Apart
<1>6. DOMAIN d.edits.tasks \subseteq TaskIDs /\ DOMAIN d.edits.outbox \subseteq Events
  <2>1. d.edits.tasks \in Partial(TaskIDs, TaskRow) /\ d.edits.outbox \in Partial(Events, EventRow)
      BY <1>3, Zenon DEF Scope, EditSet
  <2> QED
      BY <2>1, PartialFacts
<1>7. Fresh(d) => Fresh(scopes[q])'
    BY <1>2, Zenon DEF Fresh
<1>8. \A v \in Nat : Writing(d, v) => Writing(scopes[q], v)'
  <2> SUFFICES ASSUME NEW v \in Nat, Writing(d, v) PROVE Writing(scopes[q], v)'
      BY Zenon
  <2>1. d.id \in DOMAIN d.edits.tasks /\ d.id \in TaskIDs
      BY Zenon DEF Writing, Wrote
  <2>2. db'.tasks[d.id] = db.tasks[d.id] /\ db'.history[d.id] = db.history[d.id]
      BY <1>4, <2>1, Zenon
  <2> QED
      BY <1>2, <2>2, Zenon DEF Writing, Wrote, WrotePool, WroteOutcome
<1>9. Sweeping(q, d) => Sweeping(q, scopes[q])'
    BY <1>2, <1>4, <1>6 DEF Sweeping, Wrote
<1>10. Relaying(q, d) => Relaying(q, scopes[q])'
    BY <1>2, <1>5, <1>6, Zenon DEF Relaying, Wrote
<1>11. Settling(d) => Settling(scopes[q])'
    BY <1>2, <1>5, Zenon DEF Settling, Wrote
<1> QED
    BY <1>3, <1>7, <1>8, <1>9, <1>10, <1>11, Zenon DEF Staged

\* What it has read, and what it has answered, stays as sound as it was.
LEMMA CommitSound ==
    ASSUME Inv, NEW s \in Scopes, Commit(s), NEW q \in Scopes \ {s}, scopes'[q] = scopes[q]
    PROVE  Sound(q, scopes[q])'
<1>1. PICK edits : edits = scopes[s].edits
    OBVIOUS
<1>2. PICK d : d = scopes[q] /\ d = scopes'[q]
    OBVIOUS
<1>3. /\ Staged(q, d) /\ Apart(d, scopes[s]) /\ d \in Scope /\ Sound(q, d)
      /\ LocksKept(d, scopes[s]) /\ OneWrites(d, scopes[s])
    BY <1>2, Zenon DEF Inv, PInv, VInv, ScopeTypes
<1>4. dialect' = dialect /\ db \in Tables /\ db' \in Tables
    BY <1>1, CommitFacts, Zenon DEF Commit, Inv, PInv, ScopeTypes
<1>5. \A id \in TaskIDs :
          /\ db.tasks[id].version \in Nat /\ db'.tasks[id].version \in Nat
          /\ db.tasks[id].version <= db'.tasks[id].version
          /\ \A w \in Nat : 0 < w /\ w <= db.tasks[id].version => written'[id][w] = written[id][w]
    BY <1>1, CommitFacts, Zenon
<1>6. \A id \in DOMAIN d.edits.tasks : id \in TaskIDs /\ id \notin DOMAIN edits.tasks
  <2>1. d.edits.tasks \in Partial(TaskIDs, TaskRow)
      BY <1>3, Zenon DEF Scope, EditSet
  <2> QED
      BY <1>1, <1>3, <2>1, PartialFacts, Zenon DEF Apart
<1>7. \A id \in DOMAIN d.edits.tasks :
          db'.tasks[id] = db.tasks[id] /\ db'.candidates[id] = db.candidates[id]
    BY <1>1, <1>6, CommitFacts
<1>8. (scopes[q].snapshot # << >> => Past(scopes[q].snapshot))'
  <2> SUFFICES ASSUME d.snapshot # << >>, NEW id \in TaskIDs
               PROVE  /\ d.snapshot.tasks[id].version <= db'.tasks[id].version
                      /\ d.snapshot.tasks[id].version > 0 =>
                             d.snapshot.candidates[id] = written'[id][d.snapshot.tasks[id].version]
      BY <1>2, Zenon DEF Past
  <2>1. PICK v \in Nat : v = d.snapshot.tasks[id].version
    <3>1. d.snapshot \in Tables
        BY <1>3, Zenon DEF Scope
    <3> QED
        BY <3>1, RowTypes, Zenon
  <2>2. v <= db.tasks[id].version /\ (v > 0 => d.snapshot.candidates[id] = written[id][v])
      BY <1>3, <2>1, Zenon DEF Sound, Past
  <2> QED
      BY ONLY <1>5, <2>1, <2>2
<1>9. ReadSound(scopes[q])'
  <2> SUFFICES ASSUME d.op = "update"
               PROVE  /\ d.at = "attach" => 0 < d.read.version
                             /\ d.read.version <= (IF d.snapshot = << >> THEN db' ELSE d.snapshot).tasks[d.id].version
                      /\ d.at = "write" => 0 < d.read.version /\ PoolBetween(scopes[q])'
                      /\ d.at \in {"candidates", "append", "commit"} =>
                             d.read.pool = written'[d.id][d.read.version]
      BY <1>2, Zenon DEF ReadSound, Base
  <2>1. ReadSound(d) /\ d.id \in TaskIDs
    <3>1. d.id \in TaskIDs
        BY <1>3, Zenon DEF Staged, Fresh, Writing, Sweeping, Relaying, Settling
    <3> QED
        BY <1>3, <3>1, Zenon DEF Sound
  <2>2. PICK r \in Nat : r = d.read.version
      BY <1>3, Zenon DEF Scope, TaskRead
  <2>3. PICK n \in Nat : n = db.tasks[d.id].version
      BY <1>5, <2>1, Zenon
  <2>4. PICK m \in Nat : m = db'.tasks[d.id].version /\ n <= m
      BY <1>5, <2>1, <2>3, Zenon
  <2>5. \A w \in Nat : 0 < w /\ w <= n => written'[d.id][w] = written[d.id][w]
      BY <1>5, <2>1, <2>3, Zenon
  <2>6. ASSUME d.at = "attach"
        PROVE  0 < r /\ r <= (IF d.snapshot = << >> THEN db' ELSE d.snapshot).tasks[d.id].version
    <3>1. 0 < r /\ r <= Base(d).tasks[d.id].version
        BY <2>1, <2>2, <2>6, Zenon DEF ReadSound
    <3>2. CASE d.snapshot = << >>
        BY <2>2, <2>3, <2>4, <3>1, <3>2 DEF Base
    <3>3. CASE d.snapshot # << >>
        BY <3>1, <3>3, Zenon DEF Base
    <3> QED
        BY <3>2, <3>3, Zenon
  <2>7. ASSUME d.at = "write"
        PROVE  0 < r /\ PoolBetween(scopes[q])'
    <3>1. 0 < r /\ PoolBetween(d)
        BY <2>1, <2>2, <2>7, Zenon DEF ReadSound
    <3>2. PICK w \in Nat : r <= w /\ w <= n /\ d.read.pool = written[d.id][w]
        BY <2>2, <2>3, <3>1, Zenon DEF PoolBetween
    <3>3. r <= w /\ w <= m /\ d.read.pool = written'[d.id][w]
        BY <2>4, <2>5, <3>1, <3>2
    <3> QED
        BY <1>2, <2>2, <2>4, <3>1, <3>3, Zenon DEF PoolBetween
  <2>8. ASSUME d.at \in {"candidates", "append", "commit"}
        PROVE  d.read.pool = written'[d.id][r]
    <3>1. d.read.pool = written[d.id][r]
        BY <2>1, <2>2, <2>8, Zenon DEF ReadSound
    <3>2. PICK v \in Nat : Writing(d, v)
        BY <1>3, <2>8, Zenon DEF Staged, Fresh, Sweeping, Relaying, Settling
    <3>3. 0 < r /\ r <= n
        BY <2>2, <2>3, <3>2 DEF Writing
    <3> QED
        BY <2>5, <3>1, <3>3, Zenon
  <2> QED
      BY <2>2, <2>6, <2>7, <2>8, Zenon
<1>10. AnswersSound(q, scopes[q])'
  <2>1. AnswersSound(q, d)
      BY <1>3, Zenon DEF Sound
  <2>2. \A id \in DOMAIN d.edits.tasks : Claimed(q, id)' = Claimed(q, id)
      BY <1>7, Zenon DEF Claimed
  <2>3. \A e : Taken(q, e)' = Taken(q, e)
      BY DEF Taken
  <2>4. ASSUME d.op = "sweep", d.at = "claim"
        PROVE  d.answers = {Claimed(q, id)' : id \in DOMAIN d.edits.tasks}
    <3>1. d.answers = {Claimed(q, id) : id \in DOMAIN d.edits.tasks}
        BY <2>1, <2>4, Zenon DEF AnswersSound
    <3> QED
        BY <2>2, <3>1, Zenon
  <2>5. ASSUME d.op = "sweep", d.at \in {"task", "attach"}
        PROVE  d.answers = {Claimed(q, id)' : id \in DOMAIN d.edits.tasks \ {d.id}}
    <3>1. d.answers = {Claimed(q, id) : id \in DOMAIN d.edits.tasks \ {d.id}}
        BY <2>1, <2>5, Zenon DEF AnswersSound
    <3> QED
        BY <2>2, <3>1, Zenon
  <2>6. ASSUME d.op = "sweep", d.at = "attach"
        PROVE  d.read.version = db'.tasks[d.id].version /\ d.read.lease = q
    <3>1. d.id \in DOMAIN d.edits.tasks
        BY <1>3, <2>6, Zenon DEF Staged, Fresh, Writing, Sweeping, Relaying, Settling
    <3>2. d.read.version = db.tasks[d.id].version /\ d.read.lease = q
        BY <2>1, <2>6, Zenon DEF AnswersSound
    <3> QED
        BY <1>7, <3>1, <3>2, Zenon
  <2> QED
      BY <1>2, <2>1, <2>3, <2>4, <2>5, <2>6, Zenon DEF AnswersSound
<1>11. SnapshotAgrees(scopes[q])'
  <2> SUFFICES ASSUME d.op = "sweep", d.snapshot # << >>
               PROVE  /\ dialect = "mysql" =>
                             \A id \in d.locks : d.snapshot.candidates[id] = db'.candidates[id]
                      /\ dialect = "sqlite" => d.edits = NoEdits \/ d.snapshot = db'
      BY <1>2, <1>3, <1>4, Zenon DEF SnapshotAgrees, Sound
  <2>1. SnapshotAgrees(d)
      BY <1>3, Zenon DEF Sound
  <2>2. ASSUME dialect = "mysql", NEW id \in d.locks
        PROVE  d.snapshot.candidates[id] = db'.candidates[id]
    <3>1. id \in TaskIDs /\ id \notin DOMAIN edits.tasks
        BY <1>1, <1>3, <2>1, Zenon DEF LocksKept, SnapshotAgrees
    <3>2. db'.candidates[id] = db.candidates[id]
        BY <1>1, <3>1, CommitFacts
    <3> QED
        BY <2>1, <2>2, <3>2, Zenon DEF SnapshotAgrees
  <2>3. ASSUME dialect = "sqlite", d.edits # NoEdits PROVE d.snapshot = db'
    <3>1. edits = NoEdits
        BY <1>1, <1>3, <2>3, Zenon DEF OneWrites
    <3>2. /\ \A id \in TaskIDs : /\ db'.tasks[id] = db.tasks[id]
                                 /\ db'.candidates[id] = db.candidates[id]
                                 /\ db'.history[id] = db.history[id]
          /\ \A e \in Events : db'.outbox[e] = db.outbox[e]
      <4>1. DOMAIN edits.tasks = {} /\ DOMAIN edits.outbox = {}
          BY <3>1, NoEditsFacts, Zenon
      <4> QED
          BY <1>1, <4>1, CommitFacts
    <3>3. db' = db
        BY <1>4, <3>2, SameTables, Zenon
    <3> QED
        BY <2>1, <2>3, <3>3, Zenon DEF SnapshotAgrees
  <2> QED
      BY <2>2, <2>3, Zenon
<1> QED
    BY <1>8, <1>9, <1>10, <1>11, Zenon DEF Sound

LEMMA CommitInv ==
    ASSUME Inv, NEW s \in Scopes, Commit(s)
    PROVE  Inv'
<1>1. PICK edits : edits = scopes[s].edits
    OBVIOUS
<1>2. scopes' = [scopes EXCEPT ![s] = Closed] /\ dialect' = dialect
    BY Zenon DEF Commit
<1>3. \A q \in Scopes : scopes'[q] = IF q = s THEN Closed ELSE scopes[q]
    BY <1>2, Zenon DEF Inv, PInv, ScopeTypes
<1>4. Unused(Closed) /\ Closed \in Scope /\ Closed.op = "none" /\ Closed.at = "idle"
    BY ClosedFacts, Zenon DEF Closed
<1>5. ScopeTypes'
    BY <1>1, <1>2, <1>4, CommitFacts, Zenon DEF Inv, PInv, ScopeTypes
<1>6. \A q \in Scopes : Staged(q, scopes[q])'
  <2> SUFFICES ASSUME NEW q \in Scopes PROVE Staged(q, scopes[q])'
      BY Zenon
  <2>1. CASE q = s
    <3>1. scopes'[q] = Closed
        BY <1>3, <2>1, Zenon
    <3>2. Fresh(scopes[q])'
        BY <1>4, <3>1, Zenon DEF Fresh, Unused
    <3> QED
        BY <3>2, Zenon DEF Staged
  <2>2. CASE q # s
      BY <1>3, <2>2, CommitStaged, Zenon
  <2> QED
      BY <2>1, <2>2, Zenon
<1>7. \A q \in Scopes : Sound(q, scopes[q])'
  <2> SUFFICES ASSUME NEW q \in Scopes PROVE Sound(q, scopes[q])'
      OBVIOUS
  <2>1. CASE q = s
    <3>1. scopes'[q] = Closed
        BY <1>3, <2>1
    <3> QED
        BY <1>4, <3>1, Zenon DEF Unused, Sound, ReadSound, AnswersSound, SnapshotAgrees
  <2>2. CASE q # s
      BY <1>3, <2>2, CommitSound
  <2> QED
      BY <2>1, <2>2
<1>8. VersionsWritten'
    BY <1>1, CommitFacts, Zenon DEF VersionsWritten
<1>9. \A p, q \in Scopes : p # q =>
          (/\ Apart(scopes[p], scopes[q]) /\ LocksKept(scopes[p], scopes[q])
           /\ OneWrites(scopes[p], scopes[q]))'
  <2> SUFFICES ASSUME NEW p \in Scopes, NEW q \in Scopes, p # q
               PROVE  /\ Apart(scopes[p], scopes[q])' /\ LocksKept(scopes[p], scopes[q])'
                      /\ OneWrites(scopes[p], scopes[q])'
      BY Zenon
  <2>1. PICK a, b : a = scopes'[p] /\ b = scopes'[q]
      OBVIOUS
  <2>2. /\ a.edits = NoEdits \/ a = scopes[p]
        /\ b.edits = NoEdits \/ b = scopes[q]
        /\ a.op = "none" \/ a = scopes[p]
      BY <1>3, <1>4, <2>1, Zenon DEF Unused
  <2>3. /\ Apart(scopes[p], scopes[q]) /\ LocksKept(scopes[p], scopes[q])
        /\ OneWrites(scopes[p], scopes[q])
      BY Zenon DEF Inv, PInv, VInv
  <2>4. Apart(a, b)
      BY <2>2, <2>3, NoEditsFacts, Zenon DEF Apart
  <2>5. LocksKept(a, b)
      BY <2>2, <2>3, NoEditsFacts, Zenon DEF LocksKept
  <2>6. OneWrites(a, b)
      BY <2>2, <2>3, Zenon DEF OneWrites
  <2>7. Apart(scopes[p], scopes[q])'
      BY <2>1, <2>4, Zenon DEF Apart
  <2>8. LocksKept(scopes[p], scopes[q])'
      BY <2>1, <2>5, Zenon DEF LocksKept
  <2>9. OneWrites(scopes[p], scopes[q])'
      BY <1>2, <2>1, <2>6, Zenon DEF OneWrites
  <2> QED
      BY <2>7, <2>8, <2>9, Zenon
<1>10. PInv'
    BY <1>5, <1>6, <1>9, CommitCommitted, Zenon DEF PInv
<1>11. VInv'
    BY <1>7, <1>8, <1>9, Zenon DEF VInv
<1> QED
    BY <1>10, <1>11, Zenon DEF Inv

(* The theorems *********************************************************)

LEMMA InitInv == ScopesInit => Inv
<1> SUFFICES ASSUME ScopesInit PROVE Inv
    BY Zenon
<1>1. db \in Tables
  <2>1. db.tasks \in [TaskIDs -> TaskRow]
      BY Zenon DEF ScopesInit, TaskRow, Owner
  <2>2. db.candidates \in [TaskIDs -> Candidates] /\ db.history \in [TaskIDs -> Seq(Nat)]
      BY DEF ScopesInit, Candidates
  <2>3. db.outbox \in [Events -> EventRow]
      BY Zenon DEF ScopesInit, EventRow, Owner
  <2>4. db = [tasks |-> db.tasks, candidates |-> db.candidates, history |-> db.history,
              outbox |-> db.outbox]
      BY Zenon DEF ScopesInit
  <2> QED
      BY <2>1, <2>2, <2>3, <2>4, Zenon DEF Tables
<1>2. Unused(Closed) /\ Closed \in Scope /\ Closed.op = "none" /\ Closed.at = "idle"
    BY ClosedFacts, Zenon DEF Closed
<1>3. \A s \in Scopes : scopes[s] = Closed
    BY Zenon DEF ScopesInit
<1>4. ScopeTypes
    BY <1>1, <1>2 DEF ScopeTypes, ScopesInit
<1>5. \A s \in Scopes : Staged(s, scopes[s])
    BY <1>2, <1>3, Zenon DEF Staged, Fresh, Unused
<1>6. \A s \in Scopes : Sound(s, scopes[s])
    BY <1>2, <1>3, Zenon DEF Unused, Sound, ReadSound, AnswersSound, SnapshotAgrees
<1>7. \A s, q \in Scopes : /\ Apart(scopes[s], scopes[q]) /\ LocksKept(scopes[s], scopes[q])
                           /\ OneWrites(scopes[s], scopes[q])
    BY <1>2, <1>3, NoEditsFacts, Zenon DEF Unused, Apart, LocksKept, OneWrites
<1>8. Committed
  <2>1. \A e \in Events : db.outbox[e].recorded = FALSE /\ db.outbox[e].due = FALSE
      BY Zenon DEF ScopesInit
  <2>2. \A id \in TaskIDs : db.tasks[id].lease = Nobody /\ db.candidates[id] = NoPool
      BY Zenon DEF ScopesInit
  <2>3. \A id \in TaskIDs, v \in 1..MaxVersion : <<id, v>> \in Events
      BY DEF Events
  <2> QED
      BY <2>1, <2>2, <2>3, Zenon DEF Committed
<1>9. VersionsWritten
  <2>1. \A id \in TaskIDs : written[id] = << >> /\ db.tasks[id].version = 0
      BY Zenon DEF ScopesInit
  <2>2. Len(<< >>) = 0 /\ ~(0 > 0)
      OBVIOUS
  <2>3. \A id \in TaskIDs : Len(written[id]) = db.tasks[id].version /\ ~(db.tasks[id].version > 0)
      BY <2>1, <2>2, Zenon
  <2> QED
      BY <2>3, Zenon DEF VersionsWritten
<1> QED
    BY <1>4, <1>5, <1>6, <1>7, <1>8, <1>9, Zenon DEF Inv, PInv, VInv

LEMMA NextInv == ASSUME Inv, [ScopesNext]_scopeVars PROVE Inv'
<1>1. CASE ScopesNext
    BY <1>1, OpensInv, StatementInv, CommitInv, Zenon DEF ScopesNext
<1>2. CASE UNCHANGED scopeVars
  <2>1. dialect' = dialect /\ db' = db /\ scopes' = scopes /\ written' = written
      BY <1>2, Zenon DEF scopeVars
  <2>2. ScopeTypes' /\ Committed' /\ VersionsWritten'
      BY <2>1, Zenon DEF Inv, PInv, VInv, ScopeTypes, Committed, VersionsWritten
  <2>3. ASSUME NEW s \in Scopes PROVE Inv'
    <3>1. scopes[s] \in Scope /\ Goes(s, scopes[s])
        BY <2>1, Zenon DEF Goes, Inv, PInv, ScopeTypes
    <3>2. Fits(s, scopes[s])
        BY <3>1, MeetsAsBefore, Zenon DEF Fits, Inv, PInv, VInv
    <3> QED
        BY <3>1, <3>2, GoesInv, Zenon
  <2>4. CASE Scopes = {}
      BY <2>2, <2>4, Zenon DEF Inv, PInv, VInv
  <2> QED
      BY <2>3, <2>4, Zenon
<1> QED
    BY <1>1, <1>2, Zenon

\* The invariant that the results below rest on: scopes that run side by side write
\* no row in common, what each has written builds on what is committed, and what it
\* has read is of versions that were written.
THEOREM ScopesInvariance == ScopesSpec => []Inv
<1>1. ScopesInit => Inv
    BY InitInv, Zenon
<1>2. Inv /\ [ScopesNext]_scopeVars => Inv'
    BY NextInv, Zenon
<1> QED
    BY <1>1, <1>2, PTL DEF ScopesSpec

\* On every database, for any number of scopes: an update writes only what it read of
\* one version (UpdateTask's condition), and a claim answers the rows it holds, as
\* they are when it commits.
THEOREM OneVersionSeen == ScopesSpec => []ScopesSeeOneVersion
<1>1. Inv => ScopesSeeOneVersion
  <2> SUFFICES ASSUME Inv PROVE ScopesSeeOneVersion
      OBVIOUS
  <2>1. WritesRestOnOneVersion
      BY Zenon DEF Inv, VInv, Sound, ReadSound, WritesRestOnOneVersion
  <2>2. ClaimsAnswerTrue
    <3> SUFFICES ASSUME NEW s \in Scopes, Done(s), scopes[s].op \in {"sweep", "relay"}
                 PROVE  /\ scopes[s].op = "sweep" =>
                               scopes[s].answers =
                                   {[row |-> id, entry |-> [version |-> db.tasks[id].version, lease |-> s,
                                                            pool |-> db.candidates[id]]] :
                                       id \in DOMAIN scopes[s].edits.tasks}
                        /\ scopes[s].op = "relay" =>
                               scopes[s].answers =
                                   {[row |-> e, entry |-> [db.outbox[e] EXCEPT !.lease = s]] :
                                       e \in DOMAIN scopes[s].edits.outbox}
        BY Zenon DEF ClaimsAnswerTrue
    <3>1. AnswersSound(s, scopes[s])
        BY Zenon DEF Inv, VInv, Sound
    <3>2. CASE scopes[s].op = "sweep"
      <4>1. scopes[s].at = "claim"
          BY <3>2, StageFacts, Zenon DEF Done, Sweeping
      <4> QED
          BY <3>1, <3>2, <4>1 DEF AnswersSound, Claimed
    <3>3. CASE scopes[s].op = "relay"
      <4>1. Relaying(s, scopes[s]) /\ scopes[s].at = "claim"
          BY <3>3, StageFacts, Zenon DEF Done, Relaying
      <4>2. scopes[s].answers = {Taken(s, e) : e \in DOMAIN scopes[s].edits.outbox}
          BY <3>1, <3>3, <4>1, Zenon DEF AnswersSound
      <4>3. \A e \in DOMAIN scopes[s].edits.outbox :
                Taken(s, e) = [row |-> e, entry |-> [db.outbox[e] EXCEPT !.lease = s]]
          BY <4>1, Zenon DEF Relaying, Taken
      <4> QED
          BY <3>3, <4>2, <4>3, Zenon
    <3> QED
        BY <3>2, <3>3, Zenon
  <2> QED
      BY <2>1, <2>2, Zenon DEF ScopesSeeOneVersion
<1> QED
    BY <1>1, ScopesInvariance, PTL

(* The port *************************************************************)

\* A task as the engine sees it, and one that is not there.
Task(rows, id) ==
    [version |-> rows.tasks[id].version, lease |-> rows.tasks[id].lease, pool |-> rows.candidates[id]]

\* A commit writes the rows of its scope and leaves the others.
LEMMA CommitRows ==
    ASSUME Inv, NEW s \in Scopes, Commit(s), NEW edits, edits = scopes[s].edits
    PROVE  /\ \A id \in TaskIDs : db'.tasks[id] =
                  IF id \in DOMAIN edits.tasks THEN edits.tasks[id] ELSE db.tasks[id]
           /\ \A id \in TaskIDs : db'.candidates[id] =
                  IF id \in DOMAIN edits.candidates THEN edits.candidates[id] ELSE db.candidates[id]
           /\ \A id \in TaskIDs : db'.history[id] =
                  IF id \in DOMAIN edits.history THEN edits.history[id] ELSE db.history[id]
           /\ \A e \in Events : db'.outbox[e] =
                  IF e \in DOMAIN edits.outbox THEN edits.outbox[e] ELSE db.outbox[e]
           /\ db' \in Tables /\ db \in Tables
<1>1. ScopeTypes /\ db' = Latest(s) /\ db \in Tables
    BY Zenon DEF Inv, PInv, Commit, ScopeTypes
<1> QED
    BY <1>1, LatestFacts

\* A commit of a create or an update is a write of the port, of one version of one task.
LEMMA WritingCommits ==
    ASSUME Inv, NEW s \in Scopes, Commit(s), NEW v \in Nat, Writing(scopes[s], v)
    PROVE  Port!PortNext
<1>1. PICK edits : edits = scopes[s].edits
    BY Zenon
<1>2. PICK id \in TaskIDs : id = scopes[s].id
    BY Zenon DEF Writing
<1>3. /\ Wrote(edits, {id}, {id}, {id}, {<<id, v>>}) /\ v = db.tasks[id].version + 1 /\ v <= MaxVersion
      /\ edits.tasks[id].version = v /\ edits.candidates[id] \in Pools
      /\ edits.history[id] = Append(db.history[id], v)
      /\ edits.outbox[<<id, v>>] = OutboxRow
    BY <1>1, <1>2, Zenon DEF Writing, Commit, Done, WrotePool, WroteOutcome
<1>4. PICK pool \in Pools : pool = edits.candidates[id]
    BY <1>3, Zenon
<1>5. PICK row \in TaskRow : row = edits.tasks[id]
  <2>1. edits.tasks \in Partial(TaskIDs, TaskRow)
      BY <1>1, Zenon DEF Inv, PInv, ScopeTypes, Scope, EditSet
  <2> QED
      BY <1>3, <2>1, PartialFacts, Zenon DEF Wrote
<1>6. PICK lease \in Owner : lease = row.lease
    BY Zenon DEF TaskRow
<1>7. DOMAIN edits.tasks = {id} /\ DOMAIN edits.candidates = {id} /\ DOMAIN edits.history = {id}
      /\ DOMAIN edits.outbox = {<<id, v>>}
    BY <1>3, Zenon DEF Wrote
<1>8. \A i \in TaskIDs :
          /\ i # id => /\ db'.tasks[i] = db.tasks[i] /\ db'.candidates[i] = db.candidates[i]
                       /\ db'.history[i] = db.history[i]
          /\ i = id => /\ db'.tasks[i].version = v /\ db'.tasks[i].lease = lease
                       /\ db'.candidates[i] = pool /\ db'.history[i] = Append(db.history[i], v)
  <2> SUFFICES ASSUME NEW i \in TaskIDs
               PROVE  /\ i # id => /\ db'.tasks[i] = db.tasks[i] /\ db'.candidates[i] = db.candidates[i]
                                   /\ db'.history[i] = db.history[i]
                      /\ i = id => /\ db'.tasks[i].version = v /\ db'.tasks[i].lease = lease
                                   /\ db'.candidates[i] = pool
                                   /\ db'.history[i] = Append(db.history[i], v)
      BY Zenon
  <2>1. /\ db'.tasks[i] = IF i \in DOMAIN edits.tasks THEN edits.tasks[i] ELSE db.tasks[i]
        /\ db'.candidates[i] =
               IF i \in DOMAIN edits.candidates THEN edits.candidates[i] ELSE db.candidates[i]
        /\ db'.history[i] = IF i \in DOMAIN edits.history THEN edits.history[i] ELSE db.history[i]
      BY <1>1, CommitRows
  <2>2. CASE i # id
      BY <1>7, <2>1, <2>2, Zenon
  <2>3. CASE i = id
    <3>1. db'.tasks[i] = row /\ db'.candidates[i] = pool /\ db'.history[i] = Append(db.history[i], v)
        BY <1>3, <1>4, <1>5, <1>7, <2>1, <2>3, Zenon
    <3> QED
        BY <1>3, <1>5, <1>6, <2>3, <3>1, Zenon
  <2> QED
      BY <2>2, <2>3, Zenon
<1>9. db.history \in [TaskIDs -> Seq(Nat)] /\ db'.history \in [TaskIDs -> Seq(Nat)]
      /\ db.outbox \in [Events -> EventRow] /\ db'.outbox \in [Events -> EventRow]
    BY <1>1, CommitRows, Zenon DEF Tables
<1>10. Port!Write(id, pool, lease)
  <2>1. [i \in TaskIDs |-> Task(db', i)] =
            [[i \in TaskIDs |-> Task(db, i)] EXCEPT ![id] = [version |-> v, lease |-> lease, pool |-> pool]]
      BY <1>8, Zenon DEF Task
  <2>2. db'.history = [db.history EXCEPT ![id] = Append(@, v)]
      BY <1>8, <1>9, Zenon
  <2>3. db'.outbox = [db.outbox EXCEPT ![<<id, v>>] = OutboxRow]
    <3>1. \A e \in Events : db'.outbox[e] = IF e = <<id, v>> THEN OutboxRow ELSE db.outbox[e]
      <4>1. \A e \in Events : db'.outbox[e] =
                IF e \in DOMAIN edits.outbox THEN edits.outbox[e] ELSE db.outbox[e]
          BY <1>1, CommitRows
      <4> QED
          BY <1>3, <1>7, <4>1, Zenon
    <3> QED
        BY <1>9, <3>1, Zenon
  <2>4. [i \in TaskIDs |-> Task(db, i)][id].version + 1 = v
      BY <1>3, Zenon DEF Task
  <2> QED
      BY <1>3, <2>1, <2>2, <2>3, <2>4, Zenon DEF Port!Write, Port!BornDue, OutboxRow, Task, Port!Nobody, Nobody
<1>11. CASE scopes[s].op = "create"
  <2>1. lease = Nobody /\ v = 1
      BY <1>1, <1>2, <1>5, <1>6, <1>11, Zenon DEF Writing
  <2>2. db.tasks[id].version = 0 /\ db.tasks[id].lease = Nobody /\ db.candidates[id] = NoPool
    <3>1. db.tasks[id].version \in Nat
        BY <1>1, CommitRows, RowTypes, Zenon
    <3>2. db.tasks[id].version = 0
        BY <1>3, <2>1, <3>1
    <3> QED
        BY <3>2, Zenon DEF Inv, PInv, Committed
  <2>3. Port!Create(id, pool)
      BY <1>10, <2>1, <2>2, Zenon DEF Port!Create, Port!NoTask, Port!Nobody, Port!NoPool, Nobody, NoPool
  <2> QED
      BY <2>3, Zenon DEF Port!PortNext
<1>12. CASE scopes[s].op = "update"
  <2>1. db.tasks[id].version # 0
    <3>1. v > 1
        BY <1>12, Zenon DEF Writing
    <3> QED
        BY <1>3, <3>1
  <2>2. Port!Update(id, pool, lease)
      BY <1>10, <2>1, Zenon DEF Port!Update, Port!NoTask
  <2> QED
      BY <2>2, Zenon DEF Port!PortNext, Port!Nobody, Nobody, Owner
<1> QED
    BY <1>11, <1>12, Zenon DEF Writing

\* A commit of a sweep claims, in one step, tasks that are free by then.
LEMMA SweepingCommits ==
    ASSUME Inv, NEW s \in Scopes, Commit(s), Sweeping(s, scopes[s])
    PROVE  Port!PortNext
<1>1. PICK edits : edits = scopes[s].edits
    BY Zenon
<1>2. Wrote(edits, DOMAIN edits.tasks, {}, {}, {})
    BY <1>1, Zenon DEF Sweeping
<1>3. PICK ids \in SUBSET TaskIDs : ids = DOMAIN edits.tasks
    BY <1>1, DoneFacts, Zenon DEF Commit
<1>4. \A id \in ids : /\ db.tasks[id].version > 0 /\ db.tasks[id].lease = Nobody
                      /\ edits.tasks[id] = [version |-> db.tasks[id].version, lease |-> s]
    BY <1>1, <1>3, Zenon DEF Sweeping
<1>5. \A id \in TaskIDs : Task(db', id) = IF id \in ids THEN [Task(db, id) EXCEPT !.lease = s]
                                          ELSE Task(db, id)
  <2> SUFFICES ASSUME NEW id \in TaskIDs
               PROVE  Task(db', id) = IF id \in ids THEN [Task(db, id) EXCEPT !.lease = s]
                                      ELSE Task(db, id)
      OBVIOUS
  <2>1. db'.candidates[id] = db.candidates[id]
      BY <1>1, <1>2, CommitRows DEF Wrote
  <2>2. CASE id \in ids
    <3>1. db'.tasks[id].version = db.tasks[id].version /\ db'.tasks[id].lease = s
      <4>1. db'.tasks[id] = edits.tasks[id]
          BY <1>1, <1>3, <2>2, CommitRows, Zenon
      <4>2. db'.tasks[id] = [version |-> db.tasks[id].version, lease |-> s]
          BY <1>4, <2>2, <4>1, Zenon
      <4> QED
          BY <4>2
    <3> QED
        BY <2>1, <2>2, <3>1, Zenon DEF Task
  <2>3. CASE id \notin ids
    <3>1. db'.tasks[id] = db.tasks[id]
        BY <1>1, <1>3, <2>3, CommitRows
    <3> QED
        BY <2>1, <2>3, <3>1, Zenon DEF Task
  <2> QED
      BY <2>2, <2>3
<1>6. db'.history = db.history /\ db'.outbox = db.outbox
  <2>1. /\ \A id \in TaskIDs : db'.history[id] = db.history[id]
        /\ \A e \in Events : db'.outbox[e] = db.outbox[e]
      BY <1>1, <1>2, CommitRows DEF Wrote
  <2>2. db.history \in [TaskIDs -> Seq(Nat)] /\ db'.history \in [TaskIDs -> Seq(Nat)]
        /\ db.outbox \in [Events -> EventRow] /\ db'.outbox \in [Events -> EventRow]
      BY <1>1, CommitRows, Zenon DEF Tables
  <2> QED
      BY <2>1, <2>2
<1>7. \A id \in ids : /\ Task(db, id) # [version |-> 0, lease |-> Nobody, pool |-> NoPool]
                      /\ Task(db, id).lease = Nobody
  <2> SUFFICES ASSUME NEW id \in ids
               PROVE  /\ Task(db, id) # [version |-> 0, lease |-> Nobody, pool |-> NoPool]
                      /\ Task(db, id).lease = Nobody
      BY Zenon
  <2>1. Task(db, id).version = db.tasks[id].version /\ Task(db, id).lease = db.tasks[id].lease
      BY Zenon DEF Task
  <2>2. Task(db, id).version > 0 /\ Task(db, id).lease = Nobody
      BY <1>4, <2>1, Zenon
  <2>3. [version |-> 0, lease |-> Nobody, pool |-> NoPool].version = 0
      BY Zenon
  <2> QED
      BY <2>2, <2>3
<1>8. Port!ClaimOverdue(s, ids)
    BY <1>5, <1>6, <1>7, Zenon DEF Port!ClaimOverdue, Port!NoTask, Port!Nobody, Port!NoPool, Nobody, NoPool, Task
<1> QED
    BY <1>8, Zenon DEF Port!PortNext

\* A scope that wrote only events leaves tasks and their records alone.
LEMMA EventCommits ==
    ASSUME Inv, NEW s \in Scopes, Commit(s), NEW events, Wrote(scopes[s].edits, {}, {}, {}, events)
    PROVE  /\ \A id \in TaskIDs : Task(db', id) = Task(db, id)
           /\ db'.history = db.history
           /\ db.outbox \in [Events -> EventRow] /\ db'.outbox \in [Events -> EventRow]
           /\ \A e \in Events : db'.outbox[e] =
                  IF e \in events THEN scopes[s].edits.outbox[e] ELSE db.outbox[e]
<1>1. PICK edits : edits = scopes[s].edits
    BY Zenon
<1>2. /\ \A id \in TaskIDs : /\ db'.tasks[id] = db.tasks[id] /\ db'.candidates[id] = db.candidates[id]
                             /\ db'.history[id] = db.history[id]
      /\ \A e \in Events : db'.outbox[e] = IF e \in events THEN edits.outbox[e] ELSE db.outbox[e]
    BY <1>1, CommitRows DEF Wrote
<1>3. db.history \in [TaskIDs -> Seq(Nat)] /\ db'.history \in [TaskIDs -> Seq(Nat)]
      /\ db.outbox \in [Events -> EventRow] /\ db'.outbox \in [Events -> EventRow]
    BY <1>1, CommitRows, Zenon DEF Tables
<1>4. db'.history = db.history
    BY ONLY <1>2, <1>3
<1>5. \A id \in TaskIDs : Task(db', id) = Task(db, id)
    BY <1>2, Zenon DEF Task
<1> QED
    BY <1>1, <1>2, <1>3, <1>4, <1>5, Zenon

\* A commit of a relay's claim takes, in one step, events that are due by then.
LEMMA RelayingCommits ==
    ASSUME Inv, NEW s \in Scopes, Commit(s), Relaying(s, scopes[s])
    PROVE  Port!PortNext
<1>1. PICK edits : edits = scopes[s].edits
    OBVIOUS
<1>2. PICK claimed \in SUBSET Events : claimed = DOMAIN edits.outbox
  <2>1. edits.outbox \in Partial(Events, EventRow)
      BY <1>1, Zenon DEF Inv, PInv, ScopeTypes, Scope, EditSet
  <2> QED
      BY <2>1, PartialFacts
<1>3. Wrote(edits, {}, {}, {}, claimed)
    BY <1>1, <1>2, Zenon DEF Relaying
<1>4. \A e \in claimed : db.outbox[e] = OutboxRow /\ edits.outbox[e] = [db.outbox[e] EXCEPT !.lease = s]
    BY <1>1, <1>2, Zenon DEF Relaying
<1>5. /\ \A id \in TaskIDs : Task(db', id) = Task(db, id)
      /\ db'.history = db.history /\ db'.outbox \in [Events -> EventRow]
      /\ \A e \in Events : db'.outbox[e] = IF e \in claimed THEN edits.outbox[e] ELSE db.outbox[e]
    BY <1>1, <1>3, EventCommits, ZenonT(30)
<1>6. db'.outbox = [e \in Events |-> IF e \in claimed THEN [db.outbox[e] EXCEPT !.lease = s]
                                     ELSE db.outbox[e]]
    BY <1>4, <1>5, Zenon
<1>7. [id \in TaskIDs |-> Task(db', id)] = [id \in TaskIDs |-> Task(db, id)]
    BY <1>5, Zenon
<1>8. \A e \in claimed : db.outbox[e] = Port!BornDue
    BY <1>4, Zenon DEF Port!BornDue, OutboxRow, Port!Nobody, Nobody
<1>9. Port!ClaimDueEvents(s, claimed)
    BY <1>5, <1>6, <1>7, <1>8, Zenon DEF Port!ClaimDueEvents, Port!Events, Events, Task
<1> QED
    BY <1>9, Zenon DEF Port!PortNext, Port!Events, Events

\* A commit of a settlement is one of the port.
LEMMA SettlingCommits ==
    ASSUME Inv, NEW s \in Scopes, Commit(s), Settling(scopes[s])
    PROVE  Port!PortNext
<1>1. PICK edits : edits = scopes[s].edits
    BY Zenon
<1>2. PICK e \in Events : e = scopes[s].id
    BY Zenon DEF Settling
<1>3. Wrote(edits, {}, {}, {}, {e}) /\ db.outbox[e].recorded /\ edits.outbox[e].recorded
      /\ edits.outbox[e].lease = Nobody
    BY <1>1, <1>2, Zenon DEF Settling
<1>4. PICK row \in EventRow : row = edits.outbox[e]
  <2>1. edits.outbox \in Partial(Events, EventRow)
      BY <1>1, Zenon DEF Inv, PInv, ScopeTypes, Scope, EditSet
  <2> QED
      BY <1>3, <2>1, PartialFacts DEF Wrote
<1>5. PICK published \in BOOLEAN, due \in BOOLEAN : published = row.published /\ due = row.due
    BY Zenon DEF EventRow
<1>6. row = [recorded |-> TRUE, published |-> published, due |-> due, lease |-> Nobody]
  <2>1. row.recorded = TRUE /\ row.lease = Nobody
      BY <1>3, <1>4, Zenon DEF EventRow
  <2>2. row = [recorded |-> row.recorded, published |-> row.published, due |-> row.due,
               lease |-> row.lease]
      BY Zenon DEF EventRow
  <2> QED
      BY <1>5, <2>1, <2>2, Zenon
<1>7. /\ \A id \in TaskIDs : Task(db', id) = Task(db, id)
      /\ db'.history = db.history
      /\ db.outbox \in [Events -> EventRow] /\ db'.outbox \in [Events -> EventRow]
      /\ \A x \in Events : db'.outbox[x] = IF x = e THEN edits.outbox[x] ELSE db.outbox[x]
  <2>1. PICK events : events = {e}
      BY Zenon
  <2>2. Wrote(scopes[s].edits, {}, {}, {}, events)
      BY <1>1, <1>3, <2>1, Zenon
  <2>3. /\ \A id \in TaskIDs : Task(db', id) = Task(db, id)
        /\ db'.history = db.history
        /\ db.outbox \in [Events -> EventRow] /\ db'.outbox \in [Events -> EventRow]
        /\ \A x \in Events : db'.outbox[x] =
               IF x \in events THEN scopes[s].edits.outbox[x] ELSE db.outbox[x]
      BY <2>2, EventCommits, Zenon
  <2> QED
      BY <1>1, <2>1, <2>3, Zenon
<1>8. db'.outbox = [db.outbox EXCEPT ![e] = row]
    BY <1>4, <1>7, Zenon
<1>9. [id \in TaskIDs |-> Task(db', id)] = [id \in TaskIDs |-> Task(db, id)]
    BY <1>7, Zenon
<1>10. Port!Settle(e, published, due)
    BY <1>3, <1>6, <1>7, <1>8, <1>9, Zenon DEF Port!Settle, Port!Nobody, Nobody, Task
<1> QED
    BY <1>10, Zenon DEF Port!PortNext, Port!Events, Events

\* Every step of a scope but its commit is nothing to the port.
LEMMA UncommittedSteps ==
    ASSUME NEW s \in Scopes, Opens(s) \/ Statement(s) \/ Rollback(s)
    PROVE  db' = db
<1>1. Opens(s) \/ Rollback(s) => db' = db
    BY Zenon DEF Opens, Rollback, Begin, Goes
<1>2. Get(s) \/ CheckVersion(s) \/ InsertTask(s) \/ UpdateTask(s) => db' = db
    BY Zenon DEF Get, Found, CheckVersion, InsertTask, UpdateTask, Goes
<1>3. (\E pool \in Pools : WriteCandidates(s, pool)) \/ AppendOutcome(s) => db' = db
    BY Zenon DEF WriteCandidates, AppendOutcome, Goes
<1>4. SelectOverdue(s) \/ SelectDueEvents(s) => db' = db
    BY DEF SelectOverdue, SelectDueEvents, Select, Goes
<1>5. (\E id \in TaskIDs : ClaimLease(s, id)) \/ (\E e \in Events : ClaimEvent(s, e)) => db' = db
    BY Zenon DEF ClaimLease, ClaimEvent, Goes
<1>6. ReadEntry(s) \/ SettleOutbox(s) => db' = db
    BY Zenon DEF ReadEntry, SettleOutbox, Goes
<1> QED
    BY <1>1, <1>2, <1>3, <1>4, <1>5, <1>6, Zenon DEF Statement

\* Every store implements the port, on each database and for any number of scopes side
\* by side: statements are seen by nobody, and a commit is one step of the port, a
\* task with its candidates, record and event, a claim of free rows or a settlement.
THEOREM StoresImplementPort == ScopesSpec => ImplementsPort
<1>1. ScopesInit => Port!PortInit
  <2> SUFFICES ASSUME ScopesInit PROVE Port!PortInit
      BY Zenon
  <2>1. [id \in TaskIDs |-> Task(db, id)] =
            [id \in TaskIDs |-> [version |-> 0, lease |-> Nobody, pool |-> NoPool]]
      BY Zenon DEF ScopesInit, Task
  <2>2. db.history = [id \in TaskIDs |-> << >>]
      BY Zenon DEF ScopesInit
  <2>3. db.outbox = [e \in Events |-> [recorded |-> FALSE, published |-> FALSE, due |-> FALSE,
                                       lease |-> Nobody]]
      BY Zenon DEF ScopesInit
  <2> QED
      BY <2>1, <2>2, <2>3, Zenon DEF Port!PortInit, Port!NoTask, Port!NoEntry, Port!Nobody, Port!NoPool,
                              Port!Events, Nobody, NoPool, Events, Task
<1>2. Inv /\ [ScopesNext]_scopeVars => [Port!PortNext]_(Port!portVars)
  <2> SUFFICES ASSUME Inv, [ScopesNext]_scopeVars PROVE [Port!PortNext]_(Port!portVars)
      BY Zenon
  <2>1. CASE db' = db
      BY <2>1, Zenon DEF Port!portVars
  <2>2. ASSUME NEW s \in Scopes, Commit(s) PROVE Port!PortNext
    <3>1. Staged(s, scopes[s])
        BY Zenon DEF Inv, PInv
    <3>2. ~Fresh(scopes[s])
        BY <2>2, Zenon DEF Commit, Done, Fresh
    <3> QED
        BY <2>2, <3>1, <3>2, WritingCommits, SweepingCommits, RelayingCommits, SettlingCommits, Zenon
           DEF Staged
  <2> QED
      BY <2>1, <2>2, UncommittedSteps, Zenon DEF ScopesNext, scopeVars
<1> QED
    BY <1>1, <1>2, ScopesInvariance, PTL DEF ScopesSpec, ImplementsPort, Port!PortSpec
=============================================================================
