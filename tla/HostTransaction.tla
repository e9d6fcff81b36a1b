--------------------------- MODULE HostTransaction ---------------------------
(***************************************************************************)
(* The transaction boundary the engine joins, and who dispatches.          *)
(*                                                                         *)
(* TaskService takes an operation's writes as one step.  Here they are the *)
(* steps of the code: the row, its history record and its outbox event are *)
(* staged one after the other in whatever transaction is active, and any   *)
(* of them may fail.  The engine commits and dispatches only what it began *)
(* itself; inside a transaction of the host's it leaves both to the host.  *)
(*                                                                         *)
(* A request may be cancelled at any moment, and the answer to a commit    *)
(* may be lost: the statement took effect and the engine is told it failed.*)
(*                                                                         *)
(* A task is its version here, and an item is what one operation writes    *)
(* for it: the record in the history, or the event in the outbox.  A host  *)
(* rolls its transaction back when an operation inside it failed, as the   *)
(* contract of Do asks.                                                    *)
(***************************************************************************)
EXTENDS Integers

CONSTANTS TaskIDs,
          Requests,          \* concurrent requests, each on a thread of its own
          Commands,          \* what operations are asked for from outside
          NoCommand,         \* an operation the host itself calls
          MaxVersion         \* bound: no task is changed past this version

ASSUME HostAssumption ==
    /\ MaxVersion \in Nat
    /\ NoCommand \notin Commands

VARIABLES
    rows,        \* the committed version of each task; 0 is no row
    history,     \* the committed transition records
    outbox,      \* the committed events
    txs,         \* each request's open transaction and what it staged
    calls,       \* each request's progress through mutate
    owed,        \* events to be delivered once their transaction committed
    delivered,   \* events the in-process consumers were told of
    lost         \* history variable: committed events whose process crashed, or
                 \* was told that the commit failed

committed == <<rows, history, outbox>>
hostVars == <<committed, txs, calls, owed, delivered, lost>>

Item == [task : TaskIDs, version : 1..MaxVersion]

\* The caller insists on no version; on version 0, a creation does.
AnyVersion == -1

\* led: who began the transaction.  failed: an operation inside it failed.
Closed == [led |-> "nobody", rows |-> [id \in TaskIDs |-> 0],
           history |-> {}, outbox |-> {}, failed |-> FALSE]

NoCall == [at |-> "idle", command |-> NoCommand, task |-> CHOOSE id \in TaskIDs : TRUE,
           expected |-> AnyVersion, version |-> 0, cancelled |-> FALSE, outcome |-> "none"]

HostInit ==
    /\ rows = [id \in TaskIDs |-> 0]
    /\ history = {}
    /\ outbox = {}
    /\ txs = [p \in Requests |-> Closed]
    /\ calls = [p \in Requests |-> NoCall]
    /\ owed = [p \in Requests |-> {}]
    /\ delivered = {}
    /\ lost = {}

At(p, step) == calls[p].at = step

Written(p) == [task |-> calls[p].task, version |-> calls[p].version + 1]

\* A transaction sees its own uncommitted writes.
Visible(p, id) == IF txs[p].rows[id] > 0 THEN txs[p].rows[id] ELSE rows[id]

\* The database's row lock: a row another open transaction wrote is waited for.
Locked(p, id) == \E q \in Requests \ {p} : txs[q].rows[id] > 0

Commit(p) ==
    /\ rows' = [id \in TaskIDs |-> Visible(p, id)]
    /\ history' = history \cup txs[p].history
    /\ outbox' = outbox \cup txs[p].outbox
    /\ txs' = [txs EXCEPT ![p] = Closed]

(* The host *************************************************************)

HostBegin(p) ==
    /\ At(p, "idle") /\ txs[p].led = "nobody" /\ owed[p] = {}
    /\ txs' = [txs EXCEPT ![p].led = "host"]
    /\ UNCHANGED <<committed, calls, owed, delivered, lost>>

HostCommit(p) ==
    /\ At(p, "idle") /\ txs[p].led = "host"
    /\ ~txs[p].failed
    /\ Commit(p)
    /\ UNCHANGED <<calls, owed, delivered, lost>>

HostRollback(p) ==
    /\ At(p, "idle") /\ txs[p].led = "host"
    /\ txs' = [txs EXCEPT ![p] = Closed]
    /\ owed' = [owed EXCEPT ![p] = {}]
    /\ UNCHANGED <<committed, calls, delivered, lost>>

\* Result.Dispatch, called by the host after its commit.
Dispatch(p) ==
    /\ At(p, "idle") /\ txs[p].led = "nobody" /\ owed[p] # {}
    /\ delivered' = delivered \cup owed[p]
    /\ owed' = [owed EXCEPT ![p] = {}]
    /\ UNCHANGED <<committed, txs, calls, lost>>

(* The engine ***********************************************************)

\* An operation begins: Do joins an active transaction, or begins one.
Begin(p, command, id, expected) ==
    /\ At(p, "idle") /\ (txs[p].led = "nobody" => owed[p] = {})
    /\ calls' = [calls EXCEPT ![p] = [NoCall EXCEPT
            !.at = "get", !.command = command, !.task = id, !.expected = expected]]
    /\ txs' = [txs EXCEPT ![p].led = IF @ = "host" THEN "host" ELSE "engine"]
    /\ UNCHANGED <<committed, owed, delivered, lost>>

\* What the operation returns; whoever asked from outside is still to be answered.
Returned(p, outcome) ==
    IF calls[p].command = NoCommand THEN NoCall
    ELSE [calls[p] EXCEPT !.at = "answer", !.outcome = outcome]

\* An operation ends with an error: what it wrote goes with the transaction Do
\* began, and stays in one it joined.
Refused(p, outcome) ==
    /\ calls' = [calls EXCEPT ![p] = Returned(p, outcome)]
    /\ txs' = [txs EXCEPT ![p] = IF txs[p].led = "engine" THEN Closed
                                 ELSE [@ EXCEPT !.failed = TRUE]]
    /\ UNCHANGED <<committed, owed, delivered, lost>>

\* Mutant: the version the caller insists on is not looked at.
ExpectedAny(p, current) == TRUE

Expected(p, current) == calls[p].expected \in {AnyVersion, current}

\* The read of mutate, and the version the caller insists on; for a creation, the
\* look for a row that must not be there.
Get(p) ==
    LET current == Visible(p, calls[p].task) IN
    /\ At(p, "get")
    /\ IF Expected(p, current)
       THEN /\ current < MaxVersion
            /\ calls' = [calls EXCEPT ![p].at = "update", ![p].version = current]
            /\ UNCHANGED <<committed, txs, owed, delivered, lost>>
       ELSE Refused(p, "conflict")

\* The conditional write; it waits for a row another transaction wrote.
Update(p) ==
    LET id == calls[p].task IN
    /\ At(p, "update")
    /\ ~Locked(p, id)
    /\ IF Visible(p, id) = calls[p].version
       THEN /\ txs' = [txs EXCEPT ![p].rows[id] = calls[p].version + 1]
            /\ calls' = [calls EXCEPT ![p].at = "history"]
            /\ UNCHANGED <<committed, owed, delivered, lost>>
       ELSE Refused(p, IF calls[p].version = 0 THEN "error" ELSE "conflict")

AppendHistory(p) ==
    /\ At(p, "history")
    /\ txs' = [txs EXCEPT ![p].history = @ \cup {Written(p)}]
    /\ calls' = [calls EXCEPT ![p].at = "append"]
    /\ UNCHANGED <<committed, owed, delivered, lost>>

AppendOutbox(p) ==
    /\ At(p, "append")
    /\ txs' = [txs EXCEPT ![p].outbox = @ \cup {Written(p)}]
    /\ calls' = [calls EXCEPT ![p].at = "return"]
    /\ UNCHANGED <<committed, owed, delivered, lost>>

\* The look at the request's context before the commit.
Check(p) ==
    /\ At(p, "return") /\ txs[p].led = "engine"
    /\ ~calls[p].cancelled
    /\ calls' = [calls EXCEPT ![p].at = "commit"]
    /\ UNCHANGED <<committed, txs, owed, delivered, lost>>

\* Do commits the transaction it began; finish then delivers.
EngineCommit(p) ==
    /\ At(p, "commit")
    /\ Commit(p)
    /\ owed' = [owed EXCEPT ![p] = {Written(p)}]
    /\ calls' = [calls EXCEPT ![p].at = "deliver"]
    /\ UNCHANGED <<delivered, lost>>

\* The commit takes effect, and its answer does not arrive.
CommitUnanswered(p) ==
    /\ At(p, "commit")
    /\ Commit(p)
    /\ lost' = lost \cup {Written(p)}
    /\ calls' = [calls EXCEPT ![p] = Returned(p, "error")]
    /\ UNCHANGED <<owed, delivered>>

\* The delivery is detached from the request: a cancellation does not stop it.
Deliver(p) ==
    /\ At(p, "deliver")
    /\ delivered' = delivered \cup owed[p]
    /\ owed' = [owed EXCEPT ![p] = {}]
    /\ calls' = [calls EXCEPT ![p] = Returned(p, "ok")]
    /\ UNCHANGED <<committed, txs, lost>>

\* Mutant: finish delivers whoever began the transaction.
ReturnDelivered(p) ==
    /\ At(p, "return") /\ txs[p].led = "host"
    /\ delivered' = delivered \cup {Written(p)}
    /\ calls' = [calls EXCEPT ![p] = NoCall]
    /\ UNCHANGED <<committed, txs, owed, lost>>

\* In the host's transaction finish hands the events back as pending.
ReturnPending(p) ==
    /\ At(p, "return") /\ txs[p].led = "host"
    /\ owed' = [owed EXCEPT ![p] = @ \cup {Written(p)}]
    /\ calls' = [calls EXCEPT ![p] = NoCall]
    /\ UNCHANGED <<committed, txs, delivered, lost>>

\* Mutant: a failure does not roll back the transaction Do began.
FailsOpen(p) ==
    /\ calls[p].at \in {"get", "update", "history", "append"} \/
           (calls[p].at \in {"return", "commit"} /\ txs[p].led = "engine")
    /\ calls' = [calls EXCEPT ![p] = Returned(p, "error")]
    /\ UNCHANGED <<committed, txs, owed, delivered, lost>>

\* An operation fails: a statement or the commit fails, it panics, or its context
\* is found cancelled.
Fails(p) ==
    /\ calls[p].at \in {"get", "update", "history", "append"} \/
           (calls[p].at \in {"return", "commit"} /\ txs[p].led = "engine")
    /\ Refused(p, "error")

\* The caller is gone.  Statements that look at the context fail from here on;
\* GORM's, inside a transaction, do not look.
Cancel(p) ==
    /\ calls[p].at \notin {"idle", "answer"}
    /\ ~calls[p].cancelled
    /\ calls' = [calls EXCEPT ![p].cancelled = TRUE]
    /\ UNCHANGED <<committed, txs, owed, delivered, lost>>

\* The process stops: the database rolls back what it left open.
Crash(p) ==
    /\ txs[p].led # "nobody" \/ owed[p] # {}
    /\ lost' = lost \cup (owed[p] \cap outbox)
    /\ txs' = [txs EXCEPT ![p] = Closed]
    /\ calls' = [calls EXCEPT ![p] = NoCall]
    /\ owed' = [owed EXCEPT ![p] = {}]
    /\ UNCHANGED <<committed, delivered>>

\* What the host does of its own accord.
HostStep(p) ==
    \/ HostBegin(p)
    \/ HostCommit(p)
    \/ HostRollback(p)
    \/ Dispatch(p)
    \/ \E id \in TaskIDs : Begin(p, NoCommand, id, AnyVersion)

\* What happens once an operation has begun.
EngineStep(p) ==
    \/ Get(p)
    \/ Update(p)
    \/ AppendHistory(p)
    \/ AppendOutbox(p)
    \/ Check(p)
    \/ EngineCommit(p)
    \/ CommitUnanswered(p)
    \/ Deliver(p)
    \/ ReturnPending(p)
    \/ Fails(p)
    \/ Crash(p)

-----------------------------------------------------------------------------
(* Properties ***********************************************************)

\* A durable state change is always accompanied by its history record and its
\* event, and neither is durable without it: whichever statement of mutate failed,
\* and whoever began the transaction (Do).
CommittedTogether ==
    LET changes == {i \in Item : i.version <= rows[i.task]} IN
    history = changes /\ outbox = changes

\* A consumer that reads back a task it was told about finds the committed
\* state: nothing is delivered before, or without, its commit.
DeliveredIsCommitted ==
    delivered \subseteq {i \in outbox : i.version <= rows[i.task]}

\* No committed event is forgotten by the process that committed it: it has
\* been delivered, is still owed, or its process crashed in between or never
\* learned that it committed.  A cancelled request delivers like any other.
NoneForgotten ==
    \A e \in outbox :
        \/ e \in delivered \cup lost
        \/ \E p \in Requests : e \in owed[p]

\* Consumers are told of exactly what is durable: nothing else, and all of it.
DeliveredExactly == DeliveredIsCommitted /\ NoneForgotten
=============================================================================
