----------------------------- MODULE TaskService -----------------------------
(***************************************************************************)
(* The engine's service over a transactional store.                        *)
(*                                                                         *)
(* A lifecycle operation is mutate: inside one transaction it reads the    *)
(* task, computes the next one, and writes it on condition that the        *)
(* version is still the one it read, together with the history records and *)
(* the outbox events.  The store shows other sessions nothing before the   *)
(* commit and lets them commit in between, so an operation is two steps:   *)
(* Get, which takes the snapshot, and the operation itself, which commits. *)
(* A session that is refused, conflicts, is cancelled or dies rolls back.  *)
(*                                                                         *)
(* A stored task has a version of at least 1, because creation records a   *)
(* transition before it inserts: version 0 stands for "no such row".       *)
(***************************************************************************)
EXTENDS Task, Sequences

CONSTANTS TaskIDs,      \* the identifiers tasks are created under
          Clients,      \* concurrent requests of the host
          Requesters,   \* who requests are made for; the empty actor is possible
          Pools,        \* the candidate pools tasks are created with
          Policies,     \* the escalation policies tasks are created with
          DueDates,     \* the due dates tasks are created with
          MaxVersion    \* bound: no task is mutated past this version

ASSUME ServiceAssumption ==
    /\ Clients \cap Sweepers = {}
    /\ Requesters \subseteq Actors \cup {Nobody}
    /\ Pools \subseteq CandidatePool
    /\ Policies \subseteq EscalationPolicy
    /\ DueDates \subseteq Nat \cup {Never}
    /\ MaxVersion \in Nat
    /\ TaskIDs # {} /\ Pools # {} /\ Policies # {} /\ DueDates # {}

VARIABLES
    tasks,     \* the task table
    history,   \* the transition records of each task, in order
    outbox,    \* the events appended with the transitions
    reads,     \* what each session in the middle of mutate has read
    saves      \* history variable: progress saves answered with success

serviceVars == <<tasks, history, outbox, reads, saves>>

\* A sweep escalates through the same service as everybody else.
Sessions == Clients \cup Sweepers

Operations ==
    {"CREATE", "CLAIM", "RELEASE", "START", "SAVE_PROGRESS", "COMPLETE", "FAIL",
     "DELEGATE", "SUSPEND", "RESUME", "ESCALATE", "CANCEL", "OBSOLETE", "FAULT"}

TransitionRecord ==
    [op : Operations, from : Statuses, to : Statuses, version : Nat, actor : Callers]

Event ==
    [task : TaskIDs, op : Operations, status : Statuses, version : Nat,
     actor : Callers, assignee : Actors \cup {Nobody},
     previousAssignee : Actors \cup {Nobody}]

NoTask ==
    NewTask(CHOOSE p \in Pools : TRUE, CHOOSE p \in Policies : TRUE,
            CHOOSE d \in DueDates : TRUE)

Exists(id) == tasks[id].version > 0

Idle == [active |-> FALSE, id |-> CHOOSE id \in TaskIDs : TRUE,
         actor |-> Nobody, task |-> NoTask]

Init ==
    /\ tasks = [id \in TaskIDs |-> NoTask]
    /\ history = [id \in TaskIDs |-> << >>]
    /\ outbox = {}
    /\ reads = [c \in Sessions |-> Idle]
    /\ saves = [id \in TaskIDs |-> 0]

(* Persisting ***********************************************************)

\* Mutant: the record is made from the task after the change.
TransitionAfter(op, t, next, actor) ==
    [op |-> op, from |-> next.status, to |-> next.status, version |-> next.version,
     actor |-> actor]

TransitionOf(op, t, next, actor) ==
    [op |-> op, from |-> t.status, to |-> next.status, version |-> next.version,
     actor |-> actor]

EventOf(id, op, t, next, actor) ==
    [task |-> id, op |-> op, status |-> next.status, version |-> next.version,
     actor |-> actor, assignee |-> next.assignee,
     previousAssignee |-> IF t.assignee # next.assignee THEN t.assignee ELSE Nobody]

PersistOutcome(id, op, t, next, actor, recorded, announced) ==
    /\ history' = IF recorded
                  THEN [history EXCEPT ![id] = Append(@, TransitionOf(op, t, next, actor))]
                  ELSE history
    /\ outbox' = IF announced THEN outbox \cup {EventOf(id, op, t, next, actor)} ELSE outbox

\* Creating a task: resolution of the candidates, the strategy's choice, the
\* insert.  Either may fail, and the task is then stored in ERROR.
Assign(t) ==
    {Faulted(t)} \cup
    {Activated(t, a) : a \in IF ResolveCandidates(t.candidates) = {} THEN {}
                             ELSE ResolveCandidates(t.candidates) \cup {Nobody}}

Create(id, actor) ==
    \E pool \in Pools, policy \in Policies, dueAt \in DueDates :
        LET t == NewTask(pool, policy, dueAt) IN
        \E placed \in Assign(t) :
            /\ ~Exists(id)
            /\ tasks' = [tasks EXCEPT ![id] = placed]
            /\ IF placed.status = "ERROR"
               THEN PersistOutcome(id, "FAULT", t, placed, Nobody, TRUE, TRUE)
               ELSE PersistOutcome(id, "CREATE", t, placed, actor, TRUE, TRUE)
            /\ UNCHANGED <<reads, saves>>

\* The snapshot mutate takes of the task it is about to change.
Get(c, id, actor) ==
    /\ ~reads[c].active
    /\ Exists(id)
    /\ reads' = [reads EXCEPT ![c] = [active |-> TRUE, id |-> id, actor |-> actor,
                                      task |-> tasks[id]]]
    /\ UNCHANGED <<tasks, history, outbox, saves>>

\* Mutant: the write is not conditional on the version.
UpdateUnconditional(id, next, expectedVersion) == tasks' = [tasks EXCEPT ![id] = next]

\* The store's only write to an existing task: the whole row, lease columns
\* included, on condition that the version is still the expected one.
Update(id, next, expectedVersion) ==
    /\ tasks[id].version = expectedVersion
    /\ tasks' = [tasks EXCEPT ![id] = next]

\* The end of mutate for session c: the conditional update and what it records.
Mutate(c, op, next, recorded, announced) ==
    LET r == reads[c] IN
    /\ r.active
    /\ r.task.version < MaxVersion
    /\ Update(r.id, next, r.task.version)
    /\ PersistOutcome(r.id, op, r.task, next, r.actor, recorded, announced)
    /\ reads' = [reads EXCEPT ![c] = Idle]

Transition(c, op, next) == Mutate(c, op, next, TRUE, TRUE) /\ UNCHANGED saves

\* Every way mutate ends without a commit.
Rollback(c) ==
    /\ reads[c].active
    /\ reads' = [reads EXCEPT ![c] = Idle]
    /\ UNCHANGED <<tasks, history, outbox, saves>>

(* The operations *******************************************************)

Claim(c) ==
    LET t == reads[c].task  a == reads[c].actor IN
    /\ MayClaim(t, a)
    /\ IsEligible(t.candidates, a)
    /\ Transition(c, "CLAIM", Claimed(t, a))

Release(c) ==
    LET t == reads[c].task IN
    MayRelease(t, reads[c].actor) /\ Transition(c, "RELEASE", Released(t))

Start(c) ==
    LET t == reads[c].task IN
    MayStart(t, reads[c].actor) /\ Transition(c, "START", Started(t))

Complete(c) ==
    LET t == reads[c].task IN
    MayComplete(t, reads[c].actor) /\ Transition(c, "COMPLETE", Completed(t))

Fail(c) ==
    LET t == reads[c].task IN
    MayFail(t, reads[c].actor) /\ Transition(c, "FAIL", Failed(t))

Delegate(c, target) ==
    LET t == reads[c].task IN
    /\ MayDelegate(t, reads[c].actor, target)
    /\ IsEligible(t.candidates, target)
    /\ Transition(c, "DELEGATE", Delegated(t, target))

Suspend(c) ==
    LET t == reads[c].task IN
    MaySuspend(t, reads[c].actor) /\ Transition(c, "SUSPEND", Suspended(t))

Resume(c) ==
    LET t == reads[c].task IN
    MayResume(t, reads[c].actor) /\ Transition(c, "RESUME", Resumed(t))

Escalate(c) ==
    LET t == reads[c].task IN
    /\ MayEscalate(t)
    /\ Transition(c, IF t.policy.action = "SUPERSEDE" THEN "OBSOLETE" ELSE "ESCALATE",
                  Escalated(t))

Cancel(c) ==
    LET t == reads[c].task IN
    MayCancel(t) /\ Transition(c, "CANCEL", Cancelled(t))

\* The save that starts the work is recorded in history; no save is announced.
SaveProgress(c) ==
    LET t == reads[c].task IN
    /\ MaySaveProgress(t, reads[c].actor)
    /\ Mutate(c, "SAVE_PROGRESS", ProgressSaved(t), t.status = "RESERVED", FALSE)
    /\ saves' = [saves EXCEPT ![reads[c].id] = @ + 1]

ClientStep(c) ==
    \/ \E id \in TaskIDs, a \in Requesters : Get(c, id, a)
    \/ Rollback(c)
    \/ Claim(c)
    \/ Release(c)
    \/ Start(c)
    \/ Complete(c)
    \/ Fail(c)
    \/ \E target \in Actors : Delegate(c, target)
    \/ Suspend(c)
    \/ Resume(c)
    \/ Escalate(c)
    \/ Cancel(c)
    \/ SaveProgress(c)

Next ==
    \/ \E id \in TaskIDs, a \in Requesters : Create(id, a)
    \/ \E c \in Clients : ClientStep(c)

Spec == Init /\ [][Next]_serviceVars

-----------------------------------------------------------------------------
(* Properties ***********************************************************)

\* The tables, the snapshots and the counters keep their types: in particular
\* only a suspendable state is ever remembered by Suspend.
TypeOK ==
    /\ tasks \in [TaskIDs -> TaskRecord]
    /\ history \in [TaskIDs -> Seq(TransitionRecord)]
    /\ outbox \subseteq Event
    /\ reads \in [Sessions -> [active : BOOLEAN, id : TaskIDs, actor : Callers,
                               task : TaskRecord]]
    /\ saves \in [TaskIDs -> Nat]

\* The row without its lease columns: what a lease may change under a reader.
Contents(t) == [t EXCEPT !.lockedBy = Nobody, !.lockedUntil = 0]

\* Optimistic concurrency is sound: a session whose snapshot still carries the
\* stored version holds exactly the stored task, the lease columns aside, and
\* no snapshot is ahead of the store.  This is what makes UPDATE ... WHERE
\* version = ? (sqlcore UpdateTask, memstore Update) safe for whole-row writes.
SnapshotCurrent ==
    \A c \in Sessions : reads[c].active =>
        LET row == tasks[reads[c].id]  t == reads[c].task IN
        /\ 0 < t.version /\ t.version <= row.version
        /\ t.version = row.version => Contents(t) = Contents(row)

\* No lost update: every progress save the service answered with success is in
\* the stored progress, whatever ran concurrently (SaveProgress merges into
\* its snapshot and writes the whole document back).
NoLostSave == \A id \in TaskIDs : tasks[id].progress = saves[id]

\* The state a suspended task is held as: the one it was suspended in.
HeldAs(t) == IF t.status = "SUSPENDED" THEN t.suspendedFrom ELSE t.status

Coherent(t) ==
    /\ t.status # "CREATED"
    /\ t.status = "SUSPENDED" => t.suspendedFrom \in Suspendable
    /\ HeldAs(t) = "READY" => t.assignee = Nobody
    /\ HeldAs(t) \in {"RESERVED", "IN_PROGRESS", "COMPLETED", "FAILED"} =>
           t.assignee # Nobody
    /\ HeldAs(t) \in {"IN_PROGRESS", "COMPLETED", "FAILED"} => t.started

\* Who holds a task follows its status: READY is held by nobody, RESERVED and
\* IN_PROGRESS by somebody, and a suspended task is held exactly as it was
\* before suspension, so that Resume restores a coherent task.  No stored task
\* is in CREATED.
HolderFollowsStatus == \A id \in TaskIDs : Exists(id) => Coherent(tasks[id])

\* Exclusion beats every other route to a task: no sequence of assignments,
\* claims, delegations and widening escalations puts an excluded actor on it.
ExcludedNeverHolds ==
    \A id \in TaskIDs : tasks[id].assignee \notin tasks[id].candidates.excluded

\* A closed task is closed for good and carries no escalation lease, although
\* every mutation writes back the lease its snapshot carried.
ClosedIsUnleased ==
    \A id \in TaskIDs :
        LET t == tasks[id] IN
        /\ t.closed <=> t.status \in Terminal
        /\ t.closed => t.lockedBy = Nobody /\ t.lockedUntil = 0

\* The history replays to the stored task: it starts from CREATED, each record
\* leaves the state the previous one entered, versions rise strictly, and the
\* last record entered the stored status.  An IN_PROGRESS save moves the
\* version without a record, so the last version may trail the task's.
HistoryReplays ==
    \A id \in TaskIDs :
        LET h == history[id]  n == Len(h) IN
        /\ Exists(id) <=> n > 0
        /\ n > 0 => /\ h[1].from = "CREATED" /\ h[1].version = 1
                    /\ h[n].to = tasks[id].status
                    /\ h[n].version <= tasks[id].version
        /\ \A i \in 1..(n - 1) : /\ h[i].to = h[i + 1].from
                                 /\ h[i].version < h[i + 1].version

RecordsOf(id) == {history[id][i] : i \in DOMAIN history[id]}
EventsOf(id) == {e \in outbox : e.task = id}

Precedes(d, e) ==
    /\ d.task = e.task /\ d.version < e.version
    /\ \A x \in EventsOf(e.task) : ~(d.version < x.version /\ x.version < e.version)

\* The transactional outbox: every recorded transition but a progress save has
\* exactly its event, and there is no event without its recorded transition
\* (persistOutcome, called with the events recordsOf and stamp derive).  A consumer
\* that folds the events of a task in version order knows its holder: an event
\* names the previous assignee exactly when the holder changed from the one the
\* preceding event announced, and the last event names the holder.
OutboxMatchesHistory ==
    /\ \A id \in TaskIDs :
         {[op |-> e.op, to |-> e.status, version |-> e.version, actor |-> e.actor]
             : e \in EventsOf(id)}
       = {[op |-> r.op, to |-> r.to, version |-> r.version, actor |-> r.actor]
             : r \in {x \in RecordsOf(id) : x.op # "SAVE_PROGRESS"}}
    /\ \A d, e \in outbox : Precedes(d, e) =>
         e.previousAssignee = IF d.assignee # e.assignee THEN d.assignee ELSE Nobody
    /\ \A e \in outbox :
         (\A x \in EventsOf(e.task) : x.version <= e.version) =>
             e.assignee = tasks[e.task].assignee

\* Who was not there can still tell what happened to a task: from its history,
\* and from its events, which agree.
RecordsTellTheStory == HistoryReplays /\ OutboxMatchesHistory

LegalStep ==
    \A id \in TaskIDs :
        LET t == tasks[id]  n == tasks'[id] IN
        Contents(t) # Contents(n) =>
            /\ n.version = t.version + 1
            /\ CanTransition(t.status, n.status)
                 \/ (n.status = t.status /\ t.status \in Suspendable)
            /\ Exists(id) => /\ t.candidates.users \subseteq n.candidates.users
                             /\ t.candidates.groups \subseteq n.candidates.groups
                             /\ t.candidates.excluded = n.candidates.excluded

\* What no operation of the service does to a stored task: reopen it, move its
\* version by anything but one per change, skip the transition table (progress
\* saves and escalations that leave the status alone apart), or narrow its
\* candidate pool.
OnlyLegalSteps == [][LegalStep]_serviceVars

\* Seen through this mapping, the service with its sessions and conditional
\* writes is the one-step state machine of the module Lifecycle.
LC == INSTANCE Lifecycle WITH
        state <- [id \in TaskIDs |-> IF Exists(id) THEN tasks[id].status ELSE "ABSENT"],
        holder <- [id \in TaskIDs |-> tasks[id].assignee],
        resumeTo <- [id \in TaskIDs |-> IF tasks[id].status = "SUSPENDED"
                                        THEN tasks[id].suspendedFrom ELSE "NONE"]

\* Every operation takes effect as one atomic step of the documented lifecycle,
\* whatever interleaves with its read and its write; in particular Resume
\* restores exactly the state Suspend left.
ImplementsLifecycle == LC!LifecycleSpec
=============================================================================
