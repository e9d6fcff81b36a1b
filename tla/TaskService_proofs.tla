-------------------------- MODULE TaskService_proofs --------------------------
(***************************************************************************)
(* Proofs about TaskService, for every set of tasks, sessions, actors,     *)
(* pools and policies, and every MaxVersion: concurrent saves, holders and *)
(* exclusions; then that the history and the outbox tell the story of      *)
(* every task, and that the service implements the module Lifecycle.       *)
(***************************************************************************)
EXTENDS TaskService, TLAPS

\* What every transition of the module Task does to a task it accepts.
Legit(t, n) ==
    /\ n \in TaskRecord
    /\ n.version = t.version + 1
    /\ t.status \in Suspendable \cup {"SUSPENDED"}
    /\ n.status \notin Terminal => n.closed = t.closed
    /\ n.status \in Terminal => n.closed /\ n.lockedBy = Nobody /\ n.lockedUntil = 0
    /\ Coherent(t) => Coherent(n)
    /\ t.assignee \notin t.candidates.excluded => n.assignee \notin n.candidates.excluded
    /\ CanTransition(t.status, n.status)
         \/ (n.status = t.status /\ t.status \in Suspendable)
    /\ t.candidates.users \subseteq n.candidates.users
    /\ t.candidates.groups \subseteq n.candidates.groups
    /\ t.candidates.excluded = n.candidates.excluded

\* record(): the fields it sets, and the ones it leaves alone.
LEMMA RecordFacts ==
    ASSUME NEW t \in TaskRecord, NEW to \in Statuses
    PROVE  /\ Record(t, to) \in TaskRecord
           /\ Record(t, to).version = t.version + 1
           /\ Record(t, to).status = to
           /\ Record(t, to).closed = IF to \in Terminal THEN TRUE ELSE t.closed
           /\ to \in Terminal => /\ Record(t, to).lockedBy = Nobody
                                 /\ Record(t, to).lockedUntil = 0
           /\ Record(t, to).suspendedFrom = t.suspendedFrom
           /\ Record(t, to).assignee = t.assignee
           /\ Record(t, to).started = t.started
           /\ Record(t, to).progress = t.progress
           /\ Record(t, to).candidates = t.candidates
           /\ Record(t, to).policy = t.policy
<1>1. Record(t, to) \in TaskRecord
  <2> DEFINE a == [t EXCEPT !.status = to]
             b == [a EXCEPT !.version = t.version + 1]
             c == [b EXCEPT !.closed = IF to \in Terminal THEN TRUE ELSE t.closed]
             d == [c EXCEPT !.lockedBy = IF to \in Terminal THEN Nobody ELSE t.lockedBy]
             e == [d EXCEPT !.lockedUntil = IF to \in Terminal THEN 0 ELSE t.lockedUntil]
  <2>1. /\ t.version \in Nat /\ t.closed \in BOOLEAN
        /\ t.lockedBy \in Sweepers \cup {Nobody} /\ t.lockedUntil \in Nat
      BY DEF TaskRecord
  <2>2. a \in TaskRecord
      BY DEF TaskRecord
  <2> HIDE DEF a
  <2>3. b \in TaskRecord
      BY <2>1, <2>2 DEF TaskRecord
  <2> HIDE DEF b
  <2>4. c \in TaskRecord
      BY <2>1, <2>3, ZenonT(60) DEF TaskRecord
  <2> HIDE DEF c
  <2>5. d \in TaskRecord
      BY <2>1, <2>4 DEF TaskRecord
  <2> HIDE DEF d
  <2>6. e \in TaskRecord
      BY <2>1, <2>5 DEF TaskRecord
  <2> QED
      BY <2>6 DEF e, d, c, b, a, Record
<1>2. Record(t, to).version = t.version + 1
    BY DEF Record, TaskRecord
<1>3. Record(t, to).status = to
    BY DEF Record, TaskRecord
<1>4. Record(t, to).closed = IF to \in Terminal THEN TRUE ELSE t.closed
    BY DEF Record, TaskRecord
<1>5. to \in Terminal => Record(t, to).lockedBy = Nobody /\ Record(t, to).lockedUntil = 0
    BY DEF Record, TaskRecord
<1>6. /\ Record(t, to).suspendedFrom = t.suspendedFrom
      /\ Record(t, to).assignee = t.assignee
      /\ Record(t, to).started = t.started
      /\ Record(t, to).progress = t.progress
      /\ Record(t, to).candidates = t.candidates
      /\ Record(t, to).policy = t.policy
    BY DEF Record, TaskRecord
<1> QED
    BY <1>1, <1>2, <1>3, <1>4, <1>5, <1>6

\* A transition is legitimate when the change made before record() is: the
\* change u is described field by field, the rest is what record() does.
LEMMA RecordLegit ==
    ASSUME NEW t \in TaskRecord, NEW u \in TaskRecord, NEW to \in Statuses,
           u.version = t.version, u.closed = t.closed,
           t.status \in Suspendable \cup {"SUSPENDED"},
           CanTransition(t.status, to) \/ (to = t.status /\ t.status \in Suspendable),
           t.candidates.users \subseteq u.candidates.users,
           t.candidates.groups \subseteq u.candidates.groups,
           t.candidates.excluded = u.candidates.excluded,
           t.assignee \notin t.candidates.excluded => u.assignee \notin u.candidates.excluded,
           Coherent(t) =>
               /\ to # "CREATED"
               /\ to = "SUSPENDED" => u.suspendedFrom \in Suspendable
               /\ LET held == IF to = "SUSPENDED" THEN u.suspendedFrom ELSE to IN
                  /\ held = "READY" => u.assignee = Nobody
                  /\ held \in {"RESERVED", "IN_PROGRESS", "COMPLETED", "FAILED"} =>
                         u.assignee # Nobody
                  /\ held \in {"IN_PROGRESS", "COMPLETED", "FAILED"} => u.started
    PROVE  Legit(t, Record(u, to))
<1>0. /\ Record(u, to) \in TaskRecord
      /\ Record(u, to).version = u.version + 1
      /\ Record(u, to).status = to
      /\ Record(u, to).closed = IF to \in Terminal THEN TRUE ELSE u.closed
      /\ to \in Terminal => /\ Record(u, to).lockedBy = Nobody
                            /\ Record(u, to).lockedUntil = 0
      /\ Record(u, to).suspendedFrom = u.suspendedFrom
      /\ Record(u, to).assignee = u.assignee
      /\ Record(u, to).started = u.started
      /\ Record(u, to).candidates = u.candidates
    BY ONLY u \in TaskRecord, to \in Statuses, RecordFacts, Zenon
<1> DEFINE n == Record(u, to)
<1>1. /\ n \in TaskRecord
      /\ n.version = u.version + 1
      /\ n.status = to
      /\ n.closed = IF to \in Terminal THEN TRUE ELSE u.closed
      /\ to \in Terminal => n.lockedBy = Nobody /\ n.lockedUntil = 0
      /\ n.suspendedFrom = u.suspendedFrom
      /\ n.assignee = u.assignee
      /\ n.started = u.started
      /\ n.candidates = u.candidates
    BY ONLY <1>0
<1> HIDE DEF n
<1>2. Coherent(t) => Coherent(n)
    BY <1>1 DEF Coherent, HeldAs
<1> QED
    BY <1>1, <1>2, Zenon DEF Legit, n

\* Claim: an eligible actor, never an excluded one, comes to hold a READY task.
LEMMA ClaimedLegit ==
    ASSUME NEW t \in TaskRecord, NEW a \in Actors,
           MayClaim(t, a), IsEligible(t.candidates, a)
    PROVE  Legit(t, Claimed(t, a)) /\ Claimed(t, a).progress = t.progress
<1> DEFINE u == [t EXCEPT !.assignee = a]
<1>1. /\ u \in TaskRecord
      /\ u.assignee = a
      /\ u.version = t.version
      /\ u.closed = t.closed
      /\ u.progress = t.progress
      /\ u.candidates = t.candidates
      /\ u.suspendedFrom = t.suspendedFrom
      /\ u.started = t.started
    BY ActorsAssumption DEF TaskRecord
<1>2. "RESERVED" \in Statuses /\ t.status \in {"READY"} /\ CanTransition(t.status, "RESERVED")
    BY DEF Statuses, Suspendable, Terminal, RequireFrom, MayClaim
<1> HIDE DEF u
<1>3. Legit(t, Record(u, "RESERVED"))
    BY <1>1, <1>2, RecordLegit, ActorsAssumption
    DEF Suspendable, Coherent, HeldAs, MayClaim, IsEligible
<1> QED
    BY <1>1, <1>2, <1>3, RecordFacts, Zenon DEF Claimed, u

\* Release: the task goes back to the pool with nobody holding it.
LEMMA ReleasedLegit ==
    ASSUME NEW t \in TaskRecord, NEW a,
           MayRelease(t, a), t.candidates.excluded \subseteq Actors
    PROVE  Legit(t, Released(t)) /\ Released(t).progress = t.progress
<1> DEFINE u == [t EXCEPT !.assignee = Nobody]
<1>1. /\ u \in TaskRecord
      /\ u.assignee = Nobody
      /\ u.version = t.version
      /\ u.closed = t.closed
      /\ u.progress = t.progress
      /\ u.candidates = t.candidates
      /\ u.suspendedFrom = t.suspendedFrom
      /\ u.started = t.started
    BY ActorsAssumption DEF TaskRecord
<1>2. "READY" \in Statuses /\ t.status \in {"RESERVED"} /\ CanTransition(t.status, "READY")
    BY DEF Statuses, Suspendable, Terminal, RequireFrom, MayRelease
<1> HIDE DEF u
<1>3. Legit(t, Record(u, "READY"))
    BY <1>1, <1>2, RecordLegit, ActorsAssumption
    DEF Suspendable, Coherent, HeldAs, MayRelease
<1> QED
    BY <1>1, <1>2, <1>3, RecordFacts, Zenon DEF Released, u

\* Start: the holder stays, and the task is marked as started.
LEMMA StartedLegit ==
    ASSUME NEW t \in TaskRecord, NEW a,
           MayStart(t, a)
    PROVE  Legit(t, Started(t)) /\ Started(t).progress = t.progress
<1> DEFINE u == [t EXCEPT !.started = TRUE]
<1>1. /\ u \in TaskRecord
      /\ u.started = TRUE
      /\ u.version = t.version
      /\ u.closed = t.closed
      /\ u.progress = t.progress
      /\ u.candidates = t.candidates
      /\ u.assignee = t.assignee
      /\ u.suspendedFrom = t.suspendedFrom
    BY ActorsAssumption, Zenon DEF TaskRecord
<1>2. "IN_PROGRESS" \in Statuses /\ t.status \in {"RESERVED"} /\ CanTransition(t.status, "IN_PROGRESS")
    BY DEF Statuses, Suspendable, Terminal, RequireFrom, MayStart
<1> HIDE DEF u
<1>3. Legit(t, Record(u, "IN_PROGRESS"))
    BY <1>1, <1>2, RecordLegit, ActorsAssumption
    DEF Suspendable, Coherent, HeldAs, MayStart, RequireAssignee
<1> QED
    BY <1>1, <1>2, <1>3, RecordFacts, Zenon DEF Started, u

\* Complete: the task closes with its holder and without a lease.
LEMMA CompletedLegit ==
    ASSUME NEW t \in TaskRecord, NEW a,
           MayComplete(t, a)
    PROVE  Legit(t, Completed(t)) /\ Completed(t).progress = t.progress
<1>2. "COMPLETED" \in Statuses /\ t.status \in {"IN_PROGRESS"} /\ CanTransition(t.status, "COMPLETED")
    BY DEF Statuses, Suspendable, Terminal, RequireFrom, MayComplete
<1>3. Legit(t, Record(t, "COMPLETED"))
    BY <1>2, RecordLegit, ActorsAssumption
    DEF Suspendable, Coherent, HeldAs, MayComplete
<1> QED
    BY <1>2, <1>3, RecordFacts, Zenon DEF Completed

\* Fail: the task closes with its holder and without a lease.
LEMMA FailedLegit ==
    ASSUME NEW t \in TaskRecord, NEW a,
           MayFail(t, a)
    PROVE  Legit(t, Failed(t)) /\ Failed(t).progress = t.progress
<1>2. "FAILED" \in Statuses /\ t.status \in {"IN_PROGRESS"} /\ CanTransition(t.status, "FAILED")
    BY DEF Statuses, Suspendable, Terminal, RequireFrom, MayFail
<1>3. Legit(t, Record(t, "FAILED"))
    BY <1>2, RecordLegit, ActorsAssumption
    DEF Suspendable, Coherent, HeldAs, MayFail
<1> QED
    BY <1>2, <1>3, RecordFacts, Zenon DEF Failed

\* Delegate: the target, eligible and so not excluded, comes to hold the task.
LEMMA DelegatedLegit ==
    ASSUME NEW t \in TaskRecord, NEW a, NEW b \in Actors,
           MayDelegate(t, a, b), IsEligible(t.candidates, b)
    PROVE  Legit(t, Delegated(t, b)) /\ Delegated(t, b).progress = t.progress
<1> DEFINE u == [t EXCEPT !.assignee = b]
<1>1. /\ u \in TaskRecord
      /\ u.assignee = b
      /\ u.version = t.version
      /\ u.closed = t.closed
      /\ u.progress = t.progress
      /\ u.candidates = t.candidates
      /\ u.suspendedFrom = t.suspendedFrom
      /\ u.started = t.started
    BY ActorsAssumption DEF TaskRecord
<1>2. "RESERVED" \in Statuses /\ t.status \in {"RESERVED", "IN_PROGRESS"} /\ CanTransition(t.status, "RESERVED")
    BY DEF Statuses, Suspendable, Terminal, RequireFrom, MayDelegate
<1> HIDE DEF u
<1>3. Legit(t, Record(u, "RESERVED"))
    BY <1>1, <1>2, RecordLegit, ActorsAssumption
    DEF Suspendable, Coherent, HeldAs, MayDelegate, IsEligible
<1> QED
    BY <1>1, <1>2, <1>3, RecordFacts, Zenon DEF Delegated, u

\* Suspend: the task stays held as the state it was suspended in.
LEMMA SuspendedLegit ==
    ASSUME NEW t \in TaskRecord, NEW a,
           MaySuspend(t, a)
    PROVE  Legit(t, Suspended(t)) /\ Suspended(t).progress = t.progress
<1> DEFINE u == [t EXCEPT !.suspendedFrom = t.status]
<1>1. /\ u \in TaskRecord
      /\ u.suspendedFrom = t.status
      /\ u.version = t.version
      /\ u.closed = t.closed
      /\ u.progress = t.progress
      /\ u.candidates = t.candidates
      /\ u.assignee = t.assignee
      /\ u.started = t.started
    BY DEF TaskRecord, Suspendable, MaySuspend, RequireFrom
<1>2. "SUSPENDED" \in Statuses /\ t.status \in Suspendable /\ CanTransition(t.status, "SUSPENDED")
    BY DEF Statuses, Suspendable, Terminal, RequireFrom, MaySuspend
<1> HIDE DEF u
<1>3. Legit(t, Record(u, "SUSPENDED"))
    BY <1>1, <1>2, RecordLegit, ActorsAssumption
    DEF Suspendable, Coherent, HeldAs, MaySuspend
<1> QED
    BY <1>1, <1>2, <1>3, RecordFacts, Zenon DEF Suspended, u

\* Resume: the state that was suspended is restored, with its holder.
LEMMA ResumedLegit ==
    ASSUME NEW t \in TaskRecord, NEW a,
           MayResume(t, a)
    PROVE  Legit(t, Resumed(t)) /\ Resumed(t).progress = t.progress
<1> DEFINE u == [t EXCEPT !.suspendedFrom = "NONE"]
<1>1. /\ u \in TaskRecord
      /\ u.suspendedFrom = "NONE"
      /\ u.version = t.version
      /\ u.closed = t.closed
      /\ u.progress = t.progress
      /\ u.candidates = t.candidates
      /\ u.assignee = t.assignee
      /\ u.started = t.started
    BY DEF TaskRecord, Suspendable, MayResume, RequireFrom
<1>2. t.suspendedFrom \in Statuses /\ t.status \in {"SUSPENDED"} /\ CanTransition(t.status, t.suspendedFrom)
    BY DEF Statuses, Suspendable, Terminal, RequireFrom, MayResume
<1> HIDE DEF u
<1>3. Legit(t, Record(u, t.suspendedFrom))
    BY <1>1, <1>2, RecordLegit, ActorsAssumption
    DEF Suspendable, Coherent, HeldAs, MayResume
<1> QED
    BY <1>1, <1>2, <1>3, RecordFacts, Zenon DEF Resumed, u

\* Obsolete: a task that is superseded closes without a lease.
LEMMA ObsoletedLegit ==
    ASSUME NEW t \in TaskRecord,
           MayObsolete(t)
    PROVE  Legit(t, Obsoleted(t)) /\ Obsoleted(t).progress = t.progress
<1>2. "OBSOLETE" \in Statuses /\ t.status \in {"READY", "RESERVED"} /\ CanTransition(t.status, "OBSOLETE")
    BY DEF Statuses, Suspendable, Terminal, RequireFrom, MayObsolete
<1>3. Legit(t, Record(t, "OBSOLETE"))
    BY <1>2, RecordLegit, ActorsAssumption
    DEF Suspendable, Coherent, HeldAs, MayObsolete
<1> QED
    BY <1>2, <1>3, RecordFacts, Zenon DEF Obsoleted

\* Cancel: any open task closes without a lease.
LEMMA CancelledLegit ==
    ASSUME NEW t \in TaskRecord,
           MayCancel(t)
    PROVE  Legit(t, Cancelled(t)) /\ Cancelled(t).progress = t.progress
<1>2. "EXITED" \in Statuses /\ t.status \in Suspendable \cup {"SUSPENDED"} /\ CanTransition(t.status, "EXITED")
    BY DEF Statuses, Suspendable, Terminal, RequireFrom, MayCancel
<1>3. Legit(t, Record(t, "EXITED"))
    BY <1>2, RecordLegit, ActorsAssumption
    DEF Suspendable, Coherent, HeldAs, MayCancel
<1> QED
    BY <1>2, <1>3, RecordFacts, Zenon DEF Cancelled

\* SaveProgress: one more save is in the document, and the task is in progress.
LEMMA ProgressSavedLegit ==
    ASSUME NEW t \in TaskRecord, NEW a, MaySaveProgress(t, a)
    PROVE  Legit(t, ProgressSaved(t)) /\ ProgressSaved(t).progress = t.progress + 1
<1> DEFINE v == [t EXCEPT !.progress = t.progress + 1]
           u == [v EXCEPT !.started = IF t.status = "RESERVED" THEN TRUE ELSE t.started]
<1>1. /\ v \in TaskRecord
      /\ v.progress = t.progress + 1
      /\ v.version = t.version /\ v.closed = t.closed /\ v.candidates = t.candidates
      /\ v.assignee = t.assignee /\ v.suspendedFrom = t.suspendedFrom
    BY DEF TaskRecord
<1>2. t.started \in BOOLEAN
    BY DEF TaskRecord
<1> HIDE DEF v
<1>3. /\ u \in TaskRecord
      /\ u.started = IF t.status = "RESERVED" THEN TRUE ELSE t.started
      /\ u.progress = v.progress
      /\ u.version = v.version /\ u.closed = v.closed /\ u.candidates = v.candidates
      /\ u.assignee = v.assignee /\ u.suspendedFrom = v.suspendedFrom
    BY <1>1, <1>2, ZenonT(60) DEF TaskRecord
<1> HIDE DEF u
<1>4. /\ "IN_PROGRESS" \in Statuses /\ t.status \in {"RESERVED", "IN_PROGRESS"}
      /\ CanTransition(t.status, "IN_PROGRESS") \/ t.status = "IN_PROGRESS"
    BY DEF Statuses, Suspendable, MaySaveProgress, RequireFrom
<1>5. Legit(t, Record(u, "IN_PROGRESS"))
    BY <1>1, <1>3, <1>4, RecordLegit, Zenon DEF Suspendable, Coherent, HeldAs
<1>6. ProgressSaved(t) = Record(u, "IN_PROGRESS")
    BY DEF ProgressSaved, u, v
<1>7. Record(u, "IN_PROGRESS").progress = u.progress
    BY <1>3, <1>4, RecordFacts, Zenon
<1> QED
    BY <1>1, <1>3, <1>5, <1>6, <1>7

\* Escalate: superseded, or counted with a pool at least as wide as before.
LEMMA EscalatedLegit ==
    ASSUME NEW t \in TaskRecord, MayEscalate(t)
    PROVE  Legit(t, Escalated(t)) /\ Escalated(t).progress = t.progress
<1>1. CASE t.policy.action = "SUPERSEDE"
    BY <1>1, ObsoletedLegit DEF MayEscalate, Escalated
<1>2. CASE t.policy.action # "SUPERSEDE"
  <2> DEFINE p == IF t.policy.action = "WIDEN"
                  THEN Widened(t.candidates, t.policy) ELSE t.candidates
             v == [t EXCEPT !.escalationCount = t.escalationCount + 1]
             u == [v EXCEPT !.candidates = p]
  <2>1. /\ p \in CandidatePool
        /\ t.candidates.users \subseteq p.users
        /\ t.candidates.groups \subseteq p.groups
        /\ t.candidates.excluded = p.excluded
      BY Zenon DEF TaskRecord, CandidatePool, EscalationPolicy, Widened
  <2> HIDE DEF p
  <2>2. /\ v \in TaskRecord
        /\ v.progress = t.progress /\ v.started = t.started
        /\ v.version = t.version /\ v.closed = t.closed
        /\ v.assignee = t.assignee /\ v.suspendedFrom = t.suspendedFrom
      BY DEF TaskRecord
  <2> HIDE DEF v
  <2>3. /\ u \in TaskRecord
        /\ u.candidates = p
        /\ u.progress = v.progress /\ u.started = v.started
        /\ u.version = v.version /\ u.closed = v.closed
        /\ u.assignee = v.assignee /\ u.suspendedFrom = v.suspendedFrom
      BY <2>1, <2>2 DEF TaskRecord
  <2> HIDE DEF u
  <2>4. t.status \in Suspendable /\ t.status \in Statuses
      BY <1>2 DEF MayEscalate, Statuses
  <2>5. Legit(t, Record(u, t.status))
      BY <2>1, <2>2, <2>3, <2>4, RecordLegit DEF Suspendable, Coherent, HeldAs
  <2>6. Escalated(t) = Record(u, t.status)
      BY <1>2 DEF Escalated, u, v, p
  <2>7. Record(u, t.status).progress = u.progress
      BY <2>3, <2>4, RecordFacts, Zenon
  <2> QED
      BY <2>2, <2>3, <2>5, <2>6, <2>7
<1> QED
    BY <1>1, <1>2

\* What a new task is like when it is inserted.
Born(n) ==
    /\ n \in TaskRecord
    /\ n.version = 1
    /\ n.progress = 0
    /\ Coherent(n)
    /\ n.assignee \notin n.candidates.excluded
    /\ n.closed <=> n.status \in Terminal
    /\ n.closed => n.lockedBy = Nobody /\ n.lockedUntil = 0
    /\ CanTransition("CREATED", n.status)

\* What a task is before it is placed.
Unplaced(t, pool) ==
    /\ t \in TaskRecord
    /\ t.version = 0 /\ t.status = "CREATED" /\ t.assignee = Nobody
    /\ t.progress = 0 /\ t.closed = FALSE /\ t.suspendedFrom = "NONE"
    /\ t.candidates = pool /\ t.lockedBy = Nobody /\ t.lockedUntil = 0

\* NewTask: the task is of no actor and of no status but CREATED yet.
LEMMA NewTaskFacts ==
    ASSUME NEW pool \in Pools, NEW policy \in Policies, NEW dueAt \in DueDates
    PROVE  Unplaced(NewTask(pool, policy, dueAt), pool)
    BY ServiceAssumption DEF NewTask, TaskRecord, Statuses, Unplaced

\* Assign: whatever the strategy chooses, the new row is one the lifecycle allows.
LEMMA AssignBorn ==
    ASSUME NEW pool \in Pools, NEW policy \in Policies, NEW dueAt \in DueDates,
           NEW n \in Assign(NewTask(pool, policy, dueAt))
    PROVE  Born(n)
<1> DEFINE t == NewTask(pool, policy, dueAt)
<1>1. /\ t \in TaskRecord
      /\ t.version = 0 /\ t.status = "CREATED" /\ t.assignee = Nobody
      /\ t.progress = 0 /\ t.closed = FALSE /\ t.suspendedFrom = "NONE"
      /\ t.candidates = pool /\ t.lockedBy = Nobody /\ t.lockedUntil = 0
  <2>1. Unplaced(t, pool)
      BY NewTaskFacts, Zenon
  <2> QED
      BY <2>1, Zenon DEF Unplaced
<1>2. pool \in CandidatePool
    BY ServiceAssumption
<1> HIDE DEF t
<1>3. CASE n = Faulted(t)
  <2>1. "ERROR" \in Statuses /\ "ERROR" \in Terminal
      BY DEF Statuses, Terminal
  <2>2. Nobody \notin pool.excluded
      BY <1>2, ActorsAssumption DEF CandidatePool
  <2>3. /\ n \in TaskRecord /\ n.version = t.version + 1 /\ n.status = "ERROR"
        /\ n.closed = TRUE /\ n.lockedBy = Nobody /\ n.lockedUntil = 0
        /\ n.assignee = t.assignee /\ n.progress = t.progress
        /\ n.candidates = t.candidates
      BY <1>1, <1>3, <2>1, RecordFacts, Zenon DEF Faulted
  <2>4. CanTransition("CREATED", "ERROR")
      BY DEF CanTransition, LegalTransitions
  <2> QED
      BY <1>1, <2>1, <2>2, <2>3, <2>4 DEF Born, Coherent, HeldAs
<1>4. CASE \E a \in ResolveCandidates(pool) \cup {Nobody} : n = Activated(t, a)
  <2>1. PICK a \in ResolveCandidates(pool) \cup {Nobody} : n = Activated(t, a)
      BY <1>4
  <2>2. a \in Actors \cup {Nobody} /\ a \notin pool.excluded
      BY <1>2, ActorsAssumption, MembersAssumption DEF CandidatePool, ResolveCandidates
  <2> DEFINE u == [t EXCEPT !.assignee = a]
             to == IF a # Nobody THEN "RESERVED" ELSE "READY"
  <2>3. /\ u \in TaskRecord
        /\ u.assignee = a /\ u.version = t.version /\ u.closed = t.closed
        /\ u.progress = t.progress /\ u.candidates = t.candidates
        /\ u.suspendedFrom = t.suspendedFrom /\ u.started = t.started
      BY <1>1, <2>2 DEF TaskRecord
  <2>4. to \in Statuses /\ to \notin Terminal
      BY DEF Statuses, Terminal, Suspendable
  <2>5. n = Record(u, to)
      BY <2>1 DEF Activated
  <2> HIDE DEF u
  <2>6. /\ n \in TaskRecord /\ n.version = u.version + 1 /\ n.status = to
        /\ n.closed = u.closed
        /\ n.assignee = u.assignee /\ n.progress = u.progress
        /\ n.candidates = u.candidates
      BY <2>3, <2>4, <2>5, RecordFacts, ZenonT(60)
  <2>7. CanTransition("CREATED", to)
      BY DEF CanTransition, LegalTransitions
  <2> QED
      BY <1>1, <2>2, <2>3, <2>4, <2>6, <2>7 DEF Born, Coherent, HeldAs
<1> QED
    BY <1>1, <1>3, <1>4 DEF Assign, t

-----------------------------------------------------------------------------
(* The inductive invariant **********************************************)

\* Rows that were never inserted are the placeholder.
Unborn == \A id \in TaskIDs : ~Exists(id) => tasks[id] = NoTask

\* The safety properties strengthen each other: a snapshot is as sound as the
\* row it equals (SnapshotCurrent), and the row is sound because what a session
\* writes was computed from a sound snapshot.
IInv ==
    /\ TypeOK
    /\ Unborn
    /\ SnapshotCurrent
    /\ NoLostSave
    /\ HolderFollowsStatus
    /\ ExcludedNeverHolds
    /\ ClosedIsUnleased

\* Two tasks equal up to their lease agree on every other field.
LEMMA ContentsFacts ==
    ASSUME NEW t \in TaskRecord, NEW u \in TaskRecord, Contents(t) = Contents(u)
    PROVE  /\ t.version = u.version /\ t.status = u.status
           /\ t.suspendedFrom = u.suspendedFrom /\ t.assignee = u.assignee
           /\ t.started = u.started /\ t.closed = u.closed
           /\ t.progress = u.progress /\ t.candidates = u.candidates
           /\ t.policy = u.policy
           /\ t.escalationCount = u.escalationCount /\ t.dueAt = u.dueAt
<1> DEFINE a == Contents(t)
           b == Contents(u)
<1>1. /\ a.version = t.version /\ a.status = t.status
      /\ a.suspendedFrom = t.suspendedFrom /\ a.assignee = t.assignee
      /\ a.started = t.started /\ a.closed = t.closed
      /\ a.progress = t.progress /\ a.candidates = t.candidates
      /\ a.policy = t.policy
      /\ a.escalationCount = t.escalationCount /\ a.dueAt = t.dueAt
    BY DEF Contents, TaskRecord
<1>2. /\ b.version = u.version /\ b.status = u.status
      /\ b.suspendedFrom = u.suspendedFrom /\ b.assignee = u.assignee
      /\ b.started = u.started /\ b.closed = u.closed
      /\ b.progress = u.progress /\ b.candidates = u.candidates
      /\ b.policy = u.policy
      /\ b.escalationCount = u.escalationCount /\ b.dueAt = u.dueAt
    BY DEF Contents, TaskRecord
<1> HIDE DEF a, b
<1>3. a = b
    BY DEF a, b
<1> QED
    BY <1>1, <1>2, <1>3

\* The placeholder is a task, and an idle session has read it.
LEMMA NoTaskFacts ==
    /\ NoTask \in TaskRecord
    /\ NoTask.version = 0 /\ NoTask.progress = 0 /\ NoTask.assignee = Nobody
    /\ NoTask.closed = FALSE /\ NoTask.status = "CREATED"
    /\ NoTask.candidates \in CandidatePool
    /\ Idle.active = FALSE
    /\ Idle \in [active : BOOLEAN, id : TaskIDs, actor : Callers, task : TaskRecord]
<1> DEFINE pool == CHOOSE p \in Pools : TRUE
           policy == CHOOSE p \in Policies : TRUE
           due == CHOOSE d \in DueDates : TRUE
           some == CHOOSE id \in TaskIDs : TRUE
<1>1. pool \in Pools /\ policy \in Policies /\ due \in DueDates /\ some \in TaskIDs
    BY ServiceAssumption
<1>2. NoTask = NewTask(pool, policy, due)
    BY DEF NoTask
<1>3. Idle = [active |-> FALSE, id |-> some, actor |-> Nobody, task |-> NoTask]
    BY DEF Idle
<1> HIDE DEF pool, policy, due, some
<1> DEFINE t == NewTask(pool, policy, due)
<1>4. /\ t \in TaskRecord
      /\ t.version = 0 /\ t.progress = 0 /\ t.assignee = Nobody
      /\ t.closed = FALSE /\ t.status = "CREATED"
      /\ t.candidates = pool
    BY <1>1, ServiceAssumption DEF NewTask, TaskRecord, Statuses
<1> HIDE DEF t
<1>6. NoTask = t
    BY <1>2 DEF t
<1>5. Idle \in [active : BOOLEAN, id : TaskIDs, actor : Callers, task : TaskRecord]
    BY <1>1, <1>3, <1>4, <1>6 DEF Callers
<1> QED
    BY <1>1, <1>3, <1>4, <1>5, <1>6, ServiceAssumption

\* The initial state satisfies the invariant.
LEMMA InitIInv == Init => IInv
<1> SUFFICES ASSUME Init PROVE IInv
    OBVIOUS
<1>1. TypeOK
    BY NoTaskFacts DEF Init, TypeOK
<1>0. \A id \in TaskIDs : tasks[id] = NoTask /\ ~Exists(id)
    BY NoTaskFacts DEF Init, Exists
<1>2. Unborn /\ NoLostSave /\ HolderFollowsStatus
    BY <1>0, NoTaskFacts DEF Init, Unborn, NoLostSave, HolderFollowsStatus
<1>5. ExcludedNeverHolds
    BY <1>0, NoTaskFacts, ActorsAssumption DEF ExcludedNeverHolds, CandidatePool
<1>3. SnapshotCurrent
    BY NoTaskFacts DEF Init, SnapshotCurrent
<1>4. ClosedIsUnleased
    BY <1>0, NoTaskFacts DEF ClosedIsUnleased, Terminal
<1> QED
    BY <1>1, <1>2, <1>3, <1>4, <1>5 DEF IInv

\* A snapshot whose version is still the stored one is as sound as the row.
LEMMA SnapshotSound ==
    ASSUME IInv, NEW c \in Sessions, reads[c].active,
           tasks[reads[c].id].version = reads[c].task.version
    PROVE  LET t == reads[c].task  row == tasks[reads[c].id] IN
           /\ t \in TaskRecord /\ row \in TaskRecord /\ reads[c].id \in TaskIDs
           /\ Exists(reads[c].id)
           /\ t.version = row.version /\ t.progress = row.progress
           /\ t.status = row.status /\ t.closed = row.closed
           /\ t.assignee = row.assignee /\ t.candidates = row.candidates
           /\ t.suspendedFrom = row.suspendedFrom
           /\ t.policy = row.policy
           /\ t.escalationCount = row.escalationCount /\ t.dueAt = row.dueAt
           /\ Coherent(t)
           /\ t.assignee \notin t.candidates.excluded
           /\ t.closed <=> t.status \in Terminal
<1> DEFINE t == reads[c].task
           id == reads[c].id
           row == tasks[id]
<1>1. t \in TaskRecord /\ id \in TaskIDs /\ row \in TaskRecord
    BY DEF IInv, TypeOK
<1>2. 0 < t.version /\ Contents(t) = Contents(row)
    BY DEF IInv, SnapshotCurrent
<1>3. Exists(id)
    BY <1>2 DEF Exists
<1>4. /\ Coherent(row)
      /\ row.assignee \notin row.candidates.excluded
      /\ row.closed <=> row.status \in Terminal
    BY <1>1, <1>3 DEF IInv, HolderFollowsStatus, ExcludedNeverHolds, ClosedIsUnleased
<1> HIDE DEF t, id, row
<1>5. /\ t.version = row.version /\ t.status = row.status
      /\ t.suspendedFrom = row.suspendedFrom /\ t.assignee = row.assignee
      /\ t.started = row.started /\ t.closed = row.closed
      /\ t.progress = row.progress /\ t.candidates = row.candidates
      /\ t.policy = row.policy
      /\ t.escalationCount = row.escalationCount /\ t.dueAt = row.dueAt
    BY <1>1, <1>2, ContentsFacts
<1>6. Coherent(t)
    BY <1>4, <1>5 DEF Coherent, HeldAs
<1> QED
    BY <1>1, <1>3, <1>4, <1>5, <1>6, Zenon DEF t, id, row

\* Writing a row and the records of the write keeps the types.
LEMMA PersistTypes ==
    ASSUME TypeOK, NEW id \in TaskIDs, NEW op \in Operations, NEW t \in TaskRecord,
           NEW n \in TaskRecord, NEW actor \in Callers, NEW recorded, NEW announced,
           PersistOutcome(id, op, t, n, actor, recorded, announced)
    PROVE  /\ history' \in [TaskIDs -> Seq(TransitionRecord)]
           /\ outbox' \subseteq Event
<1>1. /\ t.status \in Statuses /\ n.status \in Statuses /\ n.version \in Nat
      /\ t.assignee \in Actors \cup {Nobody} /\ n.assignee \in Actors \cup {Nobody}
    BY DEF TaskRecord
<1>2. TransitionOf(op, t, n, actor) \in TransitionRecord
    BY <1>1, Zenon DEF TransitionOf, TransitionRecord
<1>3. EventOf(id, op, t, n, actor) \in Event
    BY <1>1 DEF EventOf, Event
<1>4. history' \in [TaskIDs -> Seq(TransitionRecord)]
  <2> DEFINE r == TransitionOf(op, t, n, actor)
  <2>1. Append(history[id], r) \in Seq(TransitionRecord)
      BY <1>2 DEF TypeOK
  <2>2. history' = IF recorded THEN [history EXCEPT ![id] = Append(history[id], r)]
                   ELSE history
      BY DEF PersistOutcome
  <2> HIDE DEF r
  <2> QED
      BY <2>1, <2>2 DEF TypeOK
<1>5. outbox' \subseteq Event
    BY <1>3 DEF PersistOutcome, TypeOK
<1> QED
    BY <1>4, <1>5

\* The commit of an operation: if what it writes follows legitimately from the
\* snapshot, and the progress moves with the saves, the invariant is kept.
LEMMA MutateSafe ==
    ASSUME IInv, NEW c \in Sessions, NEW op \in Operations, NEW n,
           NEW recorded, NEW announced,
           Legit(reads[c].task, n),
           Mutate(c, op, n, recorded, announced),
           \/ n.progress = reads[c].task.progress /\ saves' = saves
           \/ /\ n.progress = reads[c].task.progress + 1
              /\ saves' = [saves EXCEPT ![reads[c].id] = saves[reads[c].id] + 1]
    PROVE  IInv'
<1> DEFINE t == reads[c].task
           id == reads[c].id
           row == tasks[id]
<1>1. /\ reads[c].active
      /\ tasks[id].version = t.version
      /\ tasks' = [tasks EXCEPT ![id] = n]
      /\ PersistOutcome(id, op, t, n, reads[c].actor, recorded, announced)
      /\ reads' = [reads EXCEPT ![c] = Idle]
    BY Zenon DEF Mutate, Update
<1>2. /\ t \in TaskRecord /\ row \in TaskRecord /\ id \in TaskIDs
      /\ t.version = row.version /\ t.progress = row.progress
      /\ t.status = row.status /\ t.closed = row.closed
      /\ Coherent(t)
      /\ t.assignee \notin t.candidates.excluded
      /\ t.closed <=> t.status \in Terminal
    BY <1>1, SnapshotSound, Zenon
<1>3. /\ n \in TaskRecord
      /\ n.version = t.version + 1
      /\ n.version \in Nat
      /\ Coherent(n)
      /\ n.assignee \notin n.candidates.excluded
    BY <1>2, Zenon DEF Legit, TaskRecord
<1>4. /\ n.closed <=> n.status \in Terminal
      /\ n.closed => n.lockedBy = Nobody /\ n.lockedUntil = 0
  <2>1. t.status \notin Terminal
      BY Zenon DEF Legit, Suspendable, Terminal
  <2>2. ~t.closed
      BY <1>2, <2>1, Zenon
  <2> QED
      BY <2>2, Zenon DEF Legit
<1>5. reads[c].actor \in Callers
    BY SMTT(30) DEF IInv, TypeOK
<1>6. /\ tasks \in [TaskIDs -> TaskRecord]
      /\ tasks' \in [TaskIDs -> TaskRecord]
      /\ tasks'[id] = n
      /\ \A i \in TaskIDs : i # id => tasks'[i] = tasks[i]
    BY <1>1, <1>2, <1>3, Zenon DEF IInv, TypeOK
<1>7. /\ reads' \in [Sessions -> [active : BOOLEAN, id : TaskIDs, actor : Callers,
                                  task : TaskRecord]]
      /\ \A d \in Sessions : reads'[d].active => d # c /\ reads'[d] = reads[d]
    BY <1>1, NoTaskFacts, Zenon DEF IInv, TypeOK
<1>8. saves' \in [TaskIDs -> Nat] /\ NoLostSave'
  <2>1. saves \in [TaskIDs -> Nat] /\ \A i \in TaskIDs : tasks[i].progress = saves[i]
      BY SMTT(30) DEF IInv, TypeOK, NoLostSave
  <2>2. saves' \in [TaskIDs -> Nat]
      BY <1>2, <2>1
  <2>3. ASSUME NEW i \in TaskIDs PROVE tasks'[i].progress = saves'[i]
    <3>1. CASE i = id
        BY <1>2, <1>6, <2>1, <3>1, SMTT(30)
    <3>2. CASE i # id
        BY <1>2, <1>6, <2>1, <3>2, ZenonT(30)
    <3> QED
        BY <3>1, <3>2, Zenon
  <2> QED
      BY <2>2, <2>3, Zenon DEF NoLostSave
<1>9. TypeOK'
    BY <1>1, <1>2, <1>3, <1>5, <1>6, <1>7, <1>8, PersistTypes, Zenon DEF IInv, TypeOK
<1>10. Unborn'
    BY <1>2, <1>3, <1>6, SMTT(30) DEF IInv, Unborn, Exists, TaskRecord
<1>11. SnapshotCurrent'
  <2> SUFFICES ASSUME NEW d \in Sessions, reads'[d].active
               PROVE  LET r == tasks'[reads'[d].id]  s == reads'[d].task IN
                      /\ 0 < s.version /\ s.version <= r.version
                      /\ s.version = r.version => Contents(s) = Contents(r)
      BY Zenon DEF SnapshotCurrent
  <2> DEFINE s == reads[d].task
             j == reads[d].id
  <2>1. /\ reads'[d] = reads[d] /\ j \in TaskIDs /\ s \in TaskRecord
        /\ tasks[j] \in TaskRecord
      BY <1>6, <1>7, SMTT(30) DEF IInv, TypeOK
  <2>2. /\ 0 < s.version /\ s.version <= tasks[j].version
        /\ s.version = tasks[j].version => Contents(s) = Contents(tasks[j])
      BY <2>1, Zenon DEF IInv, SnapshotCurrent
  <2>3. s.version \in Nat /\ t.version \in Nat /\ tasks[j].version \in Nat
      BY <1>2, <2>1, Zenon DEF TaskRecord
  <2>4. CASE j = id
      BY <1>2, <1>3, <1>6, <2>1, <2>2, <2>3, <2>4, SMTT(30)
  <2>5. CASE j # id
      BY <1>6, <2>1, <2>2, <2>5, Zenon
  <2> QED
      BY <2>4, <2>5, Zenon
<1>12. HolderFollowsStatus'
    BY <1>3, <1>6, Zenon DEF IInv, HolderFollowsStatus, Exists
<1>13. ExcludedNeverHolds'
    BY <1>3, <1>6, Zenon DEF IInv, ExcludedNeverHolds
<1>14. ClosedIsUnleased'
    BY <1>4, <1>6, Zenon DEF IInv, ClosedIsUnleased
<1> QED
    BY <1>8, <1>9, <1>10, <1>11, <1>12, <1>13, <1>14, SMTT(30) DEF IInv

\* What every operation of the service is: the commit of a legitimate change.
Commits(c) ==
    \E op \in Operations, n \in TaskRecord, recorded \in BOOLEAN, announced \in BOOLEAN :
        /\ Legit(reads[c].task, n)
        /\ Mutate(c, op, n, recorded, announced)
        /\ \/ n.progress = reads[c].task.progress /\ saves' = saves
           \/ /\ n.progress = reads[c].task.progress + 1
              /\ saves' = [saves EXCEPT ![reads[c].id] = saves[reads[c].id] + 1]

\* A transition announced under its own operation is such a commit.
LEMMA TransitionCommits ==
    ASSUME NEW c \in Sessions, NEW op \in Operations, NEW n,
           Legit(reads[c].task, n), n.progress = reads[c].task.progress,
           Transition(c, op, n)
    PROVE  Commits(c)
<1>1. Mutate(c, op, n, TRUE, TRUE) /\ saves' = saves /\ n \in TaskRecord
    BY Zenon DEF Transition, Legit
<1> QED
    BY <1>1, Zenon DEF Commits

\* An eligible actor is one of the actors.
LEMMA EligibleIsActor ==
    ASSUME NEW t \in TaskRecord, NEW a, IsEligible(t.candidates, a)
    PROVE  a \in Actors
    BY MembersAssumption DEF TaskRecord, CandidatePool, IsEligible

\* Escalating is a commit, whoever escalates: a client or a sweeper.
LEMMA EscalateCommits ==
    ASSUME TypeOK, NEW c \in Sessions, Escalate(c)
    PROVE  Commits(c)
<1> DEFINE t == reads[c].task
           op == IF t.policy.action = "SUPERSEDE" THEN "OBSOLETE" ELSE "ESCALATE"
<1>1. t \in TaskRecord
    BY DEF TypeOK
<1>2. op \in Operations
    BY DEF Operations
<1>3. MayEscalate(t) /\ Transition(c, op, Escalated(t))
    BY DEF Escalate
<1> QED
    BY <1>1, <1>2, <1>3, EscalatedLegit, TransitionCommits, Zenon

\* A client's step takes a snapshot, rolls back, or commits.
LEMMA ClientStepCases ==
    ASSUME TypeOK, NEW c \in Sessions, ClientStep(c)
    PROVE  \/ \E id \in TaskIDs, a \in Requesters : Get(c, id, a)
           \/ Rollback(c)
           \/ Commits(c)
<1> DEFINE t == reads[c].task
           a == reads[c].actor
<1>0. t \in TaskRecord
    BY DEF TypeOK
<1>o. {"CLAIM", "RELEASE", "START", "COMPLETE", "FAIL", "DELEGATE", "SUSPEND", "RESUME",
       "CANCEL", "SAVE_PROGRESS"} \subseteq Operations
    BY SMTT(30) DEF Operations
<1>1. CASE Claim(c)
  <2>1. MayClaim(t, a) /\ IsEligible(t.candidates, a) /\ Transition(c, "CLAIM", Claimed(t, a))
      BY <1>1, Zenon DEF Claim
  <2> QED
      BY <1>0, <1>o, <2>1, EligibleIsActor, ClaimedLegit, TransitionCommits, Zenon
<1>2. CASE Release(c)
  <2>1. MayRelease(t, a) /\ Transition(c, "RELEASE", Released(t))
      BY <1>2 DEF Release
  <2>2. t.candidates.excluded \subseteq Actors
      BY <1>0 DEF TaskRecord, CandidatePool
  <2> QED
      BY <1>0, <1>o, <2>1, <2>2, ReleasedLegit, TransitionCommits, Zenon
<1>3. CASE Start(c)
  <2>1. MayStart(t, a) /\ Transition(c, "START", Started(t))
      BY <1>3 DEF Start
  <2> QED
      BY <1>0, <1>o, <2>1, StartedLegit, TransitionCommits, Zenon
<1>4. CASE Complete(c)
  <2>1. MayComplete(t, a) /\ Transition(c, "COMPLETE", Completed(t))
      BY <1>4 DEF Complete
  <2> QED
      BY <1>0, <1>o, <2>1, CompletedLegit, TransitionCommits, Zenon
<1>5. CASE Fail(c)
  <2>1. MayFail(t, a) /\ Transition(c, "FAIL", Failed(t))
      BY <1>5 DEF Fail
  <2> QED
      BY <1>0, <1>o, <2>1, FailedLegit, TransitionCommits, Zenon
<1>6. ASSUME NEW target \in Actors, Delegate(c, target) PROVE Commits(c)
  <2>1. /\ MayDelegate(t, a, target) /\ IsEligible(t.candidates, target)
        /\ Transition(c, "DELEGATE", Delegated(t, target))
      BY <1>6 DEF Delegate
  <2> QED
      BY <1>0, <1>o, <2>1, DelegatedLegit, TransitionCommits, Zenon
<1>7. CASE Suspend(c)
  <2>1. MaySuspend(t, a) /\ Transition(c, "SUSPEND", Suspended(t))
      BY <1>7, SMTT(30) DEF Suspend
  <2> QED
      BY <1>0, <1>o, <2>1, SuspendedLegit, TransitionCommits, Zenon
<1>8. CASE Resume(c)
  <2>1. MayResume(t, a) /\ Transition(c, "RESUME", Resumed(t))
      BY <1>8, SMTT(30) DEF Resume
  <2> QED
      BY <1>0, <1>o, <2>1, ResumedLegit, TransitionCommits, Zenon
<1>9. CASE Cancel(c)
  <2>1. MayCancel(t) /\ Transition(c, "CANCEL", Cancelled(t))
      BY <1>9, SMTT(30) DEF Cancel
  <2> QED
      BY <1>0, <1>o, <2>1, CancelledLegit, TransitionCommits, Zenon
<1>10. CASE SaveProgress(c)
  <2>1. /\ MaySaveProgress(t, a)
        /\ Mutate(c, "SAVE_PROGRESS", ProgressSaved(t), t.status = "RESERVED", FALSE)
        /\ saves' = [saves EXCEPT ![reads[c].id] = saves[reads[c].id] + 1]
      BY <1>10, Zenon DEF SaveProgress
  <2>2. Legit(t, ProgressSaved(t)) /\ ProgressSaved(t).progress = t.progress + 1
      BY <1>0, <2>1, ProgressSavedLegit, Zenon
  <2>3. ProgressSaved(t) \in TaskRecord
      BY <2>2, Zenon DEF Legit
  <2> QED
      BY <1>o, <2>1, <2>2, <2>3, Zenon DEF Commits
<1>11. CASE Escalate(c)
    BY <1>11, EscalateCommits, SMTT(30)
<1> QED
    BY <1>1, <1>2, <1>3, <1>4, <1>5, <1>6, <1>7, <1>8, <1>9, <1>10, <1>11, Zenon DEF ClientStep

\* A commit keeps the invariant.
LEMMA CommitsIInv ==
    ASSUME IInv, NEW c \in Sessions, Commits(c)
    PROVE  IInv'
<1>1. PICK op \in Operations, n \in TaskRecord, recorded \in BOOLEAN, announced \in BOOLEAN :
        /\ Legit(reads[c].task, n)
        /\ Mutate(c, op, n, recorded, announced)
        /\ \/ n.progress = reads[c].task.progress /\ saves' = saves
           \/ /\ n.progress = reads[c].task.progress + 1
              /\ saves' = [saves EXCEPT ![reads[c].id] = saves[reads[c].id] + 1]
    BY Zenon DEF Commits
<1> QED
    BY <1>1, MutateSafe, Zenon

\* Taking a snapshot and giving one up keep the invariant.
LEMMA GetIInv ==
    ASSUME IInv, NEW c \in Sessions, NEW id \in TaskIDs, NEW a \in Callers, Get(c, id, a)
    PROVE  IInv'
<1> DEFINE r == [active |-> TRUE, id |-> id, actor |-> a, task |-> tasks[id]]
<1>1. /\ reads' = [reads EXCEPT ![c] = r] /\ Exists(id)
      /\ tasks' = tasks /\ history' = history /\ outbox' = outbox /\ saves' = saves
    BY Zenon DEF Get
<1>2. tasks[id] \in TaskRecord /\ tasks[id].version \in Nat
    BY Zenon DEF IInv, TypeOK, TaskRecord
<1>3. /\ r \in [active : BOOLEAN, id : TaskIDs, actor : Callers, task : TaskRecord]
      /\ r.id = id /\ r.task = tasks[id]
    BY <1>2, Zenon
<1> HIDE DEF r
<1>4. TypeOK'
    BY <1>1, <1>3, SMTT(30) DEF IInv, TypeOK
<1>5. SnapshotCurrent'
  <2> SUFFICES ASSUME NEW d \in Sessions, reads'[d].active
               PROVE  LET row == tasks[reads'[d].id]  s == reads'[d].task IN
                      /\ 0 < s.version /\ s.version <= row.version
                      /\ s.version = row.version => Contents(s) = Contents(row)
      BY <1>1, Zenon DEF SnapshotCurrent
  <2>1. CASE d = c
      BY <1>1, <1>2, <1>3, <2>1, SMTT(30) DEF Exists, IInv, TypeOK
  <2>2. CASE d # c
    <3>1. reads'[d] = reads[d]
        BY <1>1, <2>2 DEF IInv, TypeOK
    <3> QED
        BY <3>1, Zenon DEF IInv, SnapshotCurrent
  <2> QED
      BY <2>1, <2>2, Zenon
<1> QED
    BY <1>1, <1>4, <1>5, Zenon
    DEF IInv, Unborn, NoLostSave, HolderFollowsStatus, ExcludedNeverHolds,
        ClosedIsUnleased, Exists

\* See GetIInv.
LEMMA RollbackIInv ==
    ASSUME IInv, NEW c \in Sessions, Rollback(c)
    PROVE  IInv'
<1>1. /\ reads' = [reads EXCEPT ![c] = Idle]
      /\ tasks' = tasks /\ history' = history /\ outbox' = outbox /\ saves' = saves
    BY DEF Rollback
<1>2. TypeOK'
    BY <1>1, NoTaskFacts, Zenon DEF IInv, TypeOK
<1>3. \A d \in Sessions : reads'[d].active => reads'[d] = reads[d]
    BY <1>1, NoTaskFacts, Zenon DEF IInv, TypeOK
<1>4. SnapshotCurrent'
    BY <1>1, <1>3 DEF IInv, SnapshotCurrent
<1> QED
    BY <1>1, <1>2, <1>4, Zenon
    DEF IInv, Unborn, NoLostSave, HolderFollowsStatus, ExcludedNeverHolds,
        ClosedIsUnleased, Exists

\* Creating a task keeps the invariant: no session has read a row that is not
\* there, and no save was counted for it.
LEMMA CreateIInv ==
    ASSUME IInv, NEW id \in TaskIDs, NEW a \in Callers, Create(id, a)
    PROVE  IInv'
<1>1. PICK pool \in Pools, policy \in Policies, dueAt \in DueDates :
        \E placed \in Assign(NewTask(pool, policy, dueAt)) :
            /\ ~Exists(id)
            /\ tasks' = [tasks EXCEPT ![id] = placed]
            /\ IF placed.status = "ERROR"
               THEN PersistOutcome(id, "FAULT", NewTask(pool, policy, dueAt), placed,
                                   Nobody, TRUE, TRUE)
               ELSE PersistOutcome(id, "CREATE", NewTask(pool, policy, dueAt), placed,
                                   a, TRUE, TRUE)
            /\ UNCHANGED <<reads, saves>>
    BY Zenon DEF Create
<1> DEFINE t == NewTask(pool, policy, dueAt)
<1>2. PICK n \in Assign(t) :
            /\ ~Exists(id)
            /\ tasks' = [tasks EXCEPT ![id] = n]
            /\ IF n.status = "ERROR"
               THEN PersistOutcome(id, "FAULT", t, n, Nobody, TRUE, TRUE)
               ELSE PersistOutcome(id, "CREATE", t, n, a, TRUE, TRUE)
            /\ UNCHANGED <<reads, saves>>
    BY <1>1, ZenonT(60)
<1>3. Born(n) /\ n \in TaskRecord
    BY AssignBorn, Zenon DEF Born
<1>4. t \in TaskRecord
    BY NewTaskFacts, Zenon DEF Unplaced
<1> HIDE DEF t
<1>5. /\ tasks \in [TaskIDs -> TaskRecord]
      /\ tasks' \in [TaskIDs -> TaskRecord] /\ tasks'[id] = n
      /\ \A i \in TaskIDs : i # id => tasks'[i] = tasks[i]
      /\ reads' = reads /\ saves' = saves
    BY <1>2, <1>3, Zenon DEF IInv, TypeOK
<1>6. /\ history' \in [TaskIDs -> Seq(TransitionRecord)]
      /\ outbox' \subseteq Event
  <2>1. "FAULT" \in Operations /\ "CREATE" \in Operations /\ Nobody \in Callers /\ TypeOK
      BY Zenon DEF Operations, Callers, IInv
  <2> QED
      BY <1>2, <1>3, <1>4, <2>1, PersistTypes, ZenonT(60)
<1>7. TypeOK'
    BY <1>5, <1>6, Zenon DEF IInv, TypeOK
<1>8. tasks[id].progress = 0 /\ tasks[id].version = 0
    BY <1>2, NoTaskFacts, Zenon DEF IInv, Unborn
<1>9. NoLostSave' /\ Unborn' /\ HolderFollowsStatus' /\ ExcludedNeverHolds'
    BY <1>3, <1>5, <1>8, SMTT(30)
    DEF IInv, NoLostSave, Unborn, HolderFollowsStatus, ExcludedNeverHolds, Exists, Born
<1>10. ClosedIsUnleased'
    BY <1>3, <1>5, Zenon DEF IInv, ClosedIsUnleased, Born
<1>11. SnapshotCurrent'
  <2> SUFFICES ASSUME NEW d \in Sessions, reads[d].active
               PROVE  LET row == tasks'[reads[d].id]  s == reads[d].task IN
                      /\ 0 < s.version /\ s.version <= row.version
                      /\ s.version = row.version => Contents(s) = Contents(row)
      BY <1>5, Zenon DEF SnapshotCurrent
  <2>1. reads[d].id \in TaskIDs /\ reads[d].task.version \in Nat
      BY Zenon DEF IInv, TypeOK, TaskRecord
  <2>2. reads[d].id # id
      BY <1>8, <2>1 DEF IInv, SnapshotCurrent
  <2> QED
      BY <1>5, <2>1, <2>2, Zenon DEF IInv, SnapshotCurrent
<1> QED
    BY <1>7, <1>9, <1>10, <1>11 DEF IInv

\* Every step of the service keeps the invariant.
LEMMA NextIInv ==
    ASSUME IInv, [Next]_serviceVars
    PROVE  IInv'
<1>1. ASSUME NEW id \in TaskIDs, NEW a \in Requesters, Create(id, a) PROVE IInv'
    BY <1>1, CreateIInv, ServiceAssumption, Zenon DEF Callers
<1>2. ASSUME NEW c \in Clients, ClientStep(c) PROVE IInv'
  <2>1. c \in Sessions /\ TypeOK
      BY DEF Sessions, IInv
  <2>2. Requesters \subseteq Callers
      BY ServiceAssumption, SMTT(30) DEF Callers
  <2> QED
      BY <1>2, <2>1, <2>2, ClientStepCases, GetIInv, RollbackIInv, CommitsIInv, Zenon
<1>3. CASE UNCHANGED serviceVars
    BY <1>3, Zenon
    DEF serviceVars, IInv, TypeOK, Unborn, SnapshotCurrent, NoLostSave,
        HolderFollowsStatus, ExcludedNeverHolds, ClosedIsUnleased, Exists
<1> QED
    BY <1>1, <1>2, <1>3 DEF Next

\* Every step of the service is a legal one.
LEMMA NextLegal ==
    ASSUME IInv, [Next]_serviceVars
    PROVE  LegalStep
<1> SUFFICES ASSUME NEW id \in TaskIDs, Contents(tasks[id]) # Contents(tasks'[id])
             PROVE  LET t == tasks[id]  n == tasks'[id] IN
                    /\ n.version = t.version + 1
                    /\ CanTransition(t.status, n.status)
                         \/ (n.status = t.status /\ t.status \in Suspendable)
                    /\ Exists(id) => /\ t.candidates.users \subseteq n.candidates.users
                                     /\ t.candidates.groups \subseteq n.candidates.groups
                                     /\ t.candidates.excluded = n.candidates.excluded
    BY Zenon DEF LegalStep
<1>1. ASSUME NEW i \in TaskIDs, NEW a \in Requesters, Create(i, a)
      PROVE  /\ ~Exists(id) /\ tasks'[id].version = tasks[id].version + 1
             /\ CanTransition(tasks[id].status, tasks'[id].status)
  <2>1. PICK pool \in Pools, policy \in Policies, dueAt \in DueDates :
          \E n \in Assign(NewTask(pool, policy, dueAt)) :
              ~Exists(i) /\ tasks' = [tasks EXCEPT ![i] = n]
      BY <1>1, Zenon DEF Create
  <2>2. PICK n \in Assign(NewTask(pool, policy, dueAt)) :
              ~Exists(i) /\ tasks' = [tasks EXCEPT ![i] = n]
      BY <2>1, Zenon
  <2>3. Born(n)
      BY AssignBorn, Zenon
  <2>4. i = id /\ tasks'[id] = n
      BY <2>2, Zenon DEF IInv, TypeOK
  <2>5. tasks[id] = NoTask
      BY <2>2, <2>4, Zenon DEF IInv, Unborn
  <2> QED
      BY <2>2, <2>3, <2>4, <2>5, NoTaskFacts DEF Born
<1>2. ASSUME NEW c \in Clients, Commits(c)
      PROVE  LET t == tasks[id]  n == tasks'[id] IN
             /\ n.version = t.version + 1
             /\ CanTransition(t.status, n.status)
                  \/ (n.status = t.status /\ t.status \in Suspendable)
             /\ t.candidates.users \subseteq n.candidates.users
             /\ t.candidates.groups \subseteq n.candidates.groups
             /\ t.candidates.excluded = n.candidates.excluded
  <2>1. PICK op \in Operations, n \in TaskRecord, recorded \in BOOLEAN,
             announced \in BOOLEAN :
          Legit(reads[c].task, n) /\ Mutate(c, op, n, recorded, announced)
      BY <1>2, Zenon DEF Commits
  <2>2. /\ reads[c].active /\ c \in Sessions
        /\ tasks[reads[c].id].version = reads[c].task.version
        /\ tasks' = [tasks EXCEPT ![reads[c].id] = n]
      BY <2>1, Zenon DEF Mutate, Update, Sessions
  <2> DEFINE t == reads[c].task
             row == tasks[reads[c].id]
  <2>3. /\ t.version = row.version /\ t.status = row.status
        /\ t.candidates = row.candidates
      BY <2>2, SnapshotSound, Zenon
  <2>4. reads[c].id = id /\ tasks'[id] = n
      BY <2>2, Zenon DEF IInv, TypeOK
  <2> QED
      BY <2>1, <2>3, <2>4, Zenon DEF Legit
<1>3. ASSUME NEW c \in Clients, ClientStep(c)
      PROVE  Commits(c)
  <2>1. c \in Sessions /\ TypeOK
      BY Zenon DEF Sessions, IInv
  <2>2. tasks' # tasks
      OBVIOUS
  <2> QED
      BY <1>3, <2>1, <2>2, ClientStepCases, Zenon DEF Get, Rollback
<1>4. ~UNCHANGED serviceVars
    BY DEF serviceVars
<1> QED
    BY <1>1, <1>2, <1>3, <1>4, Zenon DEF Next

-----------------------------------------------------------------------------
(* The theorems *********************************************************)

\* The invariant holds in every reachable state of the service.
THEOREM Invariance == Spec => []IInv
<1>1. Init => IInv
    BY InitIInv
<1>2. IInv /\ [Next]_serviceVars => IInv'
    BY NextIInv
<1> QED
    BY <1>1, <1>2, PTL DEF Spec

\* Every row, record, event and snapshot has its type (task.go, event.go).
THEOREM TypeCorrect == Spec => []TypeOK
<1>1. IInv => TypeOK
    BY DEF IInv
<1> QED
    BY <1>1, Invariance, PTL

\* Optimistic concurrency is sound: equal versions mean equal tasks, so the
\* conditional write of UpdateTask never overwrites what it has not read.
THEOREM OptimisticConcurrency == Spec => []SnapshotCurrent
<1>1. IInv => SnapshotCurrent
    BY DEF IInv
<1> QED
    BY <1>1, Invariance, PTL

\* No progress save that was answered with success is ever lost (SaveProgress).
THEOREM SavesSurvive == Spec => []NoLostSave
<1>1. IInv => NoLostSave
    BY DEF IInv
<1> QED
    BY <1>1, Invariance, PTL

\* The assignee follows the status, through suspension included (record and
\* the transitions that call it).
THEOREM HoldersCoherent == Spec => []HolderFollowsStatus
<1>1. IInv => HolderFollowsStatus
    BY DEF IInv
<1> QED
    BY <1>1, Invariance, PTL

\* Exclusion holds: no excluded actor is ever a task's assignee (IsEligible,
\* ResolveCandidates).
THEOREM ExclusionHolds == Spec => []ExcludedNeverHolds
<1>1. IInv => ExcludedNeverHolds
    BY DEF IInv
<1> QED
    BY <1>1, Invariance, PTL

\* Closed tasks, and only they, are terminal, and carry no lease (record).
THEOREM ClosedForGood == Spec => []ClosedIsUnleased
<1>1. IInv => ClosedIsUnleased
    BY DEF IInv
<1> QED
    BY <1>1, Invariance, PTL

\* Every change of a stored task is one the transition table permits, moves
\* the version by one and never narrows the candidate pool (legalTransitions).
THEOREM StepsAreLegal == Spec => OnlyLegalSteps
<1>1. IInv /\ [Next]_serviceVars => [LegalStep]_serviceVars
    BY NextLegal
<1> QED
    BY <1>1, Invariance, PTL DEF Spec, OnlyLegalSteps

(* The records **********************************************************)

\* No event is ahead of its task.
EventsBounded == \A e \in outbox : e.version <= tasks[e.task].version

\* The history and the outbox strengthen each other: a new event is the latest
\* of its task because no event is ahead of the row, and it names the holder
\* the preceding event announced because that one named the row's.
RecordsInv == HistoryReplays /\ OutboxMatchesHistory /\ EventsBounded

\* What an operation records of the change of t into n: a change of status is
\* recorded, a change of holder announced, and only a progress save is recorded
\* without being announced (mutate, SaveProgress).
Logged(op, t, n, recorded, announced) ==
    /\ recorded \in BOOLEAN /\ announced \in BOOLEAN
    /\ announced <=> recorded /\ op # "SAVE_PROGRESS"
    /\ ~recorded => n.status = t.status
    /\ ~announced => n.assignee = t.assignee

\* Appending to a sequence: its length and its elements.
LEMMA AppendFacts ==
    ASSUME NEW S, NEW s \in Seq(S), NEW r \in S
    PROVE  /\ Append(s, r) \in Seq(S)
           /\ Len(s) \in Nat
           /\ Len(Append(s, r)) = Len(s) + 1
           /\ \A i \in 1..Len(s) : Append(s, r)[i] = s[i]
           /\ Append(s, r)[Len(s) + 1] = r
           /\ DOMAIN s = 1..Len(s)
           /\ DOMAIN Append(s, r) = 1..(Len(s) + 1)
    OBVIOUS

\* A write and what it records, as the commit of an operation or as a creation
\* makes it, keeps the history replaying to the stored task.
LEMMA HistoryKept ==
    ASSUME TypeOK, HistoryReplays,
           NEW id \in TaskIDs, NEW op \in Operations, NEW t \in TaskRecord,
           NEW n \in TaskRecord, NEW actor \in Callers, NEW recorded, NEW announced,
           t.status = tasks[id].status,
           ~Exists(id) => t.status = "CREATED",
           ~Exists(id) => recorded,
           n.version = tasks[id].version + 1,
           tasks' = [tasks EXCEPT ![id] = n],
           Logged(op, t, n, recorded, announced),
           PersistOutcome(id, op, t, n, actor, recorded, announced)
    PROVE  HistoryReplays'
<1> DEFINE r == TransitionOf(op, t, n, actor)
           h == history[id]
<1>1. /\ tasks'[id] = n /\ tasks[id].version \in Nat /\ n.version \in Nat
      /\ \A i \in TaskIDs : i # id => tasks'[i] = tasks[i]
      /\ h \in Seq(TransitionRecord)
    BY DEF TypeOK, TaskRecord
<1>2. /\ r \in TransitionRecord /\ r.from = t.status /\ r.to = n.status
      /\ r.version = n.version
    BY DEF TransitionOf, TransitionRecord, TaskRecord
<1>3. history' = IF recorded THEN [history EXCEPT ![id] = Append(h, r)] ELSE history
    BY DEF PersistOutcome
<1> HIDE DEF r
<1>4. /\ \A i \in TaskIDs : i # id => history'[i] = history[i]
      /\ recorded => history'[id] = Append(h, r)
      /\ ~recorded => history'[id] = h
    BY <1>3 DEF TypeOK
<1>5. /\ Exists(id) <=> Len(h) > 0
      /\ Len(h) > 0 => /\ h[1].from = "CREATED" /\ h[1].version = 1
                       /\ h[Len(h)].to = tasks[id].status
                       /\ h[Len(h)].version <= tasks[id].version
      /\ \A i \in 1..(Len(h) - 1) : /\ h[i].to = h[i + 1].from
                                    /\ h[i].version < h[i + 1].version
    BY DEF HistoryReplays
<1>6. /\ Len(h) \in Nat
      /\ \A i \in 1..Len(h) : h[i] \in TransitionRecord /\ h[i].version \in Nat
  <2>1. Len(h) \in Nat /\ \A i \in 1..Len(h) : h[i] \in TransitionRecord
      BY <1>1
  <2>2. \A x \in TransitionRecord : x.version \in Nat
      BY DEF TransitionRecord
  <2> QED
      BY <2>1, <2>2
<1> SUFFICES ASSUME NEW i \in TaskIDs
             PROVE  LET g == history'[i]  k == Len(g) IN
                    /\ tasks'[i].version > 0 <=> k > 0
                    /\ k > 0 => /\ g[1].from = "CREATED" /\ g[1].version = 1
                                /\ g[k].to = tasks'[i].status
                                /\ g[k].version <= tasks'[i].version
                    /\ \A j \in 1..(k - 1) : /\ g[j].to = g[j + 1].from
                                             /\ g[j].version < g[j + 1].version
    BY DEF HistoryReplays, Exists
<1>7. CASE i # id
    BY <1>1, <1>4, <1>7 DEF HistoryReplays, Exists
<1>8. CASE i = id /\ ~recorded
  <2>1. Exists(id) /\ n.status = t.status
      BY <1>8 DEF Logged
  <2>2. history'[i] = h /\ tasks'[i] = n /\ tasks[id].version > 0
      BY <1>1, <1>4, <1>8, <2>1 DEF Exists
  <2> HIDE DEF h
  <2>3. /\ Len(h) > 0 /\ n.version > 0
        /\ Len(h) \in 1..Len(h) /\ h[Len(h)].version \in Nat
      BY <1>1, <1>5, <1>6, <2>1, <2>2
  <2>4. h[Len(h)].version <= n.version
      BY <1>1, <1>5, <2>3
  <2> QED
      BY <1>5, <2>1, <2>2, <2>3, <2>4
<1>9. CASE i = id /\ recorded
  <2> DEFINE g == Append(h, r)
  <2>1. /\ Len(g) = Len(h) + 1 /\ g[Len(h) + 1] = r
        /\ \A j \in 1..Len(h) : g[j] = h[j]
      BY <1>1, <1>2, AppendFacts
  <2>2. history'[i] = g /\ tasks'[i] = n
      BY <1>1, <1>4, <1>9
  <2> HIDE DEF g, h
  <2>3. n.version > 0 /\ Len(g) > 0
      BY <1>1, <1>6, <2>1
  <2>4. g[1].from = "CREATED" /\ g[1].version = 1
    <3>1. CASE Len(h) = 0
      <4>1. ~Exists(id) /\ tasks[id].version = 0
          BY <1>1, <1>5, <3>1 DEF Exists
      <4> QED
          BY <1>2, <2>1, <3>1, <4>1
    <3>2. CASE Len(h) > 0
        BY <1>5, <1>6, <2>1, <3>2
    <3> QED
        BY <1>6, <3>1, <3>2
  <2>5. g[Len(g)].to = n.status /\ g[Len(g)].version <= n.version
      BY <1>1, <1>2, <2>1
  <2>6. ASSUME NEW j \in 1..(Len(g) - 1)
        PROVE  g[j].to = g[j + 1].from /\ g[j].version < g[j + 1].version
    <3>1. j \in 1..Len(h)
        BY <1>6, <2>1
    <3>2. CASE j = Len(h)
      <4>1. Len(h) > 0 /\ h[j].version \in Nat
          BY <1>6, <3>1, <3>2
      <4> QED
          BY <1>1, <1>2, <1>5, <2>1, <3>1, <3>2, <4>1
    <3>3. CASE j # Len(h)
      <4>1. j \in 1..(Len(h) - 1) /\ j + 1 \in 1..Len(h)
          BY <1>6, <3>1, <3>3
      <4> QED
          BY <1>5, <2>1, <3>1, <4>1
    <3> QED
        BY <3>2, <3>3
  <2> QED
      BY <2>2, <2>3, <2>4, <2>5, <2>6
<1> QED
    BY <1>7, <1>8, <1>9 DEF Logged

\* The same for the outbox: each record but a progress save's has its event,
\* and the events of a task name its holders in order.
LEMMA OutboxKept ==
    ASSUME TypeOK, HistoryReplays, OutboxMatchesHistory, EventsBounded,
           NEW id \in TaskIDs, NEW op \in Operations, NEW t \in TaskRecord,
           NEW n \in TaskRecord, NEW actor \in Callers, NEW recorded, NEW announced,
           t.assignee = tasks[id].assignee,
           n.version = tasks[id].version + 1,
           tasks' = [tasks EXCEPT ![id] = n],
           Logged(op, t, n, recorded, announced),
           PersistOutcome(id, op, t, n, actor, recorded, announced)
    PROVE  OutboxMatchesHistory' /\ EventsBounded'
<1> DEFINE r == TransitionOf(op, t, n, actor)
           ev == EventOf(id, op, t, n, actor)
           h == history[id]
           Told(e) == [op |-> e.op, to |-> e.status, version |-> e.version, actor |-> e.actor]
           Kept(x) == [op |-> x.op, to |-> x.to, version |-> x.version, actor |-> x.actor]
<1>1. /\ tasks'[id] = n /\ tasks[id].version \in Nat /\ n.version \in Nat
      /\ \A i \in TaskIDs : i # id => tasks'[i] = tasks[i]
      /\ \A i \in TaskIDs : tasks[i].version \in Nat
      /\ h \in Seq(TransitionRecord)
    BY DEF TypeOK, TaskRecord
<1>2. /\ r \in TransitionRecord /\ r.op = op
      /\ Kept(r) = [op |-> op, to |-> n.status, version |-> n.version, actor |-> actor]
    BY DEF TransitionOf, TransitionRecord, TaskRecord
<1>3. /\ ev.task = id /\ ev.version = n.version /\ ev.assignee = n.assignee
      /\ ev.previousAssignee = IF t.assignee # n.assignee THEN t.assignee ELSE Nobody
      /\ Told(ev) = [op |-> op, to |-> n.status, version |-> n.version, actor |-> actor]
    BY DEF EventOf
<1>4. /\ history' = IF recorded THEN [history EXCEPT ![id] = Append(h, r)] ELSE history
      /\ outbox' = IF announced THEN outbox \cup {ev} ELSE outbox
    BY DEF PersistOutcome
<1>5. \A e \in outbox : /\ e.task \in TaskIDs /\ e.version \in Nat
                        /\ e.version <= tasks[e.task].version
  <2>1. \A e \in Event : e.task \in TaskIDs /\ e.version \in Nat
      BY DEF Event
  <2> QED
      BY <2>1 DEF TypeOK, EventsBounded
<1> HIDE DEF r, ev
<1>6. /\ \A i \in TaskIDs : i # id => history'[i] = history[i]
      /\ recorded => history'[id] = Append(h, r)
      /\ ~recorded => history'[id] = h
    BY <1>4 DEF TypeOK
<1>7. /\ \A i \in TaskIDs : i # id => EventsOf(i)' = EventsOf(i)
      /\ announced => EventsOf(id)' = EventsOf(id) \cup {ev}
      /\ ~announced => outbox' = outbox
    BY <1>3, <1>4, Zenon DEF EventsOf
<1>8. /\ \A i \in TaskIDs : i # id => RecordsOf(i)' = RecordsOf(i)
      /\ recorded => RecordsOf(id)' = RecordsOf(id) \cup {r}
      /\ ~recorded => RecordsOf(id)' = RecordsOf(id)
  <2>1. \A i \in TaskIDs : i # id => RecordsOf(i)' = RecordsOf(i)
      BY <1>6 DEF RecordsOf
  <2>2. ASSUME ~recorded PROVE RecordsOf(id)' = RecordsOf(id)
      BY <1>6, <2>2 DEF RecordsOf
  <2>3. ASSUME recorded PROVE RecordsOf(id)' = RecordsOf(id) \cup {r}
    <3> DEFINE g == Append(h, r)
    <3>1. /\ DOMAIN g = 1..(Len(h) + 1) /\ DOMAIN h = 1..Len(h) /\ Len(h) \in Nat
          /\ g[Len(h) + 1] = r /\ \A j \in 1..Len(h) : g[j] = h[j]
        BY <1>1, <1>2, AppendFacts
    <3>2. history'[id] = g
        BY <1>6, <2>3
    <3> HIDE DEF g
    <3>3. {g[i] : i \in DOMAIN g} = {h[i] : i \in DOMAIN h} \cup {r}
        BY <3>1
    <3> QED
        BY <3>2, <3>3 DEF RecordsOf
  <2> QED
      BY <2>1, <2>2, <2>3
<1>9. ASSUME NEW i \in TaskIDs
      PROVE  {Told(e) : e \in EventsOf(i)'}
           = {Kept(x) : x \in {y \in RecordsOf(i)' : y.op # "SAVE_PROGRESS"}}
  <2>1. {Told(e) : e \in EventsOf(i)}
      = {Kept(x) : x \in {y \in RecordsOf(i) : y.op # "SAVE_PROGRESS"}}
      BY Zenon DEF OutboxMatchesHistory
  <2>2. Told(ev) = Kept(r)
      BY <1>2, <1>3, Zenon
  <2> HIDE DEF Told, Kept
  <2>3. CASE i # id
      BY <1>7, <1>8, <2>1, <2>3
  <2>4. CASE i = id /\ announced
    <3>1. recorded /\ r.op # "SAVE_PROGRESS"
        BY <1>2, <2>4 DEF Logged
    <3>2. {y \in RecordsOf(i)' : y.op # "SAVE_PROGRESS"}
        = {y \in RecordsOf(i) : y.op # "SAVE_PROGRESS"} \cup {r}
        BY <1>8, <2>4, <3>1
    <3>3. EventsOf(i)' = EventsOf(i) \cup {ev}
        BY <1>7, <2>4
    <3> DEFINE E == EventsOf(i)
               R == {y \in RecordsOf(i) : y.op # "SAVE_PROGRESS"}
    <3>4. /\ {Told(e) : e \in E \cup {ev}} = {Told(e) : e \in E} \cup {Told(ev)}
          /\ {Kept(x) : x \in R \cup {r}} = {Kept(x) : x \in R} \cup {Kept(r)}
      <4> HIDE DEF E, R
      <4> QED
          OBVIOUS
    <3> QED
        BY <2>1, <2>2, <3>2, <3>3, <3>4
  <2>5. CASE i = id /\ ~announced
    <3>1. {y \in RecordsOf(i)' : y.op # "SAVE_PROGRESS"}
        = {y \in RecordsOf(i) : y.op # "SAVE_PROGRESS"}
        BY <1>2, <1>8, <2>5 DEF Logged
    <3>2. EventsOf(i)' = EventsOf(i)
        BY <1>7, <2>5 DEF EventsOf
    <3> QED
        BY <2>1, <3>1, <3>2
  <2> QED
      BY <2>3, <2>4, <2>5 DEF Logged
<1>10. EventsBounded'
  <2> SUFFICES ASSUME NEW e \in outbox' PROVE e.version <= tasks'[e.task].version
      BY Zenon DEF EventsBounded
  <2>1. CASE e \in outbox
      BY <1>1, <1>5, <2>1
  <2>2. CASE e = ev
      BY <1>1, <1>3, <2>2
  <2> QED
      BY <1>4, <2>1, <2>2
<1>11. ASSUME NEW e \in outbox', \A x \in EventsOf(e.task)' : x.version <= e.version
       PROVE  e.assignee = tasks'[e.task].assignee
  <2>1. CASE e = ev /\ announced
      BY <1>1, <1>3, <2>1, Zenon
  <2>2. CASE e \in outbox
    <3>1. ~(e.task = id /\ announced)
        BY <1>1, <1>3, <1>5, <1>7, <1>11, <2>2
    <3>2. \A x \in EventsOf(e.task) : x.version <= e.version
        BY <1>5, <1>7, <1>11, <2>2, <3>1, Zenon DEF EventsOf
    <3>3. e.assignee = tasks[e.task].assignee
        BY <2>2, <3>2, Zenon DEF OutboxMatchesHistory
    <3> QED
        BY <1>1, <1>5, <2>2, <3>1, <3>3 DEF Logged
  <2> QED
      BY <1>4, <2>1, <2>2 DEF Logged
<1>12. ASSUME NEW d \in outbox', NEW e \in outbox',
              d.task = e.task, d.version < e.version,
              \A x \in EventsOf(e.task)' : ~(d.version < x.version /\ x.version < e.version)
       PROVE  e.previousAssignee = IF d.assignee # e.assignee THEN d.assignee ELSE Nobody
  <2>1. \A x \in EventsOf(e.task) : x \in EventsOf(e.task)'
      BY <1>4 DEF EventsOf
  <2>2. CASE d \in outbox /\ e \in outbox
      BY <1>12, <2>1, <2>2, Zenon DEF OutboxMatchesHistory, Precedes
  <2>3. CASE d \in outbox /\ e = ev /\ announced
    <3>1. \A x \in EventsOf(d.task) : x.version <= d.version
      <4> SUFFICES ASSUME NEW x \in EventsOf(d.task) PROVE x.version <= d.version
          OBVIOUS
      <4>1. x \in outbox /\ x.task = id
          BY <1>3, <1>12, <2>3, Zenon DEF EventsOf
      <4>2. x.version < e.version
          BY <1>1, <1>3, <1>5, <2>3, <4>1
      <4>3. ~(d.version < x.version)
          BY <1>12, <2>1, <4>2
      <4> QED
          BY <1>5, <2>3, <4>1, <4>3
    <3>2. d.assignee = tasks[d.task].assignee
        BY <2>3, <3>1, ZenonT(30) DEF OutboxMatchesHistory
    <3> QED
        BY <1>3, <1>12, <2>3, <3>2, Zenon
  <2>4. CASE d = ev
    <3>1. e.task = id /\ d.version = n.version
        BY <1>3, <1>12, <2>4, Zenon
    <3>2. ASSUME e \in outbox PROVE FALSE
      <4>1. e.version \in Nat /\ e.version <= tasks[id].version
          BY <1>5, <3>1, <3>2, Zenon
      <4>2. n.version < e.version /\ tasks[id].version \in Nat
          BY <1>1, <1>12, <3>1, Zenon
      <4> QED
          BY ONLY <4>1, <4>2, n.version = tasks[id].version + 1
    <3>3. ASSUME e = ev PROVE FALSE
      <4>1. n.version < n.version /\ n.version \in Nat
          BY <1>1, <1>3, <1>12, <3>1, <3>3, Zenon
      <4> QED
          BY ONLY <4>1
    <3>4. e \in outbox \/ e = ev
        BY <1>4, Zenon
    <3> QED
        BY <3>2, <3>3, <3>4, Zenon
  <2> QED
      BY <1>4, <2>2, <2>3, <2>4 DEF Logged
<1>13. OutboxMatchesHistory'
    BY <1>9, <1>11, <1>12, Zenon DEF OutboxMatchesHistory, Precedes
<1> QED
    BY <1>10, <1>13

(* The operations *******************************************************)

\* What an operation does to the state, the holder and the remembered state.
Moves(t, n) ==
    \/ n.status = t.status /\ n.assignee = t.assignee /\ t.status # "SUSPENDED"
    \/ t.status = "READY" /\ n.status = "RESERVED" /\ n.assignee \in Actors
    \/ t.status = "RESERVED" /\ n.status = "READY" /\ n.assignee = Nobody
    \/ t.status \in {"RESERVED", "IN_PROGRESS"} /\ n.status = "RESERVED" /\ n.assignee \in Actors
    \/ /\ n.assignee = t.assignee
       /\ \/ t.status = "RESERVED" /\ n.status = "IN_PROGRESS"
          \/ t.status = "IN_PROGRESS" /\ n.status \in {"COMPLETED", "FAILED"}
          \/ t.status \in {"READY", "RESERVED"} /\ n.status = "OBSOLETE"
          \/ t.status \in Suspendable \cup {"SUSPENDED"} /\ n.status = "EXITED"
          \/ t.status \in Suspendable /\ n.status = "SUSPENDED" /\ n.suspendedFrom = t.status
          \/ t.status = "SUSPENDED" /\ n.status = t.suspendedFrom

\* The columns only a creation sets, and the lease, which a change that does not
\* close the task writes back as it was read.
Keeps(t, n) ==
    /\ n.policy = t.policy /\ n.dueAt = t.dueAt
    /\ n.escalationCount \in Nat /\ t.escalationCount <= n.escalationCount
    /\ n.status \notin Terminal => n.lockedUntil = t.lockedUntil
    /\ t.status \in Suspendable \cup {"SUSPENDED"}

\* record(): the columns it leaves alone.
LEMMA RecordKeeps ==
    ASSUME NEW u \in TaskRecord, NEW to \in Statuses
    PROVE  LET n == Record(u, to) IN
           /\ n.policy = u.policy /\ n.dueAt = u.dueAt
           /\ n.escalationCount = u.escalationCount
           /\ n.status = to
           /\ to \notin Terminal => n.lockedUntil = u.lockedUntil
    BY DEF Record, TaskRecord

\* The same for a change u that is made before record().
LEMMA ChangeKeeps ==
    ASSUME NEW t \in TaskRecord, NEW u \in TaskRecord, NEW to \in Statuses,
           u.policy = t.policy, u.dueAt = t.dueAt, u.lockedUntil = t.lockedUntil,
           u.escalationCount = t.escalationCount,
           t.status \in Suspendable \cup {"SUSPENDED"}
    PROVE  Keeps(t, Record(u, to))
<1>1. t.escalationCount \in Nat
    BY DEF TaskRecord
<1> QED
    BY <1>1, RecordKeeps DEF Keeps

\* What an escalation does besides: it counts itself, unless it closes the task.
LEMMA EscalatedKeeps ==
    ASSUME NEW t \in TaskRecord, MayEscalate(t)
    PROVE  /\ Keeps(t, Escalated(t))
           /\ t.status \in Suspendable
           /\ \/ Escalated(t).status \in Terminal
              \/ /\ Escalated(t).status = t.status
                 /\ Escalated(t).escalationCount = t.escalationCount + 1
<1>1. CASE t.policy.action = "SUPERSEDE"
  <2>1. /\ Escalated(t) = Record(t, "OBSOLETE") /\ t.status \in Suspendable
        /\ "OBSOLETE" \in Statuses /\ "OBSOLETE" \in Terminal
      BY <1>1 DEF Escalated, Obsoleted, MayEscalate, MayObsolete, RequireFrom, Statuses,
                  Terminal, Suspendable
  <2> QED
      BY <2>1, ChangeKeeps, RecordKeeps
<1>2. CASE t.policy.action # "SUPERSEDE"
  <2> DEFINE pool == IF t.policy.action = "WIDEN" THEN Widened(t.candidates, t.policy)
                     ELSE t.candidates
             u == [t EXCEPT !.escalationCount = t.escalationCount + 1, !.candidates = pool]
  <2>1. Escalated(t) = Record(u, t.status) /\ t.status \in Suspendable
      BY <1>2 DEF Escalated, MayEscalate
  <2>2. /\ t.policy \in EscalationPolicy /\ t.candidates \in CandidatePool
        /\ t.escalationCount \in Nat /\ t.status \in Statuses
      BY DEF TaskRecord
  <2>3. pool \in CandidatePool
      BY <2>2, Zenon DEF Widened, CandidatePool, EscalationPolicy
  <2> HIDE DEF pool
  <2>4. /\ u \in TaskRecord /\ u.policy = t.policy /\ u.dueAt = t.dueAt
        /\ u.lockedUntil = t.lockedUntil /\ u.escalationCount = t.escalationCount + 1
    <3>1. t.escalationCount + 1 \in Nat
        BY <2>2
    <3>2. u \in TaskRecord
        BY <2>3, <3>1, Zenon DEF TaskRecord
    <3> QED
        BY <3>2 DEF TaskRecord
  <2> HIDE DEF u
  <2> QED
      BY <2>1, <2>2, <2>4, RecordKeeps DEF Keeps
<1> QED
    BY <1>1, <1>2

\* What the other operations do.
LEMMA OperationsKeep ==
    ASSUME NEW t \in TaskRecord
    PROVE  /\ \A a \in Actors : MayClaim(t, a) => Keeps(t, Claimed(t, a))
           /\ \A a : MayRelease(t, a) => Keeps(t, Released(t))
           /\ \A a : MayStart(t, a) => Keeps(t, Started(t))
           /\ \A a : MayComplete(t, a) => Keeps(t, Completed(t))
           /\ \A a : MayFail(t, a) => Keeps(t, Failed(t))
           /\ \A a : \A b \in Actors : MayDelegate(t, a, b) => Keeps(t, Delegated(t, b))
           /\ \A a : MaySuspend(t, a) => Keeps(t, Suspended(t))
           /\ \A a : MayResume(t, a) => Keeps(t, Resumed(t))
           /\ MayCancel(t) => Keeps(t, Cancelled(t))
           /\ \A a : MaySaveProgress(t, a) => Keeps(t, ProgressSaved(t))
<1>0. {"READY", "RESERVED", "IN_PROGRESS", "SUSPENDED", "COMPLETED", "FAILED",
       "EXITED"} \subseteq Statuses
    BY Zenon DEF Statuses, Suspendable, Terminal
<1> DEFINE Same(u) == /\ u \in TaskRecord /\ u.policy = t.policy /\ u.dueAt = t.dueAt
                      /\ u.lockedUntil = t.lockedUntil
                      /\ u.escalationCount = t.escalationCount
<1>s. ASSUME NEW u, Same(u), NEW to \in Statuses, t.status \in Suspendable \cup {"SUSPENDED"}
      PROVE  Keeps(t, Record(u, to))
    BY <1>s, ChangeKeeps
<1>1. ASSUME NEW a \in Actors, MayClaim(t, a) PROVE Keeps(t, Claimed(t, a))
  <2>1. Same([t EXCEPT !.assignee = a])
      BY DEF TaskRecord
  <2> HIDE DEF Same
  <2> QED
      BY <1>0, <1>1, <1>s, <2>1 DEF Claimed, MayClaim, RequireFrom, Suspendable
<1>2. ASSUME NEW a, MayRelease(t, a) PROVE Keeps(t, Released(t))
  <2>1. Same([t EXCEPT !.assignee = Nobody])
      BY DEF TaskRecord
  <2> HIDE DEF Same
  <2> QED
      BY <1>0, <1>2, <1>s, <2>1 DEF Released, MayRelease, RequireFrom, Suspendable
<1>3. ASSUME NEW a, MayStart(t, a) PROVE Keeps(t, Started(t))
  <2>1. Same([t EXCEPT !.started = TRUE])
      BY Zenon DEF TaskRecord
  <2> HIDE DEF Same
  <2> QED
      BY <1>0, <1>3, <1>s, <2>1 DEF Started, MayStart, RequireFrom, Suspendable
<1>4. ASSUME NEW a, MayComplete(t, a) PROVE Keeps(t, Completed(t))
    BY <1>0, <1>4, ChangeKeeps DEF Completed, MayComplete, RequireFrom, Suspendable
<1>5. ASSUME NEW a, MayFail(t, a) PROVE Keeps(t, Failed(t))
    BY <1>0, <1>5, ChangeKeeps DEF Failed, MayFail, RequireFrom, Suspendable
<1>6. ASSUME NEW a, NEW b \in Actors, MayDelegate(t, a, b) PROVE Keeps(t, Delegated(t, b))
  <2>1. Same([t EXCEPT !.assignee = b])
      BY DEF TaskRecord
  <2> HIDE DEF Same
  <2> QED
      BY <1>0, <1>6, <1>s, <2>1 DEF Delegated, MayDelegate, RequireFrom, Suspendable
<1>7. ASSUME NEW a, MaySuspend(t, a) PROVE Keeps(t, Suspended(t))
  <2>0. t.status \in Suspendable
      BY <1>7 DEF MaySuspend, RequireFrom
  <2>1. Same([t EXCEPT !.suspendedFrom = t.status])
      BY <2>0 DEF TaskRecord
  <2> HIDE DEF Same
  <2> QED
      BY <1>0, <1>s, <2>0, <2>1 DEF Suspended
<1>8. ASSUME NEW a, MayResume(t, a) PROVE Keeps(t, Resumed(t))
  <2>1. Same([t EXCEPT !.suspendedFrom = "NONE"])
      BY DEF TaskRecord
  <2>2. t.suspendedFrom \in Statuses
      BY <1>8 DEF MayResume, Statuses
  <2> HIDE DEF Same
  <2> QED
      BY <1>8, <1>s, <2>1, <2>2 DEF Resumed, MayResume, RequireFrom
<1>9. ASSUME MayCancel(t) PROVE Keeps(t, Cancelled(t))
    BY <1>0, <1>9, ChangeKeeps DEF Cancelled, MayCancel, RequireFrom, Suspendable
<1>10. ASSUME NEW a, MaySaveProgress(t, a) PROVE Keeps(t, ProgressSaved(t))
  <2> DEFINE v == [t EXCEPT !.progress = t.progress + 1]
             w == [v EXCEPT !.started = IF t.status = "RESERVED" THEN TRUE ELSE v.started]
  <2>1. Same(v)
      BY DEF TaskRecord
  <2>2. ProgressSaved(t) = Record(w, "IN_PROGRESS")
      BY DEF ProgressSaved, TaskRecord
  <2> HIDE DEF v
  <2>3. Same(w)
      BY <2>1, ZenonT(30) DEF TaskRecord
  <2>4. t.status \in Suspendable
      BY <1>10 DEF MaySaveProgress, RequireFrom, Suspendable
  <2> HIDE DEF w, Same
  <2> QED
      BY <1>0, <1>s, <2>2, <2>3, <2>4
<1> QED
    BY <1>1, <1>2, <1>3, <1>4, <1>5, <1>6, <1>7, <1>8, <1>9, <1>10, Zenon

\* A commit that moves the task as the lifecycle does and records what it did.
LoggedCommit(c) ==
    \E op \in Operations, n \in TaskRecord, recorded \in BOOLEAN, announced \in BOOLEAN :
        /\ Legit(reads[c].task, n)
        /\ Moves(reads[c].task, n) /\ Keeps(reads[c].task, n)
        /\ Logged(op, reads[c].task, n, recorded, announced)
        /\ Mutate(c, op, n, recorded, announced)

\* A transition announced under its own operation is such a commit.
LEMMA TransitionLogged ==
    ASSUME NEW c \in Sessions, NEW op \in Operations, NEW n,
           op # "SAVE_PROGRESS",
           Legit(reads[c].task, n), Moves(reads[c].task, n), Keeps(reads[c].task, n),
           Transition(c, op, n)
    PROVE  LoggedCommit(c)
<1>1. Mutate(c, op, n, TRUE, TRUE) /\ n \in TaskRecord
    BY Zenon DEF Transition, Legit
<1>2. Logged(op, reads[c].task, n, TRUE, TRUE)
    BY DEF Logged
<1> QED
    BY <1>1, <1>2, Zenon DEF LoggedCommit

\* What record() leaves of a change u that is made before it.
LEMMA RecordMoves ==
    ASSUME NEW u \in TaskRecord, NEW to \in Statuses
    PROVE  LET n == Record(u, to) IN
           n.status = to /\ n.assignee = u.assignee /\ n.suspendedFrom = u.suspendedFrom
    BY RecordFacts, Zenon

\* Escalating is such a commit, whoever escalates: a client or a sweeper.
LEMMA EscalateLogged ==
    ASSUME TypeOK, NEW c \in Sessions, Escalate(c)
    PROVE  LoggedCommit(c)
<1> DEFINE t == reads[c].task
           op == IF t.policy.action = "SUPERSEDE" THEN "OBSOLETE" ELSE "ESCALATE"
           pool == IF t.policy.action = "WIDEN" THEN Widened(t.candidates, t.policy)
                   ELSE t.candidates
           u == [t EXCEPT !.escalationCount = t.escalationCount + 1, !.candidates = pool]
<1>1. t \in TaskRecord /\ t.status \in Statuses
    BY Zenon DEF TypeOK, TaskRecord
<1>2. op \in Operations /\ op # "SAVE_PROGRESS"
    BY DEF Operations
<1>3. MayEscalate(t) /\ Transition(c, op, Escalated(t))
    BY DEF Escalate
<1> HIDE DEF t, op
<1>4. Moves(t, Escalated(t))
  <2>1. CASE t.policy.action = "SUPERSEDE"
    <3>1. /\ Escalated(t).status = "OBSOLETE" /\ Escalated(t).assignee = t.assignee
          /\ t.status \in {"READY", "RESERVED"}
      <4>1. "OBSOLETE" \in Statuses
          BY DEF Statuses, Terminal
      <4>2. Escalated(t) = Record(t, "OBSOLETE") /\ t.status \in {"READY", "RESERVED"}
          BY <1>3, <2>1 DEF Escalated, Obsoleted, MayEscalate, MayObsolete, RequireFrom
      <4> QED
          BY <1>1, <4>1, <4>2, RecordMoves
    <3> QED
        BY <3>1 DEF Moves
  <2>2. CASE t.policy.action # "SUPERSEDE"
    <3>1. Escalated(t) = Record(u, t.status) /\ t.status \in Suspendable
        BY <1>3, <2>2 DEF Escalated, MayEscalate
    <3>2. /\ t.policy \in EscalationPolicy /\ t.candidates \in CandidatePool
          /\ t.escalationCount + 1 \in Nat
        BY <1>1 DEF TaskRecord
    <3>3. pool \in CandidatePool
        BY <3>2, Zenon DEF Widened, CandidatePool, EscalationPolicy
    <3> HIDE DEF pool
    <3>4. u \in TaskRecord /\ u.assignee = t.assignee
        BY <1>1, <3>2, <3>3, Zenon DEF TaskRecord
    <3> HIDE DEF u
    <3>5. Escalated(t).status = t.status /\ Escalated(t).assignee = t.assignee
        BY <1>1, <3>1, <3>4, RecordMoves
    <3>6. t.status # "SUSPENDED"
        BY <3>1 DEF Suspendable
    <3> QED
        BY <3>5, <3>6 DEF Moves
  <2> QED
      BY <2>1, <2>2
<1>5. Legit(t, Escalated(t))
    BY <1>1, <1>3, EscalatedLegit
<1>6. Keeps(t, Escalated(t))
    BY <1>1, <1>3, EscalatedKeeps, Zenon
<1> QED
    BY <1>2, <1>3, <1>4, <1>5, <1>6, TransitionLogged DEF t

\* Where each operation moves the task it accepts.
LEMMA OperationsMove ==
    ASSUME NEW t \in TaskRecord
    PROVE  /\ \A a \in Actors : MayClaim(t, a) => Moves(t, Claimed(t, a))
           /\ \A a : MayRelease(t, a) => Moves(t, Released(t))
           /\ \A a : MayStart(t, a) => Moves(t, Started(t))
           /\ \A a : MayComplete(t, a) => Moves(t, Completed(t))
           /\ \A a : MayFail(t, a) => Moves(t, Failed(t))
           /\ \A a : \A b \in Actors : MayDelegate(t, a, b) => Moves(t, Delegated(t, b))
           /\ \A a : MaySuspend(t, a) => Moves(t, Suspended(t))
           /\ \A a : MayResume(t, a) => Moves(t, Resumed(t))
           /\ MayCancel(t) => Moves(t, Cancelled(t))
           /\ \A a : MaySaveProgress(t, a) =>
                  /\ Moves(t, ProgressSaved(t))
                  /\ ProgressSaved(t).status = "IN_PROGRESS"
                  /\ ProgressSaved(t).assignee = t.assignee
<1>0. /\ {"READY", "RESERVED", "IN_PROGRESS", "SUSPENDED", "COMPLETED", "FAILED",
          "EXITED"} \subseteq Statuses
      /\ t.status \in Statuses
    BY Zenon DEF Statuses, Suspendable, Terminal, TaskRecord
<1>1. ASSUME NEW a \in Actors, MayClaim(t, a) PROVE Moves(t, Claimed(t, a))
  <2> DEFINE u == [t EXCEPT !.assignee = a]
  <2>1. u \in TaskRecord /\ u.assignee = a
      BY DEF TaskRecord
  <2>2. Claimed(t, a) = Record(u, "RESERVED") /\ t.status = "READY"
      BY <1>1 DEF Claimed, MayClaim, RequireFrom
  <2> HIDE DEF u
  <2> QED
      BY <1>0, <2>1, <2>2, RecordMoves DEF Moves
<1>2. ASSUME NEW a, MayRelease(t, a) PROVE Moves(t, Released(t))
  <2> DEFINE u == [t EXCEPT !.assignee = Nobody]
  <2>1. u \in TaskRecord /\ u.assignee = Nobody
      BY DEF TaskRecord
  <2>2. Released(t) = Record(u, "READY") /\ t.status = "RESERVED"
      BY <1>2 DEF Released, MayRelease, RequireFrom
  <2> HIDE DEF u
  <2> QED
      BY <1>0, <2>1, <2>2, RecordMoves DEF Moves
<1>3. ASSUME NEW a, MayStart(t, a) PROVE Moves(t, Started(t))
  <2> DEFINE u == [t EXCEPT !.started = TRUE]
  <2>1. u \in TaskRecord /\ u.assignee = t.assignee
      BY Zenon DEF TaskRecord
  <2>2. Started(t) = Record(u, "IN_PROGRESS") /\ t.status = "RESERVED"
      BY <1>3 DEF Started, MayStart, RequireFrom
  <2> HIDE DEF u
  <2> QED
      BY <1>0, <2>1, <2>2, RecordMoves DEF Moves
<1>4. ASSUME NEW a, MayComplete(t, a) PROVE Moves(t, Completed(t))
  <2>1. Completed(t) = Record(t, "COMPLETED") /\ t.status = "IN_PROGRESS"
      BY <1>4 DEF Completed, MayComplete, RequireFrom
  <2> QED
      BY <1>0, <2>1, RecordMoves DEF Moves
<1>5. ASSUME NEW a, MayFail(t, a) PROVE Moves(t, Failed(t))
  <2>1. Failed(t) = Record(t, "FAILED") /\ t.status = "IN_PROGRESS"
      BY <1>5 DEF Failed, MayFail, RequireFrom
  <2> QED
      BY <1>0, <2>1, RecordMoves DEF Moves
<1>6. ASSUME NEW a, NEW b \in Actors, MayDelegate(t, a, b) PROVE Moves(t, Delegated(t, b))
  <2> DEFINE u == [t EXCEPT !.assignee = b]
  <2>1. u \in TaskRecord /\ u.assignee = b
      BY DEF TaskRecord
  <2>2. Delegated(t, b) = Record(u, "RESERVED") /\ t.status \in {"RESERVED", "IN_PROGRESS"}
      BY <1>6 DEF Delegated, MayDelegate, RequireFrom
  <2> HIDE DEF u
  <2> QED
      BY <1>0, <2>1, <2>2, RecordMoves DEF Moves
<1>7. ASSUME NEW a, MaySuspend(t, a) PROVE Moves(t, Suspended(t))
  <2> DEFINE u == [t EXCEPT !.suspendedFrom = t.status]
  <2>1. t.status \in Suspendable
      BY <1>7 DEF MaySuspend, RequireFrom
  <2>2. u \in TaskRecord /\ u.assignee = t.assignee /\ u.suspendedFrom = t.status
      BY <2>1 DEF TaskRecord
  <2>3. Suspended(t) = Record(u, "SUSPENDED")
      BY DEF Suspended
  <2> HIDE DEF u
  <2> QED
      BY <1>0, <2>1, <2>2, <2>3, RecordMoves DEF Moves
<1>8. ASSUME NEW a, MayResume(t, a) PROVE Moves(t, Resumed(t))
  <2> DEFINE u == [t EXCEPT !.suspendedFrom = "NONE"]
  <2>1. t.suspendedFrom \in Statuses /\ t.status = "SUSPENDED"
      BY <1>8 DEF MayResume, RequireFrom, Statuses
  <2>2. u \in TaskRecord /\ u.assignee = t.assignee
      BY DEF TaskRecord
  <2>3. Resumed(t) = Record(u, t.suspendedFrom)
      BY DEF Resumed
  <2> HIDE DEF u
  <2> QED
      BY <2>1, <2>2, <2>3, RecordMoves DEF Moves
<1>9. ASSUME MayCancel(t) PROVE Moves(t, Cancelled(t))
  <2>1. Cancelled(t) = Record(t, "EXITED") /\ t.status \in Suspendable \cup {"SUSPENDED"}
      BY <1>9 DEF Cancelled, MayCancel, RequireFrom, Suspendable
  <2> QED
      BY <1>0, <2>1, RecordMoves DEF Moves
<1>10. ASSUME NEW a, MaySaveProgress(t, a)
       PROVE  /\ Moves(t, ProgressSaved(t))
              /\ ProgressSaved(t).status = "IN_PROGRESS"
              /\ ProgressSaved(t).assignee = t.assignee
  <2> DEFINE u == [t EXCEPT !.progress = t.progress + 1,
                            !.started = IF t.status = "RESERVED" THEN TRUE ELSE t.started]
             v == [t EXCEPT !.progress = t.progress + 1]
             w == [v EXCEPT !.started = IF t.status = "RESERVED" THEN TRUE ELSE v.started]
  <2>1. u \in TaskRecord /\ u.assignee = t.assignee
    <3>1. v \in TaskRecord /\ v.assignee = t.assignee /\ v.started = t.started
        BY DEF TaskRecord
    <3>2. u = w
        BY <3>1 DEF TaskRecord
    <3> HIDE DEF v, u
    <3>3. w \in TaskRecord /\ w.assignee = v.assignee
        BY <3>1, ZenonT(30) DEF TaskRecord
    <3> QED
        BY <3>1, <3>2, <3>3
  <2>2. /\ ProgressSaved(t) = Record(u, "IN_PROGRESS")
        /\ t.status \in {"RESERVED", "IN_PROGRESS"}
      BY <1>10 DEF ProgressSaved, MaySaveProgress, RequireFrom
  <2> HIDE DEF u
  <2> QED
      BY <1>0, <2>1, <2>2, RecordMoves DEF Moves
<1> QED
    BY <1>1, <1>2, <1>3, <1>4, <1>5, <1>6, <1>7, <1>8, <1>9, <1>10, Zenon

\* A client's step takes a snapshot, rolls back, or is such a commit.
LEMMA ClientStepLogged ==
    ASSUME TypeOK, NEW c \in Sessions, ClientStep(c)
    PROVE  \/ \E id \in TaskIDs, a \in Requesters : Get(c, id, a)
           \/ Rollback(c)
           \/ LoggedCommit(c)
<1> DEFINE t == reads[c].task
           a == reads[c].actor
<1>0. t \in TaskRecord
    BY Zenon DEF TypeOK
<1>o. {"CLAIM", "RELEASE", "START", "COMPLETE", "FAIL", "DELEGATE", "SUSPEND", "RESUME",
       "CANCEL", "SAVE_PROGRESS"} \subseteq Operations
    BY SMTT(30) DEF Operations
<1>1. CASE Claim(c)
  <2>1. MayClaim(t, a) /\ IsEligible(t.candidates, a) /\ Transition(c, "CLAIM", Claimed(t, a))
      BY <1>1, Zenon DEF Claim
  <2>2. a \in Actors
      BY <1>0, <2>1, EligibleIsActor
  <2> QED
      BY <1>0, <1>o, <2>1, <2>2, ClaimedLegit, OperationsMove, OperationsKeep, TransitionLogged, Zenon
<1>2. CASE Release(c)
  <2>1. MayRelease(t, a) /\ Transition(c, "RELEASE", Released(t))
      BY <1>2 DEF Release
  <2>2. t.candidates.excluded \subseteq Actors
      BY <1>0, Zenon DEF TaskRecord, CandidatePool
  <2> QED
      BY <1>0, <1>o, <2>1, <2>2, ReleasedLegit, OperationsMove, OperationsKeep, TransitionLogged, Zenon
<1>3. CASE Start(c)
  <2>1. MayStart(t, a) /\ Transition(c, "START", Started(t))
      BY <1>3 DEF Start
  <2> QED
      BY <1>0, <1>o, <2>1, StartedLegit, OperationsMove, OperationsKeep, TransitionLogged, Zenon
<1>4. CASE Complete(c)
  <2>1. MayComplete(t, a) /\ Transition(c, "COMPLETE", Completed(t))
      BY <1>4 DEF Complete
  <2> QED
      BY <1>0, <1>o, <2>1, CompletedLegit, OperationsMove, OperationsKeep, TransitionLogged, Zenon
<1>5. CASE Fail(c)
  <2>1. MayFail(t, a) /\ Transition(c, "FAIL", Failed(t))
      BY <1>5 DEF Fail
  <2> QED
      BY <1>0, <1>o, <2>1, FailedLegit, OperationsMove, OperationsKeep, TransitionLogged, Zenon
<1>6. ASSUME NEW target \in Actors, Delegate(c, target) PROVE LoggedCommit(c)
  <2>1. /\ MayDelegate(t, a, target) /\ IsEligible(t.candidates, target)
        /\ Transition(c, "DELEGATE", Delegated(t, target))
      BY <1>6, Zenon DEF Delegate
  <2> QED
      BY <1>0, <1>o, <2>1, DelegatedLegit, OperationsMove, OperationsKeep, TransitionLogged, Zenon
<1>7. CASE Suspend(c)
  <2>1. MaySuspend(t, a) /\ Transition(c, "SUSPEND", Suspended(t))
      BY <1>7, Zenon DEF Suspend
  <2> QED
      BY <1>0, <1>o, <2>1, SuspendedLegit, OperationsMove, OperationsKeep, TransitionLogged, Zenon
<1>8. CASE Resume(c)
  <2>1. MayResume(t, a) /\ Transition(c, "RESUME", Resumed(t))
      BY <1>8, Zenon DEF Resume
  <2> QED
      BY <1>0, <1>o, <2>1, ResumedLegit, OperationsMove, OperationsKeep, TransitionLogged, Zenon
<1>9. CASE Cancel(c)
  <2>1. MayCancel(t) /\ Transition(c, "CANCEL", Cancelled(t))
      BY <1>9, Zenon DEF Cancel
  <2> QED
      BY <1>0, <1>o, <2>1, CancelledLegit, OperationsMove, OperationsKeep, TransitionLogged, Zenon
<1>10. CASE SaveProgress(c)
  <2> DEFINE n == ProgressSaved(t)
             recorded == t.status = "RESERVED"
  <2>1. /\ MaySaveProgress(t, a)
        /\ Mutate(c, "SAVE_PROGRESS", n, recorded, FALSE)
      BY <1>10, Zenon DEF SaveProgress
  <2>2. Legit(t, n) /\ n \in TaskRecord
      BY <1>0, <2>1, ProgressSavedLegit, Zenon DEF Legit
  <2>3. /\ Moves(t, n) /\ n.status = "IN_PROGRESS" /\ n.assignee = t.assignee
        /\ Keeps(t, n)
      BY <1>0, <2>1, OperationsMove, OperationsKeep, Zenon
  <2>4. t.status \in {"RESERVED", "IN_PROGRESS"}
      BY <2>1, Zenon DEF MaySaveProgress, RequireFrom
  <2> HIDE DEF n
  <2>5. Logged("SAVE_PROGRESS", t, n, recorded, FALSE)
      BY <2>3, <2>4, Zenon DEF Logged
  <2> QED
      BY <1>o, <2>1, <2>2, <2>3, <2>5, Zenon DEF LoggedCommit
<1>11. CASE Escalate(c)
    BY <1>11, EscalateLogged, SMTT(30)
<1> QED
    BY <1>1, <1>2, <1>3, <1>4, <1>5, <1>6, <1>7, <1>8, <1>9, <1>10, <1>11, Zenon DEF ClientStep

\* A commit rewrites the row its snapshot was taken from, and nothing else of
\* the row has changed since: what it records and moves is the row itself.
LEMMA LoggedCommitRow ==
    ASSUME IInv, NEW c \in Sessions, LoggedCommit(c)
    PROVE  \E id \in TaskIDs, op \in Operations, t \in TaskRecord, n \in TaskRecord,
              actor \in Callers, recorded \in BOOLEAN, announced \in BOOLEAN :
             /\ Exists(id)
             /\ t.status = tasks[id].status /\ t.assignee = tasks[id].assignee
             /\ t.suspendedFrom = tasks[id].suspendedFrom
             /\ n.version = tasks[id].version + 1
             /\ Coherent(t)
             /\ Moves(t, n)
             /\ Logged(op, t, n, recorded, announced)
             /\ tasks' = [tasks EXCEPT ![id] = n]
             /\ PersistOutcome(id, op, t, n, actor, recorded, announced)
<1>1. PICK op \in Operations, n \in TaskRecord, recorded \in BOOLEAN, announced \in BOOLEAN :
        /\ Legit(reads[c].task, n)
        /\ Moves(reads[c].task, n) /\ Keeps(reads[c].task, n)
        /\ Logged(op, reads[c].task, n, recorded, announced)
        /\ Mutate(c, op, n, recorded, announced)
    BY Zenon DEF LoggedCommit
<1> DEFINE t == reads[c].task
           id == reads[c].id
<1>2. /\ reads[c].active
      /\ tasks[id].version = t.version
      /\ tasks' = [tasks EXCEPT ![id] = n]
      /\ PersistOutcome(id, op, t, n, reads[c].actor, recorded, announced)
    BY <1>1, Zenon DEF Mutate, Update
<1>3. /\ t \in TaskRecord /\ id \in TaskIDs /\ Exists(id)
      /\ t.status = tasks[id].status /\ t.assignee = tasks[id].assignee
      /\ t.suspendedFrom = tasks[id].suspendedFrom
      /\ Coherent(t)
    BY <1>2, SnapshotSound, Zenon
<1>4. n.version = t.version + 1 /\ reads[c].actor \in Callers
  <2>1. n.version = t.version + 1
      BY <1>1, Zenon DEF Legit
  <2>2. reads[c].actor \in Callers
      BY Zenon DEF IInv, TypeOK
  <2> QED
      BY <2>1, <2>2, Zenon
<1>5. n.version = tasks[id].version + 1 /\ Moves(t, n) /\ Logged(op, t, n, recorded, announced)
    BY <1>1, <1>2, <1>4, Zenon
<1> HIDE DEF t, id
<1> QED
    BY <1>2, <1>3, <1>4, <1>5, Zenon

\* Where a new task is placed: with nobody unless it is reserved for an actor.
LEMMA AssignPlaces ==
    ASSUME NEW pool \in Pools, NEW policy \in Policies, NEW dueAt \in DueDates,
           NEW n \in Assign(NewTask(pool, policy, dueAt))
    PROVE  \/ n.status \in {"READY", "ERROR"} /\ n.assignee = Nobody
           \/ n.status = "RESERVED" /\ n.assignee \in Actors
<1> DEFINE t == NewTask(pool, policy, dueAt)
<1>1. t \in TaskRecord /\ t.assignee = Nobody /\ t.candidates = pool
  <2>1. Unplaced(t, pool)
      BY NewTaskFacts, Zenon
  <2> QED
      BY <2>1, Zenon DEF Unplaced
<1>2. pool \in CandidatePool /\ {"READY", "RESERVED", "ERROR"} \subseteq Statuses
    BY ServiceAssumption DEF Statuses, Suspendable, Terminal
<1> HIDE DEF t
<1>3. CASE n = Faulted(t)
    BY <1>1, <1>2, <1>3, RecordMoves, Zenon DEF Faulted
<1>4. CASE \E a \in ResolveCandidates(pool) \cup {Nobody} : n = Activated(t, a)
  <2>1. PICK a \in ResolveCandidates(pool) \cup {Nobody} : n = Activated(t, a)
      BY <1>4
  <2>2. a \in Actors \cup {Nobody}
      BY <1>2, MembersAssumption DEF CandidatePool, ResolveCandidates
  <2> DEFINE u == [t EXCEPT !.assignee = a]
             to == IF a # Nobody THEN "RESERVED" ELSE "READY"
  <2>3. u \in TaskRecord /\ u.assignee = a
      BY <1>1, <2>2 DEF TaskRecord
  <2>4. n = Record(u, to) /\ to \in Statuses
      BY <1>2, <2>1 DEF Activated
  <2> HIDE DEF u, to
  <2>5. n.status = to /\ n.assignee = a
      BY <2>3, <2>4, RecordMoves, Zenon
  <2> QED
      BY <2>2, <2>5, Zenon DEF to
<1> QED
    BY <1>1, <1>3, <1>4, Zenon DEF Assign, t

\* What a creation writes: the first row of its task, from CREATED.
LEMMA CreateRow ==
    ASSUME IInv, NEW id \in TaskIDs, NEW a \in Requesters, Create(id, a)
    PROVE  \E op \in Operations, t \in TaskRecord, n \in TaskRecord, actor \in Callers :
             /\ ~Exists(id) /\ op # "SAVE_PROGRESS" /\ actor \notin Sweepers
             /\ tasks[id].version = 0
             /\ t.status = "CREATED" /\ t.status = tasks[id].status
             /\ t.assignee = tasks[id].assignee
             /\ n.version = 1
             /\ \/ n.status \in {"READY", "ERROR"} /\ n.assignee = Nobody
                \/ n.status = "RESERVED" /\ n.assignee \in Actors
             /\ tasks' = [tasks EXCEPT ![id] = n]
             /\ PersistOutcome(id, op, t, n, actor, TRUE, TRUE)
<1>1. PICK pool \in Pools, policy \in Policies, dueAt \in DueDates :
        \E placed \in Assign(NewTask(pool, policy, dueAt)) :
            /\ ~Exists(id)
            /\ tasks' = [tasks EXCEPT ![id] = placed]
            /\ IF placed.status = "ERROR"
               THEN PersistOutcome(id, "FAULT", NewTask(pool, policy, dueAt), placed,
                                   Nobody, TRUE, TRUE)
               ELSE PersistOutcome(id, "CREATE", NewTask(pool, policy, dueAt), placed,
                                   a, TRUE, TRUE)
    BY Zenon DEF Create
<1> DEFINE t == NewTask(pool, policy, dueAt)
<1>2. PICK n \in Assign(t) :
            /\ ~Exists(id)
            /\ tasks' = [tasks EXCEPT ![id] = n]
            /\ IF n.status = "ERROR"
               THEN PersistOutcome(id, "FAULT", t, n, Nobody, TRUE, TRUE)
               ELSE PersistOutcome(id, "CREATE", t, n, a, TRUE, TRUE)
    BY <1>1, ZenonT(60)
<1>3. n \in TaskRecord /\ n.version = 1
    BY AssignBorn, Zenon DEF Born
<1>4. t \in TaskRecord /\ t.status = "CREATED" /\ t.assignee = Nobody
  <2>1. Unplaced(t, pool)
      BY NewTaskFacts, Zenon
  <2> QED
      BY <2>1, Zenon DEF Unplaced
<1>5. \/ n.status \in {"READY", "ERROR"} /\ n.assignee = Nobody
      \/ n.status = "RESERVED" /\ n.assignee \in Actors
    BY AssignPlaces
<1>6. tasks[id].version = 0 /\ tasks[id].status = "CREATED" /\ tasks[id].assignee = Nobody
    BY <1>2, NoTaskFacts DEF IInv, Unborn
<1>7. /\ "FAULT" \in Operations /\ "CREATE" \in Operations
      /\ Nobody \in Callers /\ a \in Callers
      /\ Nobody \notin Sweepers /\ a \notin Sweepers
    BY ServiceAssumption, ActorsAssumption DEF Operations, Callers
<1>8. "FAULT" # "SAVE_PROGRESS" /\ "CREATE" # "SAVE_PROGRESS"
    OBVIOUS
<1> HIDE DEF t
<1>9. CASE n.status = "ERROR"
  <2>1. PersistOutcome(id, "FAULT", t, n, Nobody, TRUE, TRUE)
      BY <1>2, <1>9, Zenon
  <2> QED
      BY <1>2, <1>3, <1>4, <1>5, <1>6, <1>7, <1>8, <2>1, Zenon
<1>10. CASE n.status # "ERROR"
  <2>1. PersistOutcome(id, "CREATE", t, n, a, TRUE, TRUE)
      BY <1>2, <1>10, Zenon
  <2> QED
      BY <1>2, <1>3, <1>4, <1>5, <1>6, <1>7, <1>8, <2>1, Zenon
<1> QED
    BY <1>9, <1>10, Zenon

(* The records are kept *************************************************)

\* Nothing is recorded of a task that was never created.
LEMMA InitRecords == Init => RecordsInv
<1> SUFFICES ASSUME Init PROVE RecordsInv
    OBVIOUS
<1>1. \A id \in TaskIDs : history[id] = << >> /\ ~Exists(id)
    BY NoTaskFacts DEF Init, Exists
<1>2. HistoryReplays
    BY <1>1 DEF HistoryReplays
<1>3. outbox = {}
    BY DEF Init
<1>4. \A id \in TaskIDs : EventsOf(id) = {} /\ RecordsOf(id) = {}
    BY <1>1, <1>3 DEF EventsOf, RecordsOf
<1>5. OutboxMatchesHistory /\ EventsBounded
    BY <1>3, <1>4, Zenon DEF OutboxMatchesHistory, EventsBounded
<1> QED
    BY <1>2, <1>5 DEF RecordsInv

\* A step that writes no row records nothing.
LEMMA UnchangedRecords ==
    ASSUME RecordsInv, UNCHANGED <<tasks, history, outbox>>
    PROVE  RecordsInv'
<1>1. HistoryReplays'
    BY Zenon DEF RecordsInv, HistoryReplays, Exists
<1>2. \A id : /\ EventsOf(id)' = EventsOf(id) /\ RecordsOf(id)' = RecordsOf(id)
              /\ Exists(id)' = Exists(id)
    BY Zenon DEF EventsOf, RecordsOf, Exists
<1>3. OutboxMatchesHistory'
    BY <1>2, Zenon DEF RecordsInv, OutboxMatchesHistory, Precedes
<1>4. EventsBounded'
    BY <1>2, Zenon DEF RecordsInv, EventsBounded
<1> QED
    BY <1>1, <1>3, <1>4, Zenon DEF RecordsInv

\* A commit keeps the records telling the story.
LEMMA CommitRecords ==
    ASSUME IInv, RecordsInv, NEW c \in Sessions, LoggedCommit(c)
    PROVE  RecordsInv'
<1>0. TypeOK /\ HistoryReplays /\ OutboxMatchesHistory /\ EventsBounded
    BY DEF IInv, RecordsInv
<1>1. PICK id \in TaskIDs, op \in Operations, t \in TaskRecord, n \in TaskRecord,
           actor \in Callers, recorded \in BOOLEAN, announced \in BOOLEAN :
           /\ Exists(id)
           /\ t.status = tasks[id].status /\ t.assignee = tasks[id].assignee
           /\ t.suspendedFrom = tasks[id].suspendedFrom
           /\ n.version = tasks[id].version + 1
           /\ Coherent(t)
           /\ Moves(t, n)
           /\ Logged(op, t, n, recorded, announced)
           /\ tasks' = [tasks EXCEPT ![id] = n]
           /\ PersistOutcome(id, op, t, n, actor, recorded, announced)
    BY LoggedCommitRow, Zenon
<1>2. HistoryReplays'
    BY <1>0, <1>1, HistoryKept, Zenon
<1>3. OutboxMatchesHistory' /\ EventsBounded'
    BY <1>0, <1>1, OutboxKept, Zenon
<1> QED
    BY <1>2, <1>3 DEF RecordsInv

\* Every step of the service keeps the records telling the story.
LEMMA NextRecords ==
    ASSUME IInv, RecordsInv, [Next]_serviceVars
    PROVE  RecordsInv'
<1>0. TypeOK /\ HistoryReplays /\ OutboxMatchesHistory /\ EventsBounded
    BY DEF IInv, RecordsInv
<1>1. ASSUME NEW id \in TaskIDs, NEW a \in Requesters, Create(id, a) PROVE RecordsInv'
  <2>1. PICK op \in Operations, t \in TaskRecord, n \in TaskRecord, actor \in Callers :
             /\ ~Exists(id) /\ op # "SAVE_PROGRESS" /\ actor \notin Sweepers
             /\ tasks[id].version = 0
             /\ t.status = "CREATED" /\ t.status = tasks[id].status
             /\ t.assignee = tasks[id].assignee
             /\ n.version = 1
             /\ tasks' = [tasks EXCEPT ![id] = n]
             /\ PersistOutcome(id, op, t, n, actor, TRUE, TRUE)
      BY <1>1, CreateRow, Zenon
  <2>2. n.version = tasks[id].version + 1
      BY <2>1
  <2>3. Logged(op, t, n, TRUE, TRUE)
      BY <2>1 DEF Logged
  <2>4. HistoryReplays'
      BY <1>0, <2>1, <2>2, <2>3, HistoryKept, Zenon
  <2>5. OutboxMatchesHistory' /\ EventsBounded'
      BY <1>0, <2>1, <2>2, <2>3, OutboxKept, Zenon
  <2> QED
      BY <2>4, <2>5 DEF RecordsInv
<1>2. ASSUME NEW c \in Sessions, LoggedCommit(c) PROVE RecordsInv'
    BY <1>2, CommitRecords
<1>3. ASSUME NEW c \in Clients, ClientStep(c) PROVE RecordsInv'
  <2>1. c \in Sessions
      BY DEF Sessions
  <2>2. CASE \E id \in TaskIDs, a \in Requesters : Get(c, id, a)
      BY <2>2, UnchangedRecords DEF Get
  <2>3. CASE Rollback(c)
      BY <2>3, UnchangedRecords DEF Rollback
  <2>4. CASE LoggedCommit(c)
      BY <1>2, <2>1, <2>4
  <2> QED
      BY <1>0, <1>3, <2>1, <2>2, <2>3, <2>4, ClientStepLogged
<1>4. CASE UNCHANGED serviceVars
    BY <1>4, UnchangedRecords DEF serviceVars
<1> QED
    BY <1>1, <1>3, <1>4 DEF Next

\* The history of every task replays to its row, and its events agree with the
\* history and name its holders in order (persistOutcome, recordsOf, stamp).
THEOREM RecordsComplete == Spec => []RecordsTellTheStory
<1>1. Init => RecordsInv
    BY InitRecords
<1>2. IInv /\ RecordsInv /\ [Next]_serviceVars => RecordsInv'
    BY NextRecords
<1>3. RecordsInv => RecordsTellTheStory
    BY DEF RecordsInv, RecordsTellTheStory
<1> QED
    BY <1>1, <1>2, <1>3, Invariance, PTL DEF Spec

(* The lifecycle is implemented *****************************************)

\* The empty task table is the lifecycle's initial state.
LEMMA InitLifecycle == Init => LC!LifecycleInit
<1> SUFFICES ASSUME Init PROVE LC!LifecycleInit
    OBVIOUS
<1>1. \A id \in TaskIDs : /\ ~Exists(id) /\ tasks[id].assignee = Nobody
                          /\ tasks[id].status # "SUSPENDED"
    BY NoTaskFacts DEF Init, Exists
<1> QED
    BY <1>1 DEF LC!LifecycleInit

\* The write of one row is a change of the lifecycle, or none that it shows.
LEMMA MovesImplement ==
    ASSUME TypeOK, NEW id \in TaskIDs, NEW t \in TaskRecord, NEW n \in TaskRecord,
           Exists(id), t.status = tasks[id].status, t.assignee = tasks[id].assignee,
           t.suspendedFrom = tasks[id].suspendedFrom, n.version > 0,
           Coherent(t), Moves(t, n), tasks' = [tasks EXCEPT ![id] = n]
    PROVE  [LC!LifecycleNext]_(LC!lifecycleVars)
<1> DEFINE state == [i \in TaskIDs |-> IF Exists(i) THEN tasks[i].status ELSE "ABSENT"]
           holder == [i \in TaskIDs |-> tasks[i].assignee]
           resumeTo == [i \in TaskIDs |-> IF tasks[i].status = "SUSPENDED"
                                          THEN tasks[i].suspendedFrom ELSE "NONE"]
<1>1. \A i \in TaskIDs : tasks'[i] = IF i = id THEN n ELSE tasks[i]
    BY Zenon DEF TypeOK
<1>2. /\ state' = [state EXCEPT ![id] = n.status]
      /\ holder' = [holder EXCEPT ![id] = n.assignee]
      /\ resumeTo' = [resumeTo EXCEPT
                                ![id] = IF n.status = "SUSPENDED" THEN n.suspendedFrom
                                        ELSE "NONE"]
  <2>1. state' = [state EXCEPT ![id] = n.status]
      BY ONLY <1>1, id \in TaskIDs, n.version > 0, Zenon DEF Exists
  <2>2. holder' = [holder EXCEPT ![id] = n.assignee]
      BY ONLY <1>1, id \in TaskIDs, Zenon
  <2>3. resumeTo' = [resumeTo EXCEPT ![id] = IF n.status = "SUSPENDED" THEN n.suspendedFrom
                                             ELSE "NONE"]
      BY ONLY <1>1, id \in TaskIDs, Zenon
  <2> QED
      BY <2>1, <2>2, <2>3, Zenon
<1>3. /\ state[id] = t.status /\ holder[id] = t.assignee
      /\ resumeTo[id] = IF t.status = "SUSPENDED" THEN t.suspendedFrom ELSE "NONE"
    BY Zenon DEF Exists
<1>4. ASSUME NEW from, t.status \in from, NEW h, NEW r, n.assignee = h,
             r = IF n.status = "SUSPENDED" THEN n.suspendedFrom ELSE "NONE"
      PROVE  LC!Change(id, from, n.status, h, r)
    BY <1>2, <1>3, <1>4, Zenon DEF LC!Change
<1>5. CASE n.status = t.status /\ n.assignee = t.assignee /\ t.status # "SUSPENDED"
  <2>1. state' = state /\ holder' = holder
        /\ resumeTo' = resumeTo
      BY ONLY <1>1, <1>5, id \in TaskIDs, n.version > 0, Exists(id),
              t.status = tasks[id].status, t.assignee = tasks[id].assignee, Zenon
      DEF Exists
  <2> QED
      BY <2>1, Zenon DEF LC!lifecycleVars
<1>6. CASE t.status = "READY" /\ n.status = "RESERVED" /\ n.assignee \in Actors
  <2>1. LC!Change(id, {"READY"}, "RESERVED", n.assignee, "NONE")
      BY <1>4, <1>6, Zenon
  <2> QED
      BY <1>6, <2>1, Zenon DEF LC!Take, LC!LifecycleNext
<1>7. CASE t.status = "RESERVED" /\ n.status = "READY" /\ n.assignee = Nobody
  <2>1. LC!Change(id, {"RESERVED"}, "READY", Nobody, "NONE")
      BY <1>4, <1>7, Zenon
  <2> QED
      BY <2>1, Zenon DEF LC!GiveBack, LC!LifecycleNext
<1>8. CASE t.status \in {"RESERVED", "IN_PROGRESS"} /\ n.status = "RESERVED" /\ n.assignee \in Actors
  <2>1. LC!Change(id, {"RESERVED", "IN_PROGRESS"}, "RESERVED", n.assignee, "NONE")
      BY <1>4, <1>8, Zenon
  <2> QED
      BY <1>8, <2>1, Zenon DEF LC!HandOver, LC!LifecycleNext
<1>9. ASSUME n.assignee = t.assignee, t.status = "RESERVED", n.status = "IN_PROGRESS"
      PROVE  LC!LifecycleNext
  <2>1. LC!Change(id, {"RESERVED"}, "IN_PROGRESS", holder[id], "NONE")
      BY <1>3, <1>4, <1>9, Zenon
  <2> QED
      BY <2>1, Zenon DEF LC!Begin, LC!LifecycleNext
<1>10. ASSUME n.assignee = t.assignee, t.status = "IN_PROGRESS", n.status \in {"COMPLETED", "FAILED"}
      PROVE  LC!LifecycleNext
  <2>1. LC!Change(id, {"IN_PROGRESS"}, n.status, holder[id], "NONE")
      BY <1>3, <1>4, <1>10, Zenon
  <2> QED
      BY <1>10, <2>1, Zenon DEF LC!Finish, LC!LifecycleNext
<1>11. ASSUME n.assignee = t.assignee, t.status \in {"READY", "RESERVED"}, n.status = "OBSOLETE"
      PROVE  LC!LifecycleNext
  <2>1. LC!Change(id, {"READY", "RESERVED"}, "OBSOLETE", holder[id], "NONE")
      BY <1>3, <1>4, <1>11, Zenon
  <2> QED
      BY <2>1, Zenon DEF LC!Supersede, LC!LifecycleNext
<1>12. ASSUME n.assignee = t.assignee, t.status \in Suspendable \cup {"SUSPENDED"}, n.status = "EXITED"
      PROVE  LC!LifecycleNext
  <2>1. LC!Change(id, {"READY", "RESERVED", "IN_PROGRESS", "SUSPENDED"}, "EXITED",
                  holder[id], "NONE")
      BY <1>3, <1>4, <1>12, Zenon DEF Suspendable
  <2> QED
      BY <2>1, Zenon DEF LC!Withdraw, LC!LifecycleNext
<1>13. ASSUME n.assignee = t.assignee, t.status \in Suspendable, n.status = "SUSPENDED",
              n.suspendedFrom = t.status
      PROVE  LC!LifecycleNext
  <2>1. t.status \in {"READY", "RESERVED", "IN_PROGRESS"}
      BY <1>13 DEF Suspendable
  <2>2. LC!Pause(id)
      BY ONLY <1>2, <1>3, <1>13, <2>1, ZenonT(30) DEF LC!Pause, LC!Change
  <2> QED
      BY <2>2, Zenon DEF LC!LifecycleNext
<1>14. ASSUME n.assignee = t.assignee, t.status = "SUSPENDED", n.status = t.suspendedFrom
      PROVE  LC!LifecycleNext
  <2>1. t.suspendedFrom # "SUSPENDED"
      BY <1>14, Zenon DEF Coherent, Suspendable
  <2>2. LC!Change(id, {"SUSPENDED"}, resumeTo[id], holder[id], "NONE")
      BY <1>3, <1>4, <1>14, <2>1, Zenon
  <2> QED
      BY <2>2, Zenon DEF LC!Continue, LC!LifecycleNext
<1> QED
    BY <1>5, <1>6, <1>7, <1>8, <1>9, <1>10, <1>11, <1>12, <1>13, <1>14, Zenon DEF Moves

\* A new row is a task placed: in the pool, with one actor, or in ERROR.
LEMMA CreateImplements ==
    ASSUME IInv, NEW id \in TaskIDs, NEW a \in Requesters, Create(id, a)
    PROVE  LC!LifecycleNext
<1> DEFINE state == [i \in TaskIDs |-> IF Exists(i) THEN tasks[i].status ELSE "ABSENT"]
           holder == [i \in TaskIDs |-> tasks[i].assignee]
           resumeTo == [i \in TaskIDs |-> IF tasks[i].status = "SUSPENDED"
                                          THEN tasks[i].suspendedFrom ELSE "NONE"]
<1>1. PICK n \in TaskRecord :
             /\ ~Exists(id) /\ n.version = 1
             /\ \/ n.status \in {"READY", "ERROR"} /\ n.assignee = Nobody
                \/ n.status = "RESERVED" /\ n.assignee \in Actors
             /\ tasks' = [tasks EXCEPT ![id] = n]
    BY CreateRow, Zenon
<1>2. \A i \in TaskIDs : tasks'[i] = IF i = id THEN n ELSE tasks[i]
    BY <1>1, Zenon DEF IInv, TypeOK
<1>3. n.version > 0 /\ n.status # "SUSPENDED" /\ ~Exists(id)
    BY <1>1
<1>4. /\ state' = [state EXCEPT ![id] = n.status]
      /\ holder' = [holder EXCEPT ![id] = n.assignee]
      /\ resumeTo' = [resumeTo EXCEPT ![id] = "NONE"]
  <2>1. state' = [state EXCEPT ![id] = n.status]
      BY ONLY <1>2, <1>3, id \in TaskIDs, Zenon DEF Exists
  <2>2. holder' = [holder EXCEPT ![id] = n.assignee]
      BY ONLY <1>2, id \in TaskIDs, Zenon
  <2>3. resumeTo' = [resumeTo EXCEPT ![id] = "NONE"]
      BY ONLY <1>2, <1>3, id \in TaskIDs, Zenon
  <2> QED
      BY <2>1, <2>2, <2>3, Zenon
<1>5. state[id] = "ABSENT"
    BY <1>3, Zenon
<1>6. ASSUME NEW to, NEW h, n.status = to, n.assignee = h
      PROVE  LC!Change(id, {"ABSENT"}, to, h, "NONE")
    BY ONLY <1>4, <1>5, <1>6, Zenon DEF LC!Change
<1>7. LC!Place(id)
  <2>1. CASE n.status = "READY" /\ n.assignee = Nobody
      BY <1>6, <2>1, Zenon DEF LC!Place
  <2>2. CASE n.status = "ERROR" /\ n.assignee = Nobody
      BY <1>6, <2>2, Zenon DEF LC!Place
  <2>3. CASE n.status = "RESERVED" /\ n.assignee \in Actors
      BY <1>6, <2>3, Zenon DEF LC!Place
  <2> QED
      BY <1>1, <2>1, <2>2, <2>3, Zenon
<1> QED
    BY <1>7, Zenon DEF LC!LifecycleNext

\* Steps that write no row do not show.
LEMMA UnchangedLifecycle ==
    ASSUME tasks' = tasks
    PROVE  UNCHANGED (LC!lifecycleVars)
    BY Zenon DEF LC!lifecycleVars, Exists

\* A commit is a step of the lifecycle, or does not show.
LEMMA CommitLifecycle ==
    ASSUME IInv, NEW c \in Sessions, LoggedCommit(c)
    PROVE  [LC!LifecycleNext]_(LC!lifecycleVars)
<1>0. TypeOK
    BY DEF IInv
<1>1. PICK id \in TaskIDs, op \in Operations, t \in TaskRecord, n \in TaskRecord,
           actor \in Callers, recorded \in BOOLEAN, announced \in BOOLEAN :
           /\ Exists(id)
           /\ t.status = tasks[id].status /\ t.assignee = tasks[id].assignee
           /\ t.suspendedFrom = tasks[id].suspendedFrom
           /\ n.version = tasks[id].version + 1
           /\ Coherent(t)
           /\ Moves(t, n)
           /\ Logged(op, t, n, recorded, announced)
           /\ tasks' = [tasks EXCEPT ![id] = n]
           /\ PersistOutcome(id, op, t, n, actor, recorded, announced)
    BY LoggedCommitRow, Zenon
<1>2. n.version > 0
  <2>1. tasks[id].version \in Nat
      BY <1>0, Zenon DEF TypeOK, TaskRecord
  <2> QED
      BY <1>1, <2>1
<1> QED
    BY <1>0, <1>1, <1>2, MovesImplement, Zenon

\* Every step of the service is a step of the lifecycle, or does not show.
LEMMA NextLifecycle ==
    ASSUME IInv, [Next]_serviceVars
    PROVE  [LC!LifecycleNext]_(LC!lifecycleVars)
<1>0. TypeOK
    BY DEF IInv
<1>1. ASSUME NEW id \in TaskIDs, NEW a \in Requesters, Create(id, a)
      PROVE  LC!LifecycleNext
    BY <1>1, CreateImplements
<1>2. ASSUME NEW c \in Sessions, LoggedCommit(c)
      PROVE  [LC!LifecycleNext]_(LC!lifecycleVars)
    BY <1>2, CommitLifecycle
<1>3. ASSUME NEW c \in Clients, ClientStep(c)
      PROVE  [LC!LifecycleNext]_(LC!lifecycleVars)
  <2>1. c \in Sessions
      BY DEF Sessions
  <2>2. CASE \E id \in TaskIDs, a \in Requesters : Get(c, id, a)
    <3>1. tasks' = tasks
        BY <2>2, Zenon DEF Get
    <3> QED
        BY <3>1, UnchangedLifecycle, Zenon
  <2>3. CASE Rollback(c)
    <3>1. tasks' = tasks
        BY <2>3 DEF Rollback
    <3> QED
        BY <3>1, UnchangedLifecycle, Zenon
  <2>4. CASE LoggedCommit(c)
      BY <1>2, <2>1, <2>4, Zenon
  <2>5. \/ \E id \in TaskIDs, a \in Requesters : Get(c, id, a)
        \/ Rollback(c)
        \/ LoggedCommit(c)
      BY <1>0, <1>3, <2>1, ClientStepLogged
  <2> QED
      BY <2>2, <2>3, <2>4, <2>5, Zenon
<1>4. CASE UNCHANGED serviceVars
  <2>1. tasks' = tasks
      BY <1>4 DEF serviceVars
  <2> QED
      BY <2>1, UnchangedLifecycle, Zenon
<1> QED
    BY <1>1, <1>3, <1>4, Zenon DEF Next

\* The service implements the lifecycle: whatever interleaves between the read
\* and the conditional write of mutate, each operation is one step of it.
THEOREM ServiceImplementsLifecycle == Spec => ImplementsLifecycle
<1>1. Init => LC!LifecycleInit
    BY InitLifecycle
<1>2. IInv /\ [Next]_serviceVars => [LC!LifecycleNext]_(LC!lifecycleVars)
    BY NextLifecycle
<1> QED
    BY <1>1, <1>2, Invariance, PTL DEF Spec, ImplementsLifecycle, LC!LifecycleSpec
=============================================================================
