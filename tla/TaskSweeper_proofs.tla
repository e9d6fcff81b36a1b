-------------------------- MODULE TaskSweeper_proofs --------------------------
(***************************************************************************)
(* Proofs about the escalation sweepers, for every number of sweepers,     *)
(* clients and tasks, every lease, batch and age of a sweeper's clock      *)
(* reading: the service stays correct beside them, leases keep them apart, *)
(* and they obey the policy of the task they escalate.                     *)
(***************************************************************************)
EXTENDS TaskSweeper, TaskService_proofs

(* The inductive invariant **********************************************)

Claims == [id : TaskIDs, task : TaskRecord, at : Nat]

SweepTypes ==
    /\ clock \in Nat
    /\ sweeps \in [Sweepers -> SUBSET Claims]
    /\ swept \in [TaskIDs -> Seq(Nat)]

\* An instant at least a lease after the last claim that escalated the task.
AfterLast(id, instant) ==
    Len(swept[id]) > 0 => swept[id][Len(swept[id])] + LeaseDuration <= instant

\* A claim whose version is still the stored one holds the stored task, its lease
\* is still there or was followed by a later one, and it was taken at least a
\* lease after the last claim that escalated the task.
ClaimsSound ==
    \A s \in Sweepers : \A e \in sweeps[s] :
        LET row == tasks[e.id] IN
        /\ IsOverdue(e.task, e.at)
        /\ 0 < e.task.version /\ e.task.version <= row.version
        /\ e.task.version = row.version =>
             /\ Contents(e.task) = Contents(row)
             /\ e.at + LeaseDuration <= row.lockedUntil
             /\ AfterLast(e.id, e.at)
        /\ \A f \in sweeps[s] : e.id = f.id => e = f

\* A sweeper in the middle of Escalate escalates one of its claims, at the version
\* it leased, from a snapshot that carries the lease or a later one.
OnClaim(s, read, claims) ==
    /\ read.actor = s
    /\ \E e \in claims : /\ e.id = read.id
                         /\ e.task.version = read.task.version
                         /\ ~Exempt(e.task)
                         /\ e.at + LeaseDuration <= read.task.lockedUntil

SweepReads ==
    /\ \A s \in Sweepers : reads[s].active => OnClaim(s, reads[s], sweeps[s])
    /\ \A c \in Clients : reads[c].active => reads[c].actor \notin Sweepers

\* The stored lease, and the one every snapshot that can still be written carries,
\* protect the task for a lease after the last claim that escalated it.
LeasesKept ==
    \A id \in TaskIDs : tasks[id].status \notin Terminal =>
        /\ AfterLast(id, tasks[id].lockedUntil)
        /\ Len(swept[id]) <= tasks[id].escalationCount
        /\ \A c \in Sessions :
            reads[c].active /\ reads[c].id = id /\ reads[c].task.version = tasks[id].version =>
                AfterLast(id, reads[c].task.lockedUntil)

\* The sweepers' part of the invariant; the service's is IInv and RecordsInv.
SInv ==
    /\ SweepTypes
    /\ ClaimsSound
    /\ SweepReads
    /\ LeasesKept
    /\ ClaimsExclusive
    /\ EscalationsSpaced
    /\ SweepsObeyPolicy

\* Nothing is claimed or escalated yet.
LEMMA InitSInv == SweeperInit => SInv
<1> SUFFICES ASSUME SweeperInit PROVE SInv
    BY Zenon
<1>1. Init
    BY DEF SweeperInit
<1>2. SweepTypes /\ sweeps = [s \in Sweepers |-> {}] /\ swept = [id \in TaskIDs |-> << >>]
    BY DEF SweeperInit, SweepTypes
<1>3. \A c \in Sessions : ~reads[c].active
    BY <1>1, NoTaskFacts DEF Init
<1>4. \A id \in TaskIDs : /\ tasks[id].escalationCount \in Nat
                          /\ history[id] = << >> /\ Len(swept[id]) = 0
    BY <1>1, <1>2, NoTaskFacts DEF Init, TaskRecord
<1>5. ClaimsSound /\ ClaimsExclusive
    BY <1>2, Zenon DEF ClaimsSound, ClaimsExclusive
<1>6. SweepReads
    BY <1>3 DEF SweepReads, Sessions
<1>7. LeasesKept
    BY <1>3, <1>4 DEF LeasesKept, AfterLast
<1>8. EscalationsSpaced
    BY <1>4 DEF EscalationsSpaced
<1>9. SweepsObeyPolicy
  <2>1. \A id \in TaskIDs : RecordsOf(id) = {}
      BY <1>4 DEF RecordsOf
  <2>2. \A id \in TaskIDs : tasks[id].policy.maxEscalations \in Nat
      BY <1>1, NoTaskFacts DEF Init, TaskRecord, EscalationPolicy
  <2> QED
      BY <1>4, <2>1, <2>2 DEF SweepsObeyPolicy
<1> QED
    BY <1>2, <1>5, <1>6, <1>7, <1>8, <1>9, Zenon DEF SInv

(* What is written ******************************************************)

\* The facts about the types that the steps below keep using.
LEMMA SweepFacts ==
    ASSUME TypeOK, SweepTypes
    PROVE  /\ \A id \in TaskIDs :
                /\ tasks[id] \in TaskRecord /\ tasks[id].version \in Nat
                /\ tasks[id].lockedUntil \in Nat /\ tasks[id].escalationCount \in Nat
                /\ tasks[id].policy.maxEscalations \in Nat
                /\ swept[id] \in Seq(Nat) /\ Len(swept[id]) \in Nat
                /\ \A i \in 1..Len(swept[id]) : swept[id][i] \in Nat
           /\ \A s \in Sweepers : \A e \in sweeps[s] :
                /\ e.id \in TaskIDs /\ e.task \in TaskRecord /\ e.at \in Nat
                /\ e.task.version \in Nat
           /\ \A c \in Sessions :
                /\ reads[c].id \in TaskIDs /\ reads[c].task \in TaskRecord
                /\ reads[c].task.version \in Nat /\ reads[c].task.lockedUntil \in Nat
           /\ LeaseDuration \in Nat /\ LeaseDuration > 0
<1>1. \A t \in TaskRecord : /\ t.version \in Nat /\ t.lockedUntil \in Nat
                            /\ t.escalationCount \in Nat
                            /\ t.policy.maxEscalations \in Nat
    BY Zenon DEF TaskRecord, EscalationPolicy
<1>2. \A id \in TaskIDs : tasks[id] \in TaskRecord /\ swept[id] \in Seq(Nat)
    BY DEF TypeOK, SweepTypes
<1>3. \A q \in Seq(Nat) : Len(q) \in Nat /\ \A i \in 1..Len(q) : q[i] \in Nat
    OBVIOUS
<1>4. \A s \in Sweepers : \A e \in sweeps[s] :
                e.id \in TaskIDs /\ e.task \in TaskRecord /\ e.at \in Nat
    BY DEF SweepTypes, Claims
<1>5. \A c \in Sessions : reads[c].id \in TaskIDs /\ reads[c].task \in TaskRecord
    BY DEF TypeOK
<1> QED
    BY <1>1, <1>2, <1>3, <1>4, <1>5, SweeperAssumption

\* A commit of any session, as the sweepers see it: claims of the old version are
\* spent, whoever holds them.
LEMMA CommitClaims ==
    ASSUME TypeOK, SInv, NEW id \in TaskIDs, NEW n \in TaskRecord,
           tasks' = [tasks EXCEPT ![id] = n], n.version = tasks[id].version + 1,
           SweepTypes',
           \A s \in Sweepers : sweeps'[s] \subseteq sweeps[s],
           \A i \in TaskIDs : i # id => swept'[i] = swept[i]
    PROVE  ClaimsSound' /\ ClaimsExclusive'
<1>1. ClaimsSound'
  <2> SUFFICES ASSUME NEW s \in Sweepers, NEW e \in sweeps'[s]
               PROVE  LET row == tasks'[e.id] IN
                      /\ IsOverdue(e.task, e.at)
                      /\ 0 < e.task.version /\ e.task.version <= row.version
                      /\ e.task.version = row.version =>
                           /\ Contents(e.task) = Contents(row)
                           /\ e.at + LeaseDuration <= row.lockedUntil
                           /\ AfterLast(e.id, e.at)'
                      /\ \A f \in sweeps'[s] : e.id = f.id => e = f
      BY Zenon DEF ClaimsSound
  <2>1. /\ e \in sweeps[s] /\ e.id \in TaskIDs /\ e.task.version \in Nat
        /\ tasks[e.id].version \in Nat /\ tasks[id].version \in Nat
      BY SweepFacts, Zenon DEF SInv
  <2>2. LET row == tasks[e.id] IN
        /\ IsOverdue(e.task, e.at)
        /\ 0 < e.task.version /\ e.task.version <= row.version
        /\ e.task.version = row.version =>
             /\ Contents(e.task) = Contents(row)
             /\ e.at + LeaseDuration <= row.lockedUntil
             /\ AfterLast(e.id, e.at)
        /\ \A f \in sweeps[s] : e.id = f.id => e = f
      BY <2>1, Zenon DEF SInv, ClaimsSound
  <2>3. CASE e.id = id
    <3>1. tasks'[e.id] = n
        BY <2>3, Zenon DEF TypeOK
    <3> QED
        BY <2>1, <2>2, <2>3, <3>1
  <2>4. CASE e.id # id
    <3>1. tasks'[e.id] = tasks[e.id]
        BY <2>1, <2>4, Zenon DEF TypeOK
    <3>2. AfterLast(e.id, e.at) => AfterLast(e.id, e.at)'
        BY <2>1, <2>4, Zenon DEF AfterLast
    <3> QED
        BY <2>2, <3>1, <3>2, Zenon
  <2> QED
      BY <2>3, <2>4, Zenon
<1>2. ClaimsExclusive'
    BY Zenon DEF SInv, ClaimsExclusive
<1> QED
    BY <1>1, <1>2

\* The same for the leases: the snapshots of the old version can no longer be
\* written, so only the row that is written counts.
LEMMA CommitLeases ==
    ASSUME IInv, SInv, NEW id \in TaskIDs, NEW n \in TaskRecord,
           tasks' = [tasks EXCEPT ![id] = n], n.version = tasks[id].version + 1,
           \A d \in Sessions : reads'[d].active => reads'[d] = reads[d],
           \A i \in TaskIDs : i # id => swept'[i] = swept[i],
           n.status \notin Terminal => /\ AfterLast(id, n.lockedUntil)'
                                       /\ Len(swept'[id]) <= n.escalationCount
    PROVE  LeasesKept'
<1>0. TypeOK /\ SweepTypes
    BY Zenon DEF IInv, SInv
<1> SUFFICES ASSUME NEW i \in TaskIDs, tasks'[i].status \notin Terminal
             PROVE  /\ AfterLast(i, tasks[i].lockedUntil)'
                    /\ Len(swept'[i]) <= tasks'[i].escalationCount
                    /\ \A d \in Sessions :
                         reads'[d].active /\ reads'[d].id = i
                           /\ reads'[d].task.version = tasks'[i].version =>
                             AfterLast(i, reads[d].task.lockedUntil)'
    BY Zenon DEF LeasesKept
<1>1. CASE i = id
  <2>1. tasks'[i] = n
      BY <1>0, <1>1, Zenon DEF TypeOK
  <2>2. ASSUME NEW d \in Sessions, reads'[d].active, reads'[d].id = i
        PROVE  reads'[d].task.version # tasks'[i].version
    <3>1. reads[d].task.version <= tasks[id].version
        BY <1>1, <2>2, Zenon DEF IInv, SnapshotCurrent
    <3>2. reads[d].task.version \in Nat /\ tasks[id].version \in Nat
        BY <1>0, SweepFacts, Zenon
    <3> QED
        BY <2>1, <2>2, <3>1, <3>2
  <2>3. AfterLast(i, tasks[i].lockedUntil)'
      BY <1>1, <2>1, Zenon DEF AfterLast
  <2> QED
      BY <1>1, <2>1, <2>2, <2>3
<1>2. CASE i # id
  <2>1. tasks'[i] = tasks[i] /\ swept'[i] = swept[i]
      BY <1>0, <1>2, Zenon DEF TypeOK
  <2>2. /\ AfterLast(i, tasks[i].lockedUntil)
        /\ Len(swept[i]) <= tasks[i].escalationCount
        /\ \A d \in Sessions :
             reads[d].active /\ reads[d].id = i /\ reads[d].task.version = tasks[i].version =>
                 AfterLast(i, reads[d].task.lockedUntil)
      BY <2>1, Zenon DEF SInv, LeasesKept
  <2> QED
      BY <2>1, <2>2, Zenon DEF AfterLast
<1> QED
    BY <1>1, <1>2, Zenon

\* What persistOutcome adds to the history of one task.
LEMMA PersistRecords ==
    ASSUME TypeOK, NEW id \in TaskIDs, NEW op \in Operations, NEW t \in TaskRecord,
           NEW n \in TaskRecord, NEW actor \in Callers, NEW recorded, NEW announced,
           PersistOutcome(id, op, t, n, actor, recorded, announced)
    PROVE  /\ \A i \in TaskIDs : i # id => RecordsOf(i)' = RecordsOf(i)
           /\ \A x \in RecordsOf(id)' : \/ x \in RecordsOf(id)
                                        \/ x.actor = actor /\ x.from = t.status
<1> DEFINE r == TransitionOf(op, t, n, actor)
           h == history[id]
<1>1. history' = IF recorded THEN [history EXCEPT ![id] = Append(h, r)] ELSE history
    BY Zenon DEF PersistOutcome
<1>2. r \in TransitionRecord /\ r.actor = actor /\ r.from = t.status
    BY Zenon DEF TransitionOf, TransitionRecord, TaskRecord
<1>3. h \in Seq(TransitionRecord)
    BY DEF TypeOK
<1> HIDE DEF r
<1>4. \A i \in TaskIDs : i # id => RecordsOf(i)' = RecordsOf(i)
    BY <1>1, Zenon DEF RecordsOf, TypeOK
<1>5. CASE recorded
  <2>1. history'[id] = Append(h, r)
      BY <1>1, <1>5, Zenon DEF TypeOK
  <2> DEFINE g == Append(h, r)
  <2>2. /\ DOMAIN g = 1..(Len(h) + 1) /\ DOMAIN h = 1..Len(h) /\ Len(h) \in Nat
        /\ g[Len(h) + 1] = r /\ \A j \in 1..Len(h) : g[j] = h[j]
      BY <1>2, <1>3, AppendFacts
  <2> HIDE DEF g
  <2>3. \A x \in {g[i] : i \in DOMAIN g} : x \in {h[i] : i \in DOMAIN h} \/ x = r
      BY <2>2
  <2> QED
      BY <1>2, <1>4, <2>1, <2>3, Zenon DEF RecordsOf, g
<1>6. CASE ~recorded
    BY <1>1, <1>4, <1>6, Zenon DEF RecordsOf
<1> QED
    BY <1>5, <1>6, Zenon

\* The same for the policy, which no operation changes.
LEMMA CommitPolicy ==
    ASSUME TypeOK, SInv, NEW id \in TaskIDs, NEW op \in Operations, NEW t \in TaskRecord,
           NEW n \in TaskRecord, NEW actor \in Callers, NEW recorded, NEW announced,
           PersistOutcome(id, op, t, n, actor, recorded, announced),
           tasks' = [tasks EXCEPT ![id] = n],
           RecordsOf(id) = {} \/ n.policy = tasks[id].policy,
           \A i \in TaskIDs : i # id => swept'[i] = swept[i],
           n.policy.maxEscalations > 0 => Len(swept'[id]) <= n.policy.maxEscalations,
           \A i \in 1..Len(swept'[id]) : n.dueAt # Never /\ n.dueAt <= swept'[id][i],
           actor \in Sweepers => /\ t.status \in Suspendable
                                 /\ ~(n.policy.exemptInProgress /\ t.status = "IN_PROGRESS")
    PROVE  SweepsObeyPolicy'
<1>1. /\ \A i \in TaskIDs : i # id => RecordsOf(i)' = RecordsOf(i)
      /\ \A x \in RecordsOf(id)' : \/ x \in RecordsOf(id)
                                   \/ x.actor = actor /\ x.from = t.status
    BY PersistRecords, Zenon
<1>2. SweepsObeyPolicy
    BY Zenon DEF SInv
<1> SUFFICES ASSUME NEW i \in TaskIDs
             PROVE  LET u == tasks'[i] IN
                    /\ u.policy.maxEscalations > 0 =>
                           Len(swept'[i]) <= u.policy.maxEscalations
                    /\ \A j \in 1..Len(swept'[i]) : u.dueAt # Never /\ u.dueAt <= swept'[i][j]
                    /\ \A x \in RecordsOf(i)' : x.actor \in Sweepers =>
                           /\ x.from \in Suspendable
                           /\ ~(u.policy.exemptInProgress /\ x.from = "IN_PROGRESS")
    BY Zenon DEF SweepsObeyPolicy
<1>3. CASE i = id
  <2>1. tasks'[i] = n
      BY <1>3, Zenon DEF TypeOK
  <2>2. ASSUME NEW x \in RecordsOf(i)', x.actor \in Sweepers
        PROVE  /\ x.from \in Suspendable
               /\ ~(n.policy.exemptInProgress /\ x.from = "IN_PROGRESS")
    <3>1. CASE x \in RecordsOf(id)
        BY <1>2, <2>2, <3>1, Zenon DEF SweepsObeyPolicy
    <3>2. CASE x.actor = actor /\ x.from = t.status
        BY <2>2, <3>2, Zenon
    <3> QED
        BY <1>1, <1>3, <2>2, <3>1, <3>2, Zenon
  <2> QED
      BY <1>3, <2>1, <2>2, Zenon
<1>4. CASE i # id
  <2>1. tasks'[i] = tasks[i] /\ swept'[i] = swept[i] /\ RecordsOf(i)' = RecordsOf(i)
      BY <1>1, <1>4, Zenon DEF TypeOK
  <2> QED
      BY <1>2, <2>1, Zenon DEF SweepsObeyPolicy
<1> QED
    BY <1>3, <1>4, Zenon

(* The steps ************************************************************)

\* A step that writes no row and adds no claim: snapshots are taken from the rows
\* or given up, claims are given up, or time passes.
LEMMA QuietSInv ==
    ASSUME SInv, UNCHANGED <<tasks, history, swept>>,
           SweepTypes', SweepReads',
           \A s \in Sweepers : sweeps'[s] \subseteq sweeps[s],
           \A d \in Sessions : reads'[d].active =>
               reads'[d] = reads[d] \/ reads'[d].task = tasks[reads'[d].id]
    PROVE  SInv'
<1>1. ClaimsSound' /\ ClaimsExclusive'
    BY Zenon DEF SInv, ClaimsSound, ClaimsExclusive, AfterLast
<1>2. LeasesKept'
    BY Zenon DEF SInv, LeasesKept, AfterLast
<1>3. EscalationsSpaced' /\ SweepsObeyPolicy'
    BY Zenon DEF SInv, EscalationsSpaced, SweepsObeyPolicy, RecordsOf
<1> QED
    BY <1>1, <1>2, <1>3, Zenon DEF SInv

\* Clients and sweepers are the service's sessions.
LEMMA SessionsAre == Clients \subseteq Sessions /\ Sweepers \subseteq Sessions
    BY DEF Sessions

\* A client takes a snapshot or gives one up.
LEMMA ClientReadSInv ==
    ASSUME IInv, SInv, UNCHANGED sweepVars, NEW c \in Clients,
           \/ \E id \in TaskIDs, a \in Requesters : Get(c, id, a)
           \/ Rollback(c)
    PROVE  SInv'
<1>1. /\ tasks' = tasks /\ history' = history
      /\ \A d \in Sessions : d # c => reads'[d] = reads[d]
      /\ \/ ~reads'[c].active
         \/ /\ reads'[c].actor \in Requesters
            /\ reads'[c].task = tasks[reads'[c].id]
    BY NoTaskFacts DEF Get, Rollback, IInv, TypeOK, Sessions
<1>2. Requesters \cap Sweepers = {} /\ c \notin Sweepers
    BY ServiceAssumption, ActorsAssumption, Zenon
<1>3. SweepReads'
    BY <1>1, <1>2, SessionsAre, Zenon DEF SInv, SweepReads, sweepVars
<1>4. SweepTypes'
    BY Zenon DEF SInv, SweepTypes, sweepVars
<1> QED
    BY <1>1, <1>3, <1>4, QuietSInv, Zenon DEF sweepVars

\* A client commits: what it wrote back of the lease still protects the task.
LEMMA ClientCommitSInv ==
    ASSUME IInv, SInv, UNCHANGED sweepVars, NEW c \in Clients, LoggedCommit(c)
    PROVE  SInv'
<1>0. TypeOK /\ SweepTypes /\ SweepTypes' /\ c \in Sessions /\ c \notin Sweepers
    BY ServiceAssumption, Zenon DEF IInv, SInv, SweepTypes, sweepVars, Sessions
<1>1. PICK op \in Operations, n \in TaskRecord, recorded \in BOOLEAN, announced \in BOOLEAN :
        /\ Legit(reads[c].task, n)
        /\ Moves(reads[c].task, n) /\ Keeps(reads[c].task, n)
        /\ Logged(op, reads[c].task, n, recorded, announced)
        /\ Mutate(c, op, n, recorded, announced)
    BY Zenon DEF LoggedCommit
<1>p. PICK id \in TaskIDs, t \in TaskRecord, actor \in Callers :
        id = reads[c].id /\ t = reads[c].task /\ actor = reads[c].actor
    BY <1>0 DEF TypeOK
<1> DEFINE row == tasks[id]
<1>2. /\ reads[c].active
      /\ row.version = t.version
      /\ tasks' = [tasks EXCEPT ![id] = n]
      /\ PersistOutcome(id, op, t, n, actor, recorded, announced)
      /\ reads' = [reads EXCEPT ![c] = Idle]
    BY <1>1, <1>p, Zenon DEF Mutate, Update
<1>3. /\ t.status = row.status /\ t.policy = row.policy
      /\ t.escalationCount = row.escalationCount /\ t.dueAt = row.dueAt
    BY <1>0, <1>2, <1>p, SnapshotSound, Zenon
<1>4. n.version = row.version + 1 /\ Keeps(t, n)
    BY <1>1, <1>2, <1>p, Zenon DEF Legit
<1>5. actor \notin Sweepers
    BY <1>0, <1>2, <1>p, Zenon DEF SInv, SweepReads
<1>6. \A d \in Sessions : /\ reads'[d].active => reads'[d] = reads[d]
                          /\ d # c => reads'[d] = reads[d]
    BY <1>0, <1>2, NoTaskFacts, Zenon DEF TypeOK
<1>7. sweeps' = sweeps /\ swept' = swept
    BY Zenon DEF sweepVars
<1>8. ClaimsSound' /\ ClaimsExclusive'
    BY <1>0, <1>2, <1>3, <1>4, <1>7, CommitClaims, Zenon
<1>9. SweepReads'
    BY <1>0, <1>6, <1>7, SessionsAre, Zenon DEF SInv, SweepReads
<1>10. t.status \notin Terminal
    BY <1>4, Zenon DEF Keeps, Suspendable, Terminal
<1>11. AfterLast(id, t.lockedUntil) /\ Len(swept[id]) <= row.escalationCount
    BY <1>0, <1>2, <1>3, <1>10, <1>p, Zenon DEF SInv, LeasesKept
<1>12. n.status \notin Terminal => /\ AfterLast(id, n.lockedUntil)'
                                   /\ Len(swept'[id]) <= n.escalationCount
  <2>1. Len(swept[id]) \in Nat /\ row.escalationCount \in Nat
      BY <1>0, <1>3, SweepFacts, Zenon
  <2>2. n.escalationCount \in Nat /\ row.escalationCount <= n.escalationCount
      BY <1>3, <1>4, Zenon DEF Keeps
  <2> QED
      BY <1>4, <1>7, <1>11, <2>1, <2>2 DEF Keeps, AfterLast
<1>13. LeasesKept'
    BY <1>2, <1>3, <1>4, <1>6, <1>7, <1>12, CommitLeases, Zenon
<1>14. EscalationsSpaced'
    BY <1>7, Zenon DEF SInv, EscalationsSpaced
<1>15. SweepsObeyPolicy'
  <2>1. n.policy = row.policy /\ n.dueAt = row.dueAt
      BY <1>3, <1>4, Zenon DEF Keeps
  <2>2. /\ row.policy.maxEscalations > 0 => Len(swept[id]) <= row.policy.maxEscalations
        /\ \A i \in 1..Len(swept[id]) : row.dueAt # Never /\ row.dueAt <= swept[id][i]
      BY <1>3, Zenon DEF SInv, SweepsObeyPolicy
  <2> QED
      BY <1>0, <1>2, <1>3, <1>5, <1>7, <2>1, <2>2, CommitPolicy, Zenon
<1> QED
    BY <1>0, <1>8, <1>9, <1>13, <1>14, <1>15 DEF SInv

\* A new task has not been swept.
LEMMA CreateSInv ==
    ASSUME IInv, RecordsInv, SInv, UNCHANGED sweepVars,
           NEW id \in TaskIDs, NEW a \in Requesters, Create(id, a)
    PROVE  SInv'
<1>0. TypeOK /\ SweepTypes /\ SweepTypes' /\ reads' = reads
      /\ sweeps' = sweeps /\ swept' = swept
    BY Zenon DEF IInv, SInv, SweepTypes, sweepVars, Create
<1>1. PICK op \in Operations, t \in TaskRecord, n \in TaskRecord, actor \in Callers :
             /\ ~Exists(id) /\ op # "SAVE_PROGRESS" /\ actor \notin Sweepers
             /\ tasks[id].version = 0
             /\ t.status = "CREATED" /\ t.status = tasks[id].status
             /\ t.assignee = tasks[id].assignee
             /\ n.version = 1
             /\ \/ n.status \in {"READY", "ERROR"} /\ n.assignee = Nobody
                \/ n.status = "RESERVED" /\ n.assignee \in Actors
             /\ tasks' = [tasks EXCEPT ![id] = n]
             /\ PersistOutcome(id, op, t, n, actor, TRUE, TRUE)
    BY CreateRow, Zenon
<1>2. n.version = tasks[id].version + 1
    BY <1>1
<1>3. Len(swept[id]) = 0
  <2>1. tasks[id] = NoTask
      BY <1>1, Zenon DEF IInv, Unborn
  <2>2. tasks[id].escalationCount = 0
      BY ONLY <2>1 DEF NoTask, NewTask
  <2>3. tasks[id].status \notin Terminal
      BY <1>1, Zenon DEF Terminal
  <2>4. Len(swept[id]) <= 0 /\ Len(swept[id]) \in Nat
      BY <1>0, <2>2, <2>3, SweepFacts, Zenon DEF SInv, LeasesKept
  <2> QED
      BY <2>4
<1>4. RecordsOf(id) = {}
  <2>1. Len(history[id]) = 0 /\ history[id] \in Seq(TransitionRecord)
    <3>1. ~(Len(history[id]) > 0)
        BY <1>1, Zenon DEF RecordsInv, HistoryReplays
    <3>2. history[id] \in Seq(TransitionRecord)
        BY <1>0, Zenon DEF TypeOK
    <3> QED
        BY <3>1, <3>2
  <2>2. history[id] = << >>
      BY <2>1
  <2> QED
      BY ONLY <2>2 DEF RecordsOf
<1>5. ClaimsSound' /\ ClaimsExclusive'
    BY <1>0, <1>1, <1>2, CommitClaims, Zenon
<1>6. SweepReads'
    BY <1>0, Zenon DEF SInv, SweepReads
<1>7. n.status \notin Terminal => /\ AfterLast(id, n.lockedUntil)'
                                  /\ Len(swept'[id]) <= n.escalationCount
  <2>1. n.escalationCount \in Nat
      BY Zenon DEF TaskRecord
  <2> QED
      BY <1>0, <1>3, <2>1 DEF AfterLast
<1>8. LeasesKept'
    BY <1>0, <1>1, <1>2, <1>7, CommitLeases, Zenon
<1>9. EscalationsSpaced'
    BY <1>0, Zenon DEF SInv, EscalationsSpaced
<1>10. SweepsObeyPolicy'
  <2>1. n.policy.maxEscalations > 0 => Len(swept'[id]) <= n.policy.maxEscalations
    <3>1. n.policy.maxEscalations \in Nat
        BY Zenon DEF TaskRecord, EscalationPolicy
    <3> QED
        BY ONLY <1>0, <1>3, <3>1, id \in TaskIDs
  <2>2. \A i \in 1..Len(swept'[id]) : n.dueAt # Never /\ n.dueAt <= swept'[id][i]
      BY <1>0, <1>3
  <2> QED
      BY <1>0, <1>1, <1>4, <2>1, <2>2, CommitPolicy, Zenon
<1> QED
    BY <1>0, <1>5, <1>6, <1>8, <1>9, <1>10, Zenon DEF SInv

(* Claiming *************************************************************)

\* A lease changes the lease columns and nothing else.
LEMMA LeaseFacts ==
    ASSUME NEW t \in TaskRecord, NEW s \in Sweepers, NEW now \in Nat
    PROVE  LET u == Lease(t, s, now) IN
           /\ u \in TaskRecord /\ Contents(u) = Contents(t)
           /\ u.lockedBy = s /\ u.lockedUntil = now + LeaseDuration
<1>1. now + LeaseDuration \in Nat
    BY SweeperAssumption
<1>2. Lease(t, s, now) \in TaskRecord
    BY <1>1, Zenon DEF Lease, TaskRecord
<1>3. Lease(t, s, now).lockedBy = s /\ Lease(t, s, now).lockedUntil = now + LeaseDuration
    BY DEF Lease, TaskRecord
<1>4. Contents(Lease(t, s, now)) = Contents(t)
    BY Zenon DEF Contents, Lease, TaskRecord
<1> QED
    BY <1>2, <1>3, <1>4, Zenon

\* What rows have in common that are equal up to their lease.
SameRow(t, u) ==
    /\ t \in TaskRecord /\ u \in TaskRecord /\ Contents(t) = Contents(u)
    /\ t.version = u.version /\ t.status = u.status
    /\ t.suspendedFrom = u.suspendedFrom /\ t.assignee = u.assignee
    /\ t.started = u.started /\ t.closed = u.closed
    /\ t.progress = u.progress /\ t.candidates = u.candidates
    /\ t.policy = u.policy
    /\ t.escalationCount = u.escalationCount /\ t.dueAt = u.dueAt

\* What a claim does: it leases rows that are due and free at the instant it read.
Claiming(s, now, batch) ==
    /\ sweeps[s] = {}
    /\ \A id \in batch : /\ Exists(id) /\ IsOverdue(tasks[id], now)
                         /\ tasks[id].lockedUntil <= now
    /\ \A id \in batch : /\ tasks'[id].lockedUntil = now + LeaseDuration
                         /\ SameRow(tasks'[id], tasks[id])
    /\ \A id \in TaskIDs \ batch : tasks'[id] = tasks[id]
    /\ tasks' \in [TaskIDs -> TaskRecord]
    /\ sweeps' = [sweeps EXCEPT ![s] = {[id |-> id, task |-> tasks'[id], at |-> now]
                                           : id \in batch}]
    /\ UNCHANGED <<history, outbox, reads, saves, clock, swept>>

\* A claim leaves every row what it was but for its lease columns.
LEMMA ClaimRows ==
    ASSUME TypeOK, NEW s, NEW now, NEW batch \in SUBSET TaskIDs, Claiming(s, now, batch)
    PROVE  \A id \in TaskIDs : SameRow(tasks'[id], tasks[id])
<1> SUFFICES ASSUME NEW id \in TaskIDs PROVE SameRow(tasks'[id], tasks[id])
    BY Zenon
<1>1. CASE id \in batch
    BY <1>1, Zenon DEF Claiming
<1>2. CASE id \notin batch
  <2>1. tasks'[id] = tasks[id] /\ tasks[id] \in TaskRecord
      BY <1>2, Zenon DEF Claiming, TypeOK
  <2> QED
      BY ONLY <2>1, Zenon DEF SameRow
<1> QED
    BY <1>1, <1>2, Zenon

\* ClaimOverdue is such a claim.
LEMMA ClaimIsClaiming ==
    ASSUME TypeOK, SweepTypes, NEW s \in Sweepers, ClaimOverdue(s)
    PROVE  \E now \in Nat, batch \in SUBSET TaskIDs : Claiming(s, now, batch)
<1>1. PICK now \in (IF clock > Delay THEN clock - Delay ELSE 0)..clock :
        \E batch \in BatchesOf(Claimable(now)) :
            /\ tasks' = [id \in TaskIDs |->
                            IF id \in batch THEN Lease(tasks[id], s, now) ELSE tasks[id]]
            /\ sweeps' = [sweeps EXCEPT ![s] =
                            {[id |-> id, task |-> Lease(tasks[id], s, now), at |-> now]
                                : id \in batch}]
    BY Zenon DEF ClaimOverdue
<1>2. PICK batch \in BatchesOf(Claimable(now)) :
            /\ tasks' = [id \in TaskIDs |->
                            IF id \in batch THEN Lease(tasks[id], s, now) ELSE tasks[id]]
            /\ sweeps' = [sweeps EXCEPT ![s] =
                            {[id |-> id, task |-> Lease(tasks[id], s, now), at |-> now]
                                : id \in batch}]
    BY <1>1, Zenon
<1>3. sweeps[s] = {} /\ UNCHANGED <<history, outbox, reads, saves, clock, swept>>
    BY Zenon DEF ClaimOverdue
<1>4. now \in Nat
    BY SweeperAssumption DEF SweepTypes
<1>5. batch \subseteq Claimable(now)
    BY Zenon DEF BatchesOf
<1>6. batch \subseteq TaskIDs
    BY <1>5 DEF Claimable
<1>7. \A id \in TaskIDs : tasks[id] \in TaskRecord /\ tasks[id].lockedUntil \in Nat
    BY SweepFacts, Zenon
<1>8. \A id \in batch : /\ Exists(id) /\ IsOverdue(tasks[id], now)
                        /\ tasks[id].lockedUntil <= now
    BY <1>4, <1>5, <1>6, <1>7 DEF Claimable, IsLeased
<1>9. \A id \in batch : tasks'[id] = Lease(tasks[id], s, now)
    BY <1>2, <1>6, Zenon
<1>10. ASSUME NEW id \in batch
       PROVE  /\ tasks'[id].lockedUntil = now + LeaseDuration
              /\ SameRow(tasks'[id], tasks[id])
  <2>1. /\ tasks'[id] \in TaskRecord /\ tasks[id] \in TaskRecord
        /\ Contents(tasks'[id]) = Contents(tasks[id])
        /\ tasks'[id].lockedUntil = now + LeaseDuration
      BY ONLY <1>4, <1>6, <1>7, <1>9, s \in Sweepers, id \in batch, LeaseFacts
  <2> QED
      BY <2>1, ContentsFacts, Zenon DEF SameRow
<1>11. \A id \in TaskIDs \ batch : tasks'[id] = tasks[id]
    BY <1>2, Zenon
<1>12. tasks' \in [TaskIDs -> TaskRecord]
  <2>1. ASSUME NEW id \in TaskIDs PROVE tasks'[id] \in TaskRecord
      BY <1>7, <1>10, <1>11, Zenon DEF SameRow
  <2>2. tasks' = [id \in TaskIDs |-> tasks'[id]]
      BY <1>2, Zenon
  <2> QED
      BY <2>1, <2>2, Zenon
<1>13. {[id |-> id, task |-> Lease(tasks[id], s, now), at |-> now] : id \in batch}
     = {[id |-> id, task |-> tasks'[id], at |-> now] : id \in batch}
    BY <1>9, Zenon
<1>14. Claiming(s, now, batch)
    BY <1>2, <1>3, <1>8, <1>10, <1>11, <1>12, <1>13, Zenon DEF Claiming
<1> QED
    BY <1>4, <1>6, <1>14

\* A claim keeps the service's invariant: the version does not move, and nothing
\* that depends on the row reads the lease columns.
LEMMA ClaimIInv ==
    ASSUME IInv, NEW s \in Sweepers, NEW now \in Nat, NEW batch \in SUBSET TaskIDs,
           Claiming(s, now, batch)
    PROVE  IInv'
<1>1. \A id \in TaskIDs : SameRow(tasks'[id], tasks[id])
    BY ClaimRows, Zenon DEF IInv
<1>2. /\ tasks' \in [TaskIDs -> TaskRecord]
      /\ history' = history /\ outbox' = outbox /\ reads' = reads /\ saves' = saves
    BY Zenon DEF Claiming
<1>3. TypeOK'
    BY <1>2, Zenon DEF IInv, TypeOK
<1>4. Unborn'
    BY <1>1, Zenon DEF Claiming, IInv, Unborn, Exists, SameRow
<1>5. SnapshotCurrent'
  <2> SUFFICES ASSUME NEW c \in Sessions, reads[c].active
               PROVE  LET row == tasks'[reads[c].id]  t == reads[c].task IN
                      /\ 0 < t.version /\ t.version <= row.version
                      /\ t.version = row.version => Contents(t) = Contents(row)
      BY <1>2, Zenon DEF SnapshotCurrent
  <2>1. reads[c].id \in TaskIDs
      BY Zenon DEF IInv, TypeOK
  <2>2. SameRow(tasks'[reads[c].id], tasks[reads[c].id])
      BY <1>1, <2>1, Zenon
  <2> QED
      BY <2>2, Zenon DEF IInv, SnapshotCurrent, SameRow
<1>6. NoLostSave'
    BY <1>1, <1>2, Zenon DEF IInv, NoLostSave, SameRow
<1>7. HolderFollowsStatus'
  <2> SUFFICES ASSUME NEW id \in TaskIDs, Exists(id)' PROVE Coherent(tasks'[id])
      BY Zenon DEF HolderFollowsStatus
  <2>1. /\ tasks'[id].status = tasks[id].status /\ tasks'[id].assignee = tasks[id].assignee
        /\ tasks'[id].suspendedFrom = tasks[id].suspendedFrom
        /\ tasks'[id].started = tasks[id].started
      BY <1>1, Zenon DEF SameRow
  <2>2. Coherent(tasks[id])
      BY <1>1, Zenon DEF IInv, HolderFollowsStatus, Exists, SameRow
  <2> QED
      BY ONLY <2>1, <2>2, Zenon DEF Coherent, HeldAs
<1>8. ExcludedNeverHolds'
    BY <1>1, Zenon DEF IInv, ExcludedNeverHolds, SameRow
<1>9. ClosedIsUnleased'
  <2> SUFFICES ASSUME NEW id \in TaskIDs
               PROVE  LET t == tasks'[id] IN
                      /\ t.closed <=> t.status \in Terminal
                      /\ t.closed => t.lockedBy = Nobody /\ t.lockedUntil = 0
      BY Zenon DEF ClosedIsUnleased
  <2>1. /\ tasks[id].closed <=> tasks[id].status \in Terminal
        /\ tasks[id].closed => tasks[id].lockedBy = Nobody /\ tasks[id].lockedUntil = 0
      BY Zenon DEF IInv, ClosedIsUnleased
  <2>2. CASE id \in batch
      BY <1>1, <2>1, <2>2, Zenon DEF Claiming, IsOverdue, SameRow
  <2>3. CASE id \notin batch
      BY <2>1, <2>3, Zenon DEF Claiming
  <2> QED
      BY <2>2, <2>3, Zenon
<1> QED
    BY <1>3, <1>4, <1>5, <1>6, <1>7, <1>8, <1>9, Zenon DEF IInv

\* A claim is not recorded, and does not show.
LEMMA ClaimRecords ==
    ASSUME IInv, RecordsInv, NEW s \in Sweepers, NEW now \in Nat,
           NEW batch \in SUBSET TaskIDs, Claiming(s, now, batch)
    PROVE  RecordsInv' /\ UNCHANGED (LC!lifecycleVars)
<1>1. \A id \in TaskIDs : SameRow(tasks'[id], tasks[id])
    BY ClaimRows, Zenon DEF IInv
<1>2. history' = history /\ outbox' = outbox
    BY Zenon DEF Claiming
<1>3. \A e \in outbox : e.task \in TaskIDs
    BY Zenon DEF IInv, TypeOK, Event
<1>4. HistoryReplays'
    BY <1>1, <1>2, Zenon DEF RecordsInv, HistoryReplays, Exists, SameRow
<1>5. EventsBounded'
    BY <1>1, <1>2, <1>3, Zenon DEF RecordsInv, EventsBounded, SameRow
<1>6. OutboxMatchesHistory'
  <2>1. \A id : EventsOf(id)' = EventsOf(id) /\ RecordsOf(id)' = RecordsOf(id)
      BY <1>2, Zenon DEF EventsOf, RecordsOf
  <2>2. \A e \in outbox : tasks'[e.task].assignee = tasks[e.task].assignee
      BY <1>1, <1>3, Zenon DEF SameRow
  <2> QED
      BY ONLY RecordsInv, <1>2, <2>1, <2>2 DEF RecordsInv, OutboxMatchesHistory, Precedes
<1>7. UNCHANGED (LC!lifecycleVars)
    BY <1>1, Zenon DEF LC!lifecycleVars, Exists, SameRow
<1> QED
    BY <1>4, <1>5, <1>6, <1>7, Zenon DEF RecordsInv

\* A claim keeps the sweepers apart: it only takes rows whose lease has run out,
\* and the new lease ends later than the one it replaces.
LEMMA ClaimSInv ==
    ASSUME IInv, SInv, NEW s \in Sweepers, NEW now \in Nat,
           NEW batch \in SUBSET TaskIDs, Claiming(s, now, batch)
    PROVE  SInv'
<1> DEFINE claimed == {[id |-> id, task |-> tasks'[id], at |-> now] : id \in batch}
<1>0. /\ TypeOK /\ SweepTypes
      /\ history' = history /\ reads' = reads /\ clock' = clock /\ swept' = swept
      /\ sweeps' = [sweeps EXCEPT ![s] = claimed] /\ sweeps[s] = {}
    BY Zenon DEF IInv, SInv, Claiming
<1>1. \A id \in TaskIDs : SameRow(tasks'[id], tasks[id])
    BY ClaimRows, Zenon DEF IInv
<1>2. \A id \in TaskIDs : tasks[id].lockedUntil <= tasks'[id].lockedUntil
    BY <1>0, SweepFacts DEF Claiming
<1>3. \A id \in batch : /\ tasks'[id].lockedUntil = now + LeaseDuration
                        /\ tasks[id].lockedUntil <= now
                        /\ Exists(id) /\ IsOverdue(tasks[id], now)
    BY Zenon DEF Claiming
<1>4. \A e \in claimed : /\ e.id \in batch /\ e.task = tasks'[e.id] /\ e.at = now
                         /\ \A f \in claimed : e.id = f.id => e = f
    OBVIOUS
<1>5. claimed \subseteq Claims
    BY ONLY <1>1, now \in Nat, batch \in SUBSET TaskIDs DEF Claims, SameRow
<1> HIDE DEF claimed
<1>6. sweeps'[s] = claimed /\ \A z \in Sweepers : z # s => sweeps'[z] = sweeps[z]
    BY <1>0, Zenon DEF SweepTypes
<1>7. SweepTypes'
    BY <1>0, <1>5, Zenon DEF SweepTypes
<1>9. ClaimsSound'
  <2> SUFFICES ASSUME NEW z \in Sweepers, NEW e \in sweeps'[z]
               PROVE  LET row == tasks'[e.id] IN
                      /\ IsOverdue(e.task, e.at)
                      /\ 0 < e.task.version /\ e.task.version <= row.version
                      /\ e.task.version = row.version =>
                           /\ Contents(e.task) = Contents(row)
                           /\ e.at + LeaseDuration <= row.lockedUntil
                           /\ AfterLast(e.id, e.at)'
                      /\ \A f \in sweeps'[z] : e.id = f.id => e = f
      BY Zenon DEF ClaimsSound
  <2>1. CASE z = s
    <3>1. PICK i \in batch : i = e.id /\ e.task = tasks'[i] /\ e.at = now
        BY <1>4, <1>6, <2>1, Zenon
    <3>2. /\ IsOverdue(tasks'[i], now) /\ tasks[i].status \notin Terminal
          /\ 0 < tasks'[i].version
        BY ONLY <1>1, <1>3, i \in batch, batch \in SUBSET TaskIDs, Zenon DEF IsOverdue, SameRow, Exists
    <3>3. AfterLast(i, now)'
      <4>1. AfterLast(i, tasks[i].lockedUntil)
          BY <3>2, Zenon DEF SInv, LeasesKept
      <4> QED
          BY <1>0, <1>3, <4>1, SweepFacts DEF AfterLast
    <3>4. /\ tasks'[i].version \in Nat /\ tasks'[i].lockedUntil = now + LeaseDuration
          /\ now + LeaseDuration \in Nat
        BY <1>0, <1>1, <1>3, SweepFacts DEF SameRow
    <3>5. \A f \in sweeps'[z] : e.id = f.id => e = f
        BY <1>4, <1>6, <2>1, Zenon
    <3>6. AfterLast(e.id, e.at)'
        BY <1>0, <3>1, <3>3, Zenon DEF AfterLast
    <3> QED
        BY ONLY <3>1, <3>2, <3>4, <3>5, <3>6
  <2>2. CASE z # s
    <3>1. e \in sweeps[z] /\ sweeps'[z] = sweeps[z]
        BY <1>6, <2>2, Zenon
    <3>2. LET row == tasks[e.id] IN
          /\ IsOverdue(e.task, e.at)
          /\ 0 < e.task.version /\ e.task.version <= row.version
          /\ e.task.version = row.version =>
               /\ Contents(e.task) = Contents(row)
               /\ e.at + LeaseDuration <= row.lockedUntil
               /\ AfterLast(e.id, e.at)
          /\ \A f \in sweeps[z] : e.id = f.id => e = f
        BY <3>1, Zenon DEF SInv, ClaimsSound
    <3>3. e.id \in TaskIDs /\ e.at \in Nat /\ tasks[e.id].lockedUntil \in Nat
        BY <1>0, <3>1, SweepFacts, Zenon
    <3>4. /\ SameRow(tasks'[e.id], tasks[e.id])
          /\ tasks[e.id].lockedUntil <= tasks'[e.id].lockedUntil
          /\ tasks'[e.id].lockedUntil \in Nat
        BY <1>1, <1>2, <3>3, Zenon DEF SameRow, TaskRecord
    <3>5. AfterLast(e.id, e.at) => AfterLast(e.id, e.at)'
        BY <1>0, Zenon DEF AfterLast
    <3>6. LeaseDuration \in Nat
        BY SweeperAssumption, Zenon
    <3> QED
        BY ONLY <3>1, <3>2, <3>3, <3>4, <3>5, <3>6 DEF SameRow
  <2> QED
      BY <2>1, <2>2, Zenon
<1>10. ASSUME NEW z \in Sweepers, z # s, NEW e \in claimed, NEW f \in sweeps[z],
              e.id = f.id, e.task.version = f.task.version
       PROVE  f.at + LeaseDuration <= e.at
  <2>1. /\ f.id \in TaskIDs /\ f.task.version = tasks[f.id].version
        /\ e.at = now /\ tasks[f.id].lockedUntil <= now
      BY <1>1, <1>3, <1>4, <1>10 DEF SameRow
  <2>2. f.at + LeaseDuration <= tasks[f.id].lockedUntil
      BY <2>1, Zenon DEF SInv, ClaimsSound
  <2> QED
      BY ONLY <1>0, <1>10, <2>1, <2>2, SweepFacts, z \in Sweepers, f \in sweeps[z]
<1>11. ClaimsExclusive'
    BY <1>6, <1>10, Zenon DEF SInv, ClaimsExclusive
<1>12. SweepReads'
  <2>1. ~reads[s].active
      BY <1>0, Zenon DEF SInv, SweepReads, OnClaim
  <2> QED
      BY <1>0, <1>6, <2>1, Zenon DEF SInv, SweepReads
<1>13. LeasesKept'
  <2> SUFFICES ASSUME NEW i \in TaskIDs, tasks'[i].status \notin Terminal
               PROVE  /\ AfterLast(i, tasks[i].lockedUntil)'
                      /\ Len(swept'[i]) <= tasks'[i].escalationCount
                      /\ \A d \in Sessions :
                           reads'[d].active /\ reads'[d].id = i
                             /\ reads'[d].task.version = tasks'[i].version =>
                               AfterLast(i, reads[d].task.lockedUntil)'
      BY Zenon DEF LeasesKept
  <2>1. /\ AfterLast(i, tasks[i].lockedUntil)
        /\ Len(swept[i]) <= tasks[i].escalationCount
        /\ \A d \in Sessions :
             reads[d].active /\ reads[d].id = i /\ reads[d].task.version = tasks[i].version =>
                 AfterLast(i, reads[d].task.lockedUntil)
      BY <1>1, Zenon DEF SInv, LeasesKept, SameRow
  <2>2. AfterLast(i, tasks[i].lockedUntil)'
    <3>1. /\ tasks[i].lockedUntil \in Nat /\ tasks'[i].lockedUntil \in Nat
          /\ tasks[i].lockedUntil <= tasks'[i].lockedUntil
        BY <1>1, <1>2, Zenon DEF SameRow, TaskRecord
    <3>2. /\ Len(swept[i]) \in Nat /\ LeaseDuration \in Nat
          /\ \A j \in 1..Len(swept[i]) : swept[i][j] \in Nat
        BY <1>0, SweepFacts, Zenon
    <3> QED
        BY <1>0, <2>1, <3>1, <3>2 DEF AfterLast
  <2> QED
      BY <1>0, <1>1, <2>1, <2>2, Zenon DEF AfterLast, SameRow
<1>14. EscalationsSpaced'
    BY <1>0, Zenon DEF SInv, EscalationsSpaced
<1>15. SweepsObeyPolicy'
  <2>1. \A id \in TaskIDs : /\ tasks'[id].policy = tasks[id].policy
                            /\ tasks'[id].dueAt = tasks[id].dueAt
                            /\ RecordsOf(id)' = RecordsOf(id)
    <3>1. \A id \in TaskIDs : /\ tasks'[id].policy = tasks[id].policy
                              /\ tasks'[id].dueAt = tasks[id].dueAt
        BY ONLY <1>1, Zenon DEF SameRow
    <3>2. \A id \in TaskIDs : RecordsOf(id)' = RecordsOf(id)
        BY ONLY <1>0, Zenon DEF RecordsOf
    <3> QED
        BY ONLY <3>1, <3>2, Zenon
  <2> QED
      BY <1>0, <2>1, Zenon DEF SInv, SweepsObeyPolicy
<1> QED
    BY <1>7, <1>9, <1>11, <1>12, <1>13, <1>14, <1>15, Zenon DEF SInv

(* The sweepers' other steps ********************************************)

\* The next two are the ways a sweeper looks at a claim without escalating:
\* between two steps of Escalate it has no snapshot, so giving up a claim is safe.
LEMMA DropSInv ==
    ASSUME IInv, SInv, NEW s \in Sweepers, NEW e \in sweeps[s], Drop(s, e),
           ~reads[s].active, UNCHANGED <<serviceVars, clock, swept>>
    PROVE  SInv'
<1>1. \A z \in Sweepers : /\ sweeps'[z] \subseteq sweeps[z]
                          /\ z # s => sweeps'[z] = sweeps[z]
    BY Zenon DEF SInv, SweepTypes, Drop
<1>2. SweepTypes'
    BY Zenon DEF SInv, SweepTypes, Drop
<1>3. SweepReads'
    BY <1>1, Zenon DEF SInv, SweepReads, serviceVars
<1> QED
    BY <1>1, <1>2, <1>3, QuietSInv, Zenon DEF serviceVars

\* A sweeper begins Escalate: the version it compared is the one it snapshots, and
\* the snapshot carries the lease the claim took or a later one.
LEMMA BeginSInv ==
    ASSUME IInv, SInv, NEW s \in Sweepers, BeginEscalate(s)
    PROVE  SInv'
<1>0. TypeOK /\ SweepTypes /\ s \in Sessions /\ s \notin Clients
    BY ServiceAssumption, Zenon DEF IInv, SInv, Sessions
<1>1. PICK e \in sweeps[s] : /\ ~Exempt(e.task)
                             /\ tasks[e.id].version = e.task.version
                             /\ Get(s, e.id, s)
                             /\ UNCHANGED sweepVars
    BY Zenon DEF BeginEscalate
<1> DEFINE r == [active |-> TRUE, id |-> e.id, actor |-> s, task |-> tasks[e.id]]
<1>2. reads' = [reads EXCEPT ![s] = r] /\ tasks' = tasks /\ history' = history
    BY <1>1, Zenon DEF Get
<1>3. r.id = e.id /\ r.actor = s /\ r.task = tasks[e.id]
    BY Zenon
<1> HIDE DEF r
<1>4. reads'[s] = r /\ \A d \in Sessions : d # s => reads'[d] = reads[d]
    BY <1>0, <1>2, Zenon DEF TypeOK
<1>5. sweeps' = sweeps /\ swept' = swept /\ clock' = clock
    BY <1>1, Zenon DEF sweepVars
<1>6. e.at + LeaseDuration <= tasks[e.id].lockedUntil
    BY <1>1, Zenon DEF SInv, ClaimsSound
<1>7. SweepReads'
  <2>1. OnClaim(s, reads'[s], sweeps'[s])
      BY <1>1, <1>3, <1>4, <1>5, <1>6, Zenon DEF OnClaim
  <2> QED
      BY <1>0, <1>4, <1>5, <2>1, SessionsAre, Zenon DEF SInv, SweepReads
<1>8. SweepTypes'
    BY <1>0, <1>5, Zenon DEF SweepTypes
<1>9. \A d \in Sessions : reads'[d].active =>
               reads'[d] = reads[d] \/ reads'[d].task = tasks[reads'[d].id]
    BY <1>3, <1>4, Zenon
<1> QED
    BY <1>2, <1>5, <1>7, <1>8, <1>9, QuietSInv, Zenon

\* A sweeper gives up its snapshot and some of its claims: the escalation is
\* refused, fails, or the process stops.
LEMMA GiveUpSInv ==
    ASSUME IInv, SInv, NEW s \in Sweepers, NEW kept \in SUBSET sweeps[s],
           sweeps' = [sweeps EXCEPT ![s] = kept],
           reads' = [reads EXCEPT ![s] = Idle],
           UNCHANGED <<tasks, history, clock, swept>>
    PROVE  SInv'
<1>0. s \in Sessions /\ s \notin Clients
    BY ServiceAssumption, Zenon DEF Sessions
<1>1. \A z \in Sweepers : /\ sweeps'[z] \subseteq sweeps[z]
                          /\ z # s => sweeps'[z] = sweeps[z]
    BY Zenon DEF SInv, SweepTypes
<1>2. ~reads'[s].active /\ \A d \in Sessions : d # s => reads'[d] = reads[d]
    BY <1>0, NoTaskFacts, Zenon DEF IInv, TypeOK
<1>3. SweepTypes'
    BY Zenon DEF SInv, SweepTypes
<1>4. SweepReads'
    BY <1>0, <1>1, <1>2, SessionsAre, Zenon DEF SInv, SweepReads
<1> QED
    BY <1>0, <1>1, <1>2, <1>3, <1>4, QuietSInv, Zenon

\* A swept escalation commits.  The version is still the leased one, so the task is
\* the one the policy was asked about, and its lease is the claim's or a later one:
\* the claim was taken a lease after the last one that escalated the task, and what
\* is written back protects the task for a lease after this one.
LEMMA CommitEscalateSInv ==
    ASSUME IInv, RecordsInv, SInv, NEW s \in Sweepers, CommitEscalate(s)
    PROVE  SInv'
<1>0. TypeOK /\ SweepTypes /\ s \in Sessions /\ s \notin Clients
    BY ServiceAssumption, Zenon DEF IInv, SInv, Sessions
<1>1. PICK e \in sweeps[s] : /\ reads[s].active /\ reads[s].id = e.id
                             /\ Escalate(s)
                             /\ Drop(s, e)
                             /\ swept' = [swept EXCEPT ![e.id] = Append(@, e.at)]
                             /\ UNCHANGED clock
    BY Zenon DEF CommitEscalate
<1>p. PICK id \in TaskIDs, t \in TaskRecord, at \in Nat, actor \in Callers :
        id = reads[s].id /\ t = reads[s].task /\ at = e.at /\ actor = reads[s].actor
    BY <1>0, SweepFacts, Zenon DEF TypeOK
<1>o. PICK op \in Operations :
        op = IF t.policy.action = "SUPERSEDE" THEN "OBSOLETE" ELSE "ESCALATE"
    BY Zenon DEF Operations
<1>n. MayEscalate(t) /\ Transition(s, op, Escalated(t))
    BY <1>1, <1>p, <1>o, Zenon DEF Escalate
<1>l. Legit(t, Escalated(t)) /\ Keeps(t, Escalated(t)) /\ t.status \in Suspendable
      /\ \/ Escalated(t).status \in Terminal
         \/ Escalated(t).escalationCount = t.escalationCount + 1
    BY <1>n, EscalatedLegit, EscalatedKeeps, Zenon
<1>q. PICK n \in TaskRecord : n = Escalated(t)
    BY <1>l, Zenon DEF Legit
<1> DEFINE row == tasks[id]
<1>2. /\ row.version = t.version
      /\ tasks' = [tasks EXCEPT ![id] = n]
      /\ PersistOutcome(id, op, t, n, actor, TRUE, TRUE)
      /\ reads' = [reads EXCEPT ![s] = Idle]
  <2>1. Mutate(s, op, n, TRUE, TRUE)
      BY <1>n, <1>q, Zenon DEF Transition
  <2>2. PersistOutcome(id, op, t, n, actor, TRUE, TRUE)
      BY <1>p, <2>1, Zenon DEF Mutate
  <2>3. /\ row.version = t.version
        /\ tasks' = [tasks EXCEPT ![id] = n]
        /\ reads' = [reads EXCEPT ![s] = Idle]
      BY <1>p, <2>1, Zenon DEF Mutate, Update
  <2> QED
      BY <2>2, <2>3, Zenon
<1>3. /\ t.status = row.status /\ t.policy = row.policy
      /\ t.escalationCount = row.escalationCount /\ t.dueAt = row.dueAt
    BY <1>0, <1>1, <1>2, <1>p, SnapshotSound, SMTT(30)
<1>4. n.version = row.version + 1 /\ Keeps(t, n)
    BY <1>2, <1>l, <1>q, Zenon DEF Legit
<1>5. /\ e.id = id /\ e.task.version = t.version /\ ~Exempt(e.task)
      /\ at + LeaseDuration <= t.lockedUntil
  <2>1. PICK f \in sweeps[s] : /\ f.id = id /\ f.task.version = t.version
                               /\ ~Exempt(f.task)
                               /\ f.at + LeaseDuration <= t.lockedUntil
      BY <1>1, <1>p, Zenon DEF SInv, SweepReads, OnClaim
  <2>2. f = e
      BY <1>1, <1>p, <2>1, Zenon DEF SInv, ClaimsSound
  <2> QED
      BY <1>p, <2>1, <2>2, Zenon
<1>6. IsOverdue(e.task, at) /\ Contents(e.task) = Contents(row) /\ AfterLast(id, at)
    BY <1>2, <1>5, <1>p, Zenon DEF SInv, ClaimsSound
<1>7. /\ t.status = e.task.status /\ t.policy = e.task.policy
      /\ t.escalationCount = e.task.escalationCount /\ t.dueAt = e.task.dueAt
  <2>1. e.task \in TaskRecord /\ row \in TaskRecord
      BY <1>0, SweepFacts, Zenon
  <2> QED
      BY <1>3, <1>6, <2>1, ContentsFacts, Zenon
<1>8. \A d \in Sessions : /\ reads'[d].active => reads'[d] = reads[d]
                          /\ d # s => reads'[d] = reads[d]
    BY <1>0, <1>2, NoTaskFacts, Zenon DEF TypeOK
<1>9. ~reads'[s].active
    BY <1>0, <1>2, NoTaskFacts, Zenon DEF TypeOK
<1>10. \A z \in Sweepers : /\ sweeps'[z] \subseteq sweeps[z]
                           /\ z # s => sweeps'[z] = sweeps[z]
    BY <1>0, <1>1, Zenon DEF SweepTypes, Drop
<1> DEFINE q == swept[id]
           g == Append(q, at)
<1>11. /\ swept'[id] = g /\ \A i \in TaskIDs : i # id => swept'[i] = swept[i]
       /\ q \in Seq(Nat)
    BY <1>0, <1>1, <1>p, Zenon DEF SweepTypes
<1>12. /\ g \in Seq(Nat) /\ Len(q) \in Nat /\ Len(g) = Len(q) + 1
       /\ \A i \in 1..Len(q) : g[i] = q[i] /\ g[i] \in Nat
       /\ g[Len(q) + 1] = at
    BY ONLY <1>11, at \in Nat, AppendFacts
<1> HIDE DEF g
<1>13. SweepTypes'
  <2>1. swept' = [swept EXCEPT ![id] = g]
      BY <1>1, <1>p, Zenon DEF g
  <2> QED
      BY <1>0, <1>1, <1>12, <2>1, Zenon DEF SweepTypes, Drop
<1>14. ClaimsSound' /\ ClaimsExclusive'
    BY <1>0, <1>2, <1>4, <1>10, <1>11, <1>13, CommitClaims, Zenon
<1>15. SweepReads'
    BY <1>0, <1>8, <1>9, <1>10, SessionsAre, Zenon DEF SInv, SweepReads
<1>16. Len(q) <= row.escalationCount /\ t.status \notin Terminal
  <2>1. t.status \notin Terminal
      BY <1>l, Zenon DEF Suspendable, Terminal
  <2> QED
      BY <1>3, <2>1, Zenon DEF SInv, LeasesKept
<1>17. n.status \notin Terminal => /\ AfterLast(id, n.lockedUntil)'
                                   /\ Len(swept'[id]) <= n.escalationCount
  <2> SUFFICES ASSUME n.status \notin Terminal
               PROVE  /\ AfterLast(id, n.lockedUntil)'
                      /\ Len(swept'[id]) <= n.escalationCount
      BY Zenon
  <2>1. n.lockedUntil = t.lockedUntil
      BY <1>4, Zenon DEF Keeps
  <2>2. n.escalationCount = row.escalationCount + 1 /\ row.escalationCount \in Nat
      BY <1>0, <1>3, <1>l, <1>q, SweepFacts, Zenon
  <2>3. AfterLast(id, n.lockedUntil)'
      BY <1>5, <1>11, <1>12, <2>1, Zenon DEF AfterLast
  <2> QED
      BY ONLY <1>11, <1>12, <1>16, <2>2, <2>3
<1>18. LeasesKept'
    BY <1>2, <1>4, <1>8, <1>11, <1>17, CommitLeases, Zenon
<1>19. EscalationsSpaced'
  <2> SUFFICES ASSUME NEW i \in TaskIDs, NEW j \in 1..(Len(swept'[i]) - 1)
               PROVE  swept'[i][j + 1] >= swept'[i][j] + LeaseDuration
      BY Zenon DEF EscalationsSpaced
  <2>1. CASE i # id
      BY <1>11, <2>1, Zenon DEF SInv, EscalationsSpaced
  <2>2. CASE i = id /\ j = Len(q)
    <3>1. Len(q) \in 1..Len(q) /\ q[Len(q)] + LeaseDuration <= at
        BY ONLY <1>6, <1>11, <1>12, <2>2, j \in 1..(Len(swept'[i]) - 1) DEF AfterLast
    <3>2. swept'[i][j + 1] = at /\ swept'[i][j] = q[Len(q)]
        BY <1>11, <1>12, <2>2, <3>1, Zenon
    <3>3. q[Len(q)] \in Nat /\ LeaseDuration \in Nat
        BY <1>12, <3>1, SweeperAssumption, Zenon
    <3> QED
        BY <3>1, <3>2, <3>3, Zenon
  <2>3. CASE i = id /\ j # Len(q)
    <3>1. j \in 1..(Len(q) - 1) /\ j \in 1..Len(q) /\ j + 1 \in 1..Len(q)
        BY ONLY <1>11, <1>12, <2>3, j \in 1..(Len(swept'[i]) - 1)
    <3>2. q[j + 1] >= q[j] + LeaseDuration
        BY <3>1, Zenon DEF SInv, EscalationsSpaced
    <3> QED
        BY <1>11, <1>12, <2>3, <3>1, <3>2, Zenon
  <2> QED
      BY <2>1, <2>2, <2>3, Zenon
<1>20. SweepsObeyPolicy'
  <2>1. n.policy = row.policy /\ n.dueAt = row.dueAt
      BY <1>3, <1>4, Zenon DEF Keeps
  <2>2. n.policy.maxEscalations > 0 => Len(swept'[id]) <= n.policy.maxEscalations
    <3>1. t.policy.maxEscalations > 0 => ~(t.escalationCount >= t.policy.maxEscalations)
        BY <1>5, <1>7, Zenon DEF Exempt
    <3>2. row.escalationCount \in Nat /\ row.policy.maxEscalations \in Nat
        BY <1>0, SweepFacts, Zenon
    <3> QED
      <4>1. /\ n.policy.maxEscalations = row.policy.maxEscalations
            /\ t.policy.maxEscalations = row.policy.maxEscalations
            /\ t.escalationCount = row.escalationCount
          BY <1>3, <2>1, Zenon
      <4>2. Len(swept'[id]) = Len(q) + 1 /\ Len(q) \in Nat /\ Len(q) <= row.escalationCount
          BY <1>11, <1>12, <1>16, Zenon
      <4> QED
          BY ONLY <3>1, <3>2, <4>1, <4>2
  <2>3. \A i \in 1..Len(swept'[id]) : n.dueAt # Never /\ n.dueAt <= swept'[id][i]
    <3>1. \A i \in 1..Len(q) : row.dueAt # Never /\ row.dueAt <= q[i]
        BY Zenon DEF SInv, SweepsObeyPolicy
    <3>2. row.dueAt # Never /\ row.dueAt <= at
        BY <1>3, <1>6, <1>7, Zenon DEF IsOverdue
    <3>3. \A i \in 1..(Len(q) + 1) : i \in 1..Len(q) \/ i = Len(q) + 1
        BY ONLY <1>12
    <3> QED
        BY ONLY <1>11, <1>12, <2>1, <3>1, <3>2, <3>3, Zenon
  <2>4. t.status \in Suspendable /\ ~(n.policy.exemptInProgress /\ t.status = "IN_PROGRESS")
      BY <1>3, <1>5, <1>7, <1>l, <2>1, Zenon DEF Exempt
  <2> QED
      BY <1>0, <1>2, <1>11, <2>1, <2>2, <2>3, <2>4, CommitPolicy, Zenon
<1> QED
    BY <1>13, <1>14, <1>15, <1>18, <1>19, <1>20, Zenon DEF SInv

(* The theorems *********************************************************)

\* Nothing a sweeper holds depends on the clock.
LEMMA TickKeeps ==
    ASSUME SweepTypes, SweepReads, reads' = reads, sweeps' = sweeps, swept' = swept,
           clock' = clock \/ clock' = clock + 1
    PROVE  SweepTypes' /\ SweepReads'
<1>1. clock' \in Nat
    BY DEF SweepTypes
<1> QED
    BY <1>1, Zenon DEF SweepTypes, SweepReads

\* The whole invariant: the service's, what it records, and the sweepers'.
Guarded == IInv /\ RecordsInv /\ SInv

\* A sweeper's step seen from the service: it writes no task, or is a claim, or is
\* the commit of an escalation.
LEMMA SweepCases ==
    ASSUME TypeOK, SweepTypes, NEW s \in Sweepers, SweepStep(s)
    PROVE  \/ \E now \in Nat, batch \in SUBSET TaskIDs : Claiming(s, now, batch)
           \/ CommitEscalate(s) /\ Commits(s) /\ LoggedCommit(s)
           \/ BeginEscalate(s) /\ \E id \in TaskIDs : Get(s, id, s)
           \/ /\ ~reads[s].active /\ UNCHANGED <<serviceVars, clock, swept>>
              /\ \E e \in sweeps[s] : Drop(s, e)
           \/ /\ UNCHANGED <<tasks, history, outbox, saves, clock, swept>>
              /\ reads' = [reads EXCEPT ![s] = Idle]
              /\ \E kept \in SUBSET sweeps[s] : sweeps' = [sweeps EXCEPT ![s] = kept]
<1>0. s \in Sessions
    BY Zenon DEF Sessions
<1>1. CASE ClaimOverdue(s)
    BY <1>1, ClaimIsClaiming, Zenon
<1>2. CASE LeaveAlone(s)
    BY <1>2, Zenon DEF LeaveAlone
<1>3. CASE VersionMoved(s)
    BY <1>3, Zenon DEF VersionMoved
<1>4. CASE BeginEscalate(s)
  <2>1. PICK e \in sweeps[s] : Get(s, e.id, s)
      BY <1>4, Zenon DEF BeginEscalate
  <2>2. e.id \in TaskIDs
      BY SweepFacts, Zenon
  <2> QED
      BY <1>4, <2>1, <2>2, Zenon
<1>5. CASE CommitEscalate(s)
  <2>1. Escalate(s)
      BY <1>5, Zenon DEF CommitEscalate
  <2> QED
      BY <1>0, <1>5, <2>1, EscalateCommits, EscalateLogged, Zenon
<1>6. ASSUME NEW e \in sweeps[s], Rollback(s), Drop(s, e), UNCHANGED <<clock, swept>>
      PROVE  /\ UNCHANGED <<tasks, history, outbox, saves, clock, swept>>
             /\ reads' = [reads EXCEPT ![s] = Idle]
             /\ \E kept \in SUBSET sweeps[s] : sweeps' = [sweeps EXCEPT ![s] = kept]
  <2>1. sweeps' = [sweeps EXCEPT ![s] = sweeps[s] \ {e}]
      BY <1>6, Zenon DEF Drop
  <2> QED
      BY <1>6, <2>1, Zenon DEF Rollback
<1>7. CASE EscalateConflicts(s)
    BY <1>6, <1>7, Zenon DEF EscalateConflicts
<1>8. CASE EscalateFails(s)
    BY <1>6, <1>8, Zenon DEF EscalateFails
<1>9. CASE Crash(s)
    BY <1>9, Zenon DEF Crash
<1> QED
    BY <1>1, <1>2, <1>3, <1>4, <1>5, <1>7, <1>8, <1>9, Zenon DEF SweepStep

\* Giving up a snapshot keeps the service's invariant, also when the process stops
\* without one.
LEMMA IdleIInv ==
    ASSUME IInv, NEW c \in Sessions, reads' = [reads EXCEPT ![c] = Idle],
           UNCHANGED <<tasks, history, outbox, saves>>
    PROVE  IInv'
<1>1. TypeOK'
    BY NoTaskFacts, Zenon DEF IInv, TypeOK
<1>2. \A d \in Sessions : reads'[d].active => reads'[d] = reads[d]
    BY NoTaskFacts, Zenon DEF IInv, TypeOK
<1>3. SnapshotCurrent'
    BY <1>2, ZenonT(30) DEF IInv, SnapshotCurrent
<1> QED
    BY <1>1, <1>3, Zenon
    DEF IInv, Unborn, NoLostSave, HolderFollowsStatus, ExcludedNeverHolds,
        ClosedIsUnleased, Exists

\* A sweeper's step keeps the invariant and is a step of the lifecycle.
LEMMA SweepStepGuarded ==
    ASSUME Guarded, NEW s \in Sweepers, SweepStep(s)
    PROVE  Guarded' /\ [LC!LifecycleNext]_(LC!lifecycleVars)
<1>0. IInv /\ RecordsInv /\ SInv /\ TypeOK /\ SweepTypes /\ s \in Sessions /\ s \in Callers
    BY Zenon DEF Guarded, IInv, SInv, Sessions, Callers
<1>1. ASSUME NEW now \in Nat, NEW batch \in SUBSET TaskIDs, Claiming(s, now, batch)
      PROVE  Guarded' /\ [LC!LifecycleNext]_(LC!lifecycleVars)
    BY <1>0, <1>1, ClaimIInv, ClaimRecords, ClaimSInv, Zenon DEF Guarded
<1>2. CASE CommitEscalate(s) /\ Commits(s) /\ LoggedCommit(s)
    BY <1>0, <1>2, CommitsIInv, CommitRecords, CommitEscalateSInv, CommitLifecycle, Zenon
    DEF Guarded
<1>3. ASSUME UNCHANGED <<tasks, history, outbox>>
      PROVE  RecordsInv' /\ [LC!LifecycleNext]_(LC!lifecycleVars)
  <2>1. RecordsInv'
      BY <1>0, <1>3, UnchangedRecords, Zenon
  <2>2. tasks' = tasks
      BY <1>3, Zenon
  <2> QED
      BY <2>1, <2>2, UnchangedLifecycle, Zenon
<1>4. CASE BeginEscalate(s) /\ \E id \in TaskIDs : Get(s, id, s)
  <2>1. IInv'
      BY <1>0, <1>4, GetIInv, Zenon
  <2>2. UNCHANGED <<tasks, history, outbox>>
      BY <1>4, Zenon DEF Get
  <2>3. SInv'
      BY <1>0, <1>4, BeginSInv, Zenon
  <2> QED
      BY <1>3, <2>1, <2>2, <2>3, Zenon DEF Guarded
<1>5. CASE /\ ~reads[s].active /\ UNCHANGED <<serviceVars, clock, swept>>
           /\ \E e \in sweeps[s] : Drop(s, e)
  <2>1. IInv'
      BY <1>0, <1>5, NextIInv, Zenon
  <2>2. UNCHANGED <<tasks, history, outbox>>
      BY <1>5, Zenon DEF serviceVars
  <2>3. SInv'
      BY <1>0, <1>5, DropSInv, Zenon
  <2> QED
      BY <1>3, <2>1, <2>2, <2>3, Zenon DEF Guarded
<1>6. CASE /\ UNCHANGED <<tasks, history, outbox, saves, clock, swept>>
           /\ reads' = [reads EXCEPT ![s] = Idle]
           /\ \E kept \in SUBSET sweeps[s] : sweeps' = [sweeps EXCEPT ![s] = kept]
  <2>1. IInv'
      BY <1>0, <1>6, IdleIInv, Zenon
  <2>2. UNCHANGED <<tasks, history, outbox>>
      BY <1>6, Zenon
  <2>3. SInv'
      BY <1>0, <1>6, GiveUpSInv, Zenon
  <2> QED
      BY <1>3, <2>1, <2>2, <2>3, Zenon DEF Guarded
<1> QED
    BY <1>0, <1>1, <1>2, <1>4, <1>5, <1>6, SweepCases, Zenon

\* Every step of the service with its sweepers keeps the invariant and is a step of
\* the lifecycle.
LEMMA NextGuarded ==
    ASSUME Guarded, [SweeperNext]_vars
    PROVE  Guarded' /\ [LC!LifecycleNext]_(LC!lifecycleVars)
<1>0. IInv /\ RecordsInv /\ SInv /\ TypeOK /\ SweepTypes
    BY Zenon DEF Guarded, IInv, SInv
<1>1. ASSUME [Next]_serviceVars
      PROVE  IInv' /\ RecordsInv' /\ [LC!LifecycleNext]_(LC!lifecycleVars)
    BY <1>0, <1>1, NextIInv, NextRecords, NextLifecycle, Zenon
<1>2. CASE Next /\ UNCHANGED sweepVars
  <2>1. ASSUME NEW id \in TaskIDs, NEW a \in Requesters, Create(id, a) PROVE SInv'
      BY <1>0, <1>2, <2>1, CreateSInv, Zenon
  <2>2. ASSUME NEW c \in Clients, ClientStep(c) PROVE SInv'
    <3>1. c \in Sessions
        BY Zenon DEF Sessions
    <3>2. \/ \E id \in TaskIDs, a \in Requesters : Get(c, id, a)
          \/ Rollback(c)
          \/ LoggedCommit(c)
        BY <1>0, <2>2, <3>1, ClientStepLogged, Zenon
    <3> QED
        BY <1>0, <1>2, <3>2, ClientReadSInv, ClientCommitSInv, Zenon
  <2>3. SInv'
      BY <1>2, <2>1, <2>2, Zenon DEF Next
  <2> QED
      BY <1>1, <1>2, <2>3, Zenon DEF Guarded
<1>3. ASSUME NEW s \in Sweepers, SweepStep(s)
      PROVE  Guarded' /\ [LC!LifecycleNext]_(LC!lifecycleVars)
    BY <1>3, SweepStepGuarded, Zenon
<1>4. CASE Tick \/ UNCHANGED vars
  <2>1. /\ UNCHANGED serviceVars /\ sweeps' = sweeps /\ swept' = swept
        /\ clock' = clock \/ clock' = clock + 1
      BY <1>4, Zenon DEF Tick, vars, sweepVars
  <2>2. SweepTypes' /\ SweepReads'
      BY <1>0, <2>1, TickKeeps, Zenon DEF SInv, serviceVars
  <2>3. SInv'
      BY <1>0, <2>1, <2>2, QuietSInv, Zenon DEF serviceVars
  <2> QED
      BY <1>1, <2>1, <2>3, Zenon DEF Guarded
<1> QED
    BY <1>2, <1>3, <1>4, Zenon DEF SweeperNext

\* The invariant holds with the sweepers running.
THEOREM SweeperInvariance == SweeperSpec => []Guarded
<1>1. SweeperInit => Guarded
    BY InitIInv, InitRecords, InitSInv, Zenon DEF SweeperInit, Guarded
<1>2. Guarded /\ [SweeperNext]_vars => Guarded'
    BY NextGuarded, Zenon
<1> QED
    BY <1>1, <1>2, PTL DEF SweeperSpec

\* Leases keep sweepers apart (ClaimOverdue, sweeper.go): two claims on one version
\* of a task, and two successive swept escalations of it, are a lease apart,
\* although the lease is written without moving the version.
THEOREM LeasesKeepApart == SweeperSpec => []SweepersKeptApart
<1>1. Guarded => SweepersKeptApart
    BY Zenon DEF Guarded, SInv, SweepersKeptApart
<1> QED
    BY <1>1, SweeperInvariance, PTL

\* What a sweep decides before it escalates still holds when it commits: the cap,
\* the deadline and the exemptions of the policy (sweepOne, Escalate).
THEOREM PolicyObeyed == SweeperSpec => []SweepsObeyPolicy
<1>1. Guarded => SweepsObeyPolicy
    BY Zenon DEF Guarded, SInv
<1> QED
    BY <1>1, SweeperInvariance, PTL

\* The history and the outbox stay complete with the sweepers running.
THEOREM SweptRecordsComplete == SweeperSpec => []RecordsTellTheStory
<1>1. Guarded => RecordsTellTheStory
    BY Zenon DEF Guarded, RecordsInv, RecordsTellTheStory
<1> QED
    BY <1>1, SweeperInvariance, PTL

\* The service with its sweepers implements the lifecycle: an escalation is one of
\* its steps, a claim is none.
THEOREM SweepersImplementLifecycle == SweeperSpec => ImplementsLifecycle
<1>1. SweeperInit => LC!LifecycleInit
    BY InitLifecycle, Zenon DEF SweeperInit
<1>2. Guarded /\ [SweeperNext]_vars => [LC!LifecycleNext]_(LC!lifecycleVars)
    BY NextGuarded, Zenon
<1> QED
    BY <1>1, <1>2, SweeperInvariance, PTL DEF SweeperSpec, ImplementsLifecycle, LC!LifecycleSpec
=============================================================================
