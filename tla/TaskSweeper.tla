----------------------------- MODULE TaskSweeper -----------------------------
(***************************************************************************)
(* The escalation sweepers, running beside the clients of the service.     *)
(*                                                                         *)
(* A sweep leases a batch of overdue tasks in one transaction, then        *)
(* escalates them one by one through the service, each escalation bound to *)
(* the version it leased.  The lease is written without moving the         *)
(* version, so any mutation that read the task before the lease writes the *)
(* old lease columns back.                                                 *)
(***************************************************************************)
EXTENDS TaskService

CONSTANTS LeaseDuration,   \* how long one sweep's claim lasts
          Batch,           \* how many tasks one sweep claims
          Delay,           \* bound: how old a sweeper's reading of the clock is
                           \* when its claim commits
          MaxClock         \* bound: the last instant considered

ASSUME SweeperAssumption ==
    /\ LeaseDuration \in Nat \ {0}
    /\ Batch \in Nat \ {0}
    /\ Delay \in Nat
    /\ MaxClock \in Nat

VARIABLES
    clock,      \* the current time
    sweeps,     \* the leased tasks each sweeper still has to look at
    swept       \* history variable: the lease times of the claims that escalated

sweepVars == <<clock, sweeps, swept>>
vars == <<serviceVars, sweepVars>>

SweeperInit ==
    /\ Init
    /\ clock = 0
    /\ sweeps = [s \in Sweepers |-> {}]
    /\ swept = [id \in TaskIDs |-> << >>]

Lease(t, s, now) == [t EXCEPT !.lockedBy = s, !.lockedUntil = now + LeaseDuration]

\* Mutant: the overdue predicate without the lease.
ClaimableLeased(now) == {id \in TaskIDs : Exists(id) /\ IsOverdue(tasks[id], now)}

Claimable(now) ==
    {id \in TaskIDs : /\ Exists(id)
                      /\ IsOverdue(tasks[id], now)
                      /\ ~IsLeased(tasks[id], now)}

\* The stores order the candidates differently (by due date, by identifier),
\* so which ones a full batch takes is left open.
BatchesOf(due) ==
    {b \in SUBSET due : \/ b = due /\ Cardinality(due) <= Batch
                        \/ Cardinality(b) = Batch}

\* Sweep, up to the commit of ClaimOverdue.  now is read before the
\* transaction, and may have aged by the time the transaction commits.
ClaimOverdue(s) ==
    /\ sweeps[s] = {}
    /\ \E now \in (IF clock > Delay THEN clock - Delay ELSE 0)..clock :
       \E batch \in BatchesOf(Claimable(now)) :
            /\ batch # {}
            /\ tasks' = [id \in TaskIDs |->
                            IF id \in batch THEN Lease(tasks[id], s, now) ELSE tasks[id]]
            /\ sweeps' = [sweeps EXCEPT ![s] =
                            {[id |-> id, task |-> Lease(tasks[id], s, now), at |-> now]
                                : id \in batch}]
    /\ UNCHANGED <<history, outbox, reads, saves, clock, swept>>

Drop(s, e) == sweeps' = [sweeps EXCEPT ![s] = @ \ {e}]

\* The policy exempts the task as leased; its lease is left to expire.
LeaveAlone(s) ==
    /\ ~reads[s].active
    /\ \E e \in sweeps[s] : Exempt(e.task) /\ Drop(s, e)
    /\ UNCHANGED <<serviceVars, clock, swept>>

\* Mutant: the escalation is not bound to the version that was leased.
BeginEscalateBlind(s) ==
    \E e \in sweeps[s] :
        ~Exempt(e.task) /\ Get(s, e.id, s) /\ UNCHANGED sweepVars

\* Service.Escalate begins: it reads the task and compares the version it reads
\* with the leased one.
BeginEscalate(s) ==
    \E e \in sweeps[s] :
        /\ ~Exempt(e.task)
        /\ tasks[e.id].version = e.task.version
        /\ Get(s, e.id, s)
        /\ UNCHANGED sweepVars

VersionMoved(s) ==
    /\ ~reads[s].active
    /\ \E e \in sweeps[s] :
        /\ ~Exempt(e.task)
        /\ tasks[e.id].version # e.task.version
        /\ Drop(s, e)
    /\ UNCHANGED <<serviceVars, clock, swept>>

CommitEscalate(s) ==
    \E e \in sweeps[s] :
        /\ reads[s].active /\ reads[s].id = e.id
        /\ Escalate(s)
        /\ Drop(s, e)
        /\ swept' = [swept EXCEPT ![e.id] = Append(@, e.at)]
        /\ UNCHANGED clock

\* The escalation is refused.  A transition the lifecycle does not permit
\* matches ErrConflict too, and is dropped like a lost race.
EscalateConflicts(s) ==
    \E e \in sweeps[s] :
        /\ reads[s].active /\ reads[s].id = e.id
        /\ \/ ~MayEscalate(reads[s].task)
           \/ tasks[e.id].version # reads[s].task.version
        /\ Rollback(s)
        /\ Drop(s, e)
        /\ UNCHANGED <<clock, swept>>

\* The escalation fails for a reason of the store's; the handler is told.
EscalateFails(s) ==
    \E e \in sweeps[s] :
        /\ reads[s].active /\ reads[s].id = e.id
        /\ Rollback(s)
        /\ Drop(s, e)
        /\ UNCHANGED <<clock, swept>>

\* The sweeping process stops; what it leased stays leased.
Crash(s) ==
    /\ sweeps[s] # {}
    /\ sweeps' = [sweeps EXCEPT ![s] = {}]
    /\ reads' = [reads EXCEPT ![s] = Idle]
    /\ UNCHANGED <<tasks, history, outbox, saves, clock, swept>>

SweepStep(s) ==
    \/ ClaimOverdue(s)
    \/ LeaveAlone(s)
    \/ BeginEscalate(s)
    \/ VersionMoved(s)
    \/ CommitEscalate(s)
    \/ EscalateConflicts(s)
    \/ EscalateFails(s)
    \/ Crash(s)

Tick ==
    /\ clock < MaxClock
    /\ clock' = clock + 1
    /\ UNCHANGED <<serviceVars, sweeps, swept>>

SweeperNext ==
    \/ Next /\ UNCHANGED sweepVars
    \/ \E s \in Sweepers : SweepStep(s)
    \/ Tick

SweeperSpec == SweeperInit /\ [][SweeperNext]_vars

-----------------------------------------------------------------------------
(* Properties ***********************************************************)

\* One escalation per lease period: the claims that led to two successive swept
\* escalations of a task are at least a lease apart, however sweepers overlap,
\* stall past their lease, or have it written over by a concurrent mutation.
EscalationsSpaced ==
    \A id \in TaskIDs : \A i \in 1..(Len(swept[id]) - 1) :
        swept[id][i + 1] >= swept[id][i] + LeaseDuration

\* What a sweep decided on the task it leased still holds when the escalation
\* commits: no sweep escalates past the policy's cap, before the deadline, a
\* suspended or closed task, or work the policy exempts once it has started.
SweepsObeyPolicy ==
    \A id \in TaskIDs :
        LET t == tasks[id] IN
        /\ t.policy.maxEscalations > 0 => Len(swept[id]) <= t.policy.maxEscalations
        /\ \A i \in 1..Len(swept[id]) : t.dueAt # Never /\ t.dueAt <= swept[id][i]
        /\ \A r \in RecordsOf(id) : r.actor \in Sweepers =>
               /\ r.from \in Suspendable
               /\ ~(t.policy.exemptInProgress /\ r.from = "IN_PROGRESS")

\* The lease is exclusive for the version it was taken at: two sweepers hold
\* claims on one version of a task only when the earlier lease had run out.
ClaimsExclusive ==
    \A s, z \in Sweepers : \A e \in sweeps[s], f \in sweeps[z] :
        (s # z /\ e.id = f.id /\ e.task.version = f.task.version) =>
            e.at + LeaseDuration <= f.at \/ f.at + LeaseDuration <= e.at

\* Leases keep sweepers apart: their claims, and the escalations they lead to.
SweepersKeptApart == ClaimsExclusive /\ EscalationsSpaced
=============================================================================
