-------------------------------- MODULE Task --------------------------------
(***************************************************************************)
(* The human task aggregate and the pure transitions on it.                *)
(*                                                                         *)
(* Every transition of the code takes a task and returns the next one, or  *)
(* an error and the task unchanged.  Here each is a pair: the condition    *)
(* under which it is accepted (MayX) and the task it returns.  Payloads,   *)
(* comments, timestamps nobody compares and the correlation are left out;  *)
(* the saved progress is the number of patches merged into it.             *)
(***************************************************************************)
EXTENDS Naturals, FiniteSets

CONSTANTS Actors,       \* the people who work on tasks
          Sweepers,      \* the owners of the escalation sweepers
          Groups,        \* candidate groups
          Members,       \* the host's directory: group -> its members
          Nobody,        \* the empty actor identifier
          Never          \* the due date of a task that has none

ASSUME ActorsAssumption ==
    /\ Nobody \notin Actors \cup Sweepers
    /\ Actors \cap Sweepers = {}
ASSUME MembersAssumption == Members \in [Groups -> SUBSET Actors]
ASSUME NeverAssumption == Never \notin Nat

(* status.go and transition_table.go ************************************)

Suspendable == {"READY", "RESERVED", "IN_PROGRESS"}
Terminal == {"COMPLETED", "FAILED", "ERROR", "EXITED", "OBSOLETE"}
Statuses == {"CREATED", "SUSPENDED"} \cup Suspendable \cup Terminal

LegalTransitions ==
    ({"CREATED"} \X {"READY", "RESERVED", "ERROR"}) \cup
    ({"READY"} \X {"RESERVED", "SUSPENDED", "OBSOLETE", "EXITED"}) \cup
    ({"RESERVED"} \X {"READY", "IN_PROGRESS", "RESERVED", "SUSPENDED",
                      "OBSOLETE", "EXITED"}) \cup
    ({"IN_PROGRESS"} \X {"RESERVED", "COMPLETED", "FAILED", "ERROR",
                         "SUSPENDED", "EXITED"}) \cup
    ({"SUSPENDED"} \X {"READY", "RESERVED", "IN_PROGRESS", "EXITED"})

CanTransition(from, to) == <<from, to>> \in LegalTransitions

(* task.go **************************************************************)

\* Whoever an operation can be attributed to: the empty actor included.
Callers == Actors \cup Sweepers \cup {Nobody}

\* A policy of nil behaves exactly as the zero policy: announce only, exempt
\* nothing, no cap.
EscalationPolicy ==
    [action : {"NOTIFY", "WIDEN", "SUPERSEDE"},
     addUsers : SUBSET Actors, addGroups : SUBSET Groups,
     exemptInProgress : BOOLEAN, maxEscalations : Nat]

CandidatePool ==
    [users : SUBSET Actors, groups : SUBSET Groups, excluded : SUBSET Actors]

\* lockedUntil = 0 is the absent lease: no time is before it.
TaskRecord ==
    [version : Nat, status : Statuses,
     suspendedFrom : Suspendable \cup {"NONE"},
     assignee : Actors \cup {Nobody},
     started : BOOLEAN, closed : BOOLEAN, progress : Nat,
     candidates : CandidatePool, policy : EscalationPolicy,
     escalationCount : Nat, dueAt : Nat \cup {Never},
     lockedBy : Sweepers \cup {Nobody}, lockedUntil : Nat]

NewTask(pool, policy, dueAt) ==
    [version |-> 0, status |-> "CREATED", suspendedFrom |-> "NONE",
     assignee |-> Nobody, started |-> FALSE, closed |-> FALSE, progress |-> 0,
     candidates |-> pool, policy |-> policy, escalationCount |-> 0,
     dueAt |-> dueAt, lockedBy |-> Nobody, lockedUntil |-> 0]

IsOverdue(t, now) ==
    /\ t.dueAt # Never
    /\ t.status \notin Terminal \cup {"SUSPENDED"}
    /\ t.dueAt <= now

IsLeased(t, now) == now < t.lockedUntil

(* assignment.go ********************************************************)

\* Mutant: eligibility without the exclusion.
IsCandidate(pool, a) ==
    a # Nobody /\ (a \in pool.users \/ \E g \in pool.groups : a \in Members[g])

IsEligible(pool, a) ==
    /\ a # Nobody
    /\ a \notin pool.excluded
    /\ \/ a \in pool.users
       \/ \E g \in pool.groups : a \in Members[g]

ResolveCandidates(pool) ==
    (pool.users \cup UNION {Members[g] : g \in pool.groups}) \ pool.excluded

(* transitions.go *******************************************************)

\* What every accepted transition does besides its own change: the version
\* moves by one, and a task that closes gives up its escalation lease.
Record(next, to) ==
    [next EXCEPT !.status = to,
                 !.version = @ + 1,
                 !.closed = IF to \in Terminal THEN TRUE ELSE @,
                 !.lockedBy = IF to \in Terminal THEN Nobody ELSE @,
                 !.lockedUntil = IF to \in Terminal THEN 0 ELSE @]

RequireFrom(t, to, from) == t.status \in from /\ CanTransition(t.status, to)

RequireActor(a) == a # Nobody

RequireAssignee(t, a) == RequireActor(a) /\ t.assignee # Nobody /\ t.assignee = a

RequireAssigneeIfHeld(t, a) ==
    IF t.assignee = Nobody THEN RequireActor(a) ELSE RequireAssignee(t, a)

\* A task is activated or faulted only as it is created, from CREATED, where
\* both are always permitted.
Activated(t, assignee) ==
    Record([t EXCEPT !.assignee = assignee],
           IF assignee # Nobody THEN "RESERVED" ELSE "READY")

Faulted(t) == Record(t, "ERROR")

MayClaim(t, a) == RequireFrom(t, "RESERVED", {"READY"}) /\ RequireActor(a)
Claimed(t, a) == Record([t EXCEPT !.assignee = a], "RESERVED")

\* Mutant: release keeps the assignee.
ReleasedHeld(t) == Record(t, "READY")

MayRelease(t, a) == RequireFrom(t, "READY", {"RESERVED"}) /\ RequireAssignee(t, a)
Released(t) == Record([t EXCEPT !.assignee = Nobody], "READY")

MayStart(t, a) == RequireFrom(t, "IN_PROGRESS", {"RESERVED"}) /\ RequireAssignee(t, a)
Started(t) == Record([t EXCEPT !.started = TRUE], "IN_PROGRESS")

MayComplete(t, a) ==
    RequireFrom(t, "COMPLETED", {"IN_PROGRESS"}) /\ RequireAssignee(t, a)
Completed(t) == Record(t, "COMPLETED")

MayFail(t, a) == RequireFrom(t, "FAILED", {"IN_PROGRESS"}) /\ RequireAssignee(t, a)
Failed(t) == Record(t, "FAILED")

MayDelegate(t, a, target) ==
    /\ RequireFrom(t, "RESERVED", {"RESERVED", "IN_PROGRESS"})
    /\ RequireAssignee(t, a)
    /\ target # Nobody
Delegated(t, target) == Record([t EXCEPT !.assignee = target], "RESERVED")

MaySuspend(t, a) ==
    RequireFrom(t, "SUSPENDED", Suspendable) /\ RequireAssigneeIfHeld(t, a)
Suspended(t) == Record([t EXCEPT !.suspendedFrom = t.status], "SUSPENDED")

\* Mutant: a resumed task always goes back to the pool.
ResumedToPool(t) == Record([t EXCEPT !.suspendedFrom = "NONE"], "READY")

MayResume(t, a) ==
    /\ t.suspendedFrom \in Suspendable
    /\ RequireFrom(t, t.suspendedFrom, {"SUSPENDED"})
    /\ RequireAssigneeIfHeld(t, a)
Resumed(t) == Record([t EXCEPT !.suspendedFrom = "NONE"], t.suspendedFrom)

MayObsolete(t) == RequireFrom(t, "OBSOLETE", {"READY", "RESERVED"})
Obsoleted(t) == Record(t, "OBSOLETE")

Widened(pool, policy) ==
    [pool EXCEPT !.users = @ \cup policy.addUsers, !.groups = @ \cup policy.addGroups]

\* Escalating by SUPERSEDE is Obsolete; otherwise the status stays as it is,
\* and WIDEN adds the policy's users and groups to the pool.
MayEscalate(t) ==
    IF t.policy.action = "SUPERSEDE" THEN MayObsolete(t) ELSE t.status \in Suspendable
Escalated(t) ==
    IF t.policy.action = "SUPERSEDE" THEN Obsoleted(t)
    ELSE Record([t EXCEPT
            !.escalationCount = @ + 1,
            !.candidates = IF t.policy.action = "WIDEN" THEN Widened(@, t.policy) ELSE @],
            t.status)

MayCancel(t) ==
    RequireFrom(t, "EXITED", {"READY", "RESERVED", "IN_PROGRESS", "SUSPENDED"})
Cancelled(t) == Record(t, "EXITED")

(* service.go ***********************************************************)

\* SaveProgress: the first save on a RESERVED task also starts it.
MaySaveProgress(t, a) ==
    /\ \/ RequireFrom(t, "IN_PROGRESS", {"RESERVED"})
       \/ t.status = "IN_PROGRESS"
    /\ RequireAssignee(t, a)
ProgressSaved(t) ==
    Record([t EXCEPT !.progress = @ + 1,
                     !.started = IF t.status = "RESERVED" THEN TRUE ELSE @],
           "IN_PROGRESS")

(* sweep.go *************************************************************)

\* The reasons a sweep leaves an overdue task it leased alone.
Exempt(t) ==
    \/ t.status \in Terminal \cup {"SUSPENDED"}
    \/ t.policy.exemptInProgress /\ t.status = "IN_PROGRESS"
    \/ t.policy.maxEscalations > 0 /\ t.escalationCount >= t.policy.maxEscalations
=============================================================================
