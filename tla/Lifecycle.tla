------------------------------ MODULE Lifecycle ------------------------------
(***************************************************************************)
(* What the engine promises of a task, seen from outside: the state it is  *)
(* in, who holds it, and the state a suspended task goes back to.  There   *)
(* are no sessions, snapshots, versions or leases here: an operation is    *)
(* one step.  TaskService implements this specification.                   *)
(***************************************************************************)
CONSTANTS TaskIDs, Actors, Nobody

VARIABLES state, holder, resumeTo

lifecycleVars == <<state, holder, resumeTo>>

LifecycleInit ==
    /\ state = [id \in TaskIDs |-> "ABSENT"]
    /\ holder = [id \in TaskIDs |-> Nobody]
    /\ resumeTo = [id \in TaskIDs |-> "NONE"]

Change(id, from, to, h, r) ==
    /\ state[id] \in from
    /\ state' = [state EXCEPT ![id] = to]
    /\ holder' = [holder EXCEPT ![id] = h]
    /\ resumeTo' = [resumeTo EXCEPT ![id] = r]

\* A new task goes straight to the pool, to one actor, or to ERROR.
Place(id) ==
    \/ Change(id, {"ABSENT"}, "READY", Nobody, "NONE")
    \/ \E a \in Actors : Change(id, {"ABSENT"}, "RESERVED", a, "NONE")
    \/ Change(id, {"ABSENT"}, "ERROR", Nobody, "NONE")

Take(id) == \E a \in Actors : Change(id, {"READY"}, "RESERVED", a, "NONE")

GiveBack(id) == Change(id, {"RESERVED"}, "READY", Nobody, "NONE")

Begin(id) == Change(id, {"RESERVED"}, "IN_PROGRESS", holder[id], "NONE")

HandOver(id) ==
    \E a \in Actors : Change(id, {"RESERVED", "IN_PROGRESS"}, "RESERVED", a, "NONE")

Finish(id) ==
    \E to \in {"COMPLETED", "FAILED"} :
        Change(id, {"IN_PROGRESS"}, to, holder[id], "NONE")

Pause(id) ==
    Change(id, {"READY", "RESERVED", "IN_PROGRESS"}, "SUSPENDED", holder[id], state[id])

\* A suspended task goes back to exactly the state it was suspended in.
Continue(id) == Change(id, {"SUSPENDED"}, resumeTo[id], holder[id], "NONE")

Supersede(id) == Change(id, {"READY", "RESERVED"}, "OBSOLETE", holder[id], "NONE")

Withdraw(id) ==
    Change(id, {"READY", "RESERVED", "IN_PROGRESS", "SUSPENDED"}, "EXITED",
           holder[id], "NONE")

LifecycleNext ==
    \E id \in TaskIDs :
        \/ Place(id)
        \/ Take(id)
        \/ GiveBack(id)
        \/ Begin(id)
        \/ HandOver(id)
        \/ Finish(id)
        \/ Pause(id)
        \/ Continue(id)
        \/ Supersede(id)
        \/ Withdraw(id)

LifecycleSpec == LifecycleInit /\ [][LifecycleNext]_lifecycleVars
=============================================================================
