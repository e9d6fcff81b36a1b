------------------------------ MODULE StorePort ------------------------------
(***************************************************************************)
(* What the engine takes a store for: every transaction is one step on the *)
(* committed rows.  A task is written with its candidates and its event, a *)
(* write builds on the version before it, and a claim takes rows that are  *)
(* free when it commits.  Every other module reads a store this way.       *)
(***************************************************************************)
EXTENDS Naturals, Sequences

CONSTANTS TaskIDs, Pools, Owners, MaxVersion

VARIABLES tasks,    \* [version, lease, pool] of each task; version 0 is no task
          history,  \* the versions each task has a record of
          outbox    \* [published, due, lease] of each event, named by task and version

portVars == <<tasks, history, outbox>>

Nobody == "nobody"
NoPool == "no pool"
Events == TaskIDs \X (1..MaxVersion)
NoTask == [version |-> 0, lease |-> Nobody, pool |-> NoPool]
NoEntry == [recorded |-> FALSE, published |-> FALSE, due |-> FALSE, lease |-> Nobody]
BornDue == [recorded |-> TRUE, published |-> FALSE, due |-> TRUE, lease |-> Nobody]

PortInit ==
    /\ tasks = [id \in TaskIDs |-> NoTask]
    /\ history = [id \in TaskIDs |-> << >>]
    /\ outbox = [e \in Events |-> NoEntry]

\* A task's lease is a column like any other, written back as it was read.
Write(id, pool, lease) ==
    LET version == tasks[id].version + 1 IN
    /\ version <= MaxVersion
    /\ tasks' = [tasks EXCEPT ![id] = [version |-> version, lease |-> lease, pool |-> pool]]
    /\ history' = [history EXCEPT ![id] = Append(@, version)]
    /\ outbox' = [outbox EXCEPT ![<<id, version>>] = BornDue]

Create(id, pool) == tasks[id] = NoTask /\ Write(id, pool, Nobody)

Update(id, pool, lease) == tasks[id] # NoTask /\ Write(id, pool, lease)

ClaimOverdue(owner, ids) ==
    /\ \A id \in ids : tasks[id] # NoTask /\ tasks[id].lease = Nobody
    /\ tasks' = [id \in TaskIDs |-> IF id \in ids THEN [tasks[id] EXCEPT !.lease = owner]
                                    ELSE tasks[id]]
    /\ UNCHANGED <<history, outbox>>

ClaimDueEvents(owner, claimed) ==
    /\ \A e \in claimed : outbox[e] = BornDue
    /\ outbox' = [e \in Events |-> IF e \in claimed THEN [outbox[e] EXCEPT !.lease = owner]
                                   ELSE outbox[e]]
    /\ UNCHANGED <<tasks, history>>

\* A settlement names its event and nothing else, and releases it.
Settle(e, published, due) ==
    /\ outbox[e].recorded
    /\ outbox' = [outbox EXCEPT ![e] = [recorded |-> TRUE, published |-> published,
                                        due |-> due, lease |-> Nobody]]
    /\ UNCHANGED <<tasks, history>>

PortNext ==
    \/ \E id \in TaskIDs, pool \in Pools :
           Create(id, pool) \/ \E lease \in Owners \cup {Nobody} : Update(id, pool, lease)
    \/ \E owner \in Owners, ids \in SUBSET TaskIDs : ClaimOverdue(owner, ids)
    \/ \E owner \in Owners, claimed \in SUBSET Events : ClaimDueEvents(owner, claimed)
    \/ \E e \in Events, published \in BOOLEAN, due \in BOOLEAN : Settle(e, published, due)

PortSpec == PortInit /\ [][PortNext]_portVars
=============================================================================
