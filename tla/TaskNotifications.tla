-------------------------- MODULE TaskNotifications --------------------------
(***************************************************************************)
(* The notifications of one task: the projector that turns its events into *)
(* notices (tasknotify), and the store that keeps them (notify).           *)
(*                                                                         *)
(* Relays deliver every event at least once and in no particular order, so *)
(* a projector may be given any event at any time, again, or by two relays *)
(* at once, and may be cut off between any two steps of a plan.  A step is *)
(* one transaction of the store, which locks the task's close record first *)
(* and so runs alone.                                                      *)
(*                                                                         *)
(* An event's version is its place in the log; it is also the source and   *)
(* the version of the notices made from it.  Progress saves announce       *)
(* nothing and are left out.  Titles, links, payloads, reasons and instants *)
(* are left out too: what is old enough to be pruned is a choice.          *)
(***************************************************************************)
EXTENDS Task, Integers, Sequences

CONSTANTS Requesters,    \* who operations on the task are made for
          Pools, Policies,   \* what the task is created with
          Projections,   \* deliveries that can be under way at once
          Batch,         \* drafts one Publish call carries
          MaxVersion,    \* bound: how many events the task has
          MaxRead,       \* bound: how many notices are read at a time
          MaxPruned      \* bound: how many notices retention deletes

ASSUME NotificationsAssumption ==
    /\ Requesters \subseteq Actors
    /\ Pools \subseteq CandidatePool
    /\ Policies \subseteq EscalationPolicy
    /\ Batch \in Nat \ {0}
    /\ MaxVersion \in Nat
    /\ MaxRead \in Nat
    /\ MaxPruned \in Nat

VARIABLES
    task,        \* the task, as its last event left it
    log,         \* its recorded events, oldest first
    notices,     \* the notifications stored for the task
    watermarks,  \* the version each kind, and every kind, was closed at
    underway,    \* what each delivery is doing
    delivered,   \* the events whose delivery was reported to a relay
    pruned,      \* history variable: the recipients and sources retention deleted
    horizon      \* the last event that can no longer be delivered

notificationVars ==
    <<task, log, notices, watermarks, underway, delivered, pruned, horizon>>

Kinds == {"offer", "taken", "assigned"}
AllKinds == "*"

(* The task and its events **********************************************)

EventFor(op, next, actor) ==
    [op |-> op, status |-> next.status, actor |-> actor, assignee |-> next.assignee,
     candidates |-> next.candidates]

\* The creation, placed as the strategy says or faulted.
Creations ==
    UNION {LET t == NewTask(pool, policy, Never)
               eligible == ResolveCandidates(pool) IN
           {<<Faulted(t), EventFor("FAULT", Faulted(t), Nobody)>>} \cup
           {<<Activated(t, a), EventFor("CREATE", Activated(t, a), creator)>> :
                a \in IF eligible = {} THEN {} ELSE eligible \cup {Nobody},
                creator \in Requesters} :
           pool \in Pools, policy \in Policies}

Happens(op, next, actor) ==
    /\ Len(log) < MaxVersion
    /\ task' = next
    /\ log' = Append(log, EventFor(op, next, actor))
    /\ UNCHANGED <<notices, watermarks, underway, delivered, pruned, horizon>>

Operate(a) ==
    \/ MayClaim(task, a) /\ IsEligible(task.candidates, a)
       /\ Happens("CLAIM", Claimed(task, a), a)
    \/ MayRelease(task, a) /\ Happens("RELEASE", Released(task), a)
    \/ MayStart(task, a) /\ Happens("START", Started(task), a)
    \/ MayComplete(task, a) /\ Happens("COMPLETE", Completed(task), a)
    \/ MayFail(task, a) /\ Happens("FAIL", Failed(task), a)
    \/ \E target \in Actors :
         MayDelegate(task, a, target) /\ IsEligible(task.candidates, target)
         /\ Happens("DELEGATE", Delegated(task, target), a)
    \/ MaySuspend(task, a) /\ Happens("SUSPEND", Suspended(task), a)
    \/ MayResume(task, a) /\ Happens("RESUME", Resumed(task), a)
    \/ MayCancel(task) /\ Happens("CANCEL", Cancelled(task), a)

Escalate(a) ==
    /\ MayEscalate(task)
    /\ Happens(IF task.policy.action = "SUPERSEDE" THEN "OBSOLETE" ELSE "ESCALATE",
               Escalated(task), a)

(* The plan of an event *************************************************)

\* A close of no kind in particular closes every kind.
CloseStep(kinds, except, successor) ==
    [do |-> "close", kinds |-> kinds, except |-> except, successor |-> successor]

PublishStep(to, kind, coalesce) ==
    [do |-> "publish", to |-> to, kind |-> kind, coalesce |-> coalesce]

\* The directory is asked when the event is projected; here it never changes.
Eligible(e) == ResolveCandidates(e.candidates) \ {e.actor}

OfferSteps(e, coalesce) ==
    IF Eligible(e) = {} THEN << >> ELSE <<PublishStep(Eligible(e), "offer", coalesce)>>

Assignment(e) ==
    IF e.assignee \in {Nobody, e.actor} THEN << >>
    ELSE <<PublishStep({e.assignee}, "assigned", FALSE)>>

\* Mutant: a release offers the task without retiring what it was before.
DefaultPlanUnretired(e) ==
    CASE e.status \in Terminal -> <<CloseStep({}, Nobody, FALSE)>>
      [] e.op = "CREATE" /\ e.status = "READY" -> OfferSteps(e, FALSE)
      [] e.op = "CREATE" /\ e.status = "RESERVED" -> Assignment(e)
      [] e.op = "CLAIM" -> <<CloseStep({"offer"}, Nobody, TRUE)>>
      [] e.op = "RELEASE" -> OfferSteps(e, FALSE)
      [] e.op = "DELEGATE" ->
            <<CloseStep({"assigned"}, e.assignee, FALSE)>> \o Assignment(e)
      [] e.op = "ESCALATE" /\ e.status = "READY" -> OfferSteps(e, TRUE)
      [] OTHER -> << >>

DefaultPlan(e) ==
    CASE e.status \in Terminal -> <<CloseStep({}, Nobody, FALSE)>>
      [] e.op = "CREATE" /\ e.status = "READY" -> OfferSteps(e, FALSE)
      [] e.op = "CREATE" /\ e.status = "RESERVED" -> Assignment(e)
      [] e.op = "CLAIM" -> <<CloseStep({"offer"}, Nobody, TRUE)>>
      [] e.op = "RELEASE" ->
            <<CloseStep({"taken", "assigned"}, Nobody, FALSE)>> \o OfferSteps(e, FALSE)
      [] e.op = "DELEGATE" ->
            <<CloseStep({"assigned"}, e.assignee, FALSE)>> \o Assignment(e)
      [] e.op = "ESCALATE" /\ e.status = "READY" -> OfferSteps(e, TRUE)
      [] OTHER -> << >>

(* The store ************************************************************)

IsOpen(n) == n.state # "CLOSED"

Floor(marks, kind) ==
    IF marks[kind] > marks[AllKinds] THEN marks[kind] ELSE marks[AllKinds]

HasOpen(held, r, kind) ==
    \E n \in held : n.recipient = r /\ n.kind = kind /\ IsOpen(n)

\* Mutant: only an open notice makes a redelivery a duplicate.
DuplicateOpen(held, r, v) ==
    \E n \in held : n.recipient = r /\ n.version = v /\ n.state = "ACTIVE"

Duplicate(held, r, v) == \E n \in held : n.recipient = r /\ n.version = v

\* Suppression, coalescing and idempotency, in that order.
Insert(held, marks, v, to, kind, coalesce) ==
    held \cup
    {[recipient |-> r, version |-> v, kind |-> kind, state |-> "ACTIVE"] :
        r \in {r \in to : /\ v >= Floor(marks, kind)
                          /\ ~(coalesce /\ HasOpen(held, r, kind))
                          /\ ~Duplicate(held, r, v)}}

\* Mutant: a close sets the record to its own version.
RaiseToVersion(marks, kinds, v) ==
    [k \in DOMAIN marks |->
        IF k \in (IF kinds = {} THEN {AllKinds} ELSE kinds) THEN v ELSE marks[k]]

\* A close record is raised, never lowered.
Raise(marks, kinds, v) ==
    [k \in DOMAIN marks |->
        IF k \in (IF kinds = {} THEN {AllKinds} ELSE kinds) /\ marks[k] < v
        THEN v ELSE marks[k]]

Closing(step, v) ==
    {n \in notices : /\ IsOpen(n)
                     /\ n.version <= v
                     /\ step.kinds = {} \/ n.kind \in step.kinds
                     /\ n.recipient # step.except}

(* Deliveries ***********************************************************)

Idle == [event |-> 0, plan |-> << >>]

NotificationsInit ==
    \E c \in Creations :
        /\ task = c[1]
        /\ log = <<c[2]>>
        /\ notices = {}
        /\ watermarks = [k \in Kinds \cup {AllKinds} |-> -1]
        /\ underway = [p \in Projections |-> Idle]
        /\ delivered = {}
        /\ pruned = {}
        /\ horizon = 0

Deliver(p, v) ==
    /\ underway[p] = Idle
    /\ v > horizon
    /\ underway' = [underway EXCEPT ![p] = [event |-> v, plan |-> DefaultPlan(log[v])]]
    /\ UNCHANGED <<task, log, notices, watermarks, delivered, pruned, horizon>>

AtStep(p, do) == underway[p].plan # << >> /\ Head(underway[p].plan).do = do

\* The close, and the taken notices for whoever it closed, in one transaction.
Close(p) ==
    /\ AtStep(p, "close")
    /\ LET v == underway[p].event
           step == Head(underway[p].plan)
           closing == Closing(step, v)
           rest == (notices \ closing) \cup {[n EXCEPT !.state = "CLOSED"] : n \in closing}
           told == {n.recipient : n \in closing} \ {log[v].actor}
           marks == Raise(watermarks, step.kinds, v)
       IN /\ watermarks' = marks
          /\ notices' = IF step.successor
                        THEN Insert(rest, marks, v, told, "taken", FALSE)
                        ELSE rest
    /\ underway' = [underway EXCEPT ![p].plan = Tail(@)]
    /\ UNCHANGED <<task, log, delivered, pruned, horizon>>

\* One batch of a step's drafts; each batch is a transaction of its own.
Publish(p) ==
    /\ AtStep(p, "publish")
    /\ LET v == underway[p].event
           step == Head(underway[p].plan)
           size == IF Cardinality(step.to) < Batch THEN Cardinality(step.to) ELSE Batch
       IN \E batch \in {b \in SUBSET step.to : Cardinality(b) = size} :
            /\ notices' = Insert(notices, watermarks, v, batch, step.kind, step.coalesce)
            /\ underway' = [underway EXCEPT ![p].plan =
                    IF step.to = batch THEN Tail(@)
                    ELSE <<[step EXCEPT !.to = @ \ batch]>> \o Tail(@)]
    /\ UNCHANGED <<task, log, watermarks, delivered, pruned, horizon>>

Report(p) ==
    /\ underway[p] # Idle
    /\ underway[p].plan = << >>
    /\ delivered' = delivered \cup {underway[p].event}
    /\ underway' = [underway EXCEPT ![p] = Idle]
    /\ UNCHANGED <<task, log, notices, watermarks, pruned, horizon>>

\* A failure worth retrying, or a crash: the event is delivered again later.
Abandon(p) ==
    /\ underway[p] # Idle
    /\ underway' = [underway EXCEPT ![p] = Idle]
    /\ UNCHANGED <<task, log, notices, watermarks, delivered, pruned, horizon>>

(* Recipients and retention *********************************************)

Read(n) == [n EXCEPT !.state = IF @ = "ACTIVE" THEN "READ" ELSE @]

FewRead(held) == Cardinality({n \in held : n.state = "READ"}) <= MaxRead

\* A request that names several notices is several of these steps.
MarkRead(n) ==
    /\ notices' = (notices \ {n}) \cup {Read(n)}
    /\ FewRead(notices')
    /\ UNCHANGED <<task, log, watermarks, underway, delivered, pruned, horizon>>

\* Everything the recipient has been sent so far; less is several MarkRead steps.
MarkAllRead(r) ==
    /\ notices' = {IF n.recipient = r THEN Read(n) ELSE n : n \in notices}
    /\ FewRead(notices')
    /\ UNCHANGED <<task, log, watermarks, underway, delivered, pruned, horizon>>

Delete(n) ==
    /\ pruned' = pruned \cup {<<n.recipient, n.version>>}
    /\ Cardinality(pruned') <= MaxPruned
    /\ notices' = notices \ {n}
    /\ UNCHANGED <<task, log, watermarks, underway, delivered, horizon>>

\* A notice that has been inactive for long enough.
PruneAge(n) == n.state # "ACTIVE" /\ Delete(n)

\* A notice of a recipient over the count bound: active ones go last.
PruneCount(n) ==
    /\ n.state = "ACTIVE" =>
           \A m \in notices : m.recipient = n.recipient => m.state = "ACTIVE"
    /\ Delete(n)

\* The close records of a task without notices expire.  Their retention is far
\* longer than a relay's retries take, so what they covered is not delivered
\* again; a host that replays it by hand is told that it creates notices anew.
PruneWatermarks ==
    /\ notices = {}
    /\ delivered = DOMAIN log
    /\ \A p \in Projections : underway[p] = Idle
    /\ watermarks' = [k \in DOMAIN watermarks |-> -1]
    /\ horizon' = Len(log)
    /\ UNCHANGED <<task, log, notices, underway, delivered, pruned>>

NotificationsNext ==
    \/ \E a \in Requesters : Operate(a)
    \/ \E a \in Sweepers : Escalate(a)
    \/ \E p \in Projections :
         \/ \E v \in DOMAIN log : Deliver(p, v)
         \/ Close(p)
         \/ Publish(p)
         \/ Report(p)
         \/ Abandon(p)
    \/ \E r \in Actors : MarkAllRead(r)
    \/ \E n \in notices : MarkRead(n) \/ PruneAge(n) \/ PruneCount(n)
    \/ PruneWatermarks

NotificationsSpec == NotificationsInit /\ [][NotificationsNext]_notificationVars

-----------------------------------------------------------------------------
(* Properties ***********************************************************)

\* However often and by however many relays an event is delivered, it leaves a
\* recipient at most one notice, also when the first one was read or closed in
\* between; and never one for the actor who caused it.
OneNoticePerEvent ==
    \A n \in notices :
        /\ \A m \in notices : m.recipient = n.recipient /\ m.version = n.version => m = n
        /\ n.recipient # log[n.version].actor

\* What an event ends for the notices of a kind: a claim ends the offers, a
\* release what was taken or assigned, a delegation the other assignments, and
\* the end of the task everything.
Ends(e, kind) ==
    \/ e.status \in Terminal
    \/ e.op = "CLAIM" /\ kind = "offer"
    \/ e.op = "RELEASE" /\ kind \in {"taken", "assigned"}
    \/ e.op = "DELEGATE" /\ kind = "assigned"

EndedSince(v, kind) == \E u \in DOMAIN log : u > v /\ Ends(log[u], kind)

\* An event that is late does not create or reopen a notice that a newer event,
\* once delivered, has ended (the watermarks Close raises and Insert obeys).
LateNeverReopens ==
    [][\A n \in notices' :
        (IsOpen(n) /\ \A m \in notices : ~(IsOpen(m) /\ m.recipient = n.recipient
                                                   /\ m.version = n.version))
        => ~\E u \in delivered : u > n.version /\ Ends(log[u], n.kind)]_notificationVars

\* Once the end of the task has been delivered nobody has an open notice of it,
\* whatever deliveries are still under way, retried or late.
QuietOnceClosed ==
    (\E v \in delivered : log[v].status \in Terminal) => \A n \in notices : ~IsOpen(n)

AllDelivered == delivered = DOMAIN log

HeldAs == IF task.status = "SUSPENDED" THEN task.suspendedFrom ELSE task.status

\* Once every event has been delivered, in whatever order, the open notices tell
\* the truth: offers are of a task in its pool, taken notices of a task somebody
\* holds, and only the holder has an assignment, and one only.
NoticesMatchTask ==
    AllDelivered =>
        \A n \in notices : IsOpen(n) =>
            CASE n.kind = "offer" -> HeldAs = "READY"
              [] n.kind = "taken" -> HeldAs \in {"RESERVED", "IN_PROGRESS"}
              [] n.kind = "assigned" ->
                    /\ n.recipient = task.assignee
                    /\ \A m \in notices :
                         m.kind = "assigned" /\ IsOpen(m) => m = n

\* The open notices tell the truth about the task, and of one that has ended there
\* are none.
NoticesTellTruth == NoticesMatchTask /\ QuietOnceClosed

HasNotice(r, v) ==
    \E n \in notices : n.recipient = r /\ n.version = v /\ IsOpen(n)

\* Once every event has been delivered, everyone a creation or a release offers
\* the task to, and everyone it was assigned to, has that notice open, unless a
\* later event ended it or retention deleted it: no order, failure or repetition
\* of deliveries loses it.
NoticesMade ==
    AllDelivered =>
        \A v \in (horizon + 1)..Len(log) :
            LET e == log[v] IN
            /\ e.op \in {"CREATE", "RELEASE"} /\ e.status = "READY" /\ ~EndedSince(v, "offer")
               => \A r \in ResolveCandidates(e.candidates) \ {e.actor} :
                    HasNotice(r, v) \/ <<r, v>> \in pruned
            /\ e.op \in {"CREATE", "DELEGATE"} /\ e.status = "RESERVED"
               /\ e.assignee # e.actor /\ ~EndedSince(v, "assigned")
               => HasNotice(e.assignee, v) \/ <<e.assignee, v>> \in pruned

\* Every event makes its notices, each once.
NoticesMadeOnce == NoticesMade /\ OneNoticePerEvent

\* "A crash, a redeploy or a failed attempt never loses a notification an event
\* should produce" (the task-notifications specification), of an escalation of a
\* task in its pool: once every event has been delivered, everyone eligible has
\* an offer open, unless a later claim or the end of the task ended it.
EscalationOffersMade ==
    AllDelivered =>
        \A v \in (horizon + 1)..Len(log) :
            log[v].op = "ESCALATE" /\ log[v].status = "READY" /\ ~EndedSince(v, "offer")
            => \A r \in ResolveCandidates(log[v].candidates) \ {log[v].actor} :
                 \/ HasOpen(notices, r, "offer")
                 \/ \E gone \in pruned : gone[1] = r
=============================================================================
