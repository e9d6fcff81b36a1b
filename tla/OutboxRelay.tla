----------------------------- MODULE OutboxRelay -----------------------------
(***************************************************************************)
(* The relays that deliver the durable events of the outbox.               *)
(*                                                                         *)
(* A pass leases a batch of due events in one transaction, offers each to  *)
(* every sink that has not taken it yet, and settles it in a transaction   *)
(* of its own: delivered, to be retried, or dead-lettered.  A relay may    *)
(* crash at any point, and the store may refuse a settlement.              *)
(*                                                                         *)
(* Time is abstract: a later next attempt becomes due, and a lease lapses, *)
(* at some point.  An event's number is its place in the order the events  *)
(* occurred in.                                                            *)
(***************************************************************************)
EXTENDS Naturals, Sequences, FiniteSets, SequencesExt

CONSTANTS Events,        \* the recorded events, numbered oldest first
          Sinks,         \* the destinations, in the order they are attempted
          Relays,
          Batch,         \* how many events one pass claims
          MaxAttempts,   \* attempts before an event is dead-lettered
          Overrun,       \* whether a pass may outlast the lease it took
          MaxFaults      \* bound: crashes and refused settlements considered

ASSUME RelayAssumption ==
    /\ Events \subseteq Nat /\ IsFiniteSet(Events)
    /\ Sinks \in Seq(ToSet(Sinks)) /\ Len(Sinks) > 0
    /\ \A i, j \in DOMAIN Sinks : Sinks[i] = Sinks[j] => i = j
    /\ Batch \in Nat \ {0}
    /\ MaxAttempts \in Nat \ {0}
    /\ Overrun \in BOOLEAN
    /\ MaxFaults \in Nat

VARIABLES
    entries,   \* the delivery state of each event
    passes,    \* each relay's pass
    takes,     \* history variable: how often each sink reported an event delivered
    exposed,   \* history variable: how often an attempt's outcome was not recorded
    faults     \* how many faults happened

relayVars == <<entries, passes, takes, exposed, faults>>

SinkNames == ToSet(Sinks)

\* next: there is a next attempt, and it is due or later; a dead letter has none.
\* The delivery record of an event as it is appended.  next tells when the event
\* is attempted next: at once, later, or ("none") never again.
OutboxEntry ==
    [attempts |-> 0, next |-> "due", accepted |-> {}, published |-> FALSE, leased |-> FALSE]

Delivered(entry) == entry.published
DeadLettered(entry) == entry.next = "none" /\ ~entry.published
Pending(entry) == entry.next # "none" /\ ~entry.published

\* What a pass has before it, each event as it was when it was claimed, and the
\* fan-out of the first one: the sink it is at, and what it came to.
FanOut(todo) ==
    [todo |-> todo, sink |-> 1,
     accepted |-> IF todo = << >> THEN {} ELSE Head(todo).accepted,
     failed |-> FALSE, permanent |-> FALSE]

RelayInit ==
    /\ entries = [e \in Events |-> OutboxEntry]
    /\ passes = [r \in Relays |-> FanOut(<< >>)]
    /\ takes = [e \in Events |-> [s \in SinkNames |-> 0]]
    /\ exposed = [e \in Events |-> 0]
    /\ faults = 0

\* Mutant: an event without a next attempt is due.
IsDueDead(e) == ~entries[e].published /\ entries[e].next # "later" /\ ~entries[e].leased

IsDue(e) == ~entries[e].published /\ entries[e].next = "due" /\ ~entries[e].leased

\* The oldest due events, in order, at most a batch of them.
DueEvents ==
    {due \in UNION {[1..n -> Events] : n \in 1..Batch} :
        /\ \A i \in DOMAIN due : IsDue(due[i]) /\ \A j \in 1..(i - 1) : due[j] < due[i]
        /\ \A e \in Events : IsDue(e) =>
               e \in ToSet(due) \/ (Len(due) = Batch /\ due[Batch] < e)}

ClaimDueEvents(r) ==
    /\ passes[r].todo = << >>
    /\ \E due \in DueEvents :
        /\ entries' = [e \in Events |->
                IF e \in ToSet(due) THEN [entries[e] EXCEPT !.leased = TRUE] ELSE entries[e]]
        /\ passes' = [passes EXCEPT ![r] = FanOut([i \in DOMAIN due |->
                [event |-> due[i], attempts |-> entries[due[i]].attempts,
                 accepted |-> entries[due[i]].accepted]])]
    /\ UNCHANGED <<takes, exposed, faults>>

AtSink(r) == passes[r].todo # << >> /\ passes[r].sink <= Len(Sinks)

\* A sink that took the event on an earlier attempt is not offered it again.
Skip(r) ==
    /\ AtSink(r)
    /\ Sinks[passes[r].sink] \in Head(passes[r].todo).accepted
    /\ passes' = [passes EXCEPT ![r].sink = @ + 1]
    /\ UNCHANGED <<entries, takes, exposed, faults>>

Offers(r) == AtSink(r) /\ Sinks[passes[r].sink] \notin Head(passes[r].todo).accepted

Take(r) ==
    LET s == Sinks[passes[r].sink] IN
    /\ Offers(r)
    /\ passes' = [passes EXCEPT ![r].sink = @ + 1, ![r].accepted = @ \cup {s}]
    /\ takes' = [takes EXCEPT ![Head(passes[r].todo).event][s] = @ + 1]
    /\ UNCHANGED <<entries, exposed, faults>>

\* A permanent failure, or an outcome the sink does not classify, ends the event.
Refuse(r, permanent) ==
    /\ Offers(r)
    /\ passes' = [passes EXCEPT ![r].sink = @ + 1, ![r].failed = TRUE,
                                ![r].permanent = IF permanent THEN TRUE ELSE @]
    /\ UNCHANGED <<entries, takes, exposed, faults>>

(* The settlements: each names its event and nothing else, and releases it. *)

MarkAccepted(entry, accepted, published, attempts) ==
    [entry EXCEPT !.accepted = accepted, !.attempts = attempts,
                  !.published = published, !.leased = FALSE,
                  !.next = IF published THEN @ ELSE "later"]

MarkDeadLettered(entry, accepted, attempts) ==
    [entry EXCEPT !.accepted = accepted, !.attempts = attempts, !.next = "none",
                  !.leased = FALSE]

\* Mutant: a failed attempt is not counted.
RecordUncounted(entry, attempts) == [entry EXCEPT !.next = "later", !.leased = FALSE]

RecordAttempt(entry, attempts) ==
    [entry EXCEPT !.attempts = attempts, !.next = "later", !.leased = FALSE]

\* Mutant: an event is delivered once some sink took it.
SettlementAny(p, entry) ==
    LET attempts == Head(p.todo).attempts + 1 IN
    IF p.accepted # {} THEN MarkAccepted(entry, p.accepted, TRUE, attempts)
    ELSE IF p.permanent \/ attempts >= MaxAttempts
    THEN MarkDeadLettered(entry, p.accepted, attempts)
    ELSE RecordAttempt(entry, attempts)

\* What the fan-out of pass p writes to the entry of its event.
Settlement(p, entry) ==
    LET claimed == Head(p.todo)  attempts == claimed.attempts + 1 IN
    IF ~p.failed THEN MarkAccepted(entry, p.accepted, TRUE, attempts)
    ELSE IF p.permanent \/ attempts >= MaxAttempts
    THEN MarkDeadLettered(entry, p.accepted, attempts)
    ELSE IF p.accepted # claimed.accepted
    THEN MarkAccepted(entry, p.accepted, FALSE, attempts)
    ELSE RecordAttempt(entry, attempts)

FannedOut(r) == passes[r].todo # << >> /\ passes[r].sink > Len(Sinks)

Settle(r) ==
    /\ FannedOut(r)
    /\ entries' = [entries EXCEPT ![Head(passes[r].todo).event] = Settlement(passes[r], @)]
    /\ passes' = [passes EXCEPT ![r] = FanOut(Tail(@.todo))]
    /\ UNCHANGED <<takes, exposed, faults>>

\* The store refuses the settlement: the pass goes on, the lease is left to lapse.
Unsettled(r) ==
    /\ FannedOut(r)
    /\ faults < MaxFaults
    /\ exposed' = [exposed EXCEPT ![Head(passes[r].todo).event] = @ + 1]
    /\ passes' = [passes EXCEPT ![r] = FanOut(Tail(@.todo))]
    /\ faults' = faults + 1
    /\ UNCHANGED <<entries, takes>>

Crash(r) ==
    /\ passes[r].todo # << >>
    /\ faults < MaxFaults
    /\ exposed' = [exposed EXCEPT ![Head(passes[r].todo).event] = @ + 1]
    /\ passes' = [passes EXCEPT ![r] = FanOut(<< >>)]
    /\ faults' = faults + 1
    /\ UNCHANGED <<entries, takes>>

(* Time *****************************************************************)

BecomeDue(e) ==
    /\ entries[e].next = "later"
    /\ entries' = [entries EXCEPT ![e].next = "due"]
    /\ UNCHANGED <<passes, takes, exposed, faults>>

Holds(r, e) == \E i \in DOMAIN passes[r].todo : passes[r].todo[i].event = e

Lapse(e) ==
    /\ entries[e].leased
    /\ Overrun \/ \A r \in Relays : ~Holds(r, e)
    /\ entries' = [entries EXCEPT ![e].leased = FALSE]
    /\ UNCHANGED <<passes, takes, exposed, faults>>

RelayPass(r) ==
    \/ ClaimDueEvents(r)
    \/ Skip(r)
    \/ Take(r)
    \/ \E permanent \in BOOLEAN : Refuse(r, permanent)
    \/ Settle(r)

RelayNext ==
    \/ \E r \in Relays : RelayPass(r) \/ Unsettled(r) \/ Crash(r)
    \/ \E e \in Events : BecomeDue(e) \/ Lapse(e)

\* Run relays again and again, and time passes; no sink is assumed to succeed.
RelaySpec ==
    /\ RelayInit
    /\ [][RelayNext]_relayVars
    /\ \A r \in Relays : WF_relayVars(RelayPass(r))
    /\ \A e \in Events : WF_relayVars(BecomeDue(e)) /\ WF_relayVars(Lapse(e))

-----------------------------------------------------------------------------
(* Properties ***********************************************************)

\* An event is complete only when every sink has taken it, over however many
\* passes, relays and crashes: a recorded acceptance is a delivery that happened.
CompleteMeansTaken ==
    \A e \in Events :
        /\ \A s \in entries[e].accepted : takes[e][s] > 0
        /\ entries[e].published => entries[e].accepted = SinkNames

\* A sink takes an event once, however often the other sinks have it retried;
\* a second time only for every outcome that was never recorded.
TakenOnce ==
    \A e \in Events, s \in SinkNames : takes[e][s] <= 1 + exposed[e]

\* The outbox is an exact record of the sinks: what it says was accepted was
\* taken, and no more often than its gaps explain.
OutboxTellsTakes == CompleteMeansTaken /\ TakenOnce

\* No settlement takes back what an earlier one recorded: an event stays
\* delivered, keeps the sinks that took it, and its attempts never go back; and
\* once it is dead-lettered "no further relay pass attempts it" (the event-relay
\* specification, of exhausted attempts).
RecordsKept ==
    [][\A e \in Events :
        /\ DeadLettered(entries[e]) => ~Pending(entries'[e])
        /\ entries[e].published => entries'[e].published
        /\ entries[e].accepted \subseteq entries'[e].accepted
        /\ entries[e].attempts <= entries'[e].attempts]_relayVars

\* Every event ends delivered or dead-lettered, although relays crash, stores
\* refuse settlements and sinks fail.
EventuallySettled ==
    \A e \in Events : <>[](Delivered(entries[e]) \/ DeadLettered(entries[e]))
=============================================================================
