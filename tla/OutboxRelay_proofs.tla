-------------------------- MODULE OutboxRelay_proofs --------------------------
(***************************************************************************)
(* Proofs about the relays and their sinks, for every number of events,    *)
(* relays and faults and every list of sinks.  On the condition that no    *)
(* pass outlasts the lease it took, the outbox is an exact record of what  *)
(* the sinks took, and no settlement takes back what an earlier one        *)
(* recorded.  Without that condition, what a sink reported and a relay     *)
(* recorded has arrived, and no outage costs an event its attempts.        *)
(***************************************************************************)
EXTENDS DeliverySinks, FiniteSetTheorems, TLAPS

(* The inductive invariant **********************************************)

Entry == [attempts : Nat, next : {"due", "later", "none"}, accepted : SUBSET SinkNames,
          published : BOOLEAN, leased : BOOLEAN]

Claimed == [event : Events, attempts : Nat, accepted : SUBSET SinkNames]

Pass == [todo : Seq(Claimed), sink : Nat, accepted : SUBSET SinkNames,
         failed : BOOLEAN, permanent : BOOLEAN]

RelayTypes ==
    /\ entries \in [Events -> Entry]
    /\ passes \in [Relays -> Pass]
    /\ takes \in [Events -> [SinkNames -> Nat]]
    /\ exposed \in [Events -> Nat]
    /\ faults \in Nat

\* An entry that is leased, and is as it was when it was claimed.
AsClaimed(c, entry) ==
    /\ entry.leased /\ ~entry.published /\ entry.next = "due"
    /\ entry.attempts = c.attempts /\ entry.accepted = c.accepted

\* What a pass has before it is leased to it, and is as it was when it was claimed.
HeldAsClaimed ==
    \A r \in Relays : \A i \in DOMAIN passes[r].todo :
        AsClaimed(passes[r].todo[i], entries[passes[r].todo[i].event])

\* No event is before two passes, or twice before one.
HeldOnce ==
    \A r, z \in Relays : \A i \in DOMAIN passes[r].todo, j \in DOMAIN passes[z].todo :
        passes[r].todo[i].event = passes[z].todo[j].event => r = z /\ i = j

\* The fan-out of a pass: what took the event took it before, or is a sink the pass
\* has been at; as long as none refused, every sink it has been at took the event.
FanOutExact ==
    \A r \in Relays : LET p == passes[r] IN p.todo # << >> =>
        /\ p.sink \in 1..(Len(Sinks) + 1)
        /\ Head(p.todo).accepted \subseteq p.accepted
        /\ \A i \in p.sink..Len(Sinks) :
               Sinks[i] \in p.accepted => Sinks[i] \in Head(p.todo).accepted
        /\ ~p.failed => \A i \in 1..(p.sink - 1) : Sinks[i] \in p.accepted

\* A pass is at event e and sink s took it.
TakenBy(r, e, s) ==
    passes[r].todo # << >> /\ Head(passes[r].todo).event = e /\ s \in passes[r].accepted

\* How often a sink can have taken an event: once where that is recorded or a pass
\* knows of it, and once for every outcome that was not recorded.
TakesCounted ==
    \A e \in Events, s \in SinkNames :
        /\ takes[e][s] <= exposed[e] + 1
        /\ (s \notin entries[e].accepted /\ \A r \in Relays : ~TakenBy(r, e, s)) =>
               takes[e][s] <= exposed[e]
        /\ (s \in entries[e].accepted \/ \E r \in Relays : TakenBy(r, e, s)) =>
               takes[e][s] > 0

\* An event that is published was taken by every sink.
PublishedComplete == \A e \in Events : entries[e].published => entries[e].accepted = SinkNames

RInv ==
    /\ RelayTypes
    /\ HeldAsClaimed
    /\ HeldOnce
    /\ FanOutExact
    /\ TakesCounted
    /\ PublishedComplete

(* Types ****************************************************************)

\* A sequence that is not empty, its first element and its tail.
LEMMA HeadFacts ==
    ASSUME NEW S, NEW q \in Seq(S), q # << >>
    PROVE  /\ Len(q) \in Nat /\ Len(q) > 0 /\ 1 \in DOMAIN q /\ DOMAIN q = 1..Len(q)
           /\ Head(q) = q[1] /\ Head(q) \in S
           /\ Tail(q) \in Seq(S)
           /\ \A i \in DOMAIN Tail(q) : i + 1 \in DOMAIN q /\ Tail(q)[i] = q[i + 1] /\ i \in Nat
    OBVIOUS

\* The sinks are a sequence without repetitions, and SinkNames its elements.
LEMMA SinkFacts ==
    /\ Len(Sinks) \in Nat /\ Len(Sinks) > 0
    /\ \A i \in 1..Len(Sinks) : Sinks[i] \in SinkNames
    /\ \A s \in SinkNames : \E i \in 1..Len(Sinks) : Sinks[i] = s
    /\ \A i, j \in 1..Len(Sinks) : Sinks[i] = Sinks[j] => i = j
<1>1. Sinks \in Seq(ToSet(Sinks)) /\ Len(Sinks) > 0
    BY RelayAssumption, Zenon
<1>2. DOMAIN Sinks = 1..Len(Sinks) /\ Len(Sinks) \in Nat
    BY <1>1
<1> QED
    BY <1>1, <1>2, RelayAssumption DEF SinkNames, ToSet

\* The pass that starts with the first of todo.
LEMMA FanOutFacts ==
    ASSUME NEW todo \in Seq(Claimed)
    PROVE  LET p == FanOut(todo) IN
           /\ p \in Pass /\ p.todo = todo /\ p.sink = 1 /\ ~p.failed
           /\ todo # << >> => p.accepted = Head(todo).accepted
<1> DEFINE acc == IF todo = << >> THEN {} ELSE Head(todo).accepted
<1>1. acc \in SUBSET SinkNames /\ (todo # << >> => acc = Head(todo).accepted)
  <2>1. CASE todo = << >>
      BY <2>1, Zenon
  <2>2. CASE todo # << >>
    <3>1. Head(todo) \in Claimed
        BY <2>2, HeadFacts, Zenon
    <3> QED
        BY <2>2, <3>1 DEF Claimed
  <2> QED
      BY <2>1, <2>2, Zenon
<1>2. FanOut(todo) = [todo |-> todo, sink |-> 1, accepted |-> acc,
                      failed |-> FALSE, permanent |-> FALSE]
    BY Zenon DEF FanOut
<1> HIDE DEF acc
<1> QED
    BY <1>1, <1>2 DEF Pass

\* What a settlement writes, whatever the fan-out came to: the sinks that took the
\* event, one more attempt, and the release; it publishes only when none refused.
LEMMA SettlementFacts ==
    ASSUME NEW p \in Pass, NEW entry \in Entry, p.todo # << >>,
           Head(p.todo).accepted = entry.accepted, Head(p.todo).attempts = entry.attempts,
           ~entry.published
    PROVE  LET n == Settlement(p, entry) IN
           /\ n \in Entry /\ n.accepted = p.accepted /\ n.attempts = entry.attempts + 1
           /\ n.published => ~p.failed
<1>1. /\ entry.attempts \in Nat /\ entry.attempts + 1 \in Nat
      /\ p.accepted \in SUBSET SinkNames /\ p.failed \in BOOLEAN /\ p.permanent \in BOOLEAN
    BY DEF Pass, Entry
<1> DEFINE a == entry.attempts + 1
<1>2. \A pub \in BOOLEAN :
        LET n == MarkAccepted(entry, p.accepted, pub, a) IN
        /\ n \in Entry /\ n.accepted = p.accepted /\ n.attempts = a /\ n.published = pub
    BY <1>1, Zenon DEF MarkAccepted, Entry
<1>3. LET n == MarkDeadLettered(entry, p.accepted, a) IN
        /\ n \in Entry /\ n.accepted = p.accepted /\ n.attempts = a /\ ~n.published
    BY <1>1, Zenon DEF MarkDeadLettered, Entry
<1>4. LET n == RecordAttempt(entry, a) IN
        /\ n \in Entry /\ n.accepted = entry.accepted /\ n.attempts = a /\ ~n.published
    BY <1>1, Zenon DEF RecordAttempt, Entry
<1>5. CASE ~p.failed
  <2>1. Settlement(p, entry) = MarkAccepted(entry, p.accepted, TRUE, a)
      BY <1>5, Zenon DEF Settlement
  <2> QED
      BY <1>2, <1>5, <2>1, Zenon
<1>6. CASE p.failed /\ (p.permanent \/ a >= MaxAttempts)
  <2>1. Settlement(p, entry) = MarkDeadLettered(entry, p.accepted, a)
      BY <1>6, Zenon DEF Settlement
  <2> QED
      BY <1>3, <2>1, Zenon
<1>7. CASE p.failed /\ ~p.permanent /\ ~(a >= MaxAttempts) /\ p.accepted # entry.accepted
  <2>1. Settlement(p, entry) = MarkAccepted(entry, p.accepted, FALSE, a)
      BY <1>7, Zenon DEF Settlement
  <2> QED
      BY <1>2, <2>1, Zenon
<1>8. CASE p.failed /\ ~p.permanent /\ ~(a >= MaxAttempts) /\ p.accepted = entry.accepted
  <2>1. Settlement(p, entry) = RecordAttempt(entry, a)
      BY <1>8, Zenon DEF Settlement
  <2> QED
      BY <1>4, <1>8, <2>1, Zenon
<1> QED
    BY <1>5, <1>6, <1>7, <1>8

(* Initially ************************************************************)

\* Nothing is claimed, taken or exposed yet.
LEMMA InitRInv == RelayInit => RInv
<1> SUFFICES ASSUME RelayInit PROVE RInv
    BY Zenon
<1>1. OutboxEntry \in Entry /\ OutboxEntry.accepted = {} /\ ~OutboxEntry.published
    BY DEF OutboxEntry, Entry
<1>2. << >> \in Seq(Claimed)
    OBVIOUS
<1>3. FanOut(<< >>) \in Pass /\ FanOut(<< >>).todo = << >>
    BY <1>2, FanOutFacts, Zenon
<1>4. RelayTypes
    BY <1>1, <1>3, Zenon DEF RelayInit, RelayTypes
<1>5. \A r \in Relays : passes[r].todo = << >>
    BY <1>3, Zenon DEF RelayInit
<1>6. HeldAsClaimed /\ HeldOnce /\ FanOutExact
    BY ONLY <1>5 DEF HeldAsClaimed, AsClaimed, HeldOnce, FanOutExact
<1>7. TakesCounted
    BY <1>1, <1>5 DEF RelayInit, TakesCounted, TakenBy
<1>8. PublishedComplete
    BY <1>1, Zenon DEF RelayInit, PublishedComplete
<1> QED
    BY <1>4, <1>6, <1>7, <1>8, Zenon DEF RInv

(* The steps ************************************************************)

\* Claiming takes events no pass has before it, since those are leased.
LEMMA ClaimRInv ==
    ASSUME RInv, NEW r \in Relays, ClaimDueEvents(r)
    PROVE  RInv'
<1>0. RelayTypes /\ HeldAsClaimed /\ HeldOnce /\ FanOutExact /\ TakesCounted
      /\ PublishedComplete
    BY Zenon DEF RInv
<1>1. PICK due \in DueEvents :
        /\ entries' = [e \in Events |->
                IF e \in ToSet(due) THEN [entries[e] EXCEPT !.leased = TRUE] ELSE entries[e]]
        /\ passes' = [passes EXCEPT ![r] = FanOut([i \in DOMAIN due |->
                [event |-> due[i], attempts |-> entries[due[i]].attempts,
                 accepted |-> entries[due[i]].accepted]])]
    BY Zenon DEF ClaimDueEvents
<1>2. passes[r].todo = << >> /\ takes' = takes /\ exposed' = exposed /\ faults' = faults
    BY DEF ClaimDueEvents
<1>3. PICK n \in 1..Batch : due \in [1..n -> Events]
    BY DEF DueEvents
<1>4. n \in Nat /\ n > 0
    BY <1>3, RelayAssumption
<1>5. \A i \in 1..n : /\ due[i] \in Events /\ IsDue(due[i])
                      /\ \A j \in 1..(i - 1) : due[j] < due[i]
    BY <1>3, Zenon DEF DueEvents
<1>6. \A i, j \in 1..n : due[i] = due[j] => i = j
  <2> SUFFICES ASSUME NEW i \in 1..n, NEW j \in 1..n, due[i] = due[j], i < j PROVE FALSE
      BY <1>4
  <2>1. i \in 1..(j - 1)
      BY <1>4
  <2>2. due[i] < due[j]
      BY <1>5, <2>1, Zenon
  <2>3. due[i] \in Nat
      BY <1>5, RelayAssumption, Zenon
  <2> QED
      BY <2>2, <2>3
<1> DEFINE q == [i \in DOMAIN due |->
                [event |-> due[i], attempts |-> entries[due[i]].attempts,
                 accepted |-> entries[due[i]].accepted]]
<1>7. /\ DOMAIN q = 1..n
      /\ \A i \in 1..n : /\ q[i] \in Claimed /\ q[i].event = due[i]
                         /\ q[i].attempts = entries[due[i]].attempts
                         /\ q[i].accepted = entries[due[i]].accepted
    BY <1>0, <1>3, <1>5, Zenon DEF RelayTypes, Claimed, Entry
<1>8. q \in Seq(Claimed) /\ q # << >>
  <2>1. q \in [1..n -> Claimed]
      BY <1>3, <1>7, Zenon
  <2> QED
      BY <1>4, <1>7, <2>1
<1>9. passes' = [passes EXCEPT ![r] = FanOut(q)]
    BY <1>1, Zenon
<1> HIDE DEF q
<1>10. /\ FanOut(q) \in Pass /\ FanOut(q).todo = q /\ FanOut(q).sink = 1
       /\ FanOut(q).accepted = q[1].accepted /\ Head(q) = q[1] /\ 1 \in 1..n
    BY <1>4, <1>8, FanOutFacts, HeadFacts
<1>11. passes'[r] = FanOut(q) /\ \A z \in Relays : z # r => passes'[z] = passes[z]
    BY <1>0, <1>9, Zenon DEF RelayTypes
<1>12. \A e \in Events : /\ entries'[e] \in Entry
                         /\ entries'[e].attempts = entries[e].attempts
                         /\ entries'[e].accepted = entries[e].accepted
                         /\ entries'[e].published = entries[e].published
                         /\ entries'[e].next = entries[e].next
                         /\ entries[e].leased => entries'[e].leased
  <2> SUFFICES ASSUME NEW e \in Events
               PROVE  /\ entries'[e] \in Entry
                      /\ entries'[e].attempts = entries[e].attempts
                      /\ entries'[e].accepted = entries[e].accepted
                      /\ entries'[e].published = entries[e].published
                      /\ entries'[e].next = entries[e].next
                      /\ entries[e].leased => entries'[e].leased
      BY Zenon
  <2>1. entries[e] \in Entry
      BY <1>0 DEF RelayTypes
  <2>2. entries'[e] = [entries[e] EXCEPT !.leased = TRUE] \/ entries'[e] = entries[e]
      BY <1>1, Zenon
  <2> QED
      BY <2>1, <2>2, Zenon DEF Entry
<1>13. \A i \in 1..n : entries'[due[i]].leased
  <2> SUFFICES ASSUME NEW i \in 1..n PROVE entries'[due[i]].leased
      BY Zenon
  <2>1. due[i] \in ToSet(due) /\ entries[due[i]] \in Entry
      BY <1>0, <1>3, <1>5 DEF ToSet, RelayTypes
  <2> QED
      BY <1>1, <1>5, <2>1, Zenon DEF Entry
<1>14. RelayTypes'
  <2>1. entries' \in [Events -> Entry]
      BY <1>1, <1>12, Zenon
  <2> QED
      BY <1>0, <1>2, <1>9, <1>10, <2>1, Zenon DEF RelayTypes
<1>15. \A z \in Relays : \A i \in DOMAIN passes[z].todo :
            passes[z].todo[i].event \in Events
  <2>1. \A z \in Relays : passes[z].todo \in Seq(Claimed)
      BY <1>0, Zenon DEF RelayTypes, Pass
  <2>2. \A z \in Relays : \A i \in DOMAIN passes[z].todo : passes[z].todo[i] \in Claimed
      BY <2>1
  <2> QED
      BY <2>2, Zenon DEF Claimed
<1>16. HeldAsClaimed'
  <2> SUFFICES ASSUME NEW z \in Relays, NEW i \in DOMAIN passes'[z].todo
               PROVE  LET c == passes'[z].todo[i]  entry == entries'[c.event] IN
                      /\ entry.leased /\ ~entry.published /\ entry.next = "due"
                      /\ entry.attempts = c.attempts /\ entry.accepted = c.accepted
      BY Zenon DEF HeldAsClaimed, AsClaimed
  <2>1. CASE z = r
    <3>1. i \in 1..n /\ passes'[z].todo[i] = q[i]
        BY <1>7, <1>10, <1>11, <2>1, Zenon
    <3>2. ~entries[due[i]].published /\ entries[due[i]].next = "due"
        BY <1>5, <3>1, Zenon DEF IsDue
    <3> QED
        BY <1>5, <1>7, <1>12, <1>13, <3>1, <3>2
  <2>2. CASE z # r
    <3>1. passes'[z] = passes[z]
        BY <1>11, <2>2, Zenon
    <3> QED
        BY <1>0, <1>12, <1>15, <3>1 DEF HeldAsClaimed, AsClaimed
  <2> QED
      BY <2>1, <2>2, Zenon
<1>17. HeldOnce'
  <2>1. \A z \in Relays : \A i \in DOMAIN passes[z].todo, j \in 1..n :
            passes[z].todo[i].event # due[j]
      BY <1>0, <1>5, Zenon DEF HeldAsClaimed, AsClaimed, IsDue
  <2>2. passes'[r].todo = q
      BY <1>10, <1>11, Zenon
  <2> SUFFICES ASSUME NEW y \in Relays, NEW z \in Relays,
                      NEW i \in DOMAIN passes'[y].todo, NEW j \in DOMAIN passes'[z].todo,
                      passes'[y].todo[i].event = passes'[z].todo[j].event
               PROVE  y = z /\ i = j
      BY Zenon DEF HeldOnce
  <2>3. CASE y = r /\ z = r
      BY <1>6, <1>7, <2>2, <2>3
  <2>4. CASE y = r /\ z # r
      BY <1>7, <1>11, <2>1, <2>2, <2>4
  <2>5. CASE y # r /\ z = r
      BY <1>7, <1>11, <2>1, <2>2, <2>5
  <2>6. CASE y # r /\ z # r
      BY <1>0, <1>11, <2>6 DEF HeldOnce
  <2> QED
      BY <2>3, <2>4, <2>5, <2>6, Zenon
<1>18. FanOutExact'
  <2>1. /\ passes'[r].sink = 1 /\ Head(passes'[r].todo).accepted = passes'[r].accepted
        /\ 1 \in 1..(Len(Sinks) + 1) /\ 1..(1 - 1) = {}
      BY <1>10, <1>11, SinkFacts
  <2> QED
      BY <1>0, <1>11, <2>1, Zenon DEF FanOutExact
<1>19. TakesCounted'
  <2> SUFFICES ASSUME NEW e \in Events, NEW s \in SinkNames
               PROVE  /\ takes'[e][s] <= exposed'[e] + 1
                      /\ (s \notin entries'[e].accepted /\ \A z \in Relays : ~TakenBy(z, e, s)') =>
                             takes'[e][s] <= exposed'[e]
                      /\ (s \in entries'[e].accepted \/ \E z \in Relays : TakenBy(z, e, s)') =>
                             takes'[e][s] > 0
      BY Zenon DEF TakesCounted
  <2>1. \A z \in Relays : TakenBy(z, e, s) => TakenBy(z, e, s)'
      BY <1>2, <1>11, Zenon DEF TakenBy
  <2>2. \A z \in Relays : TakenBy(z, e, s)' => TakenBy(z, e, s) \/ s \in entries[e].accepted
      BY <1>7, <1>10, <1>11 DEF TakenBy
  <2> QED
      BY <1>0, <1>2, <1>12, <2>1, <2>2, Zenon DEF TakesCounted
<1>20. PublishedComplete'
    BY <1>0, <1>12, Zenon DEF PublishedComplete
<1> QED
    BY <1>14, <1>16, <1>17, <1>18, <1>19, <1>20, Zenon DEF RInv

\* A pass goes to the next sink: what it has before it stays, and the sink it was at
\* took the event, refused it, or had taken it before.
LEMMA StepRInv ==
    ASSUME RInv, NEW r \in Relays, Skip(r) \/ Take(r) \/ \E permanent \in BOOLEAN : Refuse(r, permanent)
    PROVE  RInv'
<1>0. RelayTypes /\ HeldAsClaimed /\ HeldOnce /\ FanOutExact /\ TakesCounted
      /\ PublishedComplete
    BY Zenon DEF RInv
<1>p. PICK p \in Pass : p = passes[r]
    BY <1>0, Zenon DEF RelayTypes
<1>1. /\ p.todo # << >> /\ p.sink <= Len(Sinks)
      /\ entries' = entries /\ exposed' = exposed /\ faults' = faults
    BY <1>p, Zenon DEF Skip, Take, Refuse, Offers, AtSink
<1>2. PICK head \in Claimed : /\ head = Head(p.todo) /\ head = p.todo[1]
                              /\ 1 \in DOMAIN p.todo /\ head.event \in Events
                              /\ head.accepted \in SUBSET SinkNames
  <2>1. p.todo \in Seq(Claimed)
      BY Zenon DEF Pass
  <2>2. Head(p.todo) \in Claimed /\ Head(p.todo) = p.todo[1] /\ 1 \in DOMAIN p.todo
      BY <1>1, <2>1, HeadFacts, Zenon
  <2> QED
      BY <2>2, Zenon DEF Claimed
<1>3. /\ p.sink \in 1..Len(Sinks) /\ p.sink \in Nat /\ p.sink + 1 \in 1..(Len(Sinks) + 1)
      /\ head.accepted \subseteq p.accepted
      /\ \A i \in p.sink..Len(Sinks) : Sinks[i] \in p.accepted => Sinks[i] \in head.accepted
      /\ ~p.failed => \A i \in 1..(p.sink - 1) : Sinks[i] \in p.accepted
    BY <1>0, <1>1, <1>2, <1>p, SinkFacts DEF FanOutExact
<1>s. PICK s \in SinkNames : s = Sinks[p.sink]
    BY <1>3, SinkFacts, Zenon
<1> DEFINE more == [takes EXCEPT ![head.event][s] = @ + 1]
<1>m. /\ more \in [Events -> [SinkNames -> Nat]]
      /\ more[head.event][s] = takes[head.event][s] + 1
      /\ \A e \in Events, x \in SinkNames :
            ~(e = head.event /\ x = s) => more[e][x] = takes[e][x]
  <2>1. takes \in [Events -> [SinkNames -> Nat]] /\ head.event \in Events
      BY <1>0, <1>2, Zenon DEF RelayTypes
  <2> HIDE DEF RelayTypes
  <2> QED
      BY <2>1
<1> HIDE DEF more
<1>4. PICK n \in Pass :
        /\ passes' = [passes EXCEPT ![r] = n]
        /\ n.todo = p.todo /\ n.sink = p.sink + 1
        /\ \/ n.accepted = p.accepted /\ takes' = takes /\ (n.failed \/ s \in head.accepted)
              /\ (~n.failed => ~p.failed)
           \/ /\ s \notin head.accepted /\ n.accepted = p.accepted \cup {s}
              /\ n.failed = p.failed
              /\ takes' = more
  <2>1. CASE Skip(r)
    <3> DEFINE n == [p EXCEPT !.sink = p.sink + 1]
    <3>1. passes' = [passes EXCEPT ![r] = n] /\ takes' = takes /\ s \in head.accepted
        BY <1>0, <1>2, <1>p, <1>s, <2>1, Zenon DEF Skip, RelayTypes
    <3>2. n \in Pass /\ n.todo = p.todo /\ n.sink = p.sink + 1 /\ n.accepted = p.accepted
          /\ n.failed = p.failed
        BY <1>3 DEF Pass
    <3> QED
        BY <3>1, <3>2, Zenon
  <2>2. CASE Take(r)
    <3> DEFINE n == [p EXCEPT !.sink = p.sink + 1, !.accepted = p.accepted \cup {s}]
    <3>1. passes' = [passes EXCEPT ![r] = n] /\ s \notin head.accepted
          /\ takes' = more
        BY <1>0, <1>2, <1>p, <1>s, <2>2, Zenon DEF Take, Offers, RelayTypes, more
    <3>2. n \in Pass /\ n.todo = p.todo /\ n.sink = p.sink + 1
          /\ n.accepted = p.accepted \cup {s} /\ n.failed = p.failed
      <4>1. p.sink + 1 \in Nat /\ p.accepted \cup {s} \in SUBSET SinkNames
          BY <1>3 DEF Pass
      <4> QED
          BY <4>1, Zenon DEF Pass
    <3> QED
        BY <3>1, <3>2, Zenon
  <2>3. ASSUME NEW permanent \in BOOLEAN, Refuse(r, permanent)
        PROVE  \E n \in Pass :
                 /\ passes' = [passes EXCEPT ![r] = n]
                 /\ n.todo = p.todo /\ n.sink = p.sink + 1
                 /\ n.accepted = p.accepted /\ takes' = takes /\ n.failed
    <3>0. PICK ends \in BOOLEAN : ends = IF permanent THEN TRUE ELSE p.permanent
        BY Zenon DEF Pass
    <3> DEFINE n == [p EXCEPT !.sink = p.sink + 1, !.failed = TRUE, !.permanent = ends]
    <3>1. passes' = [passes EXCEPT ![r] = n] /\ takes' = takes
        BY <1>0, <1>p, <2>3, <3>0, Zenon DEF Refuse, RelayTypes
    <3>2. n \in Pass /\ n.todo = p.todo /\ n.sink = p.sink + 1 /\ n.accepted = p.accepted
          /\ n.failed
      <4>1. p.sink + 1 \in Nat
          BY <1>3
      <4> QED
          BY <4>1, Zenon DEF Pass
    <3> QED
        BY <3>1, <3>2, Zenon
  <2> QED
      BY <2>1, <2>2, <2>3, Zenon
<1>5. passes'[r] = n /\ \A z \in Relays : z # r => passes'[z] = passes[z]
    BY <1>0, <1>4, Zenon DEF RelayTypes
<1>6. \A z \in Relays : passes'[z].todo = passes[z].todo
    BY <1>4, <1>5, <1>p, Zenon
<1>7. RelayTypes'
  <2>1. takes' \in [Events -> [SinkNames -> Nat]]
      BY <1>0, <1>4, <1>m, Zenon DEF RelayTypes
  <2> QED
      BY <1>0, <1>1, <1>4, <2>1, Zenon DEF RelayTypes
<1>8. HeldAsClaimed' /\ HeldOnce'
    BY ONLY <1>0, <1>1, <1>6 DEF HeldAsClaimed, AsClaimed, HeldOnce
<1>9. FanOutExact'
  <2>1. /\ n.sink \in 1..(Len(Sinks) + 1)
        /\ head.accepted \subseteq n.accepted
      BY <1>3, <1>4, Zenon
  <2>2. \A i \in n.sink..Len(Sinks) : Sinks[i] \in n.accepted => Sinks[i] \in head.accepted
    <3> SUFFICES ASSUME NEW i \in n.sink..Len(Sinks), Sinks[i] \in n.accepted
                 PROVE  Sinks[i] \in head.accepted
        BY Zenon
    <3>1. i \in p.sink..Len(Sinks) /\ i \in 1..Len(Sinks) /\ i # p.sink
        BY <1>3, <1>4, SinkFacts
    <3>2. Sinks[i] # s
        BY <1>3, <1>s, <3>1, SinkFacts, Zenon
    <3> QED
        BY <1>3, <1>4, <3>1, <3>2, Zenon
  <2>3. ~n.failed => \A i \in 1..(n.sink - 1) : Sinks[i] \in n.accepted
    <3> SUFFICES ASSUME ~n.failed, NEW i \in 1..(n.sink - 1) PROVE Sinks[i] \in n.accepted
        BY Zenon
    <3>1. i = p.sink \/ i \in 1..(p.sink - 1)
        BY <1>3, <1>4
    <3> QED
        BY <1>3, <1>4, <1>s, <3>1, Zenon
  <2> QED
      BY <1>0, <1>2, <1>4, <1>5, <2>1, <2>2, <2>3 DEF FanOutExact
<1>10. TakesCounted'
  <2> SUFFICES ASSUME NEW e \in Events, NEW x \in SinkNames
               PROVE  /\ takes'[e][x] <= exposed'[e] + 1
                      /\ (x \notin entries'[e].accepted /\ \A z \in Relays : ~TakenBy(z, e, x)') =>
                             takes'[e][x] <= exposed'[e]
                      /\ (x \in entries'[e].accepted \/ \E z \in Relays : TakenBy(z, e, x)') =>
                             takes'[e][x] > 0
      BY Zenon DEF TakesCounted
  <2>0. /\ takes[e][x] <= exposed[e] + 1
        /\ (x \notin entries[e].accepted /\ \A z \in Relays : ~TakenBy(z, e, x)) =>
               takes[e][x] <= exposed[e]
        /\ (x \in entries[e].accepted \/ \E z \in Relays : TakenBy(z, e, x)) =>
               takes[e][x] > 0
        /\ takes[e][x] \in Nat /\ exposed[e] \in Nat
      BY <1>0, Zenon DEF TakesCounted, RelayTypes
  <2>1. \A z \in Relays : TakenBy(z, e, x) => TakenBy(z, e, x)'
      BY <1>4, <1>5, <1>p, Zenon DEF TakenBy
  <2>2. CASE n.accepted = p.accepted /\ takes' = takes
    <3>1. \A z \in Relays : TakenBy(z, e, x)' => TakenBy(z, e, x)
        BY <1>4, <1>5, <1>p, <2>2, Zenon DEF TakenBy
    <3> QED
        BY <1>1, <2>0, <2>1, <2>2, <3>1, Zenon
  <2>3. CASE /\ s \notin head.accepted /\ n.accepted = p.accepted \cup {s}
             /\ takes' = more
    <3>1. CASE e = head.event /\ x = s
      <4>1. x \notin entries[e].accepted
          BY <1>0, <1>2, <1>p, <2>3, <3>1, Zenon DEF HeldAsClaimed, AsClaimed
      <4>2. \A z \in Relays : ~TakenBy(z, e, x)
        <5>1. s \notin p.accepted
            BY ONLY <1>3, <1>s, <2>3
        <5>2. \A z \in Relays : z # r /\ passes[z].todo # << >> =>
                    Head(passes[z].todo).event # head.event
          <6> SUFFICES ASSUME NEW z \in Relays, z # r, passes[z].todo # << >>
                       PROVE  Head(passes[z].todo).event # head.event
              BY Zenon
          <6>1. passes[z].todo \in Seq(Claimed)
              BY <1>0, Zenon DEF RelayTypes, Pass
          <6>2. Head(passes[z].todo) = passes[z].todo[1] /\ 1 \in DOMAIN passes[z].todo
              BY <6>1, HeadFacts, Zenon
          <6> QED
              BY <1>0, <1>2, <1>p, <6>2 DEF HeldOnce
        <5> QED
            BY <1>p, <3>1, <5>1, <5>2, Zenon DEF TakenBy
      <4>3. takes'[e][x] = takes[e][x] + 1 /\ TakenBy(r, e, x)'
        <5>1. takes'[e][x] = takes[e][x] + 1
            BY <1>m, <2>3, <3>1, Zenon
        <5>2. TakenBy(r, e, x)'
            BY <1>1, <1>2, <1>4, <1>5, <2>3, <3>1, Zenon DEF TakenBy
        <5> QED
            BY <5>1, <5>2, Zenon
      <4> QED
          BY <1>1, <2>0, <4>1, <4>2, <4>3
    <3>2. CASE ~(e = head.event /\ x = s)
      <4>1. takes'[e][x] = takes[e][x]
          BY <1>m, <2>3, <3>2, Zenon
      <4>2. ASSUME NEW z \in Relays, TakenBy(z, e, x)' PROVE TakenBy(z, e, x)
        <5>1. CASE z # r
            BY <1>5, <4>2, <5>1, Zenon DEF TakenBy
        <5>2. CASE z = r
          <6>1. n.todo # << >> /\ Head(n.todo).event = e /\ x \in n.accepted
              BY <1>5, <4>2, <5>2, Zenon DEF TakenBy
          <6>2. e = head.event /\ x \in p.accepted
              BY <1>2, <1>4, <2>3, <3>2, <6>1, Zenon
          <6> QED
              BY <1>1, <1>2, <1>p, <5>2, <6>2, Zenon DEF TakenBy
        <5> QED
            BY <5>1, <5>2, Zenon
      <4> QED
          BY <1>1, <2>0, <2>1, <4>1, <4>2, Zenon
    <3> QED
        BY <3>1, <3>2, Zenon
  <2> QED
      BY <1>4, <2>2, <2>3, Zenon
<1>11. PublishedComplete'
    BY <1>0, <1>1, Zenon DEF PublishedComplete
<1> QED
    BY <1>7, <1>8, <1>9, <1>10, <1>11, Zenon DEF RInv

\* A pass is done with its first event, or with all of them: the others have
\* what they had, and the event is before no pass any more.
DoneWith(r, gone) ==
    /\ passes' \in [Relays -> Pass]
    /\ HeldOnce' /\ FanOutExact'
    /\ \A z \in Relays : \A i \in DOMAIN passes'[z].todo :
          /\ passes'[z].todo[i].event \in Events \ {gone}
          /\ \E j \in DOMAIN passes[z].todo : passes'[z].todo[i] = passes[z].todo[j]
    /\ \A z \in Relays, e \in Events, s \in SinkNames :
          /\ TakenBy(z, e, s)' =>
                e # gone /\ (TakenBy(z, e, s) \/ s \in entries[e].accepted)
          /\ TakenBy(z, e, s) /\ e # gone => TakenBy(z, e, s)'
          /\ TakenBy(z, gone, s) => z = r

\* Both ways of it are: the tail is left, or nothing.
LEMMA Popped ==
    ASSUME RInv, NEW r \in Relays, passes[r].todo # << >>,
           NEW q, q = Tail(passes[r].todo) \/ q = << >>,
           passes' = [passes EXCEPT ![r] = FanOut(q)],
           NEW gone, gone = Head(passes[r].todo).event
    PROVE  DoneWith(r, gone)
<1>0. RelayTypes /\ HeldAsClaimed /\ HeldOnce /\ FanOutExact
    BY Zenon DEF RInv
<1> DEFINE todo == passes[r].todo
<1>1. \A z \in Relays : /\ passes[z] \in Pass /\ passes[z].todo \in Seq(Claimed)
                        /\ \A i \in DOMAIN passes[z].todo : passes[z].todo[i].event \in Events
  <2>1. \A z \in Relays : passes[z] \in Pass /\ passes[z].todo \in Seq(Claimed)
      BY <1>0, Zenon DEF RelayTypes, Pass
  <2>2. \A z \in Relays : \A i \in DOMAIN passes[z].todo : passes[z].todo[i] \in Claimed
      BY <2>1
  <2> QED
      BY <2>1, <2>2, Zenon DEF Claimed
<1>2. /\ 1 \in DOMAIN todo /\ Head(todo) = todo[1] /\ Tail(todo) \in Seq(Claimed)
      /\ \A i \in DOMAIN Tail(todo) :
            i + 1 \in DOMAIN todo /\ Tail(todo)[i] = todo[i + 1] /\ i \in Nat /\ i + 1 # 1
  <2>1. todo \in Seq(Claimed) /\ todo # << >>
      BY <1>1, Zenon
  <2>2. /\ 1 \in DOMAIN todo /\ Head(todo) = todo[1] /\ Tail(todo) \in Seq(Claimed)
        /\ \A i \in DOMAIN Tail(todo) :
              i + 1 \in DOMAIN todo /\ Tail(todo)[i] = todo[i + 1] /\ i \in Nat
        /\ DOMAIN todo = 1..Len(todo)
      BY <2>1, HeadFacts, Zenon
  <2>3. \A i \in DOMAIN Tail(todo) : i + 1 # 1
    <3>1. \A i \in DOMAIN Tail(todo) : i # 0
        BY <2>2
    <3> QED
        BY <2>2, <3>1
  <2> QED
      BY <2>2, <2>3, Zenon
<1>3. /\ q \in Seq(Claimed)
      /\ \A i \in DOMAIN q : i + 1 \in DOMAIN todo /\ q[i] = todo[i + 1] /\ i \in Nat /\ i + 1 # 1
  <2>1. CASE q = Tail(todo)
      BY <1>2, <2>1, Zenon
  <2>2. CASE q = << >>
      BY <2>2
  <2> QED
      BY <2>1, <2>2, Zenon
<1>4. FanOut(q) \in Pass /\ FanOut(q).todo = q /\ FanOut(q).sink = 1 /\ ~FanOut(q).failed
      /\ (q # << >> => FanOut(q).accepted = Head(q).accepted)
    BY <1>3, FanOutFacts, Zenon
<1>5. passes'[r] = FanOut(q) /\ \A z \in Relays : z # r => passes'[z] = passes[z]
    BY <1>0, Zenon DEF RelayTypes
<1>6. passes' \in [Relays -> Pass]
    BY <1>0, <1>4, Zenon DEF RelayTypes
<1>7. gone \in Events
    BY <1>1, <1>2, Zenon
<1>8. \A z \in Relays : \A i \in DOMAIN passes[z].todo :
            passes[z].todo[i].event = gone => z = r /\ i = 1
    BY <1>0, <1>2 DEF HeldOnce
<1>9. ASSUME NEW z \in Relays, NEW i \in DOMAIN passes'[z].todo
      PROVE  /\ passes'[z].todo[i].event \in Events \ {gone}
             /\ \E j \in DOMAIN passes[z].todo : passes'[z].todo[i] = passes[z].todo[j]
  <2>1. CASE z = r
    <3>1. i + 1 \in DOMAIN todo /\ passes'[z].todo[i] = todo[i + 1] /\ i + 1 # 1
        BY <1>3, <1>4, <1>5, <1>9, <2>1, Zenon
    <3> QED
        BY <1>1, <1>8, <2>1, <3>1, Zenon
  <2>2. CASE z # r
      BY <1>1, <1>5, <1>8, <1>9, <2>2, Zenon
  <2> QED
      BY <2>1, <2>2, Zenon
<1>10. HeldOnce'
  <2> SUFFICES ASSUME NEW y \in Relays, NEW z \in Relays,
                      NEW i \in DOMAIN passes'[y].todo, NEW j \in DOMAIN passes'[z].todo,
                      passes'[y].todo[i].event = passes'[z].todo[j].event
               PROVE  y = z /\ i = j
      BY Zenon DEF HeldOnce
  <2>1. CASE y = r /\ z = r
    <3>1. /\ i + 1 \in DOMAIN todo /\ j + 1 \in DOMAIN todo /\ i \in Nat /\ j \in Nat
          /\ todo[i + 1].event = todo[j + 1].event
      <4>1. passes'[y].todo = q /\ passes'[z].todo = q
          BY <1>4, <1>5, <2>1, Zenon
      <4> QED
          BY <1>3, <4>1, Zenon
    <3>2. i + 1 = j + 1
        BY ONLY <1>0, <3>1 DEF HeldOnce
    <3> QED
        BY <2>1, <3>1, <3>2
  <2>2. CASE y = r /\ z # r
    <3>1. i + 1 \in DOMAIN todo /\ todo[i + 1].event = passes[z].todo[j].event
          /\ j \in DOMAIN passes[z].todo
      <4>1. passes'[y].todo = q /\ passes'[z] = passes[z]
          BY <1>4, <1>5, <2>2, Zenon
      <4> QED
          BY <1>3, <4>1, Zenon
    <3> QED
        BY <1>0, <2>2, <3>1, Zenon DEF HeldOnce
  <2>3. CASE y # r /\ z = r
    <3>1. j + 1 \in DOMAIN todo /\ todo[j + 1].event = passes[y].todo[i].event
          /\ i \in DOMAIN passes[y].todo
        BY <1>3, <1>4, <1>5, <2>3, Zenon
    <3> QED
        BY <1>0, <2>3, <3>1, Zenon DEF HeldOnce
  <2>4. CASE y # r /\ z # r
      BY <1>0, <1>5, <2>4 DEF HeldOnce
  <2> QED
      BY <2>1, <2>2, <2>3, <2>4, Zenon
<1>11. FanOutExact'
  <2>1. /\ 1 \in 1..(Len(Sinks) + 1) /\ 1..(1 - 1) = {}
      BY ONLY SinkFacts
  <2>2. q # << >> => /\ passes'[r].sink = 1 /\ passes'[r].todo = q
                     /\ Head(passes'[r].todo).accepted = passes'[r].accepted
      BY <1>4, <1>5, Zenon
  <2> QED
      BY <1>0, <1>4, <1>5, <2>1, <2>2, Zenon DEF FanOutExact
<1>12. ASSUME NEW z \in Relays, NEW e \in Events, NEW s \in SinkNames, TakenBy(z, e, s)'
       PROVE  e # gone /\ (TakenBy(z, e, s) \/ s \in entries[e].accepted)
  <2>1. /\ passes'[z].todo # << >> /\ Head(passes'[z].todo).event = e
        /\ s \in passes'[z].accepted
      BY <1>12, Zenon DEF TakenBy
  <2>2. 1 \in DOMAIN passes'[z].todo /\ Head(passes'[z].todo) = passes'[z].todo[1]
    <3>1. passes'[z].todo \in Seq(Claimed)
        BY <1>6, Zenon DEF Pass
    <3> QED
        BY <2>1, <3>1, HeadFacts, Zenon
  <2>3. e # gone
      BY <1>9, <2>1, <2>2, Zenon
  <2>4. CASE z # r
      BY <1>5, <2>1, <2>3, <2>4, Zenon DEF TakenBy
  <2>5. CASE z = r
    <3>1. q # << >> /\ q[1].event = e /\ s \in q[1].accepted /\ 1 \in DOMAIN q /\ Head(q) = q[1]
        BY <1>4, <1>5, <2>1, <2>2, <2>5, Zenon
    <3>2. q[1] = todo[1 + 1] /\ 1 + 1 \in DOMAIN todo
        BY <1>3, <3>1, Zenon
    <3>3. entries[e].accepted = q[1].accepted
        BY <1>0, <3>1, <3>2 DEF HeldAsClaimed, AsClaimed
    <3> QED
        BY <2>3, <3>1, <3>3, Zenon
  <2> QED
      BY <2>4, <2>5, Zenon
<1>13. ASSUME NEW z \in Relays, NEW e \in Events, NEW s \in SinkNames, TakenBy(z, e, s)
       PROVE  /\ e # gone => TakenBy(z, e, s)'
              /\ e = gone => z = r
  <2>1. /\ passes[z].todo # << >> /\ Head(passes[z].todo).event = e
      BY <1>13, Zenon DEF TakenBy
  <2>2. 1 \in DOMAIN passes[z].todo /\ Head(passes[z].todo) = passes[z].todo[1]
      BY <1>1, <2>1, HeadFacts, Zenon
  <2>3. e = gone => z = r
      BY <1>8, <2>1, <2>2, Zenon
  <2>4. e # gone => z # r
      BY <2>1, Zenon
  <2> QED
      BY <1>5, <1>13, <2>3, <2>4, Zenon DEF TakenBy
<1> QED
    BY <1>6, <1>7, <1>9, <1>10, <1>11, <1>12, <1>13, Zenon DEF DoneWith

\* The entry of the event is written: the sinks that took it are recorded, and what
\* is published was taken by all.
LEMMA SettleRInv ==
    ASSUME RInv, NEW r \in Relays, Settle(r)
    PROVE  /\ RInv'
           /\ LET e == Head(passes[r].todo).event IN
              /\ e \in Events /\ ~entries[e].published /\ entries[e].next = "due"
              /\ entries[e].accepted \subseteq entries'[e].accepted
              /\ entries'[e].attempts = entries[e].attempts + 1
              /\ entries[e].attempts \in Nat
              /\ \A f \in Events : f # e => entries'[f] = entries[f]
<1>0. RelayTypes /\ HeldAsClaimed /\ HeldOnce /\ FanOutExact /\ TakesCounted
      /\ PublishedComplete
    BY Zenon DEF RInv
<1>p. PICK p \in Pass : p = passes[r]
    BY <1>0 DEF RelayTypes
<1>1. p.todo # << >> /\ p.sink > Len(Sinks)
    BY <1>p, Zenon DEF Settle, FannedOut
<1>2. p.todo \in Seq(Claimed) /\ Tail(p.todo) \in Seq(Claimed)
      /\ Head(p.todo) \in Claimed /\ Head(p.todo) = p.todo[1] /\ 1 \in DOMAIN p.todo
  <2>1. p.todo \in Seq(Claimed)
      BY Zenon DEF Pass
  <2> QED
      BY <1>1, <2>1, HeadFacts, Zenon
<1>e. PICK e \in Events : e = Head(p.todo).event
    BY <1>2, Zenon DEF Claimed
<1>3. entries[e] \in Entry
    BY <1>0, Zenon DEF RelayTypes
<1>4. /\ Head(p.todo).accepted = entries[e].accepted
      /\ Head(p.todo).attempts = entries[e].attempts
      /\ ~entries[e].published /\ entries[e].next = "due"
    BY ONLY <1>0, <1>2, <1>e, <1>p DEF HeldAsClaimed, AsClaimed
<1>n. PICK n : n = Settlement(p, entries[e])
    BY Zenon
<1>5. /\ n \in Entry /\ n.accepted = p.accepted /\ n.attempts = entries[e].attempts + 1
      /\ n.published => ~p.failed
    BY <1>1, <1>3, <1>4, <1>n, SettlementFacts, Zenon
<1>6. /\ entries' = [entries EXCEPT ![e] = n]
      /\ passes' = [passes EXCEPT ![r] = FanOut(Tail(passes[r].todo))]
      /\ takes' = takes /\ exposed' = exposed /\ faults' = faults
    BY <1>0, <1>e, <1>n, <1>p, Zenon DEF Settle, RelayTypes
<1>7. entries'[e] = n /\ \A f \in Events : f # e => entries'[f] = entries[f]
    BY <1>0, <1>6, Zenon DEF RelayTypes
<1>q. PICK q : q = Tail(passes[r].todo)
    BY Zenon
<1>8. /\ passes' \in [Relays -> Pass]
      /\ HeldOnce' /\ FanOutExact'
      /\ \A z \in Relays : \A i \in DOMAIN passes'[z].todo :
            /\ passes'[z].todo[i].event \in Events \ {e}
            /\ \E j \in DOMAIN passes[z].todo : passes'[z].todo[i] = passes[z].todo[j]
      /\ \A z \in Relays, f \in Events, s \in SinkNames :
            /\ TakenBy(z, f, s)' =>
                  f # e /\ (TakenBy(z, f, s) \/ s \in entries[f].accepted)
            /\ TakenBy(z, f, s) /\ f # e => TakenBy(z, f, s)'
            /\ TakenBy(z, e, s) => z = r
  <2>1. passes[r].todo # << >> /\ Head(passes[r].todo).event = e
      BY <1>1, <1>e, <1>p, Zenon
  <2>2. passes' = [passes EXCEPT ![r] = FanOut(q)]
      BY <1>6, <1>q, Zenon
  <2>3. DoneWith(r, e)
      BY <1>q, <2>1, <2>2, Popped, Zenon
  <2> QED
      BY <2>3, Zenon DEF DoneWith
<1>9. RelayTypes'
    BY <1>0, <1>5, <1>6, <1>8, Zenon DEF RelayTypes
<1>10. HeldAsClaimed'
  <2> SUFFICES ASSUME NEW z \in Relays, NEW i \in DOMAIN passes'[z].todo
               PROVE  LET c == passes'[z].todo[i]  entry == entries'[c.event] IN
                      /\ entry.leased /\ ~entry.published /\ entry.next = "due"
                      /\ entry.attempts = c.attempts /\ entry.accepted = c.accepted
      BY Zenon DEF HeldAsClaimed, AsClaimed
  <2>1. passes'[z].todo[i].event \in Events \ {e}
      BY <1>8, Zenon
  <2>2. PICK j \in DOMAIN passes[z].todo : passes'[z].todo[i] = passes[z].todo[j]
      BY <1>8, Zenon
  <2>3. entries'[passes[z].todo[j].event] = entries[passes[z].todo[j].event]
      BY <1>7, <2>1, <2>2, Zenon
  <2>4. LET c == passes[z].todo[j]  entry == entries[c.event] IN
        /\ entry.leased /\ ~entry.published /\ entry.next = "due"
        /\ entry.attempts = c.attempts /\ entry.accepted = c.accepted
      BY <1>0, <2>2, Zenon DEF HeldAsClaimed, AsClaimed
  <2> QED
      BY <2>2, <2>3, <2>4, Zenon
<1>11. TakesCounted'
  <2> SUFFICES ASSUME NEW f \in Events, NEW s \in SinkNames
               PROVE  /\ takes[f][s] <= exposed[f] + 1
                      /\ (s \notin entries'[f].accepted /\ \A z \in Relays : ~TakenBy(z, f, s)') =>
                             takes[f][s] <= exposed[f]
                      /\ (s \in entries'[f].accepted \/ \E z \in Relays : TakenBy(z, f, s)') =>
                             takes[f][s] > 0
      BY <1>6, Zenon DEF TakesCounted
  <2>0. /\ takes[f][s] <= exposed[f] + 1
        /\ (s \notin entries[f].accepted /\ \A z \in Relays : ~TakenBy(z, f, s)) =>
               takes[f][s] <= exposed[f]
        /\ (s \in entries[f].accepted \/ \E z \in Relays : TakenBy(z, f, s)) =>
               takes[f][s] > 0
      BY <1>0, Zenon DEF TakesCounted
  <2>1. CASE f # e
      BY <1>7, <1>8, <2>0, <2>1, Zenon
  <2>2. CASE f = e
    <3>1. s \in p.accepted <=> \E z \in Relays : TakenBy(z, f, s)
        BY <1>1, <1>8, <1>e, <1>p, <2>2, Zenon DEF TakenBy
    <3>2. entries[e].accepted \subseteq p.accepted
        BY <1>0, <1>1, <1>4, <1>p, Zenon DEF FanOutExact
    <3> QED
        BY <1>5, <1>7, <1>8, <2>0, <2>2, <3>1, <3>2, Zenon
  <2> QED
      BY <2>1, <2>2, Zenon
<1>12. PublishedComplete'
  <2>1. ~p.failed => p.accepted = SinkNames
    <3> SUFFICES ASSUME ~p.failed PROVE p.accepted = SinkNames
        BY Zenon
    <3>1. p.sink \in 1..(Len(Sinks) + 1) /\ \A i \in 1..(p.sink - 1) : Sinks[i] \in p.accepted
        BY <1>0, <1>1, <1>p, Zenon DEF FanOutExact
    <3>2. \A i \in 1..Len(Sinks) : Sinks[i] \in p.accepted
        BY <1>1, <3>1, SinkFacts
    <3>3. p.accepted \subseteq SinkNames
        BY Zenon DEF Pass
    <3>4. SinkNames \subseteq p.accepted
      <4> SUFFICES ASSUME NEW s \in SinkNames PROVE s \in p.accepted
          BY Zenon
      <4>1. PICK i \in 1..Len(Sinks) : Sinks[i] = s
          BY SinkFacts, Zenon
      <4> QED
          BY <3>2, <4>1, Zenon
    <3> QED
        BY <3>3, <3>4, Zenon
  <2> QED
      BY <1>0, <1>5, <1>7, <2>1 DEF PublishedComplete
<1>13. RInv'
    BY <1>8, <1>9, <1>10, <1>11, <1>12, Zenon DEF RInv
<1>14. entries[e].accepted \subseteq entries'[e].accepted /\ entries[e].attempts \in Nat
    BY <1>0, <1>1, <1>3, <1>4, <1>5, <1>7, <1>p, Zenon DEF FanOutExact, Entry
<1> QED
    BY <1>4, <1>5, <1>7, <1>13, <1>14, <1>e, <1>p, Zenon

\* An outcome is not recorded: it may have been a delivery.
LEMMA FaultRInv ==
    ASSUME RInv, NEW r \in Relays, Unsettled(r) \/ Crash(r)
    PROVE  RInv' /\ entries' = entries
<1>0. RelayTypes /\ HeldAsClaimed /\ HeldOnce /\ FanOutExact /\ TakesCounted
      /\ PublishedComplete
    BY Zenon DEF RInv
<1>1. PICK q : /\ q = Tail(passes[r].todo) \/ q = << >>
               /\ passes' = [passes EXCEPT ![r] = FanOut(q)]
    BY Zenon DEF Unsettled, Crash
<1>2. /\ passes[r].todo # << >>
      /\ exposed' = [exposed EXCEPT ![Head(passes[r].todo).event] = @ + 1]
      /\ faults' = faults + 1 /\ entries' = entries /\ takes' = takes
    BY Zenon DEF Unsettled, Crash, FannedOut
<1>e. PICK e \in Events : e = Head(passes[r].todo).event
  <2>1. passes[r].todo \in Seq(Claimed)
      BY <1>0, Zenon DEF RelayTypes, Pass
  <2>2. Head(passes[r].todo) \in Claimed
      BY <1>2, <2>1, HeadFacts, Zenon
  <2> QED
      BY <2>2, Zenon DEF Claimed
<1>3. /\ passes' \in [Relays -> Pass]
      /\ HeldOnce' /\ FanOutExact'
      /\ \A z \in Relays : \A i \in DOMAIN passes'[z].todo :
            /\ passes'[z].todo[i].event \in Events \ {e}
            /\ \E j \in DOMAIN passes[z].todo : passes'[z].todo[i] = passes[z].todo[j]
      /\ \A z \in Relays, f \in Events, s \in SinkNames :
            /\ TakenBy(z, f, s)' =>
                  f # e /\ (TakenBy(z, f, s) \/ s \in entries[f].accepted)
            /\ TakenBy(z, f, s) /\ f # e => TakenBy(z, f, s)'
            /\ TakenBy(z, e, s) => z = r
  <2>1. DoneWith(r, e)
      BY <1>1, <1>2, <1>e, Popped, Zenon
  <2> QED
      BY <2>1, Zenon DEF DoneWith
<1>4. /\ exposed'[e] = exposed[e] + 1 /\ exposed[e] \in Nat
      /\ \A f \in Events : f # e => exposed'[f] = exposed[f]
    BY <1>0, <1>2, <1>e, Zenon DEF RelayTypes
<1>5. RelayTypes'
  <2>1. exposed' \in [Events -> Nat] /\ faults' \in Nat
      BY ONLY <1>0, <1>2, <1>4, <1>e DEF RelayTypes
  <2> QED
      BY <1>0, <1>2, <1>3, <2>1, Zenon DEF RelayTypes
<1>6. HeldAsClaimed'
  <2> SUFFICES ASSUME NEW z \in Relays, NEW i \in DOMAIN passes'[z].todo
               PROVE  AsClaimed(passes'[z].todo[i], entries'[passes'[z].todo[i].event])
      BY Zenon DEF HeldAsClaimed
  <2>1. PICK j \in DOMAIN passes[z].todo : passes'[z].todo[i] = passes[z].todo[j]
      BY <1>3, Zenon
  <2>2. AsClaimed(passes[z].todo[j], entries[passes[z].todo[j].event])
      BY <1>0, Zenon DEF HeldAsClaimed
  <2> QED
      BY <1>2, <2>1, <2>2, Zenon
<1>7. TakesCounted'
  <2> SUFFICES ASSUME NEW f \in Events, NEW s \in SinkNames
               PROVE  /\ takes[f][s] <= exposed'[f] + 1
                      /\ (s \notin entries[f].accepted /\ \A z \in Relays : ~TakenBy(z, f, s)') =>
                             takes[f][s] <= exposed'[f]
                      /\ (s \in entries[f].accepted \/ \E z \in Relays : TakenBy(z, f, s)') =>
                             takes[f][s] > 0
      BY <1>2, Zenon DEF TakesCounted
  <2>0. /\ takes[f][s] <= exposed[f] + 1
        /\ (s \notin entries[f].accepted /\ \A z \in Relays : ~TakenBy(z, f, s)) =>
               takes[f][s] <= exposed[f]
        /\ (s \in entries[f].accepted \/ \E z \in Relays : TakenBy(z, f, s)) =>
               takes[f][s] > 0
        /\ takes[f][s] \in Nat /\ exposed[f] \in Nat
      BY <1>0, Zenon DEF TakesCounted, RelayTypes
  <2>1. CASE f # e
      BY <1>3, <1>4, <2>0, <2>1, Zenon
  <2>2. CASE f = e
      BY <1>3, <1>4, <2>0, <2>2
  <2> QED
      BY <2>1, <2>2, Zenon
<1>8. PublishedComplete'
    BY <1>0, <1>2, Zenon DEF PublishedComplete
<1> QED
    BY <1>2, <1>3, <1>5, <1>6, <1>7, <1>8, Zenon DEF RInv

\* Time passes: the next attempt is due, or a lease lapses that no pass holds.
LEMMA TimeRInv ==
    ASSUME ~Overrun, RInv, NEW e \in Events, BecomeDue(e) \/ Lapse(e)
    PROVE  /\ RInv'
           /\ \A f \in Events : /\ entries'[f].accepted = entries[f].accepted
                                /\ entries'[f].attempts = entries[f].attempts
                                /\ entries'[f].published = entries[f].published
                                /\ entries[f].next = "none" => entries'[f].next = "none"
<1>0. RelayTypes /\ HeldAsClaimed /\ HeldOnce /\ FanOutExact /\ TakesCounted
      /\ PublishedComplete
    BY Zenon DEF RInv
<1>1. /\ passes' = passes /\ takes' = takes /\ exposed' = exposed /\ faults' = faults
    BY DEF BecomeDue, Lapse
<1>2. entries[e] \in Entry
    BY <1>0, Zenon DEF RelayTypes
<1>3. PICK n \in Entry :
        /\ entries' = [entries EXCEPT ![e] = n]
        /\ n.accepted = entries[e].accepted /\ n.attempts = entries[e].attempts
        /\ n.published = entries[e].published
        /\ entries[e].next = "none" => n.next = "none"
  <2>1. CASE BecomeDue(e)
    <3> DEFINE n == [entries[e] EXCEPT !.next = "due"]
    <3>1. entries' = [entries EXCEPT ![e] = n] /\ entries[e].next = "later"
        BY <1>0, <2>1, Zenon DEF BecomeDue, RelayTypes
    <3>2. /\ n \in Entry /\ n.accepted = entries[e].accepted /\ n.attempts = entries[e].attempts
          /\ n.published = entries[e].published
        BY <1>2, Zenon DEF Entry
    <3> QED
        BY <3>1, <3>2, Zenon
  <2>2. CASE Lapse(e)
    <3> DEFINE n == [entries[e] EXCEPT !.leased = FALSE]
    <3>1. entries' = [entries EXCEPT ![e] = n]
        BY <1>0, <2>2, Zenon DEF Lapse, RelayTypes
    <3>2. /\ n \in Entry /\ n.accepted = entries[e].accepted /\ n.attempts = entries[e].attempts
          /\ n.published = entries[e].published /\ n.next = entries[e].next
        BY <1>2, Zenon DEF Entry
    <3> QED
        BY <3>1, <3>2, Zenon
  <2> QED
      BY <2>1, <2>2, Zenon
<1>4. entries'[e] = n /\ \A f \in Events : f # e => entries'[f] = entries[f]
    BY <1>0, <1>3, Zenon DEF RelayTypes
<1>5. \A r \in Relays : \A i \in DOMAIN passes[r].todo :
        /\ passes[r].todo[i].event # e /\ passes[r].todo[i].event \in Events
  <2>1. \A r \in Relays : passes[r].todo \in Seq(Claimed)
      BY <1>0, Zenon DEF RelayTypes, Pass
  <2>2. \A r \in Relays : \A i \in DOMAIN passes[r].todo : passes[r].todo[i] \in Claimed
      BY <2>1
  <2> QED
      BY <1>0, <2>2, Zenon DEF BecomeDue, Lapse, Holds, HeldAsClaimed, AsClaimed, Claimed
<1>6. RelayTypes'
    BY <1>0, <1>1, <1>3, Zenon DEF RelayTypes
<1>7. HeldAsClaimed' /\ HeldOnce' /\ FanOutExact'
  <2>1. HeldAsClaimed'
      BY <1>0, <1>1, <1>4, <1>5, Zenon DEF HeldAsClaimed
  <2>2. HeldOnce' /\ FanOutExact'
      BY <1>0, <1>1 DEF HeldOnce, FanOutExact
  <2> QED
      BY <2>1, <2>2, Zenon
<1>8. \A f \in Events : /\ entries'[f].accepted = entries[f].accepted
                        /\ entries'[f].attempts = entries[f].attempts
                        /\ entries'[f].published = entries[f].published
                        /\ entries[f].next = "none" => entries'[f].next = "none"
    BY <1>3, <1>4, Zenon
<1>9. TakesCounted' /\ PublishedComplete'
    BY <1>0, <1>1, <1>8, Zenon DEF TakesCounted, TakenBy, PublishedComplete
<1> QED
    BY <1>6, <1>7, <1>8, <1>9, Zenon DEF RInv

(* The theorems *********************************************************)

\* What one step may do to the delivery record of an event.
Kept ==
    \A e \in Events :
        /\ DeadLettered(entries[e]) => ~Pending(entries'[e])
        /\ entries[e].published => entries'[e].published
        /\ entries[e].accepted \subseteq entries'[e].accepted
        /\ entries[e].attempts <= entries'[e].attempts

\* A step that leaves the delivery record of every event keeps it.
LEMMA SameKept ==
    ASSUME RelayTypes,
           \A f \in Events : /\ entries'[f].accepted = entries[f].accepted
                             /\ entries'[f].attempts = entries[f].attempts
                             /\ entries'[f].published = entries[f].published
                             /\ entries[f].next = "none" => entries'[f].next = "none"
    PROVE  Kept
<1>1. \A f \in Events : entries[f].attempts \in Nat
    BY Zenon DEF RelayTypes, Entry
<1> QED
    BY <1>1 DEF Kept, DeadLettered, Pending

\* Every step keeps the invariant, and what was recorded of every event.
LEMMA NextRInv ==
    ASSUME ~Overrun, RInv, [RelayNext]_relayVars
    PROVE  RInv' /\ Kept
<1>0. RelayTypes
    BY Zenon DEF RInv
<1>1. ASSUME NEW r \in Relays, ClaimDueEvents(r) PROVE RInv' /\ Kept
  <2>1. \A f \in Events : /\ entries'[f].accepted = entries[f].accepted
                          /\ entries'[f].attempts = entries[f].attempts
                          /\ entries'[f].published = entries[f].published
                          /\ entries[f].next = "none" => entries'[f].next = "none"
    <3> SUFFICES ASSUME NEW f \in Events
                 PROVE  /\ entries'[f].accepted = entries[f].accepted
                        /\ entries'[f].attempts = entries[f].attempts
                        /\ entries'[f].published = entries[f].published
                        /\ entries[f].next = "none" => entries'[f].next = "none"
        BY Zenon
    <3>1. entries'[f] = [entries[f] EXCEPT !.leased = TRUE] \/ entries'[f] = entries[f]
        BY <1>1, Zenon DEF ClaimDueEvents
    <3>2. entries[f] \in Entry
        BY <1>0, Zenon DEF RelayTypes
    <3> QED
        BY <3>1, <3>2, Zenon DEF Entry
  <2> QED
      BY <1>0, <1>1, <2>1, ClaimRInv, SameKept, Zenon
<1>2. ASSUME NEW r \in Relays,
             Skip(r) \/ Take(r) \/ \E permanent \in BOOLEAN : Refuse(r, permanent)
      PROVE  RInv' /\ Kept
  <2>1. entries' = entries
      BY <1>2, Zenon DEF Skip, Take, Refuse
  <2> QED
      BY <1>0, <1>2, <2>1, StepRInv, SameKept, Zenon
<1>3. ASSUME NEW r \in Relays, Settle(r) PROVE RInv' /\ Kept
  <2>1. PICK e : e = Head(passes[r].todo).event
      BY Zenon
  <2>2. /\ RInv'
        /\ e \in Events /\ ~entries[e].published /\ entries[e].next = "due"
        /\ entries[e].accepted \subseteq entries'[e].accepted
        /\ entries'[e].attempts = entries[e].attempts + 1
        /\ entries[e].attempts \in Nat
        /\ \A f \in Events : f # e => entries'[f] = entries[f]
      BY <1>3, <2>1, SettleRInv, Zenon
  <2>3. \A f \in Events : entries[f].attempts \in Nat
      BY <1>0, Zenon DEF RelayTypes, Entry
  <2> QED
      BY <2>2, <2>3 DEF Kept, DeadLettered, Pending
<1>4. ASSUME NEW r \in Relays, Unsettled(r) \/ Crash(r) PROVE RInv' /\ Kept
    BY <1>0, <1>4, FaultRInv, SameKept, Zenon
<1>5. ASSUME NEW e \in Events, BecomeDue(e) \/ Lapse(e) PROVE RInv' /\ Kept
    BY <1>0, <1>5, TimeRInv, SameKept, Zenon
<1>6. CASE UNCHANGED relayVars
  <2>1. RInv'
    <3>1. /\ entries' = entries /\ passes' = passes /\ takes' = takes
          /\ exposed' = exposed /\ faults' = faults
        BY <1>6, Zenon DEF relayVars
    <3>2. RelayTypes' /\ HeldAsClaimed' /\ HeldOnce' /\ PublishedComplete'
      <4>1. RelayTypes /\ HeldAsClaimed /\ HeldOnce /\ PublishedComplete
          BY <1>0, Zenon DEF RInv
      <4>2. RelayTypes'
          BY <3>1, <4>1, Zenon DEF RelayTypes
      <4>3. HeldOnce'
          BY ONLY <3>1, <4>1 DEF HeldOnce
      <4>4. HeldAsClaimed' /\ PublishedComplete'
          BY <3>1, <4>1, Zenon DEF HeldAsClaimed, PublishedComplete
      <4> QED
          BY <4>2, <4>3, <4>4, Zenon
    <3>3. FanOutExact' /\ TakesCounted'
      <4>1. FanOutExact /\ TakesCounted
          BY <1>0, Zenon DEF RInv
      <4>2. FanOutExact'
          BY ONLY <3>1, <4>1 DEF FanOutExact
      <4>3. TakesCounted'
          BY ONLY <3>1, <4>1 DEF TakesCounted, TakenBy
      <4> QED
          BY <4>2, <4>3, Zenon
    <3> QED
        BY <3>2, <3>3, Zenon DEF RInv
  <2> QED
      BY <1>0, <1>6, <2>1, SameKept, Zenon DEF relayVars
<1> QED
    BY <1>1, <1>2, <1>3, <1>4, <1>5, <1>6, Zenon DEF RelayNext, RelayPass

\* The invariant holds as long as no pass outlasts the lease it took.
THEOREM RelayInvariance ==
    ASSUME ~Overrun
    PROVE  RelaySpec => []RInv
<1>1. RelayInit => RInv
    BY InitRInv, Zenon
<1>2. RInv /\ [RelayNext]_relayVars => RInv'
    BY NextRInv, Zenon
<1> QED
    BY <1>1, <1>2, PTL DEF RelaySpec

\* The outbox is an exact record of the sinks: what it says was accepted was taken, a
\* published event by every sink, and none took an event twice but for an outcome
\* that was never recorded (relay.go fanOut and settle, MarkAccepted).
THEOREM OutboxExact ==
    ASSUME ~Overrun
    PROVE  RelaySpec => []OutboxTellsTakes
<1>1. RInv => OutboxTellsTakes
  <2> SUFFICES ASSUME RInv PROVE OutboxTellsTakes
      BY Zenon
  <2>1. \A e \in Events : entries[e].accepted \subseteq SinkNames
      BY Zenon DEF RInv, RelayTypes, Entry
  <2>2. \A e \in Events, s \in SinkNames : exposed[e] + 1 = 1 + exposed[e]
      BY DEF RInv, RelayTypes
  <2> QED
      BY <2>1, <2>2, Zenon
      DEF RInv, OutboxTellsTakes, CompleteMeansTaken, TakenOnce, TakesCounted, PublishedComplete
<1> QED
    BY <1>1, RelayInvariance, PTL

\* No settlement takes back what an earlier one recorded, and a dead letter is not
\* attempted again (settle, MarkAccepted, RecordAttempt, MarkDeadLettered).
THEOREM SettlementsKept ==
    ASSUME ~Overrun
    PROVE  RelaySpec => RecordsKept
<1>1. RInv /\ [RelayNext]_relayVars => [Kept]_relayVars
    BY NextRInv, Zenon
<1>2. RecordsKept <=> [][Kept]_relayVars
    BY PTL DEF RecordsKept, Kept
<1> QED
    BY <1>1, <1>2, RelayInvariance, PTL DEF RelaySpec

(* What the sinks deliver ***********************************************)

\* The sinks where an event has arrived, or has nowhere to go.
Arrivals ==
    [e \in Events |-> {s \in SinkNames :
        landed[e][s] > 0 \/ (s = "webhook" /\ content[e].callback = "none")}]

\* The events that cannot be sent, or were turned down.
Lost ==
    {e \in Events :
        \/ ~content[e].renders
        \/ content[e].oversize
        \/ content[e].callback = "unusable"
        \/ e \in judged}

\* What an entry records as accepted has arrived, and no event that could be sent is
\* given up before its last attempt.
EntryReports(e, entry, arrived, lost) ==
    /\ entry \in Entry
    /\ entry.accepted \subseteq arrived[e]
    /\ DeadLettered(entry) /\ entry.attempts < MaxAttempts => e \in lost

\* What a pass knows of the events before it, and of the one it is at.
PassReports(p, arrived, lost) ==
    /\ p \in Pass /\ p.sink > 0
    /\ \A i \in DOMAIN p.todo : p.todo[i].accepted \subseteq arrived[p.todo[i].event]
    /\ p.todo # << >> =>
           /\ p.accepted \subseteq arrived[Head(p.todo).event]
           /\ p.permanent => Head(p.todo).event \in lost

Reported ==
    /\ entries \in [Events -> Entry] /\ passes \in [Relays -> Pass]
    /\ \A e \in Events : EntryReports(e, entries[e], Arrivals, Lost)
    /\ \A r \in Relays : PassReports(passes[r], Arrivals, Lost)

SinkTypes ==
    /\ content \in [Events -> Content]
    /\ landed \in [Events -> [SinkNames -> Nat]]
    /\ buffered \in Seq(Events)

\* The stream has a message of exactly the events in its duplicate window.
StoredOnce ==
    "jetstream" \in SinkNames =>
        \A e \in Events : landed[e]["jetstream"] = IF e \in remembered THEN 1 ELSE 0

ContactedAllowed == \A address \in contacted : address \in Addresses /\ Allow(address)

World == SinkTypes /\ StoredOnce /\ ContactedAllowed

DInv == World /\ Reported

\* What has arrived stays, and so does what was turned down.
LEMMA EntryStill ==
    ASSUME NEW e \in Events, NEW entry, NEW arrived, NEW lost, NEW arrived2, NEW lost2,
           EntryReports(e, entry, arrived, lost),
           \A f \in Events : arrived[f] \subseteq arrived2[f], lost \subseteq lost2
    PROVE  EntryReports(e, entry, arrived2, lost2)
    BY Zenon DEF EntryReports

LEMMA PassStill ==
    ASSUME NEW p, NEW arrived, NEW lost, NEW arrived2, NEW lost2,
           PassReports(p, arrived, lost),
           \A f \in Events : arrived[f] \subseteq arrived2[f], lost \subseteq lost2
    PROVE  PassReports(p, arrived2, lost2)
<1>1. p \in Pass /\ p.sink > 0
    BY Zenon DEF PassReports
<1>2. p.todo \in Seq(Claimed)
    BY <1>1, Zenon DEF Pass
<1>3. \A i \in DOMAIN p.todo : p.todo[i] \in Claimed
    BY <1>2
<1>4. \A i \in DOMAIN p.todo : p.todo[i].event \in Events
    BY <1>3, Zenon DEF Claimed
<1>5. p.todo # << >> => Head(p.todo) \in Claimed
    BY <1>2, HeadFacts, Zenon
<1>6. p.todo # << >> => Head(p.todo).event \in Events
    BY <1>5, Zenon DEF Claimed
<1> QED
    BY <1>1, <1>4, <1>6, Zenon DEF PassReports

\* A fan-out starts with what its event was claimed with.
LEMMA FanOutReports ==
    ASSUME NEW todo \in Seq(Claimed), NEW arrived, NEW lost,
           \A i \in DOMAIN todo : todo[i].accepted \subseteq arrived[todo[i].event]
    PROVE  PassReports(FanOut(todo), arrived, lost)
<1>1. /\ FanOut(todo) \in Pass /\ FanOut(todo).todo = todo /\ FanOut(todo).sink = 1
      /\ todo # << >> => FanOut(todo).accepted = Head(todo).accepted
    BY FanOutFacts, Zenon
<1>2. ~FanOut(todo).permanent
    BY DEF FanOut
<1>3. todo # << >> => Head(todo) = todo[1] /\ 1 \in DOMAIN todo
    BY HeadFacts, Zenon
<1>4. FanOut(todo).sink > 0
    BY <1>1
<1> QED
    BY <1>1, <1>2, <1>3, <1>4, Zenon DEF PassReports

\* The fan-out goes on with what is left.
LEMMA TailReports ==
    ASSUME NEW p, NEW arrived, NEW lost, PassReports(p, arrived, lost), p.todo # << >>
    PROVE  PassReports(FanOut(Tail(p.todo)), arrived, lost)
<1>1. p.todo \in Seq(Claimed)
    BY Zenon DEF PassReports, Pass
<1>2. /\ Tail(p.todo) \in Seq(Claimed)
      /\ \A i \in DOMAIN Tail(p.todo) : i + 1 \in DOMAIN p.todo /\ Tail(p.todo)[i] = p.todo[i + 1]
    BY <1>1, HeadFacts, Zenon
<1>3. \A i \in DOMAIN Tail(p.todo) :
        Tail(p.todo)[i].accepted \subseteq arrived[Tail(p.todo)[i].event]
    BY <1>2, Zenon DEF PassReports
<1> QED
    BY <1>2, <1>3, FanOutReports, Zenon

\* A settlement records what the pass knows, and gives an event up early only when
\* a sink reported a permanent failure, also when others settled it since it was claimed.
LEMMA SettlementReports ==
    ASSUME NEW p, NEW entry, NEW arrived, NEW lost, NEW e \in Events,
           PassReports(p, arrived, lost), EntryReports(e, entry, arrived, lost),
           p.todo # << >>, e = Head(p.todo).event
    PROVE  EntryReports(e, Settlement(p, entry), arrived, lost)
<1>1. p \in Pass /\ entry \in Entry /\ p.accepted \subseteq arrived[e]
      /\ (p.permanent => e \in lost) /\ entry.accepted \subseteq arrived[e]
    BY Zenon DEF PassReports, EntryReports
<1>2. Head(p.todo) \in Claimed
  <2>1. p.todo \in Seq(Claimed)
      BY <1>1, Zenon DEF Pass
  <2> QED
      BY <2>1, HeadFacts, Zenon
<1>3. PICK a \in Nat : a = Head(p.todo).attempts + 1
  <2>1. Head(p.todo).attempts \in Nat
      BY <1>2, Zenon DEF Claimed
  <2> QED
      BY <2>1
<1>4. /\ p.accepted \in SUBSET SinkNames /\ p.failed \in BOOLEAN /\ p.permanent \in BOOLEAN
    BY <1>1, Zenon DEF Pass
<1>5. LET n == MarkAccepted(entry, p.accepted, TRUE, a) IN
        n \in Entry /\ n.accepted = p.accepted /\ n.published
    BY <1>1, <1>3, <1>4, Zenon DEF MarkAccepted, Entry
<1>6. LET n == MarkAccepted(entry, p.accepted, FALSE, a) IN
        n \in Entry /\ n.accepted = p.accepted /\ n.next = "later"
    BY <1>1, <1>3, <1>4, Zenon DEF MarkAccepted, Entry
<1>7. LET n == MarkDeadLettered(entry, p.accepted, a) IN
        n \in Entry /\ n.accepted = p.accepted /\ n.attempts = a
    BY <1>1, <1>3, <1>4, Zenon DEF MarkDeadLettered, Entry
<1>8. LET n == RecordAttempt(entry, a) IN
        n \in Entry /\ n.accepted = entry.accepted /\ n.next = "later"
    BY <1>1, <1>3, <1>4, Zenon DEF RecordAttempt, Entry
<1>9. "later" # "none"
    OBVIOUS
<1>10. CASE ~p.failed
  <2>1. Settlement(p, entry) = MarkAccepted(entry, p.accepted, TRUE, a)
      BY <1>3, <1>10, Zenon DEF Settlement
  <2> QED
      BY <1>1, <1>5, <2>1, Zenon DEF EntryReports, DeadLettered
<1>11. CASE p.failed /\ (p.permanent \/ a >= MaxAttempts)
  <2>1. Settlement(p, entry) = MarkDeadLettered(entry, p.accepted, a)
      BY <1>3, <1>11, Zenon DEF Settlement
  <2>2. a >= MaxAttempts => ~(a < MaxAttempts)
      BY <1>3, RelayAssumption
  <2> QED
      BY <1>1, <1>7, <1>11, <2>1, <2>2, Zenon DEF EntryReports
<1>12. CASE p.failed /\ ~(p.permanent \/ a >= MaxAttempts) /\ p.accepted # Head(p.todo).accepted
  <2>1. Settlement(p, entry) = MarkAccepted(entry, p.accepted, FALSE, a)
      BY <1>3, <1>12, Zenon DEF Settlement
  <2> QED
      BY <1>1, <1>6, <1>9, <2>1, Zenon DEF EntryReports, DeadLettered
<1>13. CASE p.failed /\ ~(p.permanent \/ a >= MaxAttempts) /\ p.accepted = Head(p.todo).accepted
  <2>1. Settlement(p, entry) = RecordAttempt(entry, a)
      BY <1>3, <1>13, Zenon DEF Settlement
  <2> QED
      BY <1>1, <1>8, <1>9, <2>1, Zenon DEF EntryReports, DeadLettered
<1> QED
    BY <1>10, <1>11, <1>12, <1>13, Zenon

\* A pass that leaves a sink with what that sink reported of its event.
LEMMA OnwardReports ==
    ASSUME NEW p, NEW n \in Pass, NEW arrived, NEW lost, PassReports(p, arrived, lost),
           p.todo # << >>, n.todo = p.todo, n.sink = p.sink + 1,
           n.accepted \subseteq arrived[Head(p.todo).event],
           n.permanent => Head(p.todo).event \in lost
    PROVE  PassReports(n, arrived, lost)
<1>1. p \in Pass /\ p.sink > 0
    BY Zenon DEF PassReports
<1>2. p.sink \in Nat
    BY <1>1, Zenon DEF Pass
<1>3. n.sink > 0
    BY <1>1, <1>2
<1> QED
    BY <1>3, Zenon DEF PassReports

\* What the sinks' side may do: messages only arrive, and nothing is taken back.
Forward ==
    /\ content' = content /\ judged \subseteq judged'
    /\ landed' \in [Events -> [SinkNames -> Nat]]
    /\ \A e \in Events, s \in SinkNames : landed[e][s] <= landed'[e][s]

Growth == (\A f \in Events : Arrivals[f] \subseteq Arrivals'[f]) /\ Lost \subseteq Lost'

LEMMA ForwardGrows ==
    ASSUME SinkTypes, Forward
    PROVE  Growth
<1>1. \A e \in Events, s \in SinkNames : landed[e][s] > 0 => landed'[e][s] > 0
    BY DEF SinkTypes, Forward
<1>2. \A f \in Events : Arrivals[f] \subseteq Arrivals'[f]
    BY <1>1, Zenon DEF Arrivals, Forward
<1>3. Lost \subseteq Lost'
    BY Zenon DEF Lost, Forward
<1> QED
    BY <1>2, <1>3, Zenon DEF Growth

\* A step of the sinks' side that concerns no pass.
LEMMA StillReported ==
    ASSUME Reported, Growth, entries' = entries, passes' = passes
    PROVE  Reported'
<1>1. \A e \in Events : EntryReports(e, entries[e], Arrivals', Lost')
    BY EntryStill, Zenon DEF Reported, Growth
<1>2. \A r \in Relays : PassReports(passes[r], Arrivals', Lost')
    BY PassStill, Zenon DEF Reported, Growth
<1>3. \A e \in Events : EntryReports(e, entries'[e], Arrivals', Lost')
    BY <1>1, Zenon
<1>4. \A r \in Relays : PassReports(passes'[r], Arrivals', Lost')
    BY <1>2, Zenon
<1> QED
    BY <1>3, <1>4, Zenon DEF Reported

\* A step of one pass.
LEMMA PassReported ==
    ASSUME Reported, Growth, NEW r \in Relays, NEW n, entries' = entries,
           passes' = [passes EXCEPT ![r] = n], PassReports(n, Arrivals', Lost')
    PROVE  Reported'
<1>1. \A e \in Events : EntryReports(e, entries'[e], Arrivals', Lost')
    BY EntryStill, Zenon DEF Reported, Growth
<1>2. n \in Pass /\ passes \in [Relays -> Pass]
    BY Zenon DEF PassReports, Reported
<1>3. \A z \in Relays : PassReports(passes[z], Arrivals', Lost')
    BY PassStill, Zenon DEF Reported, Growth
<1>4. passes' \in [Relays -> Pass] /\ \A z \in Relays : passes'[z] = n \/ passes'[z] = passes[z]
    BY <1>2, Zenon
<1>5. \A z \in Relays : PassReports(passes'[z], Arrivals', Lost')
    BY <1>3, <1>4, Zenon
<1> QED
    BY <1>1, <1>4, <1>5, Zenon DEF Reported

\* A sink reports an event delivered that has arrived there.
LEMMA TakeReported ==
    ASSUME Reported, Growth, NEW r \in Relays, Take(r),
           Sinks[passes[r].sink] \in Arrivals'[EventAt(r)]
    PROVE  Reported'
<1>1. PICK p \in Pass : p = passes[r]
    BY Zenon DEF Reported
<1>2. PICK s \in SinkNames : s = Sinks[p.sink]
  <2>1. p.sink \in Nat /\ p.sink > 0 /\ p.sink <= Len(Sinks)
      BY <1>1, Zenon DEF Reported, PassReports, Pass, Take, Offers, AtSink
  <2>2. p.sink \in 1..Len(Sinks)
      BY <2>1, SinkFacts
  <2> QED
      BY <2>2, SinkFacts, Zenon
<1> DEFINE n == [p EXCEPT !.sink = p.sink + 1, !.accepted = p.accepted \cup {s}]
<1>3. passes' = [passes EXCEPT ![r] = n] /\ entries' = entries /\ p.todo # << >>
    BY <1>1, <1>2, Zenon DEF Take, Offers, AtSink, Reported
<1>4. n \in Pass /\ n.todo = p.todo /\ n.sink = p.sink + 1 /\ n.accepted = p.accepted \cup {s}
      /\ n.permanent = p.permanent
  <2>1. p.sink + 1 \in Nat /\ p.accepted \cup {s} \in SUBSET SinkNames
      BY DEF Pass
  <2> QED
      BY <2>1, Zenon DEF Pass
<1> HIDE DEF n
<1>5. PassReports(p, Arrivals', Lost')
    BY <1>1, PassStill, Zenon DEF Reported, Growth
<1>6. /\ n.accepted \subseteq Arrivals'[Head(p.todo).event]
      /\ n.permanent => Head(p.todo).event \in Lost'
    BY <1>1, <1>2, <1>3, <1>4, <1>5, Zenon DEF PassReports, EventAt
<1>7. PassReports(n, Arrivals', Lost')
    BY <1>3, <1>4, <1>5, <1>6, OnwardReports, Zenon
<1> QED
    BY <1>3, <1>7, PassReported, Zenon

\* A sink reports a failure, a permanent one only of an event that is lost to it.
LEMMA RefuseReported ==
    ASSUME Reported, Growth, NEW r \in Relays, NEW permanent \in BOOLEAN, Refuse(r, permanent),
           permanent => EventAt(r) \in Lost'
    PROVE  Reported'
<1>1. PICK p \in Pass : p = passes[r]
    BY Zenon DEF Reported
<1>2. PICK ends \in BOOLEAN : ends = IF permanent THEN TRUE ELSE p.permanent
    BY Zenon DEF Pass
<1> DEFINE n == [p EXCEPT !.sink = p.sink + 1, !.failed = TRUE, !.permanent = ends]
<1>3. passes' = [passes EXCEPT ![r] = n] /\ entries' = entries /\ p.todo # << >>
    BY <1>1, <1>2, Zenon DEF Refuse, Offers, AtSink, Reported
<1>4. n \in Pass /\ n.todo = p.todo /\ n.sink = p.sink + 1 /\ n.accepted = p.accepted
      /\ n.permanent = ends
  <2>1. p.sink + 1 \in Nat
      BY DEF Pass
  <2> QED
      BY <2>1, Zenon DEF Pass
<1> HIDE DEF n
<1>5. PassReports(p, Arrivals', Lost')
    BY <1>1, PassStill, Zenon DEF Reported, Growth
<1>6. /\ n.accepted \subseteq Arrivals'[Head(p.todo).event]
      /\ n.permanent => Head(p.todo).event \in Lost'
    BY <1>1, <1>2, <1>3, <1>4, <1>5, Zenon DEF PassReports, EventAt
<1>7. PassReports(n, Arrivals', Lost')
    BY <1>3, <1>4, <1>5, <1>6, OnwardReports, Zenon
<1> QED
    BY <1>3, <1>7, PassReported, Zenon

\* One entry changes, and no pass.
LEMMA EntryReported ==
    ASSUME Reported, Growth, NEW e \in Events, NEW n, passes' = passes,
           entries' = [entries EXCEPT ![e] = n], EntryReports(e, n, Arrivals, Lost)
    PROVE  Reported'
<1>1. \A f \in Events : EntryReports(f, entries[f], Arrivals', Lost')
    BY EntryStill, Zenon DEF Reported, Growth
<1>2. EntryReports(e, n, Arrivals', Lost') /\ n \in Entry
    BY EntryStill, Zenon DEF Growth, EntryReports
<1>3. entries' \in [Events -> Entry]
      /\ \A f \in Events : entries'[f] = IF f = e THEN n ELSE entries[f]
    BY <1>2, Zenon DEF Reported
<1>4. \A f \in Events : EntryReports(f, entries'[f], Arrivals', Lost')
    BY <1>1, <1>2, <1>3, Zenon
<1>5. \A r \in Relays : PassReports(passes[r], Arrivals', Lost')
    BY PassStill, Zenon DEF Reported, Growth
<1>6. \A r \in Relays : PassReports(passes'[r], Arrivals', Lost')
    BY <1>5, Zenon
<1> QED
    BY <1>3, <1>4, <1>6, Zenon DEF Reported

\* Claiming copies what the entries record.
LEMMA ClaimReported ==
    ASSUME Reported, Growth, NEW r \in Relays, ClaimDueEvents(r)
    PROVE  Reported'
<1>1. PICK due \in DueEvents :
        /\ entries' = [e \in Events |->
                IF e \in ToSet(due) THEN [entries[e] EXCEPT !.leased = TRUE] ELSE entries[e]]
        /\ passes' = [passes EXCEPT ![r] = FanOut([i \in DOMAIN due |->
                [event |-> due[i], attempts |-> entries[due[i]].attempts,
                 accepted |-> entries[due[i]].accepted]])]
    BY Zenon DEF ClaimDueEvents
<1>2. PICK k \in 1..Batch : due \in [1..k -> Events]
    BY DEF DueEvents
<1> DEFINE q == [i \in DOMAIN due |->
                [event |-> due[i], attempts |-> entries[due[i]].attempts,
                 accepted |-> entries[due[i]].accepted]]
<1>3. \A e \in Events : entries[e] \in Entry /\ EntryReports(e, entries[e], Arrivals', Lost')
    BY EntryStill, Zenon DEF Reported, Growth
<1>4. DOMAIN q = 1..k /\ \A i \in 1..k : q[i] \in Claimed
                            /\ q[i].accepted \subseteq Arrivals'[q[i].event]
    BY <1>2, <1>3, Zenon DEF Claimed, Entry, EntryReports
<1>5. q \in Seq(Claimed)
  <2>1. q \in [1..k -> Claimed]
      BY <1>2, <1>4, Zenon
  <2>2. k \in Nat
      BY <1>2, RelayAssumption
  <2> QED
      BY <2>1, <2>2
<1>6. passes' = [passes EXCEPT ![r] = FanOut(q)]
    BY <1>1, Zenon
<1> HIDE DEF q
<1>7. PassReports(FanOut(q), Arrivals', Lost')
    BY <1>4, <1>5, FanOutReports, Zenon
<1>8. FanOut(q) \in Pass
    BY <1>7, Zenon DEF PassReports
<1>9. \A z \in Relays : PassReports(passes[z], Arrivals', Lost')
    BY PassStill, Zenon DEF Reported, Growth
<1>10. passes' \in [Relays -> Pass]
       /\ \A z \in Relays : passes'[z] = FanOut(q) \/ passes'[z] = passes[z]
    BY <1>6, <1>8, Zenon DEF Reported
<1>11. \A z \in Relays : PassReports(passes'[z], Arrivals', Lost')
    BY <1>7, <1>9, <1>10, Zenon
<1>12. \A e \in Events : EntryReports(e, entries'[e], Arrivals', Lost') /\ entries'[e] \in Entry
  <2> SUFFICES ASSUME NEW e \in Events
               PROVE  EntryReports(e, entries'[e], Arrivals', Lost') /\ entries'[e] \in Entry
      BY Zenon
  <2>1. entries'[e] = [entries[e] EXCEPT !.leased = TRUE] \/ entries'[e] = entries[e]
      BY <1>1, Zenon
  <2>2. /\ entries'[e] \in Entry /\ entries'[e].accepted = entries[e].accepted
        /\ entries'[e].attempts = entries[e].attempts /\ entries'[e].next = entries[e].next
        /\ entries'[e].published = entries[e].published
      BY <1>3, <2>1, Zenon DEF Entry
  <2> QED
      BY <1>3, <2>2, Zenon DEF EntryReports, DeadLettered
<1>13. entries' \in [Events -> Entry]
    BY <1>1, <1>12, Zenon
<1> QED
    BY <1>10, <1>11, <1>12, <1>13, Zenon DEF Reported

\* What a relay does besides delivering.
LEMMA RelayReported ==
    ASSUME Reported, Growth, RelayStep
    PROVE  Reported'
<1>1. ASSUME NEW r \in Relays, ClaimDueEvents(r) PROVE Reported'
    BY <1>1, ClaimReported, Zenon
<1>2. ASSUME NEW r \in Relays, Skip(r) PROVE Reported'
  <2>1. PICK p \in Pass : p = passes[r]
      BY Zenon DEF Reported
  <2> DEFINE n == [p EXCEPT !.sink = p.sink + 1]
  <2>2. passes' = [passes EXCEPT ![r] = n] /\ entries' = entries /\ p.todo # << >>
      BY <1>2, <2>1, Zenon DEF Skip, AtSink, Reported
  <2>3. p.sink + 1 \in Nat
      BY DEF Pass
  <2>4. n \in Pass /\ n.todo = p.todo /\ n.sink = p.sink + 1 /\ n.accepted = p.accepted
        /\ n.permanent = p.permanent
      BY <2>3, Zenon DEF Pass
  <2> HIDE DEF n
  <2>5. PassReports(p, Arrivals', Lost')
      BY <2>1, PassStill, Zenon DEF Reported, Growth
  <2>6. /\ n.accepted \subseteq Arrivals'[Head(p.todo).event]
        /\ n.permanent => Head(p.todo).event \in Lost'
      BY <2>2, <2>4, <2>5, Zenon DEF PassReports
  <2>7. PassReports(n, Arrivals', Lost')
      BY <2>2, <2>4, <2>5, <2>6, OnwardReports, Zenon
  <2> QED
      BY <2>2, <2>7, PassReported, Zenon
<1>3. ASSUME NEW r \in Relays, Settle(r) \/ Unsettled(r) \/ Crash(r) PROVE Reported'
  <2>1. PassReports(passes[r], Arrivals', Lost') /\ passes[r].todo # << >>
      BY <1>3, PassStill, Zenon DEF Reported, Growth, Settle, Unsettled, Crash, FannedOut
  <2>2. PassReports(FanOut(Tail(passes[r].todo)), Arrivals', Lost')
      BY <2>1, TailReports, Zenon
  <2>3. PassReports(FanOut(<< >>), Arrivals', Lost')
    <3>1. << >> \in Seq(Claimed) /\ DOMAIN << >> = {}
        OBVIOUS
    <3> QED
        BY <3>1, FanOutReports, Zenon
  <2>4. CASE Unsettled(r)
    <3>1. passes' = [passes EXCEPT ![r] = FanOut(Tail(passes[r].todo))] /\ entries' = entries
        BY <2>4, Zenon DEF Unsettled
    <3> QED
        BY <2>2, <3>1, PassReported, Zenon
  <2>5. CASE Crash(r)
    <3>1. passes' = [passes EXCEPT ![r] = FanOut(<< >>)] /\ entries' = entries
        BY <2>5, Zenon DEF Crash
    <3> QED
        BY <2>3, <3>1, PassReported, Zenon
  <2>6. CASE Settle(r)
    <3>1. PICK e : e = Head(passes[r].todo).event
        BY Zenon
    <3>2. e \in Events
      <4>1. passes[r].todo \in Seq(Claimed)
          BY Zenon DEF Reported, Pass
      <4>2. Head(passes[r].todo) \in Claimed
          BY <2>1, <4>1, HeadFacts, Zenon
      <4> QED
          BY <3>1, <4>2, Zenon DEF Claimed
    <3>3. PICK n : n = Settlement(passes[r], entries[e])
        BY Zenon
    <3>4. /\ entries' = [entries EXCEPT ![e] = n]
          /\ passes' = [passes EXCEPT ![r] = FanOut(Tail(passes[r].todo))]
        BY <2>6, <3>1, <3>2, <3>3, Zenon DEF Settle, Reported
    <3>5. \A f \in Events : EntryReports(f, entries[f], Arrivals', Lost')
        BY EntryStill, Zenon DEF Reported, Growth
    <3>6. EntryReports(e, n, Arrivals', Lost')
        BY <2>1, <3>1, <3>2, <3>3, <3>5, SettlementReports, Zenon
    <3>7. n \in Entry /\ FanOut(Tail(passes[r].todo)) \in Pass
        BY <2>2, <3>6, Zenon DEF EntryReports, PassReports
    <3>8. \A z \in Relays : PassReports(passes[z], Arrivals', Lost')
        BY PassStill, Zenon DEF Reported, Growth
    <3>9. /\ entries' \in [Events -> Entry] /\ passes' \in [Relays -> Pass]
          /\ \A f \in Events : entries'[f] = IF f = e THEN n ELSE entries[f]
          /\ \A z \in Relays : \/ passes'[z] = FanOut(Tail(passes[r].todo))
                               \/ passes'[z] = passes[z]
        BY <3>4, <3>7, Zenon DEF Reported
    <3>10. \A f \in Events : EntryReports(f, entries'[f], Arrivals', Lost')
        BY <3>5, <3>6, <3>9, Zenon
    <3>11. \A z \in Relays : PassReports(passes'[z], Arrivals', Lost')
        BY <2>2, <3>8, <3>9, Zenon
    <3> QED
        BY <3>9, <3>10, <3>11, Zenon DEF Reported
  <2> QED
      BY <1>3, <2>4, <2>5, <2>6, Zenon
<1>4. ASSUME NEW e \in Events, BecomeDue(e) PROVE Reported'
  <2>1. entries[e] \in Entry /\ EntryReports(e, entries[e], Arrivals, Lost)
      BY Zenon DEF Reported
  <2> DEFINE n == [entries[e] EXCEPT !.next = "due"]
  <2>2. entries' = [entries EXCEPT ![e] = n] /\ passes' = passes
      BY <1>4, Zenon DEF BecomeDue, Reported
  <2>3. n \in Entry /\ n.accepted = entries[e].accepted /\ n.next # "none"
      BY <2>1 DEF Entry
  <2> HIDE DEF n
  <2>4. EntryReports(e, n, Arrivals, Lost)
      BY <2>1, <2>3, Zenon DEF EntryReports, DeadLettered
  <2> QED
      BY <2>2, <2>4, EntryReported, Zenon
<1>5. ASSUME NEW e \in Events, Lapse(e) PROVE Reported'
  <2>1. entries[e] \in Entry /\ EntryReports(e, entries[e], Arrivals, Lost)
      BY Zenon DEF Reported
  <2> DEFINE n == [entries[e] EXCEPT !.leased = FALSE]
  <2>2. entries' = [entries EXCEPT ![e] = n] /\ passes' = passes
      BY <1>5, Zenon DEF Lapse, Reported
  <2>3. /\ n \in Entry /\ n.accepted = entries[e].accepted /\ n.next = entries[e].next
        /\ n.published = entries[e].published /\ n.attempts = entries[e].attempts
      BY <2>1, Zenon DEF Entry
  <2> HIDE DEF n
  <2>4. EntryReports(e, n, Arrivals, Lost)
      BY <2>1, <2>3, Zenon DEF EntryReports, DeadLettered
  <2> QED
      BY <2>2, <2>4, EntryReported, Zenon
<1> QED
    BY <1>1, <1>2, <1>3, <1>4, <1>5, Zenon DEF RelayStep

(* The steps of the sinks ***********************************************)

\* A sink has an event before it, and is one of the relay's.
LEMMA AtFacts ==
    ASSUME Reported, NEW r \in Relays, NEW s, At(r, s)
    PROVE  EventAt(r) \in Events /\ s \in SinkNames /\ Sinks[passes[r].sink] = s
<1>1. /\ passes[r] \in Pass /\ passes[r].sink > 0
      /\ passes[r].todo # << >> /\ passes[r].sink <= Len(Sinks) /\ Sinks[passes[r].sink] = s
    BY Zenon DEF Reported, PassReports, At, Offers, AtSink
<1>2. passes[r].todo \in Seq(Claimed) /\ passes[r].sink \in Nat
    BY <1>1, Zenon DEF Pass
<1>3. Head(passes[r].todo) \in Claimed
    BY <1>1, <1>2, HeadFacts, Zenon
<1>4. passes[r].sink \in 1..Len(Sinks)
    BY <1>1, <1>2, SinkFacts
<1> QED
    BY <1>1, <1>3, <1>4, SinkFacts, Zenon DEF EventAt, Claimed

\* One message arrives.
LEMMA LandsFacts ==
    ASSUME SinkTypes, NEW e \in Events, NEW s \in SinkNames, Lands(e, s),
           content' = content, judged \subseteq judged'
    PROVE  /\ Forward /\ landed'[e][s] = landed[e][s] + 1 /\ landed'[e][s] > 0
           /\ s \in Arrivals'[e]
           /\ \A f \in Events, x \in SinkNames : ~(f = e /\ x = s) => landed'[f][x] = landed[f][x]
<1>1. landed \in [Events -> [SinkNames -> Nat]] /\ landed' = [landed EXCEPT ![e][s] = @ + 1]
    BY Zenon DEF SinkTypes, Lands
<1>2. /\ landed' \in [Events -> [SinkNames -> Nat]]
      /\ landed'[e][s] = landed[e][s] + 1
      /\ \A f \in Events, x \in SinkNames : ~(f = e /\ x = s) => landed'[f][x] = landed[f][x]
    BY ONLY <1>1, e \in Events, s \in SinkNames
<1>3. \A f \in Events, x \in SinkNames : landed[f][x] \in Nat
    BY <1>1, Zenon
<1>4. \A f \in Events, x \in SinkNames : landed[f][x] <= landed'[f][x]
    BY ONLY <1>2, <1>3, e \in Events, s \in SinkNames
<1>5. landed'[e][s] > 0
    BY ONLY <1>2, <1>3, e \in Events, s \in SinkNames
<1>6. s \in Arrivals'[e]
    BY <1>5, Zenon DEF Arrivals
<1> QED
    BY <1>2, <1>4, <1>5, <1>6, Zenon DEF Forward

\* Nothing arrives.
LEMMA QuietForward ==
    ASSUME SinkTypes, landed' = landed, content' = content, judged \subseteq judged'
    PROVE  Forward
<1>1. \A f \in Events, x \in SinkNames : landed[f][x] <= landed[f][x]
    BY DEF SinkTypes
<1> QED
    BY <1>1, Zenon DEF Forward, SinkTypes

\* The server has read messages: each of their events has arrived.
LEMMA FlushedFacts ==
    ASSUME SinkTypes, NEW messages \in Seq(Events), landed' = Flushed(messages),
           content' = content, judged' = judged
    PROVE  /\ Forward
           /\ \A f \in Events, x \in SinkNames : x # "nats" => landed'[f][x] = landed[f][x]
           /\ "nats" \in SinkNames => \A i \in DOMAIN messages : "nats" \in Arrivals'[messages[i]]
<1> DEFINE Of(f) == {i \in DOMAIN messages : messages[i] = f}
<1>1. /\ \A f : Cardinality(Of(f)) \in Nat
      /\ \A i \in DOMAIN messages : Cardinality(Of(messages[i])) > 0
  <2>1. DOMAIN messages = 1..Len(messages) /\ Len(messages) \in Nat
      OBVIOUS
  <2>2. IsFiniteSet(1..Len(messages))
      BY <2>1, FS_Interval
  <2>3. \A f : Of(f) \in SUBSET (1..Len(messages))
      BY <2>1
  <2>4. \A f : IsFiniteSet(Of(f))
      BY <2>2, <2>3, FS_Subset, Zenon
  <2> HIDE DEF Of
  <2>5. \A f : Cardinality(Of(f)) \in Nat /\ (Cardinality(Of(f)) = 0 => Of(f) = {})
      BY <2>4, FS_CardinalityType, FS_EmptySet, Zenon
  <2>6. \A i \in DOMAIN messages : Of(messages[i]) # {}
      BY Zenon DEF Of
  <2>7. \A i \in DOMAIN messages : Cardinality(Of(messages[i])) \in Nat
                                   /\ Cardinality(Of(messages[i])) # 0
      BY <2>5, <2>6, Zenon
  <2>8. \A i \in DOMAIN messages : Cardinality(Of(messages[i])) > 0
      BY <2>7
  <2> QED
      BY <2>5, <2>8, Zenon
<1>2. landed' = [f \in Events |-> [x \in SinkNames |->
                    IF x = "nats" THEN landed[f][x] + Cardinality(Of(f)) ELSE landed[f][x]]]
    BY Zenon DEF Flushed
<1> HIDE DEF Of
<1>3. \A f \in Events, x \in SinkNames : landed[f][x] \in Nat
    BY Zenon DEF SinkTypes
<1>4. \A f \in Events, x \in SinkNames :
        landed'[f][x] = IF x = "nats" THEN landed[f][x] + Cardinality(Of(f)) ELSE landed[f][x]
    BY <1>2, Zenon
<1>5. \A f \in Events, x \in SinkNames : landed'[f][x] \in Nat /\ landed[f][x] <= landed'[f][x]
    BY ONLY <1>1, <1>3, <1>4
<1>6. landed' \in [Events -> [SinkNames -> Nat]]
    BY <1>2, <1>4, <1>5, Zenon
<1>7. ASSUME "nats" \in SinkNames, NEW i \in DOMAIN messages
      PROVE  "nats" \in Arrivals'[messages[i]]
  <2>1. messages[i] \in Events
      OBVIOUS
  <2>2. landed'[messages[i]]["nats"] > 0
      BY ONLY <1>1, <1>3, <1>4, <1>7, <2>1
  <2> QED
      BY <1>7, <2>1, <2>2, Zenon DEF Arrivals
<1> QED
    BY <1>4, <1>5, <1>6, <1>7, Zenon DEF Forward

\* What keeps the sinks' own invariant: only jetstream's messages are tied to others.
LEMMA WorldKept ==
    ASSUME World, Forward, buffered' \in Seq(Events), remembered' = remembered,
           "jetstream" \in SinkNames =>
               \A f \in Events : landed'[f]["jetstream"] = landed[f]["jetstream"],
           \A address \in contacted' : address \in Addresses /\ Allow(address)
    PROVE  World'
<1>1. SinkTypes'
    BY Zenon DEF World, SinkTypes, Forward
<1>2. StoredOnce'
    BY Zenon DEF World, StoredOnce
<1>3. ContactedAllowed'
    BY Zenon DEF ContactedAllowed
<1> QED
    BY <1>1, <1>2, <1>3, Zenon DEF World

\* The webhook sink: it reports an event delivered once its receiver answered, or if
\* there is none; and undeliverable only if it is, or was turned down.
LEMMA WebhookDInv ==
    ASSUME DInv, NEW r \in Relays, DeliverWebhook(r)
    PROVE  DInv'
<1>0. World /\ Reported /\ SinkTypes /\ ContactedAllowed /\ buffered \in Seq(Events)
    BY Zenon DEF DInv, World, SinkTypes
<1>1. PICK e \in Events : e = EventAt(r)
    BY <1>0, AtFacts, Zenon DEF DeliverWebhook
<1>2. /\ "webhook" \in SinkNames /\ Sinks[passes[r].sink] = "webhook"
      /\ content' = content /\ buffered' = buffered /\ remembered' = remembered
    BY <1>0, AtFacts, Zenon DEF DeliverWebhook
<1>3. content[e].callback \in {"none", "unusable", "usable"}
    BY <1>0, Zenon DEF SinkTypes, Content
<1> DEFINE TurnedDown == (~Requestable(e) /\ content[e].callback # "none") \/ e \in judged'
           Outcome ==
               /\ landed' = landed \/ Lands(e, "webhook")
               /\ judged \subseteq judged'
               /\ \A address \in contacted' : address \in Addresses /\ Allow(address)
               /\ \/ \E permanent \in BOOLEAN : Refuse(r, permanent) /\ (permanent => TurnedDown)
                  \/ Take(r) /\ (content[e].callback = "none" \/ Lands(e, "webhook"))
<1>4. Outcome
  <2>1. CASE content[e].callback = "none" /\ Take(r) /\ UNCHANGED <<landed, contacted, judged>>
      BY <1>0, <2>1, Zenon DEF ContactedAllowed
  <2>2. CASE content[e].callback # "none" /\ ~Requestable(e) /\ Refuse(r, TRUE)
             /\ UNCHANGED <<landed, contacted, judged>>
      BY <1>0, <2>2, Zenon DEF ContactedAllowed
  <2>3. ASSUME NEW address \in Addresses, Allow(address),
               contacted' = contacted \cup {address}, Send(r, e)
        PROVE  Outcome
    <3>1. \A a \in contacted' : a \in Addresses /\ Allow(a)
        BY <1>0, <2>3, Zenon DEF ContactedAllowed
    <3>2. /\ landed' = landed \/ Lands(e, "webhook")
          /\ judged' = judged \/ judged' = judged \cup {e}
        BY <2>3, Zenon DEF Send
    <3>3. CASE Refuse(r, FALSE)
        BY <3>1, <3>2, <3>3, Zenon
    <3>4. ASSUME NEW status \in Statuses, Lands(e, "webhook"),
                 CASE Success(status) -> Take(r) /\ UNCHANGED judged
                   [] Redirect(status) -> Refuse(r, TRUE) /\ judged' = judged \cup {e}
                   [] OTHER -> /\ Refuse(r, ~RetryableStatus(status))
                               /\ judged' = IF RetryableStatus(status) THEN judged
                                            ELSE judged \cup {e}
          PROVE  Outcome
      <4>1. status \in 100..599
          BY <3>4, SinksAssumption, Zenon
      <4>2. ~(Success(status) /\ Redirect(status))
          BY <4>1 DEF Success, Redirect
      <4>3. CASE Success(status)
          BY <3>1, <3>2, <3>4, <4>2, <4>3, Zenon
      <4>4. CASE ~Success(status) /\ Redirect(status)
          BY <3>1, <3>2, <3>4, <4>4, Zenon
      <4>5. CASE ~Success(status) /\ ~Redirect(status)
        <5>1. PICK permanent \in BOOLEAN : permanent = ~RetryableStatus(status)
            BY Zenon
        <5>2. Refuse(r, permanent) /\ (permanent => e \in judged')
            BY <3>4, <4>5, <5>1, Zenon
        <5> QED
            BY <3>1, <3>2, <3>4, <5>2, Zenon
      <4> QED
          BY <4>3, <4>4, <4>5, Zenon
    <3> QED
        BY <2>3, <3>3, <3>4, Zenon DEF Send
  <2>4. CASE Refuse(r, TRUE) /\ judged' = judged \cup {e} /\ UNCHANGED <<landed, contacted>>
      BY <1>0, <2>4, Zenon DEF ContactedAllowed
  <2> QED
      BY <1>1, <2>1, <2>2, <2>3, <2>4, Zenon DEF DeliverWebhook
<1>5. Forward /\ (Lands(e, "webhook") => "webhook" \in Arrivals'[e])
      /\ ("jetstream" \in SinkNames =>
             \A f \in Events : landed'[f]["jetstream"] = landed[f]["jetstream"])
  <2>1. "webhook" # "jetstream"
      OBVIOUS
  <2>2. CASE Lands(e, "webhook")
    <3>1. judged \subseteq judged'
        BY <1>4, Zenon
    <3>2. /\ Forward /\ "webhook" \in Arrivals'[e]
          /\ \A f \in Events, x \in SinkNames :
                 ~(f = e /\ x = "webhook") => landed'[f][x] = landed[f][x]
        BY <1>0, <1>2, <2>2, <3>1, LandsFacts, Zenon
    <3> QED
        BY <2>1, <3>2, Zenon
  <2>3. CASE landed' = landed /\ ~Lands(e, "webhook")
      BY <1>0, <1>2, <1>4, <2>3, QuietForward, Zenon
  <2> QED
      BY <1>4, <2>2, <2>3, Zenon
<1>6. World' /\ Growth
    BY <1>0, <1>2, <1>4, <1>5, WorldKept, ForwardGrows, Zenon
<1>7. Reported'
  <2>1. ASSUME NEW permanent \in BOOLEAN, Refuse(r, permanent),
               permanent => TurnedDown
        PROVE  Reported'
    <3>1. permanent => e \in Lost'
        BY <1>2, <1>3, <2>1, Zenon DEF Lost, Requestable
    <3> QED
        BY <1>0, <1>1, <1>6, <2>1, <3>1, RefuseReported, Zenon
  <2>2. CASE Take(r) /\ (content[e].callback = "none" \/ Lands(e, "webhook"))
    <3>1. "webhook" \in Arrivals'[e]
        BY <1>2, <1>5, <2>2, Zenon DEF Arrivals
    <3> QED
        BY <1>0, <1>1, <1>2, <1>6, <2>2, <3>1, TakeReported, Zenon
  <2> QED
      BY <1>4, <2>1, <2>2, Zenon
<1> QED
    BY <1>6, <1>7, Zenon DEF DInv

\* The Redis sink: it reports an event delivered once the broker has it.
LEMMA RedisDInv ==
    ASSUME DInv, NEW r \in Relays, DeliverRedis(r)
    PROVE  DInv'
<1>0. World /\ Reported /\ SinkTypes /\ ContactedAllowed /\ buffered \in Seq(Events)
    BY Zenon DEF DInv, World, SinkTypes
<1>1. PICK e \in Events : e = EventAt(r)
    BY <1>0, AtFacts, Zenon DEF DeliverRedis
<1>2. /\ "redis" \in SinkNames /\ Sinks[passes[r].sink] = "redis"
      /\ content' = content /\ buffered' = buffered /\ remembered' = remembered
      /\ judged' = judged /\ contacted' = contacted
    BY <1>0, AtFacts, Zenon DEF DeliverRedis
<1>3. \/ landed' = landed /\ Refuse(r, TRUE) /\ ~content[e].renders
      \/ landed' = landed /\ Refuse(r, FALSE)
      \/ Lands(e, "redis") /\ Take(r)
    BY <1>1, Zenon DEF DeliverRedis
<1>4. \A address \in contacted' : address \in Addresses /\ Allow(address)
    BY <1>0, <1>2, Zenon DEF ContactedAllowed
<1>5. CASE Lands(e, "redis") /\ Take(r)
  <2>1. /\ Forward /\ "redis" \in Arrivals'[e]
        /\ \A f \in Events, x \in SinkNames :
               ~(f = e /\ x = "redis") => landed'[f][x] = landed[f][x]
      BY <1>0, <1>2, <1>5, LandsFacts, Zenon
  <2>2. "redis" # "jetstream"
      OBVIOUS
  <2>3. World' /\ Growth
      BY <1>0, <1>2, <1>4, <2>1, <2>2, WorldKept, ForwardGrows, Zenon
  <2>4. Reported'
      BY <1>0, <1>1, <1>2, <1>5, <2>1, <2>3, TakeReported, Zenon
  <2> QED
      BY <2>3, <2>4, Zenon DEF DInv
<1>6. ASSUME landed' = landed, NEW permanent \in BOOLEAN, Refuse(r, permanent),
             permanent => ~content[e].renders
      PROVE  DInv'
  <2>1. Forward
      BY <1>0, <1>2, <1>6, QuietForward, Zenon
  <2>2. World' /\ Growth
      BY <1>0, <1>2, <1>4, <1>6, <2>1, WorldKept, ForwardGrows, Zenon
  <2>3. permanent => e \in Lost'
      BY <1>2, <1>6, Zenon DEF Lost
  <2>4. Reported'
      BY <1>0, <1>1, <1>6, <2>2, <2>3, RefuseReported, Zenon
  <2> QED
      BY <2>2, <2>4, Zenon DEF DInv
<1> QED
    BY <1>3, <1>5, <1>6, Zenon

\* The NATS sink: it reports an event delivered only after the server has read
\* everything the client had buffered, that event last.
LEMMA NATSDInv ==
    ASSUME DInv, NEW r \in Relays, DeliverNATS(r)
    PROVE  DInv'
<1>0. World /\ Reported /\ SinkTypes /\ ContactedAllowed /\ buffered \in Seq(Events)
    BY Zenon DEF DInv, World, SinkTypes
<1>1. PICK e \in Events : e = EventAt(r)
    BY <1>0, AtFacts, Zenon DEF DeliverNATS
<1>2. /\ "nats" \in SinkNames /\ Sinks[passes[r].sink] = "nats"
      /\ content' = content /\ remembered' = remembered
      /\ judged' = judged /\ contacted' = contacted
    BY <1>0, AtFacts, Zenon DEF DeliverNATS
<1>3. PICK messages : messages = Append(buffered, e)
    BY Zenon
<1>4. messages \in Seq(Events) /\ \E i \in DOMAIN messages : messages[i] = e
  <2>1. messages \in Seq(Events) /\ Len(buffered) + 1 \in DOMAIN messages
        /\ messages[Len(buffered) + 1] = e
      BY <1>0, <1>3
  <2> QED
      BY <2>1, Zenon
<1>5. \/ /\ landed' = landed /\ buffered' = buffered
         /\ Refuse(r, TRUE) /\ (~content[e].renders \/ PublishFailed(e))
      \/ landed' = landed /\ buffered' \in {buffered, messages} /\ Refuse(r, FALSE)
      \/ landed' = Flushed(messages) /\ buffered' = << >> /\ Take(r)
    BY <1>1, <1>3, Zenon DEF DeliverNATS, Publish
<1>6. << >> \in Seq(Events)
    OBVIOUS
<1>7. \A address \in contacted' : address \in Addresses /\ Allow(address)
    BY <1>0, <1>2, Zenon DEF ContactedAllowed
<1>8. CASE landed' = Flushed(messages) /\ buffered' = << >> /\ Take(r)
  <2>1. /\ Forward /\ "nats" \in Arrivals'[e]
        /\ \A f \in Events, x \in SinkNames : x # "nats" => landed'[f][x] = landed[f][x]
      BY <1>0, <1>2, <1>4, <1>8, FlushedFacts, Zenon
  <2>2. "nats" # "jetstream"
      OBVIOUS
  <2>3. World' /\ Growth
      BY <1>0, <1>2, <1>6, <1>7, <1>8, <2>1, <2>2, WorldKept, ForwardGrows, Zenon
  <2>4. Reported'
      BY <1>0, <1>1, <1>2, <1>8, <2>1, <2>3, TakeReported, Zenon
  <2> QED
      BY <2>3, <2>4, Zenon DEF DInv
<1>9. ASSUME landed' = landed, buffered' \in {buffered, messages},
             NEW permanent \in BOOLEAN, Refuse(r, permanent),
             permanent => ~content[e].renders \/ PublishFailed(e)
      PROVE  DInv'
  <2>1. Forward /\ buffered' \in Seq(Events)
      BY <1>0, <1>2, <1>4, <1>9, QuietForward, Zenon
  <2>2. World' /\ Growth
      BY <1>0, <1>2, <1>7, <1>9, <2>1, WorldKept, ForwardGrows, Zenon
  <2>3. permanent => e \in Lost'
      BY <1>2, <1>9, Zenon DEF Lost, PublishFailed
  <2>4. Reported'
      BY <1>0, <1>1, <1>9, <2>2, <2>3, RefuseReported, Zenon
  <2> QED
      BY <2>2, <2>4, Zenon DEF DInv
<1> QED
    BY <1>5, <1>8, <1>9, Zenon

\* The JetStream sink: an acknowledged publication is a message the stream has, from
\* this attempt or an earlier one, and the stream keeps no second one.
LEMMA JetStreamDInv ==
    ASSUME DInv, NEW r \in Relays, DeliverJetStream(r)
    PROVE  DInv'
<1>0. World /\ Reported /\ SinkTypes /\ ContactedAllowed /\ StoredOnce
    BY Zenon DEF DInv, World
<1>1. PICK e \in Events : e = EventAt(r)
    BY <1>0, AtFacts, Zenon DEF DeliverJetStream
<1>2. /\ "jetstream" \in SinkNames /\ Sinks[passes[r].sink] = "jetstream"
      /\ content' = content /\ buffered' = buffered
      /\ judged' = judged /\ contacted' = contacted
    BY <1>0, AtFacts, Zenon DEF DeliverJetStream
<1>3. \/ /\ landed' = landed /\ remembered' = remembered
         /\ Refuse(r, TRUE) /\ (~content[e].renders \/ PublishFailed(e))
      \/ landed' = landed /\ remembered' = remembered /\ Refuse(r, FALSE)
      \/ Store(e) /\ (Take(r) \/ Refuse(r, FALSE))
    BY <1>1, Zenon DEF DeliverJetStream
<1>4. \A f \in Events : landed[f]["jetstream"] = IF f \in remembered THEN 1 ELSE 0
    BY <1>0, <1>2, Zenon DEF StoredOnce
<1>5. CASE Store(e)
  <2>1. /\ Forward /\ "jetstream" \in Arrivals'[e]
        /\ \A f \in Events : landed'[f]["jetstream"] = IF f \in remembered' THEN 1 ELSE 0
    <3>1. CASE e \notin remembered
      <4>1. Lands(e, "jetstream") /\ remembered' = remembered \cup {e}
          BY <1>5, <3>1, Zenon DEF Store
      <4>2. /\ Forward /\ landed'[e]["jetstream"] = landed[e]["jetstream"] + 1
            /\ "jetstream" \in Arrivals'[e]
            /\ \A f \in Events, x \in SinkNames :
                   ~(f = e /\ x = "jetstream") => landed'[f][x] = landed[f][x]
          BY <1>0, <1>2, <4>1, LandsFacts, Zenon
      <4>3. landed'[e]["jetstream"] = 1
          BY ONLY <1>4, <3>1, <4>2, e \in Events
      <4>4. \A f \in Events : f # e => landed'[f]["jetstream"] = landed[f]["jetstream"]
          BY <1>2, <4>2, Zenon
      <4> QED
          BY <1>4, <4>1, <4>2, <4>3, <4>4, Zenon
    <3>2. CASE e \in remembered
      <4>1. landed' = landed /\ remembered' = remembered
          BY <1>5, <3>2, Zenon DEF Store
      <4>2. landed'[e]["jetstream"] > 0
          BY ONLY <1>4, <3>2, <4>1, e \in Events
      <4>3. "jetstream" \in Arrivals'[e]
          BY <1>2, <4>2, Zenon DEF Arrivals
      <4>4. Forward
          BY <1>0, <1>2, <4>1, QuietForward, Zenon
      <4> QED
          BY <1>4, <4>1, <4>3, <4>4, Zenon
    <3> QED
        BY <3>1, <3>2, Zenon
  <2>2. World'
    <3>1. SinkTypes'
        BY <1>0, <1>2, <2>1, Zenon DEF SinkTypes, Forward
    <3>2. StoredOnce' /\ ContactedAllowed'
        BY <1>0, <1>2, <2>1, Zenon DEF StoredOnce, ContactedAllowed
    <3> QED
        BY <3>1, <3>2, Zenon DEF World
  <2>3. Growth
      BY <1>0, <2>1, ForwardGrows, Zenon
  <2>4. CASE Take(r)
    <3>1. Reported'
        BY <1>0, <1>1, <1>2, <2>1, <2>3, <2>4, TakeReported, Zenon
    <3> QED
        BY <2>2, <3>1, Zenon DEF DInv
  <2>5. CASE Refuse(r, FALSE)
    <3>1. Reported'
        BY <1>0, <2>3, <2>5, RefuseReported, Zenon
    <3> QED
        BY <2>2, <3>1, Zenon DEF DInv
  <2>6. ASSUME landed' = landed, remembered' = remembered,
               Refuse(r, TRUE), ~content[e].renders \/ PublishFailed(e)
        PROVE  DInv'
    <3>1. e \in Lost'
        BY <1>2, <2>6, Zenon DEF Lost, PublishFailed
    <3>2. Reported'
        BY <1>0, <1>1, <2>3, <2>6, <3>1, RefuseReported, Zenon
    <3> QED
        BY <2>2, <3>2, Zenon DEF DInv
  <2>7. CASE landed' = landed /\ remembered' = remembered /\ Refuse(r, FALSE)
      BY <2>5, <2>7, Zenon
  <2> QED
      BY <1>3, <2>4, <2>5, <2>6, <2>7, Zenon
<1>6. ASSUME landed' = landed, remembered' = remembered,
             NEW permanent \in BOOLEAN, Refuse(r, permanent),
             permanent => ~content[e].renders \/ PublishFailed(e)
      PROVE  DInv'
  <2>1. Forward
      BY <1>0, <1>2, <1>6, QuietForward, Zenon
  <2>2. buffered' \in Seq(Events) /\ \A address \in contacted' : address \in Addresses /\ Allow(address)
      BY <1>0, <1>2, Zenon DEF SinkTypes, ContactedAllowed
  <2>3. World' /\ Growth
      BY <1>0, <1>6, <2>1, <2>2, WorldKept, ForwardGrows, Zenon
  <2>4. permanent => e \in Lost'
      BY <1>2, <1>6, Zenon DEF Lost, PublishFailed
  <2>5. Reported'
      BY <1>0, <1>1, <1>6, <2>3, <2>4, RefuseReported, Zenon
  <2> QED
      BY <2>3, <2>5, Zenon DEF DInv
<1> QED
    BY <1>3, <1>5, <1>6, Zenon

\* Abandoned writes, the NATS connection, and the relay's own steps.
LEMMA OtherDInv ==
    ASSUME DInv, \/ RelayStep \/ Drain \/ Disconnect \/ Reconnect
                 \/ \E e \in Events : WriteEnds(e)
                 \/ UNCHANGED <<relayVars, sinkVars>>
    PROVE  DInv'
<1>0. /\ World /\ Reported /\ SinkTypes /\ ContactedAllowed /\ buffered \in Seq(Events)
      /\ << >> \in Seq(Events)
    BY DEF DInv, World, SinkTypes
<1>1. /\ content' = content /\ remembered' = remembered /\ judged' = judged
      /\ contacted' = contacted
    BY Zenon DEF RelayStep, Drain, Disconnect, Reconnect, WriteEnds, sinkVars
<1>2. RelayStep \/ (entries' = entries /\ passes' = passes)
    BY Zenon DEF Drain, Disconnect, Reconnect, WriteEnds, relayVars
<1>3. /\ buffered' \in {buffered, << >>}
      /\ \/ landed' = landed
         \/ landed' = Flushed(buffered)
         \/ \E e \in Events : writes[e] > 0 /\ Lands(e, "redis")
    BY Zenon DEF RelayStep, Drain, Disconnect, Reconnect, WriteEnds, sinkVars
<1>4. \A address \in contacted' : address \in Addresses /\ Allow(address)
    BY <1>0, <1>1, Zenon DEF ContactedAllowed
<1>5. /\ Forward
      /\ "jetstream" \in SinkNames =>
             \A f \in Events : landed'[f]["jetstream"] = landed[f]["jetstream"]
  <2>1. CASE landed' = landed
      BY <1>0, <1>1, <2>1, QuietForward, Zenon
  <2>2. CASE landed' = Flushed(buffered)
    <3>1. "jetstream" # "nats"
        OBVIOUS
    <3> QED
        BY <1>0, <1>1, <2>2, <3>1, FlushedFacts, Zenon
  <2>3. ASSUME NEW e \in Events, Lands(e, "redis"), "redis" \in SinkNames
        PROVE  /\ Forward
               /\ "jetstream" \in SinkNames =>
                      \A f \in Events : landed'[f]["jetstream"] = landed[f]["jetstream"]
    <3>1. "jetstream" # "redis"
        OBVIOUS
    <3>2. /\ Forward
          /\ \A f \in Events, x \in SinkNames :
                 ~(f = e /\ x = "redis") => landed'[f][x] = landed[f][x]
        BY <1>0, <1>1, <2>3, LandsFacts, Zenon
    <3> QED
        BY <3>1, <3>2, Zenon
  <2>4. ASSUME NEW e \in Events, Lands(e, "redis"), "redis" \notin SinkNames
        PROVE  landed' = landed
    <3>1. landed \in [Events -> [SinkNames -> Nat]] /\ landed' = [landed EXCEPT ![e]["redis"] = @ + 1]
        BY <1>0, <2>4, Zenon DEF SinkTypes, Lands
    <3> QED
        BY ONLY <2>4, <3>1
  <2> QED
      BY <1>3, <2>1, <2>2, <2>3, <2>4, Zenon
<1>6. World' /\ Growth
    BY <1>0, <1>1, <1>3, <1>4, <1>5, WorldKept, ForwardGrows, Zenon
<1>7. Reported'
    BY <1>0, <1>2, <1>6, RelayReported, StillReported, Zenon
<1> QED
    BY <1>6, <1>7, Zenon DEF DInv

\* Nothing has arrived, nobody was contacted and nothing is recorded yet.
LEMMA InitDInv == RelayInit /\ SinksInit => DInv
<1> SUFFICES ASSUME RelayInit, SinksInit PROVE DInv
    BY Zenon
<1>1. World
  <2>1. SinkTypes
    <3>1. << >> \in Seq(Events) /\ 0 \in Nat
        OBVIOUS
    <3> QED
        BY <3>1, Zenon DEF SinksInit, SinkTypes
  <2>2. StoredOnce /\ ContactedAllowed
      BY Zenon DEF SinksInit, StoredOnce, ContactedAllowed
  <2> QED
      BY <2>1, <2>2, Zenon DEF World
<1>2. OutboxEntry \in Entry /\ OutboxEntry.accepted = {} /\ OutboxEntry.next # "none"
    BY DEF OutboxEntry, Entry
<1>3. \A e \in Events : EntryReports(e, OutboxEntry, Arrivals, Lost)
    BY <1>2, Zenon DEF EntryReports, DeadLettered
<1>4. PassReports(FanOut(<< >>), Arrivals, Lost)
  <2>1. << >> \in Seq(Claimed) /\ DOMAIN << >> = {}
      OBVIOUS
  <2> QED
      BY <2>1, FanOutReports, Zenon
<1>5. FanOut(<< >>) \in Pass
    BY <1>4, Zenon DEF PassReports
<1>6. Reported
    BY <1>2, <1>3, <1>4, <1>5, Zenon DEF RelayInit, Reported
<1> QED
    BY <1>1, <1>6, Zenon DEF DInv

\* The invariant of relays and sinks together; passes may outlast their leases.
THEOREM DeliveryInvariance == SinksSpec => []DInv
<1>1. RelayInit /\ SinksInit => DInv
    BY InitDInv, Zenon
<1>2. DInv /\ [SinksNext]_<<relayVars, sinkVars>> => DInv'
    BY WebhookDInv, RedisDInv, NATSDInv, JetStreamDInv, OtherDInv, Zenon DEF SinksNext, Deliver
<1> QED
    BY <1>1, <1>2, PTL DEF SinksSpec

\* A delivery that is recorded has happened: the destination has the event, also
\* behind a client that only buffers, and a stream keeps it once however often it is
\* published (webhook, Redis, NATS and JetStream sinks under relay.go fanOut).
THEOREM AcceptedHaveLanded == SinksSpec => []AcceptedLanded
<1>1. DInv => AcceptedLanded
  <2> SUFFICES ASSUME DInv PROVE AcceptedLanded
      BY Zenon
  <2>1. \A e \in Events : \A s \in entries[e].accepted :
            landed[e][s] > 0 \/ (s = "webhook" /\ content[e].callback = "none")
      BY Zenon DEF DInv, Reported, EntryReports, Arrivals
  <2>2. "jetstream" \in SinkNames => \A e \in Events : landed[e]["jetstream"] <= 1
      BY DEF DInv, World, StoredOnce
  <2> QED
      BY <2>1, <2>2, Zenon DEF AcceptedLanded
<1> QED
    BY <1>1, DeliveryInvariance, PTL

\* The kinds of IPv4 and of IPv6 addresses the policy tells apart.
Kinds(form) ==
    {"public", "unspecified", "loopback", "link_local", "multicast", "private"} \cup
    (IF form = "ipv6" THEN {} ELSE {"shared", "reserved", "broadcast"})

\* Every address is a plain IPv4 or IPv6 one, or an IPv4 one written as IPv6.
Classified ==
    \A address \in Addresses :
        address.form \in {"ipv4", "ipv6"} \cup Embedded /\ address.kind \in Kinds(address.form)

\* The policy permits public addresses only, in every notation.
LEMMA AllowedArePublic ==
    ASSUME Classified, NEW address \in Addresses, Allow(address)
    PROVE  address.kind = "public"
<1>1. {"form", "kind"} \subseteq DOMAIN address
    BY SinksAssumption, Zenon
<1>2. address.form \in {"ipv4", "ipv6"} \cup Embedded /\ address.kind \in Kinds(address.form)
    BY Zenon DEF Classified
<1>3. PICK ip : ip = UnwrapIPv4(address)
    BY Zenon
<1>4. CASE address.form = "ipv6"
  <2>1. ip = address
      BY <1>3, <1>4 DEF UnwrapIPv4, Embedded
  <2> QED
      BY <1>2, <1>3, <1>4, <2>1 DEF Allow, Kinds
<1>5. CASE address.form # "ipv6"
  <2>1. ip.form = "ipv4" /\ ip.kind = address.kind
      BY <1>1, <1>2, <1>3, <1>5 DEF UnwrapIPv4, Embedded
  <2> QED
      BY <1>2, <1>3, <1>5, <2>1 DEF Allow, Kinds
<1> QED
    BY <1>4, <1>5, Zenon

\* Only public addresses are contacted, and an event is dead-lettered before its last
\* attempt only if it cannot be sent or was turned down, never for an outage
\* (policy.go, webhook/errors.go, the sinks' retryable errors, relay.go settle).
THEOREM DeliveriesJudgedRightly ==
    ASSUME Classified
    PROVE  SinksSpec => []JudgedRightly
<1>1. DInv => JudgedRightly
  <2> SUFFICES ASSUME DInv PROVE JudgedRightly
      BY Zenon
  <2>1. OnlyPublicContacted
      BY AllowedArePublic, Zenon DEF DInv, World, ContactedAllowed, OnlyPublicContacted
  <2>2. OutagesNeverCondemn
      BY Zenon DEF DInv, Reported, EntryReports, Lost, OutagesNeverCondemn
  <2> QED
      BY <2>1, <2>2, Zenon DEF JudgedRightly
<1> QED
    BY <1>1, DeliveryInvariance, PTL
=============================================================================
