---------------------------- MODULE DeliverySinks ----------------------------
(***************************************************************************)
(* The sinks a relay fans out to: the webhook sink, the Redis stream sink  *)
(* and the two NATS sinks.  OutboxRelay takes a sink as any verdict it may *)
(* report; here the verdict follows from what the sink did and what came   *)
(* back, and the module follows what reached the destination meanwhile.    *)
(*                                                                         *)
(* A destination may take a message whose sink reports a failure (an       *)
(* answer is lost, an abandoned write lands late).                         *)
(***************************************************************************)
EXTENDS OutboxRelay

CONSTANTS Addresses,   \* what a callback's host may resolve to, and in which notation
          Statuses,    \* the answers of a receiver
          MaxOutages   \* bound: times the NATS connection is lost

ASSUME SinksAssumption ==
    /\ \A address \in Addresses : {"form", "kind"} \subseteq DOMAIN address
    /\ Statuses \subseteq 100..599
    /\ MaxOutages \in Nat

VARIABLES
    content,     \* what matters of each event, fixed when it was recorded
    landed,      \* history variable: how many messages of an event each destination got
    contacted,   \* history variable: the addresses a request was sent to
    judged,      \* the events a receiver or the destination policy turned down
    writes,      \* the writes the Redis sink has given up waiting for
    link,        \* the NATS connection
    buffered,    \* the messages the NATS client has yet to send
    remembered,  \* the message IDs in the stream's duplicate window
    outages

sinkVars ==
    <<content, landed, contacted, judged, writes, link, buffered, remembered, outages>>

\* renders: the event can be turned into a message at all.
Content ==
    [callback : {"none", "unusable", "usable"}, renders : BOOLEAN, oversize : BOOLEAN]

SinksInit ==
    /\ content \in [Events -> Content]
    /\ landed = [e \in Events |-> [s \in SinkNames |-> 0]]
    /\ contacted = {}
    /\ judged = {}
    /\ writes = [e \in Events |-> 0]
    /\ link \in {"never", "up"}
    /\ buffered = << >>
    /\ remembered = {}
    /\ outages = 0

At(r, s) == Offers(r) /\ Sinks[passes[r].sink] = s
EventAt(r) == Head(passes[r].todo).event

Lands(e, s) == landed' = [landed EXCEPT ![e][s] = @ + 1]

(* The webhook sink *****************************************************)

Embedded == {"mapped", "nat64", "6to4"}   \* IPv4 addresses written as IPv6 ones

UnwrapIPv4(address) ==
    IF address.form \in Embedded THEN [address EXCEPT !.form = "ipv4"] ELSE address

\* DefaultPolicy, on the address the host's name resolved to for this connection.
\* What an embedding stands for cannot be seen in it.
Allow(address) ==
    LET ip == UnwrapIPv4(address) IN
    CASE ip.form = "ipv4" -> ip.kind \notin {"unspecified", "loopback", "link_local", "multicast",
                                             "private", "shared", "reserved", "broadcast"}
      [] ip.form = "ipv6" -> ip.kind \notin {"unspecified", "loopback", "link_local", "multicast",
                                             "private"}
      [] OTHER -> TRUE

RetryableStatus(status) ==
    \/ status \in {408, 429}
    \/ status < 400
    \/ status >= 500

Success(status) == 200 <= status /\ status < 300

\* The client refuses a redirect rather than follow it.
Redirect(status) == status \in {301, 302, 303, 307, 308}

\* An address that is no http URL, or parameters that are no JSON.
Requestable(e) == content[e].callback = "usable" /\ content[e].renders

\* What became of a request that was sent to an address the policy permits.
Send(r, e) ==
    \/ /\ Refuse(r, FALSE)                     \* no connection
       /\ UNCHANGED <<landed, judged>>
    \/ /\ Refuse(r, FALSE)                     \* no answer in time
       /\ Lands(e, "webhook") /\ UNCHANGED judged
    \/ \E status \in Statuses :
          /\ Lands(e, "webhook")
          /\ CASE Success(status) -> Take(r) /\ UNCHANGED judged
               [] Redirect(status) -> Refuse(r, TRUE) /\ judged' = judged \cup {e}
               [] OTHER -> /\ Refuse(r, ~RetryableStatus(status))
                           /\ judged' = IF RetryableStatus(status) THEN judged ELSE judged \cup {e}

\* An event without a callback has reached everywhere it was to go.
DeliverWebhook(r) ==
    LET e == EventAt(r) IN
    /\ At(r, "webhook")
    /\ \/ /\ content[e].callback = "none"
          /\ Take(r) /\ UNCHANGED <<landed, contacted, judged>>
       \/ /\ content[e].callback # "none" /\ ~Requestable(e)
          /\ Refuse(r, TRUE) /\ UNCHANGED <<landed, contacted, judged>>
       \/ /\ Requestable(e)
          /\ \E address \in Addresses :
                \/ /\ Allow(address)
                   /\ contacted' = contacted \cup {address}
                   /\ Send(r, e)
                \/ /\ ~Allow(address)
                   /\ Refuse(r, TRUE)
                   /\ judged' = judged \cup {e}
                   /\ UNCHANGED <<landed, contacted>>
    /\ UNCHANGED <<content, writes, link, buffered, remembered, outages>>

(* The Redis sink *******************************************************)

\* Every failure of the broker is worth another attempt.  A write that is not
\* answered in time is abandoned, not cancelled.  What the Redis client retries by
\* itself within one write is part of that write.
DeliverRedis(r) ==
    LET e == EventAt(r) IN
    /\ At(r, "redis")
    /\ \/ ~content[e].renders /\ Refuse(r, TRUE) /\ UNCHANGED <<landed, writes>>
       \/ /\ content[e].renders
          /\ \/ Take(r) /\ Lands(e, "redis") /\ UNCHANGED writes
             \/ Refuse(r, FALSE) /\ UNCHANGED <<landed, writes>>
             \/ /\ Refuse(r, FALSE)
                /\ writes' = [writes EXCEPT ![e] = @ + 1] /\ UNCHANGED landed
    /\ UNCHANGED <<content, contacted, judged, link, buffered, remembered, outages>>

\* An abandoned write reaches the broker after all, or never does.
WriteEnds(e) ==
    /\ writes[e] > 0
    /\ writes' = [writes EXCEPT ![e] = @ - 1]
    /\ Lands(e, "redis") \/ UNCHANGED landed
    /\ UNCHANGED <<relayVars, content, contacted, judged, link, buffered, remembered, outages>>

(* The NATS sinks *******************************************************)

\* Mutant: what a connection that was never made cannot carry is undeliverable.
PermanentHeaders(e) == link = "never" \/ content[e].oversize

\* What the client refuses for good; before its first connect it refuses every
\* message, for not knowing the server, and that passes.
PublishFailed(e) == link # "never" /\ content[e].oversize

\* What the server got once it has read the whole buffer.
Flushed(messages) ==
    [e \in Events |-> [s \in SinkNames |->
        IF s = "nats" THEN landed[e][s] + Cardinality({i \in DOMAIN messages : messages[i] = e})
        ELSE landed[e][s]]]

\* Mutant: the client taking the message is enough.
PublishUnflushed(r, e) ==
    /\ Take(r)
    /\ buffered' = Append(buffered, e)
    /\ UNCHANGED landed

\* The client takes the message, connected or not; the sink then waits for the
\* server to have read all of it.
Publish(r, e) ==
    \/ /\ link = "up"
       /\ Take(r)
       /\ landed' = Flushed(Append(buffered, e))
       /\ buffered' = << >>
    \/ /\ Refuse(r, FALSE)
       /\ buffered' = Append(buffered, e)
       /\ UNCHANGED landed

DeliverNATS(r) ==
    LET e == EventAt(r) IN
    /\ At(r, "nats")
    /\ \/ /\ ~content[e].renders \/ PublishFailed(e)
          /\ Refuse(r, TRUE) /\ UNCHANGED <<landed, buffered>>
       \/ /\ content[e].renders /\ ~PublishFailed(e)
          /\ \/ Refuse(r, FALSE) /\ UNCHANGED <<landed, buffered>>
             \/ link # "never" /\ Publish(r, e)
    /\ UNCHANGED <<content, contacted, judged, writes, link, remembered, outages>>

\* A stream keeps a message unless it has the event in its duplicate window.
Store(e) ==
    \/ /\ e \notin remembered
       /\ Lands(e, "jetstream")
       /\ remembered' = remembered \cup {e}
    \/ e \in remembered /\ UNCHANGED <<landed, remembered>>

\* One publication, which a stream acknowledges, acknowledges in vain, or no
\* stream takes.
DeliverJetStream(r) ==
    LET e == EventAt(r) IN
    /\ At(r, "jetstream")
    /\ \/ /\ ~content[e].renders \/ PublishFailed(e)
          /\ Refuse(r, TRUE) /\ UNCHANGED <<landed, remembered>>
       \/ /\ content[e].renders /\ ~PublishFailed(e)
          /\ \/ Refuse(r, FALSE) /\ UNCHANGED <<landed, remembered>>
             \/ link = "up" /\ (Take(r) \/ Refuse(r, FALSE)) /\ Store(e)
    /\ UNCHANGED <<content, contacted, judged, writes, link, buffered, outages>>

\* The client sends what it has buffered.
Drain ==
    /\ link = "up" /\ buffered # << >>
    /\ landed' = Flushed(buffered)
    /\ buffered' = << >>
    /\ UNCHANGED <<relayVars, content, contacted, judged, writes, link, remembered, outages>>

\* Whatever was under way is lost with the connection.
Disconnect ==
    /\ link = "up" /\ outages < MaxOutages
    /\ link' = "down"
    /\ outages' = outages + 1
    /\ buffered' \in {buffered, << >>}
    /\ UNCHANGED <<relayVars, content, landed, contacted, judged, writes, remembered>>

Reconnect ==
    /\ link # "up"
    /\ link' = "up"
    /\ UNCHANGED <<relayVars, content, landed, contacted, judged, writes, buffered, remembered, outages>>

(* The specification ****************************************************)

Deliver(r) == DeliverWebhook(r) \/ DeliverRedis(r) \/ DeliverNATS(r) \/ DeliverJetStream(r)

\* What the relay does besides.
RelayStep ==
    /\ \/ \E r \in Relays : ClaimDueEvents(r) \/ Skip(r) \/ Settle(r) \/ Unsettled(r) \/ Crash(r)
       \/ \E e \in Events : BecomeDue(e) \/ Lapse(e)
    /\ UNCHANGED sinkVars

SinksNext ==
    \/ RelayStep
    \/ \E r \in Relays : Deliver(r)
    \/ \E e \in Events : WriteEnds(e)
    \/ Drain \/ Disconnect \/ Reconnect

SinksSpec == RelayInit /\ SinksInit /\ [][SinksNext]_<<relayVars, sinkVars>>

-----------------------------------------------------------------------------
(* Properties ***********************************************************)

\* A delivery a sink reported and the relay recorded has happened: the
\* destination has the event, also where a client only buffers what it is given
\* (NATS publish and flush), unless the event names no destination.  And JetStream
\* keeps an event once while its duplicate window lasts, whatever is retried after
\* lost acknowledgements, crashes and refused settlements.
AcceptedLanded ==
    /\ \A e \in Events : \A s \in entries[e].accepted :
         landed[e][s] > 0 \/ (s = "webhook" /\ content[e].callback = "none")
    /\ "jetstream" \in SinkNames => \A e \in Events : landed[e]["jetstream"] <= 1

\* However a callback's host resolves from one attempt to the next, and in
\* whatever notation, only public addresses are contacted (the policy at dial time).
OnlyPublicContacted ==
    \A address \in contacted : address.kind = "public"

\* No condition of a broker or the network costs an event its attempts: it is
\* dead-lettered early only if it cannot be sent or the receiver or the policy
\* turned it down.
OutagesNeverCondemn ==
    \A e \in Events :
        (DeadLettered(entries[e]) /\ entries[e].attempts < MaxAttempts) =>
            \/ ~content[e].renders
            \/ content[e].oversize
            \/ content[e].callback = "unusable"
            \/ e \in judged

\* Policy and verdicts decide about events and destinations, never their outages
\* or how a name happens to resolve.
JudgedRightly == OnlyPublicContacted /\ OutagesNeverCondemn
=============================================================================
