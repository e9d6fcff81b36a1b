------------------------------ MODULE Realtime ------------------------------
(***************************************************************************)
(* Change signals: from the service that stored a change, over the         *)
(* broadcaster, through each instance's hub, to the streams of the         *)
(* recipient and the clients reading them.                                 *)
(*                                                                         *)
(* A signal says only that something changed; a client that gets one reads *)
(* the store again, as it does on connecting.  What happened to a          *)
(* recipient's notifications is therefore a counter, and what a client     *)
(* knows is the count it last read.                                        *)
(***************************************************************************)
EXTENDS Integers, Sequences, FiniteSets

CONSTANTS Instances,
          Recipients,
          Streams,       \* the connections followed
          Broadcasters,  \* the broadcasters considered
          MaxStreams,    \* streams one recipient may hold on one instance
          ReplyBuffer,   \* replies a socket holds for its write loop
          ListenBuffer,  \* messages a listener holds
          MaxChanges,    \* bound: changes stored
          MaxRuns,       \* bound: runs of each hub
          MaxRequests    \* bound: requests over one connection

Sources == Instances \cup Streams   \* where changes are stored and signalled

ASSUME RealtimeAssumption ==
    /\ Broadcasters \subseteq {"in_process", "nats", "redis"}
    /\ MaxStreams \in Nat \ {0} /\ ReplyBuffer \in Nat /\ ListenBuffer \in Nat \ {0}
    /\ MaxChanges \in Nat /\ MaxRuns \in [Instances -> Nat] /\ MaxRequests \in Nat
    /\ Instances \cap Streams = {}

VARIABLES
    broadcaster,
    hubs,      \* each instance's hub
    wire,      \* the messages the broker has for each listener
    changes,   \* how often each recipient's notifications changed
    unsent,    \* the recipients a source has yet to signal
    streams,
    readers,   \* the goroutine reading each socket
    clients

realtimeVars == <<broadcaster, hubs, wire, changes, unsent, streams, readers, clients>>

\* run and ready identify a run and a Ready channel by number; run 0 is none.
IdleHub ==
    [run |-> 0, runs |-> 0, listen |-> "off", running |-> FALSE,
     ready |-> 1, closed |-> FALSE]

\* ready is the token in the subscription's channel, has its pending signal and
\* waking an offer between the two; missed records that a signal for the stream
\* was lost on the way.
NoStream(i, r) ==
    [at |-> "none", over |-> "sse", instance |-> i, recipient |-> r, subscribed |-> FALSE,
     ready |-> FALSE, has |-> FALSE, waking |-> FALSE, missed |-> FALSE]

NoClient == [known |-> 0, told |-> FALSE, gone |-> TRUE]
NoReader == [at |-> "off", replies |-> 0, asked |-> 0]

RealtimeInit ==
    /\ broadcaster \in Broadcasters
    /\ hubs = [i \in Instances |-> IdleHub]
    /\ wire = [i \in Instances |-> << >>]
    /\ changes = [r \in Recipients |-> 0]
    /\ unsent = [p \in Sources |-> {}]
    /\ \E i \in Instances, r \in Recipients :
          streams = [s \in Streams |-> NoStream(i, r)]
    /\ readers = [s \in Streams |-> NoReader]
    /\ clients = [s \in Streams |-> NoClient]

(* The hub **************************************************************)

\* One run at a time.
Run(i) ==
    /\ hubs[i].run = 0
    /\ hubs[i].runs < MaxRuns[i]
    /\ hubs' = [hubs EXCEPT ![i].run = hubs[i].runs + 1, ![i].runs = @ + 1,
                            ![i].listen = "subscribing"]
    /\ UNCHANGED <<broadcaster, wire, changes, unsent, streams, readers, clients>>

\* The listener is registered, or the broker confirms the subscription.
Confirmed(i) ==
    /\ hubs[i].listen = "subscribing"
    /\ hubs' = [hubs EXCEPT ![i].listen = "confirmed"]
    /\ UNCHANGED <<broadcaster, wire, changes, unsent, streams, readers, clients>>

MarkReady(hub, run) ==
    IF hub.run # run \/ hub.running THEN hub
    ELSE [hub EXCEPT !.running = TRUE, !.closed = TRUE]

Ready(i) ==
    /\ hubs[i].listen = "confirmed"
    /\ hubs' = [hubs EXCEPT ![i] = [MarkReady(@, @.run) EXCEPT !.listen = "receiving"]]
    /\ UNCHANGED <<broadcaster, wire, changes, unsent, streams, readers, clients>>

\* A host's broadcaster that calls ready again, or only after its run ended.
ReadyAgain(i) ==
    /\ \E run \in 1..hubs[i].runs :
          /\ run # hubs[i].run \/ hubs[i].running
          /\ hubs' = [hubs EXCEPT ![i] = MarkReady(@, run)]
    /\ UNCHANGED <<broadcaster, wire, changes, unsent, streams, readers, clients>>

\* The streams that lose what the broker still had for the instance.
Undelivered(i) ==
    [s \in Streams |->
        [streams[s] EXCEPT !.missed = @ \/ /\ streams[s].instance = i
                                           /\ \E k \in DOMAIN wire[i] :
                                                 streams[s].recipient = wire[i][k]]]

\* Listen ends: its context is cancelled, the broker did not confirm in time or
\* ended the subscription.  The listener is gone before the hub is idle again.
Unlisten(i) ==
    /\ \/ hubs[i].listen = "receiving"
       \/ hubs[i].listen = "subscribing" /\ broadcaster # "in_process"
    /\ hubs' = [hubs EXCEPT ![i].listen = "ended"]
    /\ wire' = [wire EXCEPT ![i] = << >>]
    /\ streams' = Undelivered(i)
    /\ UNCHANGED <<broadcaster, changes, unsent, readers, clients>>

\* A Ready channel the run never closed is kept for the next one.
IdleAgain(hub) ==
    [hub EXCEPT !.run = 0, !.listen = "off", !.running = FALSE, !.closed = FALSE,
                !.ready = IF hub.closed THEN @ + 1 ELSE @]

EndRun(i) ==
    /\ hubs[i].listen = "ended"
    /\ hubs' = [hubs EXCEPT ![i] = IdleAgain(@)]
    /\ UNCHANGED <<broadcaster, wire, changes, unsent, streams, readers, clients>>

(* Signals **************************************************************)

InstanceOf(source) == IF source \in Instances THEN source ELSE streams[source].instance

Spent == \E r \in Recipients : changes[r] = MaxChanges

\* Mutant: the signals go out before the change is stored.
ChangeAfter(i) ==
    /\ unsent[i] = {}
    /\ ~Spent
    /\ \E touched \in SUBSET Recipients \ {{}} :
          \/ unsent' = [unsent EXCEPT ![i] = touched] /\ UNCHANGED changes
          \/ /\ changes' = [r \in Recipients |-> IF r \in touched THEN changes[r] + 1 ELSE changes[r]]
             /\ UNCHANGED unsent
    /\ UNCHANGED <<broadcaster, hubs, wire, streams, readers, clients>>

\* Publish, Close, MarkRead, MarkAllRead and pruning store a change and only
\* then signal the recipients it touched.
Change(i) ==
    /\ unsent[i] = {}
    /\ ~Spent
    /\ \E touched \in SUBSET Recipients \ {{}} :
          /\ changes' = [r \in Recipients |-> IF r \in touched THEN changes[r] + 1 ELSE changes[r]]
          /\ unsent' = [unsent EXCEPT ![i] = touched]
    /\ UNCHANGED <<broadcaster, hubs, wire, streams, readers, clients>>

\* The signal becomes the pending one ...
Offer(stream) == [stream EXCEPT !.has = TRUE, !.waking = TRUE]

\* The hub's mutex is held while a signal is offered to its subscriptions.
Unlocked(i) == \A s \in Streams : streams[s].instance = i => ~streams[s].waking

Subscriptions(i, r) ==
    {s \in Streams : /\ streams[s].subscribed
                     /\ streams[s].instance = i
                     /\ streams[s].recipient = r}

\* Hub.deliver: every subscription of the recipient, without waiting.
Delivered(i, r) ==
    [s \in Streams |-> IF s \in Subscriptions(i, r) THEN Offer(streams[s]) ELSE streams[s]]

Missed(instances, r) ==
    [s \in Streams |->
        [streams[s] EXCEPT !.missed = @ \/ \E i \in instances : s \in Subscriptions(i, r)]]

\* In process, the listeners of the process get the signal at once.
BroadcastInProcess(p, r) ==
    LET i == InstanceOf(p)
        listening == hubs[i].listen \in {"confirmed", "receiving"}
    IN /\ broadcaster = "in_process"
       /\ Unlocked(i)
       /\ streams' = [s \in Streams |->
              IF listening /\ s \in Subscriptions(i, r) THEN Delivered(i, r)[s]
              ELSE Missed(IF listening THEN Instances \ {i} ELSE Instances, r)[s]]
       /\ UNCHANGED wire

\* Over a broker it reaches the instances subscribed by now, and perhaps those
\* still waiting for the confirmation.  NATS drops what a full listener cannot
\* hold; the Redis client waits.
BroadcastBroker(p, r) ==
    /\ broadcaster # "in_process"
    /\ \E early \in SUBSET {i \in Instances : hubs[i].listen = "subscribing"} :
         LET subscribed == early \cup {i \in Instances : hubs[i].listen \in {"confirmed", "receiving"}}
             reached == {i \in subscribed : broadcaster = "redis" \/ Len(wire[i]) < ListenBuffer}
         IN /\ wire' = [i \in Instances |-> IF i \in reached THEN Append(wire[i], r) ELSE wire[i]]
            /\ streams' = Missed(Instances \ reached, r)

Broadcast(p) ==
    /\ \E r \in unsent[p] :
          /\ unsent' = [unsent EXCEPT ![p] = @ \ {r}]
          /\ BroadcastInProcess(p, r) \/ BroadcastBroker(p, r)
    /\ UNCHANGED <<broadcaster, hubs, changes, readers, clients>>

\* The broker cannot be reached, or the process stops after the commit: the
\* signals not broadcast yet are lost, and the change stands.
BroadcastFails(p) ==
    /\ unsent[p] # {}
    /\ unsent' = [unsent EXCEPT ![p] = {}]
    /\ streams' = [s \in Streams |->
          [streams[s] EXCEPT !.missed = @ \/ streams[s].recipient \in unsent[p]]]
    /\ UNCHANGED <<broadcaster, hubs, wire, changes, readers, clients>>

\* A listener takes the next message of its broker.
Receive(i) ==
    /\ hubs[i].listen = "receiving"
    /\ wire[i] # << >>
    /\ Unlocked(i)
    /\ streams' = Delivered(i, Head(wire[i]))
    /\ wire' = [wire EXCEPT ![i] = Tail(@)]
    /\ UNCHANGED <<broadcaster, hubs, changes, unsent, readers, clients>>

(* Streams **************************************************************)

\* ... and then the stream is woken, unless it already is.
Waken(s) ==
    /\ streams[s].waking
    /\ streams' = [streams EXCEPT ![s].waking = FALSE, ![s].ready = TRUE]
    /\ UNCHANGED <<broadcaster, hubs, wire, changes, unsent, readers, clients>>

\* A client connects: it has an acting user and a permitted origin, its
\* subscription is authorized and the hub is running.  It is refused otherwise.
Connect(s) ==
    /\ streams[s].at = "none"
    /\ \E i \in Instances, r \in Recipients :
          /\ hubs[i].running
          /\ \E over \in {"sse", "websocket"} :
                streams' = [streams EXCEPT ![s] =
                    [NoStream(i, r) EXCEPT !.at = "admitted", !.over = over]]
    /\ clients' = [clients EXCEPT ![s].gone = FALSE]
    /\ UNCHANGED <<broadcaster, hubs, wire, changes, unsent, readers>>

\* By now the hub may have stopped; only the cap is checked.  Connections that
\* are not followed hold any number of the recipient's slots.
Subscribe(s) ==
    LET held == Subscriptions(streams[s].instance, streams[s].recipient) IN
    /\ streams[s].at = "admitted"
    /\ Unlocked(streams[s].instance)
    /\ \E others \in 0..MaxStreams :
          IF Cardinality(held) + others >= MaxStreams
          THEN /\ streams' = [streams EXCEPT ![s] = NoStream(@.instance, @.recipient)]
               /\ clients' = [clients EXCEPT ![s] = NoClient]
          ELSE /\ streams' = [streams EXCEPT ![s].at = "accepting", ![s].subscribed = TRUE]
               /\ UNCHANGED clients
    /\ UNCHANGED <<broadcaster, hubs, wire, changes, unsent, readers>>

\* The response or the upgrade reaches the client, which then reads the store.
Accept(s) ==
    /\ streams[s].at = "accepting"
    /\ \/ /\ streams' = [streams EXCEPT ![s].at = "loop"]
          /\ clients' = [clients EXCEPT ![s].told = TRUE]
          /\ readers' = [readers EXCEPT ![s].at = IF streams[s].over = "websocket" THEN "reading" ELSE "off"]
       \/ /\ streams' = [streams EXCEPT ![s].at = "closing"]
          /\ UNCHANGED <<clients, readers>>
    /\ UNCHANGED <<broadcaster, hubs, wire, changes, unsent>>

Wake(s) ==
    /\ streams[s].at = "loop"
    /\ streams[s].ready
    /\ streams' = [streams EXCEPT ![s].ready = FALSE, ![s].at = "woken"]
    /\ UNCHANGED <<broadcaster, hubs, wire, changes, unsent, readers, clients>>

\* A stream that was woken for nothing waits again.
Take(s) ==
    /\ streams[s].at = "woken"
    /\ streams' = [streams EXCEPT ![s].has = FALSE,
                                  ![s].at = IF streams[s].has THEN "writing" ELSE "loop"]
    /\ UNCHANGED <<broadcaster, hubs, wire, changes, unsent, readers, clients>>

Write(s) ==
    /\ streams[s].at = "writing"
    /\ \/ /\ ~clients[s].gone
          /\ clients' = [clients EXCEPT ![s].told = TRUE]
          /\ streams' = [streams EXCEPT ![s].at = "loop"]
       \/ /\ streams' = [streams EXCEPT ![s].at = "closing"]
          /\ UNCHANGED clients
    /\ UNCHANGED <<broadcaster, hubs, wire, changes, unsent, readers>>

\* A reply the socket's reader handed over.
WriteReply(s) ==
    /\ streams[s].at = "loop"
    /\ readers[s].replies > 0
    /\ readers' = [readers EXCEPT ![s].replies = @ - 1]
    /\ \/ ~clients[s].gone /\ UNCHANGED streams
       \/ streams' = [streams EXCEPT ![s].at = "closing"]
    /\ UNCHANGED <<broadcaster, hubs, wire, changes, unsent, clients>>

\* The client does not take a heartbeat or a ping in time, or the server shuts
\* down.
CutOff(s) ==
    /\ streams[s].at = "loop"
    /\ streams' = [streams EXCEPT ![s].at = "closing"]
    /\ UNCHANGED <<broadcaster, hubs, wire, changes, unsent, readers, clients>>

\* The request ends with its client; a socket's, with its reader.
RequestDone(s) ==
    /\ streams[s].at = "loop"
    /\ \/ streams[s].over = "sse" /\ clients[s].gone
       \/ streams[s].over = "websocket" /\ readers[s].at = "done"
    /\ streams' = [streams EXCEPT ![s].at = "closing"]
    /\ UNCHANGED <<broadcaster, hubs, wire, changes, unsent, readers, clients>>

\* A socket is released once its reader has stopped.
Close(s) ==
    /\ streams[s].at = "closing"
    /\ Unlocked(streams[s].instance)
    /\ readers[s].at \in {"off", "done"}
    /\ streams' = [streams EXCEPT ![s] = NoStream(@.instance, @.recipient)]
    /\ readers' = [readers EXCEPT ![s] = NoReader]
    /\ clients' = [clients EXCEPT ![s] = NoClient]
    /\ UNCHANGED <<broadcaster, hubs, wire, changes, unsent>>

(* The reader of a socket, and the client *******************************)

\* A request to mark notifications read, which marks some or none or is refused.
Answer(s) ==
    /\ readers[s].at = "reading"
    /\ ~clients[s].gone
    /\ readers[s].asked < MaxRequests
    /\ \/ /\ ~Spent
          /\ changes' = [changes EXCEPT ![streams[s].recipient] = @ + 1]
          /\ unsent' = [unsent EXCEPT ![s] = {streams[s].recipient}]
       \/ UNCHANGED <<changes, unsent>>
    /\ readers' = [readers EXCEPT ![s].asked = @ + 1, ![s].at = "handing"]
    /\ UNCHANGED <<broadcaster, hubs, wire, streams, clients>>

\* Mutant: the reader waits for room whatever became of the connection.
HandWaiting(s) ==
    /\ readers[s].at = "handing"
    /\ unsent[s] = {}
    /\ readers[s].replies < ReplyBuffer
    /\ readers' = [readers EXCEPT ![s].replies = @ + 1, ![s].at = "reading"]
    /\ UNCHANGED <<broadcaster, hubs, wire, changes, unsent, streams, clients>>

\* Once the request is answered and signalled the reply is handed to the write
\* loop, which makes room or ends the connection.
Hand(s) ==
    /\ readers[s].at = "handing"
    /\ unsent[s] = {}
    /\ \/ /\ readers[s].replies < ReplyBuffer
          /\ readers' = [readers EXCEPT ![s].replies = @ + 1, ![s].at = "reading"]
       \/ /\ streams[s].at = "closing"
          /\ readers' = [readers EXCEPT ![s].at = "done"]
    /\ UNCHANGED <<broadcaster, hubs, wire, changes, unsent, streams, clients>>

\* The client went, sent too large a message, or the write loop closed.
ReadFails(s) ==
    /\ readers[s].at = "reading"
    /\ clients[s].gone \/ streams[s].at = "closing"
    /\ readers' = [readers EXCEPT ![s].at = "done"]
    /\ UNCHANGED <<broadcaster, hubs, wire, changes, unsent, streams, clients>>

ReadStore(s) ==
    /\ clients[s].told
    /\ clients' = [clients EXCEPT ![s].told = FALSE, ![s].known = changes[streams[s].recipient]]
    /\ UNCHANGED <<broadcaster, hubs, wire, changes, unsent, streams, readers>>

Leave(s) ==
    /\ ~clients[s].gone
    /\ clients' = [clients EXCEPT ![s].gone = TRUE, ![s].told = FALSE]
    /\ UNCHANGED <<broadcaster, hubs, wire, changes, unsent, streams, readers>>

(* The specification ****************************************************)

HubStep(i) == Confirmed(i) \/ Ready(i) \/ Receive(i) \/ EndRun(i)

StreamStep(s) ==
    \/ Waken(s)
    \/ Subscribe(s)
    \/ Accept(s)
    \/ Wake(s)
    \/ Take(s)
    \/ Write(s)
    \/ WriteReply(s)
    \/ RequestDone(s)
    \/ Close(s)

ReaderStep(s) == Hand(s) \/ ReadFails(s)

RealtimeNext ==
    \/ \E i \in Instances : Run(i) \/ HubStep(i) \/ ReadyAgain(i) \/ Unlisten(i)
                            \/ Change(i)
    \/ \E p \in Sources : Broadcast(p) \/ BroadcastFails(p)
    \/ \E s \in Streams : \/ Connect(s) \/ StreamStep(s) \/ CutOff(s)
                           \/ Answer(s) \/ ReaderStep(s)
                           \/ ReadStore(s) \/ Leave(s)

\* Goroutines are scheduled, and a broker call or a store call returns.
RealtimeFairness ==
    /\ \A i \in Instances : WF_realtimeVars(HubStep(i))
    /\ \A p \in Sources : WF_realtimeVars(Broadcast(p))
    /\ \A s \in Streams : /\ WF_realtimeVars(StreamStep(s))
                          /\ WF_realtimeVars(ReaderStep(s))
                          /\ WF_realtimeVars(ReadStore(s))

RealtimeSpec == RealtimeInit /\ [][RealtimeNext]_realtimeVars /\ RealtimeFairness

-----------------------------------------------------------------------------
(* Properties ***********************************************************)

Serving(s) == streams[s].at \in {"loop", "woken", "writing"}

\* Something will still make the client of a stream read the store: it was told
\* and has not read yet, the stream holds a signal and is or will be woken, the
\* hub has yet to receive one, or its source to broadcast one.
Coming(s) ==
    LET x == streams[s] IN
    \/ clients[s].told
    \/ x.at = "writing"
    \/ x.has /\ (x.ready \/ x.waking \/ x.at = "woken")
    \/ x.recipient \in {wire[x.instance][k] : k \in DOMAIN wire[x.instance]}
    \/ \E p \in Sources : x.recipient \in unsent[p]

\* Signals replace one another, are offered while the stream writes or reads, and
\* cross a subscription being made, and still no client with an open stream is
\* left with what it knew before a change, unless a signal was lost on the way,
\* which best effort allows (Subscription.offer, Take and the stream loops).
NothingMissed ==
    \A s \in Streams :
        (Serving(s) /\ ~streams[s].missed /\ ~clients[s].gone) =>
            \/ clients[s].known = changes[streams[s].recipient]
            \/ Coming(s)

\* A hub runs only under a run whose broadcaster has confirmed its subscription,
\* whenever ready is called (Hub.markReady and endRun).
RunningMeansConfirmed ==
    \A i \in Instances :
        hubs[i].running => hubs[i].run # 0 /\ hubs[i].listen \in {"receiving", "ended"}

\* A stream that is served misses nothing, and only confirmed hubs serve.
ServedInFull == NothingMissed /\ RunningMeansConfirmed

\* The slot of a client that went is freed: no write loop, reader, full reply
\* buffer or offer keeps the stream from ending.
StreamsEnd ==
    \A s \in Streams : (streams[s].at # "none" /\ clients[s].gone) ~> streams[s].at = "none"
=============================================================================
