---------------------------- MODULE MCDeliveries ----------------------------
(* An instance for TLC of what a relay delivers to: the sinks that publish     *)
(* events, and a host's own sink, which moves a workflow along.                *)
EXTENDS DeliverySinks, Purchasing, TLC

MCSinks == <<"webhook", "redis", "nats", "jetstream">>
MCAddresses ==
    {[form |-> "ipv4", kind |-> "public"], [form |-> "ipv4", kind |-> "private"],
     [form |-> "6to4", kind |-> "loopback"]}
MCStatuses == {200, 304, 307, 400, 429, 503}

(* The parts share no state, so each behaviour is one of theirs: the other is as *)
(* it may be at first, and stays so.                                             *)

VARIABLE part   \* the part that moves

AtRest ==
    part # "sinks" => link = "up" /\ content = [e \in Events |-> CHOOSE c \in Content : TRUE]

DeliveriesInit ==
    /\ part \in {"sinks", "workflow"}
    /\ RelayInit /\ SinksInit /\ PurchasingInit
    /\ AtRest

DeliveriesNext ==
    /\ UNCHANGED part
    /\ \/ part = "sinks" /\ SinksNext /\ UNCHANGED purchasingVars
       \/ part = "workflow" /\ PurchasingNext /\ UNCHANGED <<relayVars, sinkVars>>

DeliveriesSpec == DeliveriesInit /\ [][DeliveriesNext]_<<part, relayVars, sinkVars, purchasingVars>>

\* Deliveries differ in nothing but their names.
DeliveriesSymmetry == Permutations(Couriers)
=============================================================================
