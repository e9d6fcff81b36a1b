------------------------------ MODULE MCStores ------------------------------
(* An instance for TLC of what stores rest on: their transactions, the rows  *)
(* they keep and the retention of notifications.                             *)
EXTENDS StoreScopes, Retention, Rows

(* Retention: one recipient has more notifications than the other. *)

MCRecipientOf == <<1, 2, 1, 1>>

(* Rows: each column has a value of its own, and those that may be absent are, *)
(* in another record.                                                          *)

Instants == {[at |-> 12, zone |-> 0], [at |-> 13, zone |-> 1]}

MCRecords ==
    LET Opt(full, v, none) == IF full THEN v ELSE none
        Some(full, at) == Opt(full, [at |-> at, zone |-> 1], NoTime) IN
    [history |->
        {[taskID |-> <<1>>, version |-> n, operation |-> <<2>>, from |-> <<3>>, to |-> <<4>>,
          actor |-> Opt(full, <<5>>, << >>), comment |-> Opt(full, <<6>>, << >>), at |-> t] :
            n \in 1..2, full \in BOOLEAN, t \in {[at |-> 13, zone |-> 1]}},
     outbox |->
        {[id |-> <<n>>, taskID |-> <<3>>, taskType |-> <<4>>, eventType |-> <<5>>, occurredAt |-> t,
          event |-> n, publishedAt |-> Some(full /\ n = 1, 13), attempts |-> Opt(full, 2, 0),
          nextAttemptAt |-> Some(full, 15), lastError |-> Opt(full, <<6>>, << >>),
          lockedBy |-> Opt(full, <<7>>, << >>), lockedUntil |-> Some(full, 17),
          accepted |-> Opt(full, 1, 0)] :
            n \in 1..2, full \in BOOLEAN, t \in Instants},
     types |->
        {[name |-> <<n>>, title |-> Opt(full, <<3>>, << >>), description |-> Opt(full, <<4>>, << >>),
          inputSchema |-> Opt(full, <<5, n>>, << >>), outputSchema |-> Opt(full, <<6, n>>, << >>),
          priority |-> n, deadline |-> Opt(full, 5, 0), escalation |-> Opt(full, 1, 0),
          assignment |-> Opt(full, 2, 0), updatedAt |-> [at |-> 8, zone |-> 0],
          metadata |-> Opt(full, 3, 0)] :
            n \in 1..2, full \in BOOLEAN},
     notifications |->
        {[id |-> <<n>>, recipient |-> <<3>>, sourceID |-> <<4>>, subject |-> <<5>>,
          subjectVersion |-> n, kind |-> <<6>>, state |-> <<7>>,
          closedReason |-> Opt(full, <<8>>, << >>), title |-> Opt(full, <<9>>, << >>),
          links |-> Opt(full, 1, 0), data |-> Opt(full, <<10, n>>, << >>), createdAt |-> t,
          readAt |-> Some(full, 13), closedAt |-> Some(full, 15), inactiveAt |-> Some(full, 17)] :
            n \in 1..2, full \in BOOLEAN, t \in Instants}]

(* The parts share no state, so each behaviour is one of theirs: the others are *)
(* as they may be at first, and stay so.                                         *)

VARIABLE part   \* the part that moves

AtRest ==
    /\ part # "scopes" => dialect = "memory"
    /\ part # "retention" => strategy = "RetainActive"
    /\ part # "rows" => backend = "postgres" /\ table = "history"

StoresInit ==
    /\ part \in {"scopes", "retention", "rows"}
    /\ ScopesInit /\ RetentionInit /\ RowsInit
    /\ AtRest

StoresNext ==
    /\ UNCHANGED part
    /\ \/ part = "scopes" /\ ScopesNext /\ UNCHANGED <<retentionVars, rowVars>>
       \/ part = "retention" /\ RetentionNext /\ UNCHANGED <<scopeVars, rowVars>>
       \/ part = "rows" /\ RowsNext /\ UNCHANGED <<scopeVars, retentionVars>>

StoresSpec == StoresInit /\ [][StoresNext]_<<part, scopeVars, retentionVars, rowVars>>

\* Scopes, pools and instances that prune differ in nothing but their names.
StoresSymmetry ==
    Permutations(Scopes) \cup Permutations(Pools) \cup Permutations(Passes)
=============================================================================
