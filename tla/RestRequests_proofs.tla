------------------------- MODULE RestRequests_proofs -------------------------
(***************************************************************************)
(* Proofs about transactions a host may lead, and the REST clients whose   *)
(* operations run in them.                                                 *)
(*                                                                         *)
(* HostInv is about the transactions.  What one has staged lies beyond the *)
(* committed versions, in rows no other transaction wrote; as long as no   *)
(* operation in it failed, its records and its events are those of the     *)
(* versions between, all but the ones the running operation has still to   *)
(* append.  What a host's transaction owes is what it staged.              *)
(*                                                                         *)
(* RestInv is about the clients.  An operation carries its command's task  *)
(* and version, one request at most is waited for per command, and what an *)
(* operation knows of its commit is recorded in applied.                   *)
(***************************************************************************)
EXTENDS RestRequests, TLAPS

Versions == 0..MaxVersion

Transaction == [led : {"nobody", "host", "engine"}, rows : [TaskIDs -> Versions],
                history : SUBSET Item, outbox : SUBSET Item, failed : BOOLEAN]

SomeTask == TaskIDs \cup {CHOOSE id \in TaskIDs : TRUE}

Call == [at : {"idle", "get", "update", "history", "append", "return", "commit", "deliver", "answer"},
         command : Commands \cup {NoCommand}, task : SomeTask,
         expected : AnyVersion..MaxVersion, version : Versions, cancelled : BOOLEAN,
         outcome : {"none", "ok", "conflict", "error"}]

HostType ==
    /\ rows \in [TaskIDs -> Versions]
    /\ txs \in [Requests -> Transaction]
    /\ calls \in [Requests -> Call]
    /\ owed \in [Requests -> SUBSET Item]
    /\ lost \subseteq Item

\* The versions a transaction would add, were it to commit.
Staged(p) == {i \in Item : rows[i.task] < i.version /\ i.version <= txs[p].rows[i.task]}

\* A transaction's rows are ahead of the committed ones, and no other's.
Ahead ==
    \A p \in Requests, id \in TaskIDs : txs[p].rows[id] > 0 => rows[id] < txs[p].rows[id]

Exclusive ==
    \A p, q \in Requests, id \in TaskIDs :
        p # q => txs[p].rows[id] = 0 \/ txs[q].rows[id] = 0

\* Where an operation stands, and in whose transaction.
Progress(p) ==
    /\ ~At(p, "idle") => calls[p].task \in TaskIDs
    /\ calls[p].at \in {"get", "update", "history", "append", "return", "commit"} =>
           txs[p].led # "nobody"
    /\ At(p, "commit") => txs[p].led = "engine"
    /\ calls[p].at \in {"idle", "deliver", "answer"} => txs[p].led # "engine"
    /\ At(p, "deliver") => txs[p].led = "nobody"
    /\ calls[p].at \in {"update", "history", "append", "return", "commit"} =>
           calls[p].version < MaxVersion
    /\ calls[p].at \in {"history", "append", "return", "commit"} =>
           txs[p].rows[calls[p].task] = calls[p].version + 1

\* A transaction's records and events are those of the versions it stages.
RecordsFollow(p) ==
    /\ txs[p].led = "nobody" => txs[p] = Closed
    /\ txs[p].history \subseteq Staged(p)
    /\ txs[p].outbox \subseteq Staged(p)
    /\ calls[p].at \in {"return", "commit"} => Written(p) \in txs[p].outbox
    /\ ~txs[p].failed =>
        /\ Staged(p) \subseteq txs[p].history \cup {i \in {Written(p)} : At(p, "history")}
        /\ Staged(p) \subseteq txs[p].outbox \cup
               {i \in {Written(p)} : calls[p].at \in {"history", "append"}}

\* What is owed: to a host, what its transaction staged; to nobody else, what is
\* committed.  A transaction of the engine's own holds one operation.
OwedFollows(p) ==
    /\ txs[p].led = "nobody" => owed[p] \subseteq outbox
    /\ txs[p].led = "host" =>
        /\ owed[p] \subseteq txs[p].outbox
        /\ ~txs[p].failed => txs[p].outbox \subseteq owed[p] \cup {i \in {Written(p)} : At(p, "return")}
    /\ txs[p].led = "engine" =>
        /\ owed[p] = {}
        /\ ~txs[p].failed
        /\ Staged(p) \subseteq {Written(p)}
        /\ calls[p].at \in {"get", "update"} => \A id \in TaskIDs : txs[p].rows[id] = 0

HostInv ==
    /\ HostType
    /\ Ahead
    /\ Exclusive
    /\ \A p \in Requests : Progress(p) /\ RecordsFollow(p) /\ OwedFollows(p)
    /\ CommittedTogether
    /\ delivered \subseteq outbox
    /\ NoneForgotten

Command == [task : SomeTask, expected : AnyVersion..MaxVersion, attempts : Nat,
            answer : {"none", "waiting", "lost", "StatusOK", "StatusConflict",
                      "StatusInternalServerError", "StatusBadRequest"},
            version : Nat]

RestType ==
    /\ commands \in [Commands -> Command]
    /\ awaited \subseteq Requests
    /\ applied \subseteq [command : Commands, item : Item]

\* An operation is asked for by a command that was sent, and asks for what it says.
Carries(p, c) ==
    calls[p].command = c =>
        /\ ~At(p, "idle")
        /\ commands[c].attempts > 0
        /\ commands[c].answer \notin {"none", "StatusBadRequest"}
        /\ calls[p].task = commands[c].task
        /\ calls[p].expected = commands[c].expected
        /\ calls[p].at \in {"update", "history", "append", "return", "commit", "deliver"} =>
               calls[p].expected \in {AnyVersion, calls[p].version}
        /\ At(p, "answer") <=> calls[p].outcome # "none"

\* What an operation knows to have committed was applied.
Known(p, c) ==
    calls[p].command = c /\ (At(p, "deliver") \/ calls[p].outcome = "ok") =>
        [command |-> c, item |-> Written(p)] \in applied

\* What was applied is what its command asked for.
AppliedFollows ==
    \A a \in applied :
        /\ commands[a.command].attempts > 0
        /\ commands[a.command].answer \notin {"none", "StatusBadRequest"}
        /\ a.item.task = commands[a.command].task
        /\ commands[a.command].expected # AnyVersion =>
               a.item.version = commands[a.command].expected + 1

\* One request at most is waited for per command.
AwaitedFollows ==
    /\ \A p \in awaited : calls[p].command # NoCommand /\ commands[calls[p].command].answer = "waiting"
    /\ \A p, q \in awaited : calls[p].command = calls[q].command => p = q

\* The first attempt of a command: nothing of it is applied before its commit, and
\* no operation is left once it is answered.
FirstAttempt(c) ==
    commands[c].attempts = 1 =>
        /\ \A p, q \in Requests : calls[p].command = c /\ calls[q].command = c => p = q
        /\ \A p \in Requests :
               calls[p].command = c /\ ~At(p, "deliver") /\ calls[p].outcome \in {"none", "conflict"} =>
                   \A a \in applied : a.command # c
        /\ commands[c].answer \in {"StatusOK", "StatusConflict", "StatusInternalServerError"} =>
               \A p \in Requests : calls[p].command # c
        /\ commands[c].answer = "StatusConflict" => \A a \in applied : a.command # c

\* A command is answered once it was sent, and with success when it was applied.
Answered(c) ==
    /\ commands[c].attempts = 0 => commands[c].answer = "none"
    /\ commands[c].answer = "StatusOK" =>
           [command |-> c, item |-> [task |-> commands[c].task, version |-> commands[c].version]] \in applied

RestInv ==
    /\ RestType
    /\ \A p \in Requests, c \in Commands : Carries(p, c) /\ Known(p, c)
    /\ AppliedFollows
    /\ AwaitedFollows
    /\ \A c \in Commands : FirstAttempt(c) /\ Answered(c)

-----------------------------------------------------------------------------
(* Transactions *********************************************************)

\* What the running operation writes is an item.
LEMMA WrittenIsItem ==
    ASSUME HostType, NEW p \in Requests, ~At(p, "idle"), Progress(p), calls[p].version < MaxVersion
    PROVE  Written(p) \in Item
<1>1. calls[p] \in Call /\ calls[p].task \in TaskIDs
  BY DEF HostType, Progress
<1>2. calls[p].version + 1 \in 1..MaxVersion
  BY <1>1, HostAssumption DEF Call, Versions
<1> QED
  BY <1>1, <1>2, Zenon DEF Written, Item

\* A closed transaction stages nothing.
LEMMA ClosedFacts ==
    /\ Closed \in Transaction
    /\ Closed.led = "nobody" /\ Closed.history = {} /\ Closed.outbox = {} /\ Closed.failed = FALSE
    /\ \A id \in TaskIDs : Closed.rows[id] = 0
<1>1. 0 \in Versions
  BY HostAssumption DEF Versions
<1>2. [id \in TaskIDs |-> 0] \in [TaskIDs -> Versions]
  BY <1>1
<1> QED
  BY <1>2 DEF Closed, Transaction

LEMMA NoCallFacts ==
    /\ NoCall \in Call
    /\ NoCall.at = "idle" /\ NoCall.command = NoCommand /\ NoCall.outcome = "none"
<1>1. 0 \in Versions /\ AnyVersion \in AnyVersion..MaxVersion
  BY HostAssumption DEF Versions, AnyVersion
<1> QED
  BY <1>1 DEF NoCall, Call, SomeTask

LEMMA ClosedStagesNothing ==
    ASSUME NEW p \in Requests, txs'[p] = Closed
    PROVE  Staged(p)' = {}
<1>1. ASSUME NEW i \in Item, i.version <= txs'[p].rows[i.task] PROVE FALSE
  <2>1. i.task \in TaskIDs /\ i.version \in 1..MaxVersion
    BY DEF Item
  <2>2. txs'[p].rows[i.task] = 0
    BY <2>1, ClosedFacts
  <2> QED
    BY <1>1, <2>1, <2>2, HostAssumption
<1> QED
  BY <1>1 DEF Staged

\* What a transaction stages depends on the committed rows it wrote, and on no other.
LEMMA StagedKept ==
    ASSUME HostType, NEW q \in Requests, txs'[q].rows = txs[q].rows,
           \A id \in TaskIDs : txs[q].rows[id] > 0 => rows'[id] = rows[id]
    PROVE  Staged(q)' = Staged(q)
<1>1. ASSUME NEW i \in Item
      PROVE  /\ rows'[i.task] < i.version /\ i.version <= txs'[q].rows[i.task] <=>
                rows[i.task] < i.version /\ i.version <= txs[q].rows[i.task]
  <2>1. i.task \in TaskIDs /\ i.version \in 1..MaxVersion
    BY DEF Item
  <2>2. txs[q].rows[i.task] \in Versions
    BY <2>1 DEF HostType, Transaction
  <2>3. CASE txs[q].rows[i.task] > 0
    BY <2>1, <2>3
  <2>4. CASE txs[q].rows[i.task] = 0
    BY <2>1, <2>4, HostAssumption
  <2> QED
    BY <2>2, <2>3, <2>4, HostAssumption DEF Versions
<1> QED
  BY <1>1 DEF Staged

\* A step of one request leaves what holds of another.
LEMMA OthersKept ==
    ASSUME HostInv, NEW q \in Requests,
           txs'[q] = txs[q], calls'[q] = calls[q], owed'[q] = owed[q],
           outbox \subseteq outbox',
           \A id \in TaskIDs : txs[q].rows[id] > 0 => rows'[id] = rows[id]
    PROVE  Progress(q)' /\ RecordsFollow(q)' /\ OwedFollows(q)'
<1>1. Progress(q) /\ RecordsFollow(q) /\ OwedFollows(q) /\ HostType
  BY DEF HostInv
<1>2. Staged(q)' = Staged(q)
  BY <1>1, StagedKept
<1>3. Written(q)' = Written(q)
  BY DEF Written
<1>4. Progress(q)'
  BY <1>1 DEF Progress, At
<1>5. RecordsFollow(q)'
  BY <1>1, <1>2, <1>3 DEF RecordsFollow, At
<1>6. OwedFollows(q)'
  BY <1>1, <1>2, <1>3 DEF OwedFollows, At
<1> QED
  BY <1>4, <1>5, <1>6

\* A step of request p that commits nothing, and leaves it with the transaction t,
\* the call k and the owed events o; no committed event it owed is forgotten.
LocalChange(p, t, k, o) ==
    /\ UNCHANGED committed
    /\ t \in Transaction /\ txs' = [txs EXCEPT ![p] = t]
    /\ k \in Call /\ calls' = [calls EXCEPT ![p] = k]
    /\ o \in SUBSET Item /\ owed' = [owed EXCEPT ![p] = o]
    /\ delivered \subseteq delivered' /\ delivered' \subseteq outbox
    /\ lost \subseteq lost' /\ lost' \subseteq Item
    /\ owed[p] \cap outbox \subseteq o \cup delivered' \cup lost'
    /\ \A id \in TaskIDs : t.rows[id] > 0 => rows[id] < t.rows[id] /\ ~Locked(p, id)

\* Such a step keeps the invariant when what it leaves its own request with does.
LEMMA LocalStep ==
    ASSUME HostInv, NEW p \in Requests, NEW t, NEW k, NEW o, LocalChange(p, t, k, o),
           Progress(p)', RecordsFollow(p)', OwedFollows(p)'
    PROVE  HostInv'
<1> USE DEF committed, LocalChange
<1>1. HostType
  BY DEF HostInv
<1>2. /\ txs' \in [Requests -> Transaction] /\ txs'[p] = t
      /\ calls' \in [Requests -> Call] /\ owed' \in [Requests -> SUBSET Item] /\ owed'[p] = o
  BY <1>1 DEF HostType
<1>3. HostType'
  BY <1>1, <1>2 DEF HostType
<1>4. ASSUME NEW q \in Requests \ {p}
      PROVE  txs'[q] = txs[q] /\ calls'[q] = calls[q] /\ owed'[q] = owed[q]
  BY <1>1 DEF HostType
<1>5. Ahead'
  <2> SUFFICES ASSUME NEW q \in Requests, NEW id \in TaskIDs, txs'[q].rows[id] > 0
               PROVE  rows[id] < txs'[q].rows[id]
    BY DEF Ahead
  <2>1. CASE q = p
    BY <1>2, <2>1
  <2>2. CASE q # p
    BY <1>4, <2>2 DEF HostInv, Ahead
  <2> QED
    BY <2>1, <2>2
<1>6. Exclusive'
  <2> SUFFICES ASSUME NEW q \in Requests, NEW r \in Requests, NEW id \in TaskIDs, q # r
               PROVE  txs'[q].rows[id] = 0 \/ txs'[r].rows[id] = 0
    BY DEF Exclusive
  <2>1. ASSUME NEW s \in Requests PROVE txs[s].rows[id] \in Nat
    BY <1>1, HostAssumption DEF HostType, Transaction, Versions
  <2>2. t.rows[id] \in Nat
    BY HostAssumption DEF Transaction, Versions
  <2>3. ASSUME NEW s \in Requests \ {p} PROVE t.rows[id] = 0 \/ txs[s].rows[id] = 0
    BY <2>1, <2>2 DEF Locked
  <2>4. CASE q = p
    BY <1>2, <1>4, <2>3, <2>4
  <2>5. CASE r = p
    BY <1>2, <1>4, <2>3, <2>5
  <2>6. CASE q # p /\ r # p
    BY <1>4, <2>6 DEF HostInv, Exclusive
  <2> QED
    BY <2>4, <2>5, <2>6
<1>7. \A q \in Requests : Progress(q)' /\ RecordsFollow(q)' /\ OwedFollows(q)'
  BY <1>4, OthersKept
<1>8. CommittedTogether'
  BY DEF HostInv, CommittedTogether
<1>9. NoneForgotten'
  BY <1>2, <1>4 DEF HostInv, NoneForgotten
<1> QED
  BY <1>3, <1>5, <1>6, <1>7, <1>8, <1>9 DEF HostInv

\* A commit adds the versions the transaction staged, with their records and
\* events, and disturbs no other transaction.
LEMMA CommitFacts ==
    ASSUME HostInv, NEW p \in Requests, Commit(p), ~txs[p].failed,
           calls[p].at \notin {"history", "append"}
    PROVE  /\ rows' \in [TaskIDs -> Versions]
           /\ txs' \in [Requests -> Transaction] /\ txs'[p] = Closed
           /\ \A q \in Requests \ {p} : txs'[q] = txs[q]
           /\ \A q \in Requests \ {p}, id \in TaskIDs : txs[q].rows[id] > 0 => rows'[id] = rows[id]
           /\ txs[p].history = Staged(p) /\ txs[p].outbox = Staged(p)
           /\ CommittedTogether'
<1>1. HostType /\ RecordsFollow(p)
  BY DEF HostInv
<1>2. ASSUME NEW id \in TaskIDs
      PROVE  /\ rows[id] \in Versions /\ txs[p].rows[id] \in Versions
             /\ rows'[id] = IF txs[p].rows[id] > 0 THEN txs[p].rows[id] ELSE rows[id]
  BY <1>1 DEF HostType, Transaction, Commit, Visible
<1>3. rows' \in [TaskIDs -> Versions]
  <2>1. \A id \in TaskIDs : rows'[id] \in Versions
    BY <1>2
  <2>2. rows' = [id \in TaskIDs |-> Visible(p, id)]
    BY DEF Commit
  <2> QED
    BY <2>1, <2>2
<1>4. /\ txs' \in [Requests -> Transaction] /\ txs'[p] = Closed
      /\ \A q \in Requests \ {p} : txs'[q] = txs[q]
  BY <1>1, ClosedFacts DEF HostType, Commit
<1>5. ASSUME NEW q \in Requests \ {p}, NEW id \in TaskIDs, txs[q].rows[id] > 0
      PROVE  rows'[id] = rows[id]
  <2>1. txs[p].rows[id] = 0
    BY <1>5 DEF HostInv, Exclusive
  <2> QED
    BY <1>2, <2>1
<1>6. txs[p].history = Staged(p) /\ txs[p].outbox = Staged(p)
  <2>1. Staged(p) \subseteq txs[p].history /\ Staged(p) \subseteq txs[p].outbox
    BY <1>1 DEF RecordsFollow, At
  <2> QED
    BY <1>1, <2>1, Zenon DEF RecordsFollow
<1>7. {i \in Item : i.version <= rows'[i.task]} =
          {i \in Item : i.version <= rows[i.task]} \cup Staged(p)
  <2> SUFFICES ASSUME NEW i \in Item
               PROVE  i.version <= rows'[i.task] <=>
                          \/ i.version <= rows[i.task]
                          \/ rows[i.task] < i.version /\ i.version <= txs[p].rows[i.task]
    BY DEF Staged
  <2>1. i.task \in TaskIDs /\ i.version \in 1..MaxVersion
    BY DEF Item
  <2>2. PICK r, v \in Versions : r = rows[i.task] /\ v = txs[p].rows[i.task]
    BY <1>2, <2>1
  <2>3. rows'[i.task] = IF v > 0 THEN v ELSE r
    BY <1>2, <2>1, <2>2
  <2>4. v > 0 => r < v
    BY <2>1, <2>2 DEF HostInv, Ahead
  <2> QED
    BY <2>1, <2>2, <2>3, <2>4, HostAssumption DEF Versions
<1>8. CommittedTogether'
  BY <1>6, <1>7 DEF HostInv, CommittedTogether, Commit
<1> QED
  BY <1>3, <1>4, <1>5, <1>6, <1>8

LEMMA CommitStep ==
    ASSUME HostInv, NEW p \in Requests, Commit(p), ~txs[p].failed,
           calls[p].at \notin {"history", "append"},
           NEW k \in Call, calls' = [calls EXCEPT ![p] = k], k.at \in {"idle", "deliver", "answer"},
           k.at # "idle" => k.task \in TaskIDs,
           NEW o \in SUBSET Item, owed' = [owed EXCEPT ![p] = o],
           delivered' = delivered, lost \subseteq lost', lost' \subseteq Item,
           owed[p] \subseteq o, o \subseteq outbox', txs[p].outbox \subseteq o \cup lost'
    PROVE  HostInv'
<1>1. /\ rows' \in [TaskIDs -> Versions]
      /\ txs' \in [Requests -> Transaction] /\ txs'[p] = Closed
      /\ \A q \in Requests \ {p} : txs'[q] = txs[q]
      /\ \A q \in Requests \ {p}, id \in TaskIDs : txs[q].rows[id] > 0 => rows'[id] = rows[id]
      /\ CommittedTogether'
  BY CommitFacts
<1>2. HostType
  BY DEF HostInv
<1>3. /\ calls' \in [Requests -> Call] /\ calls'[p] = k
      /\ owed' \in [Requests -> SUBSET Item] /\ owed'[p] = o
      /\ \A q \in Requests \ {p} : calls'[q] = calls[q] /\ owed'[q] = owed[q]
  BY <1>2 DEF HostType
<1>4. HostType'
  BY <1>1, <1>2, <1>3 DEF HostType
<1>5. outbox' = outbox \cup txs[p].outbox
  BY DEF Commit
<1>6. Staged(p)' = {}
  BY <1>1, ClosedStagesNothing
<1>7. Progress(p)' /\ RecordsFollow(p)' /\ OwedFollows(p)'
  <2>1. txs'[p].led = "nobody" /\ txs'[p].history = {} /\ txs'[p].outbox = {}
    BY <1>1, ClosedFacts
  <2>2. Progress(p)'
    BY <1>3, <2>1 DEF Progress, At
  <2>3. RecordsFollow(p)'
    BY <1>1, <1>3, <1>6, <2>1, Zenon DEF RecordsFollow
  <2>4. OwedFollows(p)'
    BY <1>3, <2>1, Zenon DEF OwedFollows
  <2> QED
    BY <2>2, <2>3, <2>4
<1>8. ASSUME NEW q \in Requests \ {p}
      PROVE  Progress(q)' /\ RecordsFollow(q)' /\ OwedFollows(q)'
  BY <1>1, <1>3, <1>5, OthersKept, Zenon
<1>9. Ahead'
  <2> SUFFICES ASSUME NEW q \in Requests, NEW id \in TaskIDs, txs'[q].rows[id] > 0
               PROVE  rows'[id] < txs'[q].rows[id]
    BY DEF Ahead
  <2>1. q # p
    BY <1>1, ClosedFacts
  <2> QED
    BY <1>1, <2>1, Zenon DEF HostInv, Ahead
<1>10. Exclusive'
  <2> SUFFICES ASSUME NEW q \in Requests, NEW r \in Requests, NEW id \in TaskIDs, q # r
               PROVE  txs'[q].rows[id] = 0 \/ txs'[r].rows[id] = 0
    BY DEF Exclusive
  <2>1. CASE q = p \/ r = p
    BY <1>1, <2>1, ClosedFacts
  <2>2. CASE q # p /\ r # p
    BY <1>1, <2>2 DEF HostInv, Exclusive
  <2> QED
    BY <2>1, <2>2
<1>11. NoneForgotten'
  <2> SUFFICES ASSUME NEW e \in outbox', e \notin delivered' \cup lost'
               PROVE  \E q \in Requests : e \in owed'[q]
    BY DEF NoneForgotten
  <2>1. CASE e \in txs[p].outbox
    BY <1>3, <2>1
  <2>2. CASE e \in outbox
    <3>1. PICK q \in Requests : e \in owed[q]
      BY <2>2 DEF HostInv, NoneForgotten
    <3>2. e \in owed'[q]
      BY <1>3, <3>1
    <3> QED
      BY <3>2
  <2> QED
    BY <1>5, <2>1, <2>2
<1>12. delivered' \subseteq outbox'
  BY <1>5 DEF HostInv
<1> QED
  BY <1>1, <1>4, <1>7, <1>8, <1>9, <1>10, <1>11, <1>12, Zenon DEF HostInv

-----------------------------------------------------------------------------
(* The steps of the host and of the engine ******************************)

LEMMA RequestFacts ==
    ASSUME HostInv, NEW p \in Requests
    PROVE  /\ txs[p] \in Transaction /\ calls[p] \in Call /\ owed[p] \in SUBSET Item
           /\ Progress(p) /\ RecordsFollow(p) /\ OwedFollows(p)
           /\ txs = [txs EXCEPT ![p] = txs[p]]
           /\ calls = [calls EXCEPT ![p] = calls[p]]
           /\ owed = [owed EXCEPT ![p] = owed[p]]
           /\ lost \subseteq Item /\ delivered \subseteq outbox
BY DEF HostInv, HostType

LEMMA RowsMine ==
    ASSUME HostInv, NEW p \in Requests, NEW id \in TaskIDs, txs[p].rows[id] > 0
    PROVE  rows[id] < txs[p].rows[id] /\ ~Locked(p, id)
<1>1. ASSUME NEW q \in Requests \ {p} PROVE txs[q].rows[id] = 0
  BY DEF HostInv, Exclusive
<1> QED
  BY <1>1 DEF HostInv, Ahead, Locked

\* An open transaction's events are not committed yet.
LEMMA StagedIsNew ==
    ASSUME HostInv, NEW p \in Requests
    PROVE  Staged(p) \cap outbox = {} /\ Staged(p) \cap history = {}
<1>1. ASSUME NEW i \in Staged(p) PROVE i \notin outbox /\ i \notin history
  <2>1. i \in Item /\ rows[i.task] < i.version
    BY DEF Staged
  <2>2. i.task \in TaskIDs /\ i.version \in 1..MaxVersion
    BY <2>1 DEF Item
  <2>3. rows[i.task] \in Versions
    BY <2>2 DEF HostInv, HostType
  <2>4. ~(i.version <= rows[i.task])
    BY <2>1, <2>2, <2>3, HostAssumption DEF Versions
  <2> QED
    BY <2>4 DEF HostInv, CommittedTogether
<1> QED
  BY <1>1

\* A transaction that closes without a commit.
LEMMA ClosingFacts ==
    ASSUME NEW p \in Requests, txs'[p] = Closed, calls'[p].at \in {"idle", "answer"},
           calls'[p].at = "answer" => calls'[p].task \in TaskIDs, owed'[p] \subseteq outbox'
    PROVE  Progress(p)' /\ RecordsFollow(p)' /\ OwedFollows(p)'
<1>1. Staged(p)' = {}
  BY ClosedStagesNothing
<1>2. txs'[p].led = "nobody" /\ txs'[p].history = {} /\ txs'[p].outbox = {}
  BY ClosedFacts
<1>3. Progress(p)'
  BY <1>2 DEF Progress, At
<1>4. RecordsFollow(p)'
  BY <1>1, <1>2 DEF RecordsFollow
<1>5. OwedFollows(p)'
  BY <1>2 DEF OwedFollows
<1> QED
  BY <1>3, <1>4, <1>5

LEMMA HostBeginKeeps ==
    ASSUME HostInv, NEW p \in Requests, HostBegin(p)
    PROVE  HostInv'
<1> DEFINE t == [txs[p] EXCEPT !.led = "host"]
<1>1. At(p, "idle") /\ txs[p].led = "nobody" /\ owed[p] = {}
  BY DEF HostBegin
<1>2. txs' = [txs EXCEPT ![p] = t] /\ t \in Transaction /\ t.led = "host"
  BY RequestFacts DEF HostBegin, Transaction
<1>3. /\ t.rows = txs[p].rows /\ t.history = txs[p].history /\ t.outbox = txs[p].outbox
      /\ t.failed = txs[p].failed /\ txs'[p] = t
  BY <1>2, RequestFacts DEF Transaction, HostInv, HostType
<1> HIDE DEF t
<1>4. calls' = calls /\ owed' = owed /\ rows' = rows /\ outbox' = outbox
  BY DEF HostBegin, committed
<1>5. Staged(p)' = Staged(p) /\ Written(p)' = Written(p)
  BY <1>3, <1>4, StagedKept, Zenon DEF HostInv, Written
<1>6. txs[p].outbox = {} /\ txs[p].history = {}
  BY <1>1, RequestFacts, ClosedFacts, Zenon DEF RecordsFollow
<1>7. Progress(p)'
  BY <1>1, <1>2, <1>3, <1>4, RequestFacts, Zenon DEF Progress, At
<1>8. RecordsFollow(p)'
  BY <1>2, <1>3, <1>4, <1>5, RequestFacts DEF RecordsFollow, At
<1>9. OwedFollows(p)'
  BY <1>1, <1>2, <1>3, <1>4, <1>6, Zenon DEF OwedFollows
<1>10. \A id \in TaskIDs : t.rows[id] > 0 => rows[id] < t.rows[id] /\ ~Locked(p, id)
  BY <1>3, RowsMine, Zenon
<1>11. LocalChange(p, t, calls[p], owed[p])
  BY <1>2, <1>4, <1>10, RequestFacts, Zenon DEF HostBegin, LocalChange
<1> QED
  BY <1>7, <1>8, <1>9, <1>11, LocalStep, Zenon

LEMMA HostCommitKeeps ==
    ASSUME HostInv, NEW p \in Requests, HostCommit(p)
    PROVE  HostInv'
<1>1. /\ At(p, "idle") /\ txs[p].led = "host" /\ ~txs[p].failed /\ Commit(p)
      /\ calls' = calls /\ owed' = owed /\ delivered' = delivered /\ lost' = lost
  BY DEF HostCommit
<1>2. calls[p].at = "idle"
  BY <1>1 DEF At
<1>3. owed[p] \subseteq txs[p].outbox /\ txs[p].outbox \subseteq owed[p]
  BY <1>1, <1>2, RequestFacts DEF OwedFollows, At
<1>4. outbox' = outbox \cup txs[p].outbox
  BY <1>1 DEF Commit
<1> QED
  BY <1>1, <1>2, <1>3, <1>4, RequestFacts, CommitStep, Zenon

LEMMA HostRollbackKeeps ==
    ASSUME HostInv, NEW p \in Requests, HostRollback(p)
    PROVE  HostInv'
<1>1. /\ At(p, "idle") /\ txs[p].led = "host" /\ txs' = [txs EXCEPT ![p] = Closed]
      /\ calls' = calls /\ owed' = [owed EXCEPT ![p] = {}] /\ delivered' = delivered /\ lost' = lost
      /\ UNCHANGED committed
  BY DEF HostRollback
<1>2. txs'[p] = Closed /\ owed'[p] = {} /\ calls'[p].at = "idle"
  BY <1>1 DEF HostInv, HostType, At
<1>3. Progress(p)' /\ RecordsFollow(p)' /\ OwedFollows(p)'
  BY <1>2, ClosingFacts, Zenon
<1>4. owed[p] \cap outbox = {}
  BY <1>1, RequestFacts, StagedIsNew, Zenon DEF OwedFollows, RecordsFollow
<1>5. LocalChange(p, Closed, calls[p], {})
  BY <1>1, <1>4, RequestFacts, ClosedFacts DEF LocalChange
<1> QED
  BY <1>3, <1>5, LocalStep

LEMMA DispatchKeeps ==
    ASSUME HostInv, NEW p \in Requests, Dispatch(p)
    PROVE  HostInv'
<1>1. /\ At(p, "idle") /\ txs[p].led = "nobody" /\ delivered' = delivered \cup owed[p]
      /\ owed' = [owed EXCEPT ![p] = {}] /\ txs' = txs /\ calls' = calls /\ lost' = lost
      /\ UNCHANGED committed
  BY DEF Dispatch
<1>2. txs[p] = Closed /\ owed[p] \subseteq outbox
  BY <1>1, RequestFacts, Zenon DEF RecordsFollow, OwedFollows
<1>3. txs'[p] = Closed /\ owed'[p] = {} /\ calls'[p].at = "idle"
  BY <1>1, <1>2 DEF HostInv, HostType, At
<1>4. Progress(p)' /\ RecordsFollow(p)' /\ OwedFollows(p)'
  BY <1>3, ClosingFacts
<1>5. delivered' \subseteq outbox
  BY <1>1, <1>2, RequestFacts
<1>6. LocalChange(p, Closed, calls[p], {})
  BY <1>1, <1>2, <1>5, RequestFacts, ClosedFacts DEF LocalChange
<1> QED
  BY <1>4, <1>6, LocalStep

LEMMA BeginKeeps ==
    ASSUME HostInv, NEW p \in Requests, NEW command \in Commands \cup {NoCommand},
           NEW id \in TaskIDs, NEW expected \in AnyVersion..MaxVersion,
           Begin(p, command, id, expected)
    PROVE  HostInv'
<1> DEFINE k == [NoCall EXCEPT !.at = "get", !.command = command, !.task = id, !.expected = expected]
           t == [txs[p] EXCEPT !.led = IF txs[p].led = "host" THEN "host" ELSE "engine"]
<1>1. At(p, "idle") /\ (txs[p].led = "nobody" => owed[p] = {}) /\ txs[p].led # "engine"
  BY RequestFacts DEF Begin, Progress, At
<1>2. /\ UNCHANGED committed /\ owed' = owed /\ delivered' = delivered /\ lost' = lost
      /\ txs' = [txs EXCEPT ![p] = t] /\ calls' = [calls EXCEPT ![p] = k]
  BY DEF Begin
<1>3. t \in Transaction /\ txs'[p] = t
  BY <1>2, RequestFacts, ZenonT(30) DEF Transaction, HostInv, HostType
<1>4. /\ t.rows = txs[p].rows /\ t.history = txs[p].history /\ t.outbox = txs[p].outbox
      /\ t.failed = txs[p].failed
      /\ t.led = IF txs[p].led = "host" THEN "host" ELSE "engine"
  BY RequestFacts DEF Transaction
<1>5. k \in Call /\ k.at = "get" /\ k.task = id /\ calls'[p] = k
  BY <1>2, NoCallFacts, Zenon DEF Call, SomeTask, HostInv, HostType
<1> HIDE DEF t, k
<1>6. Staged(p)' = Staged(p) /\ rows' = rows /\ outbox' = outbox
  BY <1>2, <1>3, <1>4, StagedKept, Zenon DEF HostInv, committed
<1>7. txs[p].led = "nobody" =>
          /\ Staged(p) = {} /\ txs[p].outbox = {} /\ txs[p].failed = FALSE
          /\ \A i \in TaskIDs : txs[p].rows[i] = 0
  <2> SUFFICES ASSUME txs[p].led = "nobody"
               PROVE  /\ Staged(p) = {} /\ txs[p].outbox = {} /\ txs[p].failed = FALSE
                      /\ \A i \in TaskIDs : txs[p].rows[i] = 0
    BY Zenon
  <2>1. txs[p] = Closed
    BY RequestFacts DEF RecordsFollow
  <2>2. txs[p].outbox = {} /\ txs[p].history = {} /\ ~txs[p].failed
    BY <2>1, ClosedFacts
  <2>3. Staged(p) \subseteq txs[p].history
    BY <1>1, <2>2, RequestFacts DEF RecordsFollow, At
  <2> QED
    BY <2>1, <2>2, <2>3, ClosedFacts, Zenon
<1>8. Progress(p)'
  BY <1>1, <1>3, <1>4, <1>5, Zenon DEF Progress, At
<1>9. RecordsFollow(p)'
  BY <1>1, <1>3, <1>4, <1>5, <1>6, RequestFacts DEF RecordsFollow, At
<1>10. OwedFollows(p)'
  BY <1>1, <1>2, <1>3, <1>4, <1>5, <1>6, <1>7, RequestFacts DEF OwedFollows, At, Transaction
<1>11. \A i \in TaskIDs : t.rows[i] > 0 => rows[i] < t.rows[i] /\ ~Locked(p, i)
  BY <1>4, RowsMine, Zenon
<1>12. LocalChange(p, t, k, owed[p])
  BY <1>2, <1>3, <1>5, <1>11, RequestFacts DEF LocalChange
<1> QED
  BY <1>8, <1>9, <1>10, <1>12, LocalStep

LEMMA ReturnedFacts ==
    ASSUME HostInv, NEW p \in Requests, NEW outcome \in {"ok", "conflict", "error"}, ~At(p, "idle")
    PROVE  /\ Returned(p, outcome) \in Call
           /\ Returned(p, outcome).at \in {"idle", "answer"}
           /\ Returned(p, outcome).at = "answer" => Returned(p, outcome).task \in TaskIDs
<1>1. calls[p] \in Call /\ calls[p].task \in TaskIDs
  BY RequestFacts DEF Progress
<1>2. CASE calls[p].command = NoCommand
  <2>1. Returned(p, outcome) = NoCall
    BY <1>2 DEF Returned
  <2> QED
    BY <2>1, NoCallFacts
<1>3. CASE calls[p].command # NoCommand
  <2>1. Returned(p, outcome) = [calls[p] EXCEPT !.at = "answer", !.outcome = outcome]
    BY <1>3 DEF Returned
  <2> QED
    BY <1>1, <2>1, Zenon DEF Call
<1> QED
  BY <1>2, <1>3

LEMMA RefusedKeeps ==
    ASSUME HostInv, NEW p \in Requests, NEW outcome \in {"conflict", "error"}, Refused(p, outcome),
           calls[p].at \in {"get", "update", "history", "append"} \/
               (calls[p].at \in {"return", "commit"} /\ txs[p].led = "engine")
    PROVE  HostInv'
<1> DEFINE k == Returned(p, outcome)
<1>1. /\ UNCHANGED committed /\ owed' = owed /\ delivered' = delivered /\ lost' = lost
      /\ calls' = [calls EXCEPT ![p] = k]
  BY DEF Refused
<1>2. k \in Call /\ k.at \in {"idle", "answer"} /\ (k.at = "answer" => k.task \in TaskIDs)
  BY ReturnedFacts DEF At
<1> HIDE DEF k
<1>3. calls'[p] = k /\ owed'[p] = owed[p] /\ txs[p].led \in {"host", "engine"}
  BY <1>1, RequestFacts, Zenon DEF HostInv, HostType, Progress, Transaction
<1>4. CASE txs[p].led = "engine"
  <2>1. txs' = [txs EXCEPT ![p] = Closed] /\ txs'[p] = Closed /\ owed[p] = {}
    BY <1>4, RequestFacts, Zenon DEF Refused, HostInv, HostType, OwedFollows
  <2>2. Progress(p)' /\ RecordsFollow(p)' /\ OwedFollows(p)'
    BY <1>2, <1>3, <2>1, ClosingFacts, Zenon
  <2>3. LocalChange(p, Closed, k, owed[p])
    BY <1>1, <1>2, <2>1, RequestFacts, ClosedFacts DEF LocalChange
  <2> QED
    BY <2>2, <2>3, LocalStep, Zenon
<1>5. CASE txs[p].led = "host"
  <2> DEFINE t == [txs[p] EXCEPT !.failed = TRUE]
  <2>1. txs' = [txs EXCEPT ![p] = t]
    BY <1>5 DEF Refused
  <2>2. t \in Transaction /\ txs'[p] = t /\ t.failed
    BY <2>1, RequestFacts, ZenonT(30) DEF Transaction, HostInv, HostType
  <2>3. /\ t.rows = txs[p].rows /\ t.history = txs[p].history /\ t.outbox = txs[p].outbox
        /\ t.led = "host"
    BY <1>5, RequestFacts DEF Transaction
  <2> HIDE DEF t
  <2>4. Staged(p)' = Staged(p) /\ rows' = rows /\ outbox' = outbox
    BY <1>1, <2>2, <2>3, StagedKept, Zenon DEF HostInv, committed
  <2>5. Progress(p)'
    BY <1>2, <1>3, <2>2, <2>3, Zenon DEF Progress, At
  <2>6. RecordsFollow(p)'
    BY <1>2, <1>3, <1>5, <2>2, <2>3, <2>4, RequestFacts DEF RecordsFollow
  <2>7. OwedFollows(p)'
    BY <1>3, <1>5, <2>2, <2>3, RequestFacts, Zenon DEF OwedFollows
  <2>8. \A i \in TaskIDs : t.rows[i] > 0 => rows[i] < t.rows[i] /\ ~Locked(p, i)
    BY <2>3, RowsMine, Zenon
  <2>9. LocalChange(p, t, k, owed[p])
    BY <1>1, <1>2, <2>1, <2>2, <2>8, RequestFacts, Zenon DEF LocalChange
  <2> QED
    BY <2>5, <2>6, <2>7, <2>9, LocalStep, Zenon
<1> QED
  BY <1>3, <1>4, <1>5

\* What has to hold for an operation to move on with nothing left unwritten.
MayMoveOn(p, k) ==
    /\ txs[p].led = "engine" => (calls[p].at \in {"get", "update"} <=> k.at \in {"get", "update"})
    /\ k.at \in {"return", "commit"} => calls[p].at \in {"return", "commit"}
    /\ calls[p].at # k.at =>
        /\ calls[p].at \notin {"history", "append"}
        /\ txs[p].led = "host" => calls[p].at # "return"

\* An operation moves on in its transaction and writes nothing.
LEMMA MovesOnKeeps ==
    ASSUME HostInv, NEW p \in Requests, NEW k \in Call, calls' = [calls EXCEPT ![p] = k],
           UNCHANGED <<committed, txs, owed, delivered, lost>>, Progress(p)', MayMoveOn(p, k),
           Written(p)' = Written(p) \/ calls[p].at \notin {"history", "append", "return", "commit"}
    PROVE  HostInv'
<1> USE DEF MayMoveOn
<1>1. calls'[p] = k /\ rows' = rows /\ outbox' = outbox /\ txs' = txs /\ owed' = owed
  BY DEF HostInv, HostType, committed
<1>2. Staged(p)' = Staged(p)
  BY <1>1, StagedKept, Zenon DEF HostInv
<1>3. RecordsFollow(p)'
  BY <1>1, <1>2, RequestFacts DEF RecordsFollow, At
<1>4. OwedFollows(p)'
  <2>1. CASE txs[p].led = "nobody"
    BY <1>1, <2>1, RequestFacts, Zenon DEF OwedFollows
  <2>2. CASE txs[p].led = "host"
    BY <1>1, <2>2, RequestFacts, Zenon DEF OwedFollows, At
  <2>3. CASE txs[p].led = "engine"
    <3>1. CASE calls[p].at \in {"get", "update"}
      <4>1. txs[p].outbox \subseteq Staged(p) /\ \A id \in TaskIDs : txs[p].rows[id] = 0
        BY <2>3, <3>1, RequestFacts, Zenon DEF OwedFollows, RecordsFollow
      <4>2. Staged(p) = {}
        <5>1. ASSUME NEW i \in Item, i.version <= txs[p].rows[i.task] PROVE FALSE
          BY <4>1, <5>1, HostAssumption DEF Item
        <5> QED
          BY <5>1, Zenon DEF Staged
      <4> QED
        BY <1>1, <1>2, <2>3, <4>1, <4>2, RequestFacts DEF OwedFollows
    <3>2. CASE calls[p].at \notin {"get", "update"}
      <4>1. Written(p)' = Written(p)
        BY <2>3, <3>2, RequestFacts, Zenon DEF Progress, Call
      <4> QED
        BY <1>1, <1>2, <2>3, <3>2, <4>1, RequestFacts, Zenon DEF OwedFollows
    <3> QED
      BY <3>1, <3>2, Zenon
  <2> QED
    BY <2>1, <2>2, <2>3, RequestFacts, Zenon DEF Transaction
<1>5. \A i \in TaskIDs : txs[p].rows[i] > 0 => rows[i] < txs[p].rows[i] /\ ~Locked(p, i)
  BY RowsMine, Zenon
<1>6. LocalChange(p, txs[p], k, owed[p])
  BY <1>1, <1>5, RequestFacts, Zenon DEF LocalChange
<1> QED
  BY <1>3, <1>4, <1>6, LocalStep, Zenon

LEMMA GetKeeps ==
    ASSUME HostInv, NEW p \in Requests, Get(p)
    PROVE  HostInv'
<1> DEFINE current == Visible(p, calls[p].task)
           k == [calls[p] EXCEPT !.at = "update", !.version = current]
<1>1. At(p, "get") /\ calls[p].task \in TaskIDs /\ calls[p].at = "get"
  BY RequestFacts DEF Get, Progress, At
<1>2. current \in Versions
  BY <1>1, RequestFacts DEF Visible, HostInv, HostType, Transaction
<1> HIDE DEF current
<1>3. CASE Expected(p, current)
  <2>1. /\ current < MaxVersion /\ calls' = [calls EXCEPT ![p] = k]
        /\ UNCHANGED <<committed, txs, owed, delivered, lost>>
    BY <1>3, Zenon DEF Get, current
  <2>2. k \in Call /\ k.at = "update" /\ k.version = current /\ k.task = calls[p].task
    BY <1>2, RequestFacts, Zenon DEF Call
  <2> HIDE DEF k
  <2>3. calls'[p] = k /\ txs' = txs
    BY <2>1 DEF HostInv, HostType
  <2>4. Progress(p)'
    BY <1>1, <2>1, <2>2, <2>3, RequestFacts, Zenon DEF Progress, At
  <2> QED
    BY <1>1, <2>1, <2>2, <2>4, MovesOnKeeps, Zenon DEF MayMoveOn
<1>4. CASE ~Expected(p, current)
  <2>1. Refused(p, "conflict")
    BY <1>4 DEF Get, current
  <2> QED
    BY <1>1, <2>1, RefusedKeeps, Zenon
<1> QED
  BY <1>3, <1>4

LEMMA CheckKeeps ==
    ASSUME HostInv, NEW p \in Requests, Check(p)
    PROVE  HostInv'
<1> DEFINE k == [calls[p] EXCEPT !.at = "commit"]
<1>1. /\ calls[p].at = "return" /\ txs[p].led = "engine" /\ calls' = [calls EXCEPT ![p] = k]
      /\ UNCHANGED <<committed, txs, owed, delivered, lost>>
  BY DEF Check, At
<1>2. k \in Call /\ k.at = "commit" /\ k.version = calls[p].version /\ k.task = calls[p].task
  BY RequestFacts DEF Call
<1> HIDE DEF k
<1>3. calls'[p] = k /\ txs' = txs
  BY <1>1 DEF HostInv, HostType
<1>4. Progress(p)' /\ Written(p)' = Written(p)
  BY <1>1, <1>2, <1>3, RequestFacts, Zenon DEF Progress, At, Written
<1> QED
  BY <1>1, <1>2, <1>4, MovesOnKeeps, Zenon DEF MayMoveOn

LEMMA CancelKeeps ==
    ASSUME HostInv, NEW p \in Requests, Cancel(p)
    PROVE  HostInv'
<1> DEFINE k == [calls[p] EXCEPT !.cancelled = TRUE]
<1>1. /\ calls' = [calls EXCEPT ![p] = k]
      /\ UNCHANGED <<committed, txs, owed, delivered, lost>>
  BY DEF Cancel
<1>2. k \in Call /\ k.at = calls[p].at /\ k.version = calls[p].version /\ k.task = calls[p].task
  BY RequestFacts, Zenon DEF Call
<1> HIDE DEF k
<1>3. calls'[p] = k /\ txs' = txs
  BY <1>1 DEF HostInv, HostType
<1>4. Progress(p)' /\ Written(p)' = Written(p)
  BY <1>1, <1>2, <1>3, RequestFacts, Zenon DEF Progress, At, Written
<1> QED
  BY <1>1, <1>2, <1>4, MovesOnKeeps, Zenon DEF MayMoveOn

\* An operation that was answered leaves its request idle.
LEMMA AnsweredKeeps ==
    ASSUME HostInv, NEW p \in Requests, At(p, "answer"), calls' = [calls EXCEPT ![p] = NoCall],
           UNCHANGED <<committed, txs, owed, delivered, lost>>
    PROVE  HostInv'
<1>1. calls[p].at = "answer" /\ calls'[p] = NoCall /\ txs' = txs
  BY DEF HostInv, HostType, At
<1>2. Progress(p)' /\ txs[p].led # "engine"
  BY <1>1, RequestFacts, NoCallFacts, Zenon DEF Progress, At
<1> QED
  BY <1>1, <1>2, NoCallFacts, MovesOnKeeps, Zenon DEF MayMoveOn

LEMMA UpdateKeeps ==
    ASSUME HostInv, NEW p \in Requests, Update(p)
    PROVE  HostInv'
<1>1. calls[p].at = "update" /\ calls[p].task \in TaskIDs /\ calls[p].version < MaxVersion
  BY RequestFacts DEF Update, Progress, At
<1>2. CASE Visible(p, calls[p].task) # calls[p].version
  <2>1. \E outcome \in {"conflict", "error"} : Refused(p, outcome)
    BY <1>2 DEF Update
  <2> QED
    BY <1>1, <2>1, RefusedKeeps, Zenon
<1>3. CASE Visible(p, calls[p].task) = calls[p].version
  <2> DEFINE id == calls[p].task
             w == [txs[p].rows EXCEPT ![id] = calls[p].version + 1]
             t == [txs[p] EXCEPT !.rows = w]
             k == [calls[p] EXCEPT !.at = "history"]
  <2>1. /\ ~Locked(p, id)
        /\ txs' = [txs EXCEPT ![p] = t] /\ calls' = [calls EXCEPT ![p] = k]
        /\ UNCHANGED <<committed, owed, delivered, lost>>
    BY <1>3 DEF Update
  <2>2. calls[p].version \in Versions /\ calls[p].version + 1 \in Versions
    BY <1>1, RequestFacts, HostAssumption DEF Call, Versions
  <2>3. w \in [TaskIDs -> Versions] /\ w[id] = calls[p].version + 1
    BY <1>1, <2>2, RequestFacts, Zenon DEF Transaction
  <2>4. \A i \in TaskIDs \ {id} : w[i] = txs[p].rows[i]
    BY <1>1, RequestFacts DEF Transaction
  <2>5. t \in Transaction /\ t.rows = w
    BY <2>3, RequestFacts DEF Transaction
  <2>6. /\ t.led = txs[p].led /\ t.history = txs[p].history /\ t.outbox = txs[p].outbox
        /\ t.failed = txs[p].failed
    BY RequestFacts DEF Transaction
  <2>7. k \in Call /\ k.at = "history" /\ k.version = calls[p].version /\ k.task = id
    BY RequestFacts DEF Call
  <2> HIDE DEF w, t, k
  <2>8. txs'[p] = t /\ calls'[p] = k /\ rows' = rows /\ outbox' = outbox /\ owed' = owed
    BY <2>1 DEF HostInv, HostType, committed
  <2>9. Written(p)' = Written(p)
    BY <2>7, <2>8, Zenon DEF Written
  <2>10. rows[id] \in Versions /\ txs[p].rows[id] \in Versions
    BY <1>1, RequestFacts, Zenon DEF HostInv, HostType, Transaction
  <2>11. rows[id] <= calls[p].version
    <3>1. CASE txs[p].rows[id] > 0
      BY <1>1, <1>3, <2>2, <2>10, <3>1, HostAssumption DEF Visible, HostInv, Ahead, Versions
    <3>2. CASE ~(txs[p].rows[id] > 0)
      BY <1>3, <2>2, <2>10, <3>2, HostAssumption DEF Visible, Versions
    <3> QED
      BY <3>1, <3>2, Zenon
  <2>12. Written(p) \in Item
    BY <1>1, RequestFacts, WrittenIsItem, Zenon DEF HostInv, At
  <2>13. Staged(p)' = Staged(p) \cup {Written(p)}
    <3>1. ASSUME NEW i \in Item, i.task # id
          PROVE  i \in Staged(p)' <=> i \in Staged(p)
      <4>1. t.rows[i.task] = txs[p].rows[i.task]
        BY <2>4, <2>5, <3>1, Zenon DEF Item
      <4> QED
        BY <2>8, <4>1, Zenon DEF Staged
    <3>2. ASSUME NEW i \in Item, i.task = id
          PROVE  i \in Staged(p)' <=> i \in Staged(p) \cup {Written(p)}
      <4>1. PICK v \in 1..MaxVersion : v = i.version
        BY DEF Item
      <4>2. i = Written(p) <=> v = calls[p].version + 1
        BY <3>2, <4>1 DEF Written, Item
      <4>3. i \in Staged(p)' <=> rows[id] < v /\ v <= calls[p].version + 1
        BY <2>3, <2>5, <2>8, <3>2, <4>1, Zenon DEF Staged
      <4>4. i \in Staged(p) <=> rows[id] < v /\ v <= txs[p].rows[id]
        BY <3>2, <4>1, Zenon DEF Staged
      <4>5. CASE txs[p].rows[id] > 0
        <5>1. txs[p].rows[id] = calls[p].version
          BY <1>3, <4>5, Zenon DEF Visible
        <5> QED
          BY <2>2, <2>10, <2>11, <4>1, <4>2, <4>3, <4>4, <5>1, HostAssumption DEF Versions
      <4>6. CASE ~(txs[p].rows[id] > 0)
        <5>1. rows[id] = calls[p].version
          BY <1>3, <4>6, Zenon DEF Visible
        <5> QED
          BY <2>2, <2>10, <4>1, <4>2, <4>3, <4>4, <4>6, <5>1, HostAssumption DEF Versions
      <4> QED
        BY <4>5, <4>6, Zenon
    <3>3. Staged(p) \subseteq Item /\ Staged(p)' \subseteq Item
      BY Zenon DEF Staged
    <3>4. Written(p).task = id
      BY Zenon DEF Written
    <3> QED
      BY <2>12, <3>1, <3>2, <3>3, <3>4, Zenon
  <2>14. Progress(p)'
    BY <1>1, <2>3, <2>5, <2>6, <2>7, <2>8, RequestFacts, Zenon DEF Progress, At
  <2>15. RecordsFollow(p)'
    <3>1. txs[p].led # "nobody"
      BY <1>1, RequestFacts, Zenon DEF Progress
    <3>2. RecordsFollow(p)
      BY RequestFacts
    <3> QED
      BY <1>1, <2>6, <2>7, <2>8, <2>9, <2>13, <3>1, <3>2, Zenon DEF RecordsFollow, At
  <2>16. OwedFollows(p)'
    <3>1. txs[p].led = "engine" => Staged(p) = {}
      <4> SUFFICES ASSUME txs[p].led = "engine", NEW i \in Item, i.version <= txs[p].rows[i.task]
                   PROVE  FALSE
        BY Zenon DEF Staged
      <4>1. txs[p].rows[i.task] = 0
        BY <1>1, RequestFacts, Zenon DEF OwedFollows, Item
      <4> QED
        BY <4>1, HostAssumption DEF Item
    <3>2. OwedFollows(p)
      BY RequestFacts
    <3> QED
      BY <1>1, <2>6, <2>7, <2>8, <2>9, <2>13, <3>1, <3>2, Zenon DEF OwedFollows, At
  <2>17. ASSUME NEW i \in TaskIDs, t.rows[i] > 0 PROVE rows[i] < t.rows[i] /\ ~Locked(p, i)
    <3>1. CASE i = id
      BY <2>1, <2>2, <2>3, <2>5, <2>10, <2>11, <3>1, HostAssumption DEF Versions
    <3>2. CASE i # id
      BY <2>4, <2>5, <2>17, <3>2, RowsMine, Zenon
    <3> QED
      BY <3>1, <3>2, Zenon
  <2>18. LocalChange(p, t, k, owed[p])
    BY <2>1, <2>5, <2>7, <2>17, RequestFacts, Zenon DEF LocalChange
  <2> QED
    BY <2>14, <2>15, <2>16, <2>18, LocalStep
<1> QED
  BY <1>2, <1>3

\* What the running operation wrote is staged.
LEMMA WrittenIsStaged ==
    ASSUME HostInv, NEW p \in Requests, calls[p].at \in {"history", "append", "return", "commit"}
    PROVE  Written(p) \in Staged(p)
<1>1. /\ calls[p].task \in TaskIDs /\ calls[p].version \in Versions
      /\ calls[p].version < MaxVersion
      /\ txs[p].rows[calls[p].task] = calls[p].version + 1
  BY RequestFacts, Zenon DEF Progress, At, Call
<1>2. Written(p) \in Item
  BY <1>1, RequestFacts, WrittenIsItem, Zenon DEF HostInv, At
<1>3. PICK id \in TaskIDs, v \in Versions : id = calls[p].task /\ v = calls[p].version
  BY <1>1, Zenon
<1>4. txs[p].rows[id] = v + 1 /\ txs[p].rows[id] > 0
  BY <1>1, <1>3, HostAssumption DEF Versions
<1>5. rows[id] < v + 1
  BY <1>4, RowsMine, Zenon
<1>6. Written(p).task = id /\ Written(p).version = v + 1
  BY <1>3, Zenon DEF Written
<1>7. v + 1 <= v + 1
  BY HostAssumption DEF Versions
<1> QED
  BY <1>2, <1>4, <1>5, <1>6, <1>7, Zenon DEF Staged

LEMMA AppendHistoryKeeps ==
    ASSUME HostInv, NEW p \in Requests, AppendHistory(p)
    PROVE  HostInv'
<1> DEFINE t == [txs[p] EXCEPT !.history = txs[p].history \cup {Written(p)}]
           k == [calls[p] EXCEPT !.at = "append"]
<1>1. /\ calls[p].at = "history"
      /\ txs' = [txs EXCEPT ![p] = t] /\ calls' = [calls EXCEPT ![p] = k]
      /\ UNCHANGED <<committed, owed, delivered, lost>>
  BY DEF AppendHistory, At
<1>2. Written(p) \in Item
  BY <1>1, RequestFacts, WrittenIsItem, Zenon DEF HostInv, At, Progress
<1>3. t \in Transaction /\ t.history = txs[p].history \cup {Written(p)}
  BY <1>2, RequestFacts DEF Transaction
<1>4. /\ t.led = txs[p].led /\ t.rows = txs[p].rows /\ t.outbox = txs[p].outbox
      /\ t.failed = txs[p].failed
  BY RequestFacts DEF Transaction
<1>5. k \in Call /\ k.at = "append" /\ k.version = calls[p].version /\ k.task = calls[p].task
  BY RequestFacts DEF Call
<1> HIDE DEF t, k
<1>6. txs'[p] = t /\ calls'[p] = k /\ rows' = rows /\ outbox' = outbox /\ owed' = owed
  BY <1>1, Zenon DEF HostInv, HostType, committed
<1>7. Staged(p)' = Staged(p) /\ Written(p)' = Written(p)
  BY <1>4, <1>5, <1>6, StagedKept, Zenon DEF HostInv, Written
<1>8. Written(p) \in Staged(p)
  BY <1>1, WrittenIsStaged
<1>9. Progress(p)'
  BY <1>1, <1>4, <1>5, <1>6, RequestFacts DEF Progress, At
<1>10. RecordsFollow(p)'
  <2>1. RecordsFollow(p) /\ txs[p].led # "nobody"
    BY <1>1, RequestFacts, Zenon DEF Progress
  <2> QED
    BY <1>1, <1>3, <1>4, <1>5, <1>6, <1>7, <1>8, <2>1, Zenon DEF RecordsFollow, At
<1>11. OwedFollows(p)'
  <2>1. OwedFollows(p)
    BY RequestFacts
  <2> QED
    BY <1>1, <1>4, <1>5, <1>6, <1>7, <2>1, Zenon DEF OwedFollows, At
<1>12. \A i \in TaskIDs : t.rows[i] > 0 => rows[i] < t.rows[i] /\ ~Locked(p, i)
  BY <1>4, RowsMine, Zenon
<1>13. LocalChange(p, t, k, owed[p])
  BY <1>1, <1>3, <1>5, <1>12, RequestFacts, Zenon DEF LocalChange
<1> QED
  BY <1>9, <1>10, <1>11, <1>13, LocalStep

LEMMA AppendOutboxKeeps ==
    ASSUME HostInv, NEW p \in Requests, AppendOutbox(p)
    PROVE  HostInv'
<1> DEFINE t == [txs[p] EXCEPT !.outbox = txs[p].outbox \cup {Written(p)}]
           k == [calls[p] EXCEPT !.at = "return"]
<1>1. /\ calls[p].at = "append"
      /\ txs' = [txs EXCEPT ![p] = t] /\ calls' = [calls EXCEPT ![p] = k]
      /\ UNCHANGED <<committed, owed, delivered, lost>>
  BY DEF AppendOutbox, At
<1>2. Written(p) \in Item
  BY <1>1, RequestFacts, WrittenIsItem, Zenon DEF HostInv, At, Progress
<1>3. t \in Transaction /\ t.outbox = txs[p].outbox \cup {Written(p)}
  BY <1>2, RequestFacts DEF Transaction
<1>4. /\ t.led = txs[p].led /\ t.rows = txs[p].rows /\ t.history = txs[p].history
      /\ t.failed = txs[p].failed
  BY RequestFacts DEF Transaction
<1>5. k \in Call /\ k.at = "return" /\ k.version = calls[p].version /\ k.task = calls[p].task
  BY RequestFacts DEF Call
<1> HIDE DEF t, k
<1>6. txs'[p] = t /\ calls'[p] = k /\ rows' = rows /\ outbox' = outbox /\ owed' = owed
  BY <1>1 DEF HostInv, HostType, committed
<1>7. Staged(p)' = Staged(p) /\ Written(p)' = Written(p)
  BY <1>4, <1>5, <1>6, StagedKept, Zenon DEF HostInv, Written
<1>8. Written(p) \in Staged(p)
  BY <1>1, WrittenIsStaged, Zenon
<1>9. Progress(p)'
  BY <1>1, <1>4, <1>5, <1>6, RequestFacts DEF Progress, At
<1>10. RecordsFollow(p)'
  <2>1. RecordsFollow(p) /\ txs[p].led # "nobody"
    BY <1>1, RequestFacts, Zenon DEF Progress
  <2> QED
    BY <1>1, <1>3, <1>4, <1>5, <1>6, <1>7, <1>8, <2>1, Zenon DEF RecordsFollow, At
<1>11. OwedFollows(p)'
  <2>1. OwedFollows(p)
    BY RequestFacts
  <2> QED
    BY <1>1, <1>3, <1>4, <1>5, <1>6, <1>7, <2>1, Zenon DEF OwedFollows, At
<1>12. \A i \in TaskIDs : t.rows[i] > 0 => rows[i] < t.rows[i] /\ ~Locked(p, i)
  BY <1>4, RowsMine, Zenon
<1>13. LocalChange(p, t, k, owed[p])
  BY <1>1, <1>3, <1>5, <1>12, RequestFacts, Zenon DEF LocalChange
<1> QED
  BY <1>9, <1>10, <1>11, <1>13, LocalStep

\* At the commit of an operation of its own, the engine has staged that operation.
LEMMA CommitsOne ==
    ASSUME HostInv, NEW p \in Requests, At(p, "commit")
    PROVE  /\ txs[p].led = "engine" /\ ~txs[p].failed /\ owed[p] = {} /\ calls[p].at = "commit"
           /\ Written(p) \in Item /\ txs[p].outbox = {Written(p)} /\ txs[p].history = {Written(p)}
           /\ Written(p) \notin history
<1>1. calls[p].at = "commit" /\ txs[p].led = "engine" /\ ~txs[p].failed /\ owed[p] = {}
  BY RequestFacts, Zenon DEF At, Progress, OwedFollows
<1>2. Written(p) \in Item
  BY <1>1, RequestFacts, WrittenIsItem, Zenon DEF HostInv, At, Progress
<1>3. Written(p) \in Staged(p)
  BY <1>1, WrittenIsStaged, Zenon
<1>4. Staged(p) \subseteq {Written(p)}
  BY <1>1, RequestFacts, Zenon DEF OwedFollows
<1>5. txs[p].outbox = Staged(p) /\ txs[p].history = Staged(p)
  BY <1>1, RequestFacts, Zenon DEF RecordsFollow, At
<1>6. Written(p) \notin history
  BY <1>3, StagedIsNew
<1> QED
  BY <1>1, <1>2, <1>3, <1>4, <1>5, <1>6, Zenon

LEMMA EngineCommitKeeps ==
    ASSUME HostInv, NEW p \in Requests, EngineCommit(p)
    PROVE  HostInv'
<1> DEFINE k == [calls[p] EXCEPT !.at = "deliver"]
<1>1. /\ At(p, "commit") /\ Commit(p) /\ owed' = [owed EXCEPT ![p] = {Written(p)}]
      /\ calls' = [calls EXCEPT ![p] = k] /\ delivered' = delivered /\ lost' = lost
  BY DEF EngineCommit
<1>2. PICK w \in Item : w = Written(p) /\ txs[p].outbox = {w}
  BY <1>1, CommitsOne
<1>3. /\ ~txs[p].failed /\ owed[p] = {} /\ calls[p].at = "commit"
      /\ calls[p].task \in TaskIDs
  BY <1>1, CommitsOne, RequestFacts DEF Progress, At
<1>4. k \in Call /\ k.at = "deliver" /\ k.task = calls[p].task
  BY RequestFacts DEF Call
<1> HIDE DEF k
<1>5. outbox' = outbox \cup {w}
  BY <1>1, <1>2, Zenon DEF Commit
<1>6. owed' = [owed EXCEPT ![p] = {w}] /\ {w} \in SUBSET Item /\ {w} \subseteq outbox'
  BY <1>1, <1>2, <1>5, Zenon
<1> QED
  BY <1>1, <1>2, <1>3, <1>4, <1>6, RequestFacts, CommitStep, Zenon

LEMMA CommitUnansweredKeeps ==
    ASSUME HostInv, NEW p \in Requests, CommitUnanswered(p)
    PROVE  HostInv'
<1> DEFINE k == Returned(p, "error")
<1>1. /\ At(p, "commit") /\ Commit(p) /\ owed' = owed /\ delivered' = delivered
      /\ calls' = [calls EXCEPT ![p] = k] /\ lost' = lost \cup {Written(p)}
  BY Zenon DEF CommitUnanswered
<1>2. PICK w \in Item : w = Written(p) /\ txs[p].outbox = {w}
  BY <1>1, CommitsOne, Zenon
<1>3. ~txs[p].failed /\ owed[p] = {} /\ calls[p].at = "commit"
  BY <1>1, CommitsOne, Zenon
<1>4. k \in Call /\ k.at \in {"idle", "answer"} /\ (k.at = "answer" => k.task \in TaskIDs)
  BY <1>3, ReturnedFacts, Zenon DEF At
<1> HIDE DEF k
<1>5. lost \subseteq lost' /\ lost' \subseteq Item /\ w \in lost'
  BY <1>1, <1>2, RequestFacts, Zenon
<1>6. owed' = [owed EXCEPT ![p] = {}]
  BY <1>1, <1>3, RequestFacts, Zenon
<1> QED
  BY <1>1, <1>2, <1>3, <1>4, <1>5, <1>6, CommitStep, Zenon

LEMMA DeliverKeeps ==
    ASSUME HostInv, NEW p \in Requests, Deliver(p)
    PROVE  HostInv'
<1> DEFINE k == Returned(p, "ok")
<1>1. /\ calls[p].at = "deliver" /\ delivered' = delivered \cup owed[p]
      /\ owed' = [owed EXCEPT ![p] = {}] /\ txs' = txs /\ calls' = [calls EXCEPT ![p] = k]
      /\ lost' = lost /\ UNCHANGED committed
  BY Zenon DEF Deliver, At
<1>2. txs[p] = Closed /\ owed[p] \subseteq outbox
  BY <1>1, RequestFacts, Zenon DEF RecordsFollow, OwedFollows, Progress, At
<1>3. k \in Call /\ k.at \in {"idle", "answer"} /\ (k.at = "answer" => k.task \in TaskIDs)
  BY <1>1, ReturnedFacts DEF At
<1> HIDE DEF k
<1>4. txs'[p] = Closed /\ owed'[p] = {} /\ calls'[p] = k
  BY <1>1, <1>2, Zenon DEF HostInv, HostType
<1>5. Progress(p)' /\ RecordsFollow(p)' /\ OwedFollows(p)'
  BY <1>3, <1>4, ClosingFacts, Zenon
<1>6. delivered' \subseteq outbox
  BY <1>1, <1>2, RequestFacts, Zenon
<1>7. LocalChange(p, Closed, k, {})
  BY <1>1, <1>2, <1>3, <1>6, RequestFacts, ClosedFacts DEF LocalChange
<1> QED
  BY <1>5, <1>7, LocalStep

LEMMA ReturnPendingKeeps ==
    ASSUME HostInv, NEW p \in Requests, ReturnPending(p)
    PROVE  HostInv'
<1> DEFINE o == owed[p] \cup {Written(p)}
<1>1. /\ calls[p].at = "return" /\ txs[p].led = "host" /\ owed' = [owed EXCEPT ![p] = o]
      /\ calls' = [calls EXCEPT ![p] = NoCall] /\ txs' = txs /\ delivered' = delivered /\ lost' = lost
      /\ UNCHANGED committed
  BY Zenon DEF ReturnPending, At
<1>2. Written(p) \in Staged(p) /\ Staged(p) \subseteq Item
  BY <1>1, WrittenIsStaged, Zenon DEF Staged
<1>3. o \in SUBSET Item
  BY <1>2, RequestFacts
<1>4. txs'[p] = txs[p] /\ owed'[p] = o /\ calls'[p] = NoCall /\ rows' = rows /\ outbox' = outbox
  BY <1>1, <1>3, Zenon DEF HostInv, HostType, committed
<1>5. Staged(p)' = Staged(p)
  BY <1>4, StagedKept, Zenon DEF HostInv
<1>6. Progress(p)'
  BY <1>1, <1>4, NoCallFacts, Zenon DEF Progress, At
<1>7. RecordsFollow(p)'
  BY <1>1, <1>4, <1>5, NoCallFacts, RequestFacts DEF RecordsFollow, At
<1>8. OwedFollows(p)'
  <2>1. owed[p] \subseteq txs[p].outbox
    BY <1>1, RequestFacts, Zenon DEF OwedFollows
  <2>2. ~txs[p].failed => txs[p].outbox \subseteq o
    BY <1>1, RequestFacts, Zenon DEF OwedFollows, At
  <2>3. Written(p) \in txs[p].outbox
    BY <1>1, RequestFacts, Zenon DEF RecordsFollow
  <2> QED
    BY <1>1, <1>4, <2>1, <2>2, <2>3, Zenon DEF OwedFollows
<1>9. \A i \in TaskIDs : txs[p].rows[i] > 0 => rows[i] < txs[p].rows[i] /\ ~Locked(p, i)
  BY RowsMine, Zenon
<1>10. LocalChange(p, txs[p], NoCall, o)
  BY <1>1, <1>3, <1>9, RequestFacts, NoCallFacts, Zenon DEF LocalChange
<1> QED
  BY <1>6, <1>7, <1>8, <1>10, LocalStep, Zenon

LEMMA CrashKeeps ==
    ASSUME HostInv, NEW p \in Requests, Crash(p)
    PROVE  HostInv'
<1>1. /\ lost' = lost \cup (owed[p] \cap outbox) /\ txs' = [txs EXCEPT ![p] = Closed]
      /\ calls' = [calls EXCEPT ![p] = NoCall] /\ owed' = [owed EXCEPT ![p] = {}]
      /\ delivered' = delivered /\ UNCHANGED committed
  BY DEF Crash
<1>2. txs'[p] = Closed /\ owed'[p] = {} /\ calls'[p] = NoCall
  BY <1>1, Zenon DEF HostInv, HostType
<1>3. Progress(p)' /\ RecordsFollow(p)' /\ OwedFollows(p)'
  BY <1>2, NoCallFacts, ClosingFacts, Zenon
<1>4. LocalChange(p, Closed, NoCall, {})
  BY <1>1, RequestFacts, ClosedFacts, NoCallFacts DEF LocalChange
<1> QED
  BY <1>3, <1>4, LocalStep

LEMMA HostUnchanged ==
    ASSUME HostInv, UNCHANGED hostVars
    PROVE  HostInv'
<1>1. /\ rows' = rows /\ history' = history /\ outbox' = outbox /\ txs' = txs /\ calls' = calls
      /\ owed' = owed /\ delivered' = delivered /\ lost' = lost
  BY DEF hostVars, committed
<1>2. \A q \in Requests : Progress(q)' /\ RecordsFollow(q)' /\ OwedFollows(q)'
  BY <1>1, OthersKept
<1>3. HostType' /\ Ahead' /\ Exclusive'
  BY <1>1, Zenon DEF HostInv, HostType, Ahead, Exclusive
<1>4. CommittedTogether' /\ NoneForgotten' /\ delivered' \subseteq outbox'
  BY <1>1, Zenon DEF HostInv, CommittedTogether, NoneForgotten
<1> QED
  BY <1>2, <1>3, <1>4, Zenon DEF HostInv

\* Every step of the host, and every step of an operation, keeps the invariant.
LEMMA HostStepKeeps ==
    ASSUME HostInv, NEW p \in Requests, HostStep(p)
    PROVE  HostInv'
<1>1. ASSUME NEW id \in TaskIDs, Begin(p, NoCommand, id, AnyVersion) PROVE HostInv'
  <2>1. AnyVersion \in AnyVersion..MaxVersion
    BY HostAssumption DEF AnyVersion
  <2> QED
    BY <1>1, <2>1, BeginKeeps
<1> QED
  BY <1>1, HostBeginKeeps, HostCommitKeeps, HostRollbackKeeps, DispatchKeeps DEF HostStep

LEMMA EngineStepKeeps ==
    ASSUME HostInv, NEW p \in Requests, EngineStep(p)
    PROVE  HostInv'
<1>1. CASE Fails(p)
  BY <1>1, RefusedKeeps, Zenon DEF Fails
<1> QED
  BY <1>1, GetKeeps, UpdateKeeps, AppendHistoryKeeps, AppendOutboxKeeps, CheckKeeps,
     EngineCommitKeeps, CommitUnansweredKeeps, DeliverKeeps, ReturnPendingKeeps, CrashKeeps, Zenon
     DEF EngineStep

-----------------------------------------------------------------------------
(* The clients **********************************************************)

\* What holds of the call a step leaves a request with: it still is its command's,
\* or nobody's, and what it knows of a commit is recorded.
CallFollows(p, k) ==
    /\ k \in Call
    /\ k.command \in {calls[p].command, NoCommand}
    /\ k.command # NoCommand =>
        /\ k.at # "idle"
        /\ k.task = calls[p].task /\ k.expected = calls[p].expected
        /\ k.at \in {"update", "history", "append", "return", "commit", "deliver"} =>
               k.expected \in {AnyVersion, k.version}
        /\ k.at = "answer" <=> k.outcome # "none"
        /\ k.at = "deliver" \/ k.outcome = "ok" =>
               [command |-> k.command, item |-> [task |-> k.task, version |-> k.version + 1]] \in applied'
        /\ k.at # "deliver" /\ k.outcome \in {"none", "conflict"} =>
               /\ calls[p].at # "deliver" /\ calls[p].outcome \in {"none", "conflict"}
               /\ applied' = applied

\* What a step may add to applied: what a command's operation committed.
AppliedGrows(p, k) ==
    \/ applied' = applied
    \/ /\ calls[p].command # NoCommand /\ k.command = calls[p].command
       /\ Written(p) \in Item
       /\ calls[p].expected \in {AnyVersion, calls[p].version}
       /\ applied' = applied \cup {[command |-> calls[p].command, item |-> Written(p)]}

\* The commands stay, but that a client may stop waiting.
CommandsStay(p, k) ==
    \/ UNCHANGED <<commands, awaited>> /\ (p \in awaited => k.command = calls[p].command)
    \/ Leave(p)

LEMMA CommandsFacts ==
    ASSUME RestInv, NEW p \in Requests, NEW k, CommandsStay(p, k), calls \in [Requests -> Call]
    PROVE  /\ commands' \in [Commands -> Command]
           /\ \A c \in Commands :
                  /\ commands'[c].task = commands[c].task
                  /\ commands'[c].expected = commands[c].expected
                  /\ commands'[c].attempts = commands[c].attempts
                  /\ commands'[c].version = commands[c].version
                  /\ \/ commands'[c].answer = commands[c].answer
                     \/ commands[c].answer = "waiting" /\ commands'[c].answer = "lost"
           /\ awaited' \subseteq awaited
           /\ p \in awaited' => k.command = calls[p].command
           /\ \A q \in awaited' : commands'[calls[q].command] = commands[calls[q].command]
<1>1. /\ commands \in [Commands -> Command]
      /\ \A q \in awaited : calls[q].command # NoCommand /\ commands[calls[q].command].answer = "waiting"
      /\ \A q, r \in awaited : calls[q].command = calls[r].command => q = r
      /\ awaited \subseteq Requests
  BY Zenon DEF RestInv, RestType, AwaitedFollows
<1>2. CASE UNCHANGED <<commands, awaited>> /\ (p \in awaited => k.command = calls[p].command)
  BY <1>1, <1>2, Zenon
<1>3. CASE Leave(p) /\ p \notin awaited
  BY <1>1, <1>3 DEF Leave
<1>4. CASE Leave(p) /\ p \in awaited
  <2>1. PICK d \in Commands : d = calls[p].command
    BY <1>1, <1>4, Zenon DEF Call
  <2>2. commands' = [commands EXCEPT ![d].answer = "lost"] /\ awaited' = awaited \ {p}
    BY <1>4, <2>1 DEF Leave
  <2>3. commands[d] \in Command /\ commands[d].answer = "waiting"
    BY <1>1, <1>4, <2>1, Zenon
  <2>4. [commands[d] EXCEPT !.answer = "lost"] \in Command
    BY <2>3 DEF Command
  <2>5. commands' \in [Commands -> Command]
    BY <1>1, <2>2, <2>4
  <2>6. /\ commands'[d] = [commands[d] EXCEPT !.answer = "lost"]
        /\ \A c \in Commands \ {d} : commands'[c] = commands[c]
    BY <1>1, <2>2
  <2>7. /\ commands'[d].task = commands[d].task /\ commands'[d].expected = commands[d].expected
        /\ commands'[d].attempts = commands[d].attempts /\ commands'[d].version = commands[d].version
        /\ commands'[d].answer = "lost"
    BY <2>3, <2>6 DEF Command
  <2>8. ASSUME NEW q \in awaited' PROVE commands'[calls[q].command] = commands[calls[q].command]
    <3>1. q \in awaited /\ q # p
      BY <2>2
    <3>2. calls[q].command # d /\ calls[q].command \in Commands
      BY <1>1, <1>4, <2>1, <3>1, Zenon DEF Call
    <3> QED
      BY <2>6, <3>2
  <2> QED
    BY <2>2, <2>3, <2>5, <2>6, <2>7, <2>8
<1> QED
  BY <1>2, <1>3, <1>4, Zenon DEF CommandsStay

\* A step of one request that follows these rules keeps what is known of the clients.
LEMMA RestStep ==
    ASSUME RestInv, HostType, NEW p \in Requests, NEW k,
           calls' = [calls EXCEPT ![p] = k],
           CallFollows(p, k), AppliedGrows(p, k), CommandsStay(p, k)
    PROVE  RestInv'
<1>1. calls \in [Requests -> Call] /\ calls'[p] = k /\ calls[p] \in Call
      /\ \A q \in Requests \ {p} : calls'[q] = calls[q]
  BY Zenon DEF HostType
<1>2. /\ commands' \in [Commands -> Command]
      /\ awaited' \subseteq awaited
      /\ p \in awaited' => k.command = calls[p].command
  BY <1>1, CommandsFacts, Zenon
<1>3. ASSUME NEW c \in Commands
      PROVE  /\ commands'[c].task = commands[c].task
             /\ commands'[c].expected = commands[c].expected
             /\ commands'[c].attempts = commands[c].attempts
             /\ commands'[c].version = commands[c].version
             /\ \/ commands'[c].answer = commands[c].answer
                \/ commands[c].answer = "waiting" /\ commands'[c].answer = "lost"
  BY <1>1, CommandsFacts, Zenon
<1>4. \A q \in awaited' : commands'[calls[q].command] = commands[calls[q].command]
  BY <1>1, CommandsFacts, Zenon
<1>5. applied \subseteq applied'
      /\ \A a \in applied' \ applied : a.command = calls[p].command /\ k.command = a.command
  BY DEF AppliedGrows
<1>6. ASSUME NEW q \in Requests, calls'[q].command # NoCommand
      PROVE  calls'[q].command = calls[q].command
  <2>1. CASE q = p
    BY <1>1, <1>6, <2>1, Zenon DEF CallFollows
  <2>2. CASE q # p
    BY <1>1, <2>2, Zenon
  <2> QED
    BY <2>1, <2>2, Zenon
<1>7. RestType'
  <2>1. CASE applied' = applied
    BY <1>2, <2>1, Zenon DEF RestInv, RestType
  <2>2. CASE applied' # applied
    <3>1. calls[p].command \in Commands /\ Written(p) \in Item
          /\ applied' = applied \cup {[command |-> calls[p].command, item |-> Written(p)]}
      BY <1>1, <2>2, Zenon DEF AppliedGrows, Call
    <3> QED
      BY <1>2, <3>1 DEF RestInv, RestType
  <2> QED
    BY <2>1, <2>2
<1>8. ASSUME NEW q \in Requests, NEW c \in Commands PROVE Carries(q, c)'
  <2> SUFFICES ASSUME calls'[q].command = c PROVE Carries(q, c)'
    BY Zenon DEF Carries
  <2>1. c # NoCommand /\ calls[q].command = c
    BY <1>6, HostAssumption, Zenon
  <2>2. Carries(q, c)
    BY Zenon DEF RestInv
  <2>3. CASE q # p
    BY <1>1, <1>3, <2>1, <2>2, <2>3, Zenon DEF Carries, At
  <2>4. CASE q = p
    BY <1>1, <1>3, <2>1, <2>2, <2>4, Zenon DEF Carries, At, CallFollows
  <2> QED
    BY <2>3, <2>4, Zenon
<1>9. ASSUME NEW q \in Requests, NEW c \in Commands PROVE Known(q, c)'
  <2> SUFFICES ASSUME calls'[q].command = c, calls'[q].at = "deliver" \/ calls'[q].outcome = "ok"
               PROVE  [command |-> c, item |-> Written(q)'] \in applied'
    BY Zenon DEF Known, At
  <2>1. c # NoCommand /\ calls[q].command = c
    BY <1>6, HostAssumption, Zenon
  <2>2. CASE q # p
    BY <1>1, <1>5, <2>1, <2>2, Zenon DEF Known, At, RestInv, Written
  <2>3. CASE q = p
    BY <1>1, <2>1, <2>3, Zenon DEF CallFollows, Written
  <2> QED
    BY <2>2, <2>3, Zenon
<1>10. AppliedFollows'
  <2> SUFFICES ASSUME NEW a \in applied'
               PROVE  /\ commands'[a.command].attempts > 0
                      /\ commands'[a.command].answer \notin {"none", "StatusBadRequest"}
                      /\ a.item.task = commands'[a.command].task
                      /\ commands'[a.command].expected # AnyVersion =>
                             a.item.version = commands'[a.command].expected + 1
    BY Zenon DEF AppliedFollows
  <2>1. PICK c \in Commands : c = a.command
    BY <1>7 DEF RestType
  <2>2. CASE a \in applied
    BY <1>3, <2>1, <2>2, Zenon DEF RestInv, AppliedFollows
  <2>3. CASE a \notin applied
    <3>1. /\ calls[p].command = c /\ calls[p].expected \in {AnyVersion, calls[p].version}
          /\ a.item = Written(p)
      BY <2>1, <2>3 DEF AppliedGrows
    <3>2. Carries(p, c)
      BY Zenon DEF RestInv
    <3> QED
      BY <1>3, <2>1, <3>1, <3>2 DEF Carries, Written
  <2> QED
    BY <2>2, <2>3, Zenon
<1>11. AwaitedFollows'
  <2>1. ASSUME NEW q \in awaited'
        PROVE  q \in awaited /\ q \in Requests /\ calls'[q].command = calls[q].command
    BY <1>1, <1>2, Zenon DEF RestInv, RestType
  <2> QED
    BY <1>4, <2>1 DEF RestInv, AwaitedFollows
<1>12. ASSUME NEW c \in Commands PROVE FirstAttempt(c)'
  <2> SUFFICES ASSUME commands'[c].attempts = 1 PROVE FirstAttempt(c)'
    BY Zenon DEF FirstAttempt
  <2>1. FirstAttempt(c) /\ commands[c].attempts = 1
    BY <1>3, Zenon DEF RestInv
  <2>2. \A q \in Requests : calls'[q].command = c => calls[q].command = c
    BY <1>6, HostAssumption, Zenon
  <2>3. ASSUME NEW q \in Requests, NEW r \in Requests, calls'[q].command = c, calls'[r].command = c
        PROVE  q = r
    BY <2>1, <2>2, <2>3, Zenon DEF FirstAttempt
  <2>4. ASSUME NEW q \in Requests, calls'[q].command = c, calls'[q].at # "deliver",
               calls'[q].outcome \in {"none", "conflict"}
        PROVE  \A a \in applied' : a.command # c
    <3>1. calls[q].command = c /\ c # NoCommand
      BY <2>2, <2>4, HostAssumption, Zenon
    <3>2. CASE q = p
      BY <1>1, <2>1, <2>4, <3>1, <3>2, Zenon DEF FirstAttempt, At, CallFollows
    <3>3. CASE q # p
      <4>1. \A a \in applied : a.command # c
        BY <1>1, <2>1, <2>4, <3>1, <3>3, Zenon DEF FirstAttempt, At
      <4>2. calls[p].command # c
        BY <2>1, <3>1, <3>3, Zenon DEF FirstAttempt
      <4> QED
        BY <1>5, <4>1, <4>2, Zenon
    <3> QED
      BY <3>2, <3>3, Zenon
  <2>5. commands'[c].answer \in {"StatusOK", "StatusConflict", "StatusInternalServerError"} =>
            \A q \in Requests : calls'[q].command # c
    BY <1>3, <2>1, <2>2, Zenon DEF FirstAttempt
  <2>6. ASSUME commands'[c].answer = "StatusConflict" PROVE \A a \in applied' : a.command # c
    <3>1. commands[c].answer = "StatusConflict"
      BY <1>3, <2>6, Zenon
    <3>2. calls[p].command # c /\ \A a \in applied : a.command # c
      BY <2>1, <3>1, Zenon DEF FirstAttempt
    <3> QED
      BY <1>5, <3>2, Zenon
  <2> QED
    BY <2>3, <2>4, <2>5, <2>6, Zenon DEF FirstAttempt, At
<1>13. ASSUME NEW c \in Commands PROVE Answered(c)'
  BY <1>3, <1>5, Zenon DEF RestInv, Answered
<1> QED
  BY <1>7, <1>8, <1>9, <1>10, <1>11, <1>12, <1>13, Zenon DEF RestInv

\* A step of an operation leaves its request with one of three calls: none, with the
\* client told nothing; the same one, further on and before its commit; or the same
\* one, committed.
LEMMA CallEnds ==
    ASSUME RestInv, HostType, NEW p \in Requests, Work(p), UNCHANGED history,
           calls' = [calls EXCEPT ![p] = NoCall]
    PROVE  RestInv'
<1>1. calls'[p] = NoCall /\ applied' = applied
  BY Zenon DEF HostType, Work
<1>2. Leave(p)
  BY <1>1, Zenon DEF Work
<1>3. CallFollows(p, NoCall) /\ AppliedGrows(p, NoCall) /\ CommandsStay(p, NoCall)
  BY <1>1, <1>2, NoCallFacts, Zenon DEF CallFollows, AppliedGrows, CommandsStay
<1> QED
  BY <1>3, RestStep, Zenon

LEMMA CallMoves ==
    ASSUME RestInv, HostType, NEW p \in Requests, Work(p), UNCHANGED history, NEW k,
           calls' = [calls EXCEPT ![p] = k], k.at # "idle", CallFollows(p, k),
           k.command = calls[p].command
    PROVE  RestInv'
<1>1. calls'[p] = k /\ applied' = applied
  BY Zenon DEF HostType, Work
<1>2. k # NoCall
  BY NoCallFacts, Zenon
<1>3. UNCHANGED <<commands, awaited>>
  BY <1>1, <1>2, Zenon DEF Work
<1>4. AppliedGrows(p, k) /\ CommandsStay(p, k)
  BY <1>1, <1>3, Zenon DEF AppliedGrows, CommandsStay
<1> QED
  BY <1>4, RestStep, Zenon

\* An operation a command asked for is as its command says.
LEMMA CarriedFacts ==
    ASSUME RestInv, HostType, NEW p \in Requests, calls[p].command # NoCommand
    PROVE  /\ calls[p].command \in Commands
           /\ calls[p].at \in {"update", "history", "append", "return", "commit", "deliver"} =>
                  calls[p].expected \in {AnyVersion, calls[p].version}
           /\ calls[p].at # "answer" => calls[p].outcome = "none"
           /\ calls[p].at = "answer" => calls[p].outcome # "none"
           /\ calls[p].at = "deliver" \/ calls[p].outcome = "ok" =>
                  [command |-> calls[p].command, item |-> Written(p)] \in applied
<1>1. calls[p].command \in Commands
  BY Zenon DEF HostType, Call
<1>2. Carries(p, calls[p].command) /\ Known(p, calls[p].command)
  BY <1>1 DEF RestInv
<1> QED
  BY <1>1, <1>2, Zenon DEF Carries, Known, At

LEMMA RefusedFollows ==
    ASSUME RestInv, HostInv, NEW p \in Requests, NEW outcome \in {"conflict", "error"},
           Refused(p, outcome), Work(p), calls[p].at \notin {"idle", "deliver", "answer"}
    PROVE  RestInv'
<1>1. UNCHANGED history /\ calls' = [calls EXCEPT ![p] = Returned(p, outcome)]
  BY DEF Refused, committed
<1>2. CASE calls[p].command = NoCommand
  BY <1>1, <1>2, CallEnds, Zenon DEF Returned, HostInv
<1>3. CASE calls[p].command # NoCommand
  <2> DEFINE k == [calls[p] EXCEPT !.at = "answer", !.outcome = outcome]
  <2>1. calls' = [calls EXCEPT ![p] = k] /\ applied' = applied
    BY <1>1, <1>3 DEF Returned, Work
  <2>2. /\ k \in Call /\ k.at = "answer" /\ k.outcome = outcome /\ k.command = calls[p].command
        /\ k.task = calls[p].task /\ k.expected = calls[p].expected
    BY RequestFacts, ZenonT(30) DEF Call
  <2> HIDE DEF k
  <2>3. calls[p].outcome = "none"
    BY <1>3, CarriedFacts, Zenon DEF HostInv
  <2>4. CallFollows(p, k)
    BY <2>1, <2>2, <2>3, Zenon DEF CallFollows
  <2> QED
    BY <1>1, <2>1, <2>2, <2>4, CallMoves, Zenon DEF HostInv
<1> QED
  BY <1>2, <1>3, Zenon

\* An operation goes on to its next step, and has committed nothing.
LEMMA AdvanceFollows ==
    ASSUME RestInv, HostInv, NEW p \in Requests, Work(p), UNCHANGED history,
           NEW step \in {"update", "history", "append", "return", "commit"}, NEW version \in Versions,
           calls' = [calls EXCEPT ![p].at = step, ![p].version = version],
           calls[p].at \in {"get", "update", "history", "append", "return"},
           calls[p].command # NoCommand => calls[p].expected \in {AnyVersion, version}
    PROVE  RestInv'
<1> DEFINE k == [calls[p] EXCEPT !.at = step, !.version = version]
<1>1. calls' = [calls EXCEPT ![p] = k] /\ applied' = applied
  BY Zenon DEF Work
<1>2. /\ k \in Call /\ k.at = step /\ k.outcome = calls[p].outcome /\ k.command = calls[p].command
      /\ k.task = calls[p].task /\ k.expected = calls[p].expected /\ k.version = version
  BY RequestFacts, Zenon DEF Call
<1> HIDE DEF k
<1>3. calls[p].command # NoCommand => calls[p].outcome = "none"
  BY CarriedFacts, Zenon DEF HostInv
<1>4. CallFollows(p, k)
  BY <1>1, <1>2, <1>3 DEF CallFollows
<1> QED
  BY <1>1, <1>2, <1>4, CallMoves, Zenon DEF HostInv

\* An operation commits, and knows it or not.
LEMMA CommittedFollows ==
    ASSUME RestInv, HostInv, NEW p \in Requests, Work(p), At(p, "commit"), Commit(p), NEW k,
           calls' = [calls EXCEPT ![p] = k], k \in Call, k.command = calls[p].command,
           k.at # "idle", k.command # NoCommand => (k.at = "answer" <=> k.outcome # "none"),
           k.at = "deliver" \/ k.outcome = "error",
           k.task = calls[p].task, k.expected = calls[p].expected, k.version = calls[p].version
    PROVE  RestInv'
<1>1. calls[p].at = "commit" /\ Written(p) \in Item /\ history' # history
  BY CommitsOne, Zenon DEF Commit
<1>2. calls'[p] = k /\ k # NoCall
  BY NoCallFacts, Zenon DEF HostInv, HostType
<1>3. UNCHANGED <<commands, awaited>>
  BY <1>2, Zenon DEF Work
<1>4. CommandsStay(p, k)
  BY <1>3, Zenon DEF CommandsStay
<1>5. CASE calls[p].command = NoCommand
  <2>1. applied' = applied
    BY <1>5, Zenon DEF Work
  <2>2. CallFollows(p, k) /\ AppliedGrows(p, k)
    BY <1>5, <2>1, Zenon DEF CallFollows, AppliedGrows
  <2> QED
    BY <1>4, <2>2, RestStep, Zenon DEF HostInv
<1>6. CASE calls[p].command # NoCommand
  <2>1. applied' = applied \cup {[command |-> calls[p].command, item |-> Written(p)]}
    BY <1>1, <1>6, Zenon DEF Work
  <2>2. calls[p].expected \in {AnyVersion, calls[p].version}
    BY <1>1, <1>6, CarriedFacts, Zenon DEF HostInv
  <2>3. AppliedGrows(p, k)
    BY <1>1, <1>6, <2>1, <2>2, Zenon DEF AppliedGrows
  <2>4. CallFollows(p, k)
    BY <2>1, <2>2, Zenon DEF CallFollows, Written
  <2> QED
    BY <1>4, <2>3, <2>4, RestStep, Zenon DEF HostInv
<1> QED
  BY <1>5, <1>6, Zenon

LEMMA WorkFollows ==
    ASSUME RestInv, HostInv, NEW p \in Requests, Work(p)
    PROVE  RestInv'
<1>0. HostType /\ calls[p] \in Call /\ calls[p].version \in Versions
  BY RequestFacts, Zenon DEF HostInv, Call
<1>1. CASE Get(p)
  <2> DEFINE current == Visible(p, calls[p].task)
  <2>1. calls[p].at = "get" /\ calls[p].task \in TaskIDs
    BY <1>1, RequestFacts, Zenon DEF Get, Progress, At
  <2>2. current \in Versions
    BY <2>1, RequestFacts DEF Visible, HostInv, HostType, Transaction
  <2>3. CASE Expected(p, current)
    <3>1. /\ calls' = [calls EXCEPT ![p].at = "update", ![p].version = current] /\ UNCHANGED history
          /\ calls[p].expected \in {AnyVersion, current}
      BY <1>1, <2>3 DEF Get, committed, Expected
    <3> HIDE DEF current
    <3> QED
      BY <2>1, <2>2, <3>1, AdvanceFollows, Zenon
  <2>4. CASE ~Expected(p, current)
    <3>1. Refused(p, "conflict")
      BY <1>1, <2>4 DEF Get
    <3> QED
      BY <2>1, <3>1, RefusedFollows, Zenon
  <2> QED
    BY <2>3, <2>4, Zenon
<1>2. ASSUME NEW step \in {"history", "append", "return", "commit"},
             calls' = [calls EXCEPT ![p].at = step], UNCHANGED committed,
             calls[p].at \in {"update", "history", "append", "return"}
      PROVE  RestInv'
  <2>1. calls' = [calls EXCEPT ![p].at = step, ![p].version = calls[p].version]
    BY <1>0, <1>2, Zenon DEF Call
  <2>2. calls[p].command # NoCommand => calls[p].expected \in {AnyVersion, calls[p].version}
    BY <1>0, <1>2, CarriedFacts, Zenon
  <2>3. UNCHANGED history
    BY <1>2 DEF committed
  <2> QED
    BY <1>0, <1>2, <2>1, <2>2, <2>3, AdvanceFollows, ZenonT(30)
<1>3. CASE Update(p)
  <2>1. calls[p].at = "update"
    BY <1>3 DEF Update, At
  <2>2. CASE \E outcome \in {"conflict", "error"} : Refused(p, outcome)
    BY <2>1, <2>2, RefusedFollows, Zenon
  <2>3. CASE calls' = [calls EXCEPT ![p].at = "history"] /\ UNCHANGED committed
    BY <1>2, <2>1, <2>3
  <2> QED
    BY <1>3, <2>2, <2>3 DEF Update
<1>4. CASE AppendHistory(p) \/ AppendOutbox(p) \/ Check(p)
  BY <1>2, <1>4 DEF AppendHistory, AppendOutbox, Check, At
<1>5. CASE EngineCommit(p)
  <2> DEFINE k == [calls[p] EXCEPT !.at = "deliver"]
  <2>1. At(p, "commit") /\ Commit(p) /\ calls' = [calls EXCEPT ![p] = k]
    BY <1>5 DEF EngineCommit
  <2>2. /\ k \in Call /\ k.at = "deliver" /\ k.outcome = calls[p].outcome
        /\ k.command = calls[p].command /\ k.task = calls[p].task
        /\ k.expected = calls[p].expected /\ k.version = calls[p].version
    BY <1>0 DEF Call
  <2> HIDE DEF k
  <2>3. calls[p].command # NoCommand => calls[p].outcome = "none"
    BY <1>0, <2>1, CarriedFacts, Zenon DEF At
  <2> QED
    BY <2>1, <2>2, <2>3, CommittedFollows, Zenon
<1>6. CASE CommitUnanswered(p)
  <2>1. At(p, "commit") /\ Commit(p) /\ calls' = [calls EXCEPT ![p] = Returned(p, "error")]
    BY <1>6, Zenon DEF CommitUnanswered
  <2>2. CASE calls[p].command # NoCommand
    <3> DEFINE k == [calls[p] EXCEPT !.at = "answer", !.outcome = "error"]
    <3>1. calls' = [calls EXCEPT ![p] = k]
      BY <2>1, <2>2 DEF Returned
    <3>2. /\ k \in Call /\ k.at = "answer" /\ k.outcome = "error"
          /\ k.command = calls[p].command /\ k.task = calls[p].task
          /\ k.expected = calls[p].expected /\ k.version = calls[p].version
      BY <1>0, Zenon DEF Call
    <3> HIDE DEF k
    <3> QED
      BY <2>1, <3>1, <3>2, CommittedFollows, Zenon
  <2>3. CASE calls[p].command = NoCommand
    <3>1. calls' = [calls EXCEPT ![p] = NoCall] /\ calls'[p] = NoCall /\ applied' = applied
      BY <1>0, <2>1, <2>3 DEF Returned, HostType, Work
    <3>2. Leave(p)
      BY <3>1, Zenon DEF Work
    <3>3. CallFollows(p, NoCall) /\ AppliedGrows(p, NoCall) /\ CommandsStay(p, NoCall)
      BY <3>1, <3>2, NoCallFacts, Zenon DEF CallFollows, AppliedGrows, CommandsStay
    <3> QED
      BY <1>0, <3>1, <3>3, RestStep, Zenon
  <2> QED
    BY <2>2, <2>3, Zenon
<1>7. CASE Deliver(p)
  <2>1. /\ calls[p].at = "deliver" /\ UNCHANGED history
        /\ calls' = [calls EXCEPT ![p] = Returned(p, "ok")]
    BY <1>7, Zenon DEF Deliver, At, committed
  <2>2. CASE calls[p].command = NoCommand
    BY <1>0, <2>1, <2>2, CallEnds, Zenon DEF Returned
  <2>3. CASE calls[p].command # NoCommand
    <3> DEFINE k == [calls[p] EXCEPT !.at = "answer", !.outcome = "ok"]
    <3>1. calls' = [calls EXCEPT ![p] = k] /\ applied' = applied
      BY <2>1, <2>3, Zenon DEF Returned, Work
    <3>2. /\ k \in Call /\ k.at = "answer" /\ k.outcome = "ok"
          /\ k.command = calls[p].command /\ k.task = calls[p].task
          /\ k.expected = calls[p].expected /\ k.version = calls[p].version
      BY <1>0, Zenon DEF Call
    <3> HIDE DEF k
    <3>3. [command |-> k.command, item |-> [task |-> k.task, version |-> k.version + 1]] \in applied'
      BY <1>0, <2>1, <2>3, <3>1, <3>2, CarriedFacts, Zenon DEF Written
    <3>4. CallFollows(p, k)
      BY <3>1, <3>2, <3>3, Zenon DEF CallFollows
    <3> QED
      BY <1>0, <2>1, <3>1, <3>2, <3>4, CallMoves, Zenon
  <2> QED
    BY <2>2, <2>3, Zenon
<1>8. CASE ReturnPending(p) \/ Crash(p)
  BY <1>0, <1>8, CallEnds, Zenon DEF ReturnPending, Crash, committed
<1>9. CASE Fails(p)
  BY <1>9, RefusedFollows, Zenon DEF Fails
<1> QED
  BY <1>1, <1>3, <1>4, <1>5, <1>6, <1>7, <1>8, <1>9, Zenon DEF Work, EngineStep

\* What is known of the commands rests on the calls, the commands and what was applied.
LEMMA RestUnchanged ==
    ASSUME RestInv, calls' = calls, UNCHANGED <<commands, awaited, applied>>
    PROVE  RestInv'
<1>0. commands' = commands /\ awaited' = awaited /\ applied' = applied
  BY Zenon
<1>1. RestType' /\ AppliedFollows' /\ AwaitedFollows'
  BY <1>0, Zenon DEF RestInv, RestType, AppliedFollows, AwaitedFollows
<1>2. ASSUME NEW p \in Requests, NEW c \in Commands PROVE Carries(p, c)' /\ Known(p, c)'
  <2>1. Carries(p, c) /\ Known(p, c)
    BY Zenon DEF RestInv
  <2> QED
    BY <1>0, <2>1, Zenon DEF Carries, Known, At, Written
<1>3. ASSUME NEW c \in Commands PROVE FirstAttempt(c)' /\ Answered(c)'
  <2>1. FirstAttempt(c) /\ Answered(c)
    BY Zenon DEF RestInv
  <2> QED
    BY <1>0, <2>1, Zenon DEF FirstAttempt, Answered, At
<1> QED
  BY <1>1, <1>2, <1>3, Zenon DEF RestInv

\* What is known of a command at its first attempt stays, when neither it nor what was
\* applied changes and no other operation is asked for in its name.
LEMMA FirstKept ==
    ASSUME NEW c, FirstAttempt(c), commands'[c] = commands[c], applied' = applied,
           \A p \in Requests : calls'[p].command = c => calls[p].command = c /\ calls'[p] = calls[p]
    PROVE  FirstAttempt(c)'
<1> SUFFICES ASSUME commands[c].attempts = 1
             PROVE  FirstAttempt(c)'
  BY Zenon DEF FirstAttempt
<1>1. \A p, q \in Requests : calls'[p].command = c /\ calls'[q].command = c => p = q
  BY Zenon DEF FirstAttempt
<1>2. \A p \in Requests :
          calls'[p].command = c /\ ~At(p, "deliver")' /\ calls'[p].outcome \in {"none", "conflict"} =>
              \A a \in applied' : a.command # c
  BY Zenon DEF FirstAttempt, At
<1>3. /\ commands'[c].answer \in {"StatusOK", "StatusConflict", "StatusInternalServerError"} =>
             \A p \in Requests : calls'[p].command # c
      /\ commands'[c].answer = "StatusConflict" => \A a \in applied' : a.command # c
  BY Zenon DEF FirstAttempt
<1> QED
  BY <1>1, <1>2, <1>3, Zenon DEF FirstAttempt

\* What the host does of its own accord concerns no command.
LEMMA HostStepFollows ==
    ASSUME RestInv, HostInv, NEW p \in Requests, HostStep(p), UNCHANGED <<commands, awaited, applied>>
    PROVE  RestInv'
<1>1. CASE calls' = calls
  BY <1>1, RestUnchanged, Zenon
<1>2. ASSUME NEW id \in TaskIDs, Begin(p, NoCommand, id, AnyVersion) PROVE RestInv'
  <2> DEFINE k == [NoCall EXCEPT !.at = "get", !.command = NoCommand, !.task = id, !.expected = AnyVersion]
  <2>1. calls[p].at = "idle" /\ calls' = [calls EXCEPT ![p] = k]
    BY <1>2 DEF Begin, At
  <2>2. AnyVersion \in AnyVersion..MaxVersion
    BY HostAssumption DEF AnyVersion
  <2>3. k \in Call /\ k.command = NoCommand
    BY <2>2, NoCallFacts, Zenon DEF Call, SomeTask
  <2> HIDE DEF k
  <2>4. calls[p].command = NoCommand
    <3>1. \A c \in Commands : calls[p].command # c
      BY <2>1, Zenon DEF RestInv, Carries, At
    <3> QED
      BY <3>1, RequestFacts, Zenon DEF Call
  <2>5. CallFollows(p, k) /\ AppliedGrows(p, k) /\ CommandsStay(p, k)
    BY <2>3, <2>4, Zenon DEF CallFollows, AppliedGrows, CommandsStay
  <2> QED
    BY <2>1, <2>5, RestStep, Zenon DEF HostInv
<1> QED
  BY <1>1, <1>2 DEF HostStep, HostBegin, HostCommit, HostRollback, Dispatch

\* The client hangs up, and the operation may be told.
LEMMA HangUpFollows ==
    ASSUME RestInv, HostInv, NEW p \in Requests, HangUp(p)
    PROVE  RestInv' /\ HostInv'
<1>1. p \in awaited /\ Leave(p) /\ applied' = applied
  BY DEF HangUp
<1>2. calls[p] \in Call /\ calls[p].command # NoCommand
  BY <1>1, RequestFacts, Zenon DEF RestInv, AwaitedFollows
<1>3. ASSUME NEW k \in Call, calls' = [calls EXCEPT ![p] = k],
             k.at = calls[p].at, k.command = calls[p].command, k.task = calls[p].task,
             k.expected = calls[p].expected, k.version = calls[p].version, k.outcome = calls[p].outcome
      PROVE  RestInv'
  <2>1. calls[p].at # "idle"
    <3>1. calls[p].command \in Commands
      BY <1>2, Zenon DEF Call
    <3> QED
      BY <3>1, Zenon DEF RestInv, Carries, At
  <2>2. CallFollows(p, k)
    BY <1>1, <1>2, <1>3, <2>1, CarriedFacts, Zenon DEF CallFollows, HostInv, Written
  <2>3. AppliedGrows(p, k) /\ CommandsStay(p, k)
    BY <1>1, Zenon DEF AppliedGrows, CommandsStay
  <2> QED
    BY <1>3, <2>2, <2>3, RestStep, Zenon DEF HostInv
<1>4. CASE Cancel(p)
  <2> DEFINE k == [calls[p] EXCEPT !.cancelled = TRUE]
  <2>1. calls' = [calls EXCEPT ![p] = k]
    BY <1>4 DEF Cancel
  <2>2. /\ k \in Call /\ k.at = calls[p].at /\ k.command = calls[p].command
        /\ k.task = calls[p].task /\ k.expected = calls[p].expected
        /\ k.version = calls[p].version /\ k.outcome = calls[p].outcome
    BY <1>2, Zenon DEF Call
  <2> HIDE DEF k
  <2>3. RestInv'
    BY <1>3, <2>1, <2>2, Zenon
  <2> QED
    BY <1>4, <2>3, CancelKeeps
<1>5. CASE UNCHANGED hostVars
  <2>1. calls' = [calls EXCEPT ![p] = calls[p]]
    BY <1>5, RequestFacts, Zenon DEF hostVars
  <2>2. RestInv'
    BY <1>2, <1>3, <2>1, Zenon
  <2>3. HostInv'
    BY <1>5, HostUnchanged
  <2> QED
    BY <2>2, <2>3, Zenon
<1> QED
  BY <1>4, <1>5, Zenon DEF HangUp

\* The operation's outcome is answered, to whoever still waits for it.
LEMMA RespondFollows ==
    ASSUME RestInv, HostInv, NEW p \in Requests, Respond(p)
    PROVE  RestInv' /\ HostInv'
<1>1. /\ At(p, "answer") /\ calls' = [calls EXCEPT ![p] = NoCall] /\ awaited' = awaited \ {p}
      /\ applied' = applied /\ UNCHANGED <<committed, txs, owed, delivered, lost>>
  BY DEF Respond
<1>2. HostInv'
  BY <1>1, AnsweredKeeps, Zenon
<1>3. CASE p \notin awaited
  <2>1. Leave(p)
    BY <1>1, <1>3 DEF Respond, Leave
  <2>2. CallFollows(p, NoCall) /\ AppliedGrows(p, NoCall) /\ CommandsStay(p, NoCall)
    BY <1>1, <2>1, NoCallFacts, Zenon DEF CallFollows, AppliedGrows, CommandsStay
  <2> QED
    BY <1>1, <1>2, <2>2, RestStep, Zenon DEF HostInv
<1>4. CASE p \in awaited
  <2>1. PICK c \in Commands : c = calls[p].command
    BY <1>4, RequestFacts, Zenon DEF RestInv, AwaitedFollows, Call
  <2>2. c # NoCommand /\ calls[p] \in Call /\ calls[p].at = "answer"
    BY <1>1, HostAssumption, RequestFacts, Zenon DEF At
  <2>3. Carries(p, c) /\ Known(p, c) /\ FirstAttempt(c) /\ commands[c] \in Command
    BY Zenon DEF RestInv, RestType
  <2>4. calls[p].outcome \in {"ok", "conflict", "error"}
    BY <2>1, <2>2, <2>3, Zenon DEF Carries, At, Call
  <2> DEFINE status == StatusFor(calls[p])
             d == [commands[c] EXCEPT !.answer = status, !.version = calls[p].version + 1]
  <2>5. /\ calls[p].outcome = "ok" => status = "StatusOK"
        /\ calls[p].outcome = "conflict" => status = "StatusConflict"
        /\ calls[p].outcome = "error" => status = "StatusInternalServerError"
    BY DEF StatusFor
  <2> HIDE DEF status
  <2>6. commands' = [commands EXCEPT ![c] = d]
    BY <1>4, <2>1, Zenon DEF Respond, status
  <2>7. calls[p].version + 1 \in Nat
    BY <2>2, HostAssumption DEF Call, Versions
  <2>8. d \in Command /\ d.answer = status /\ d.version = calls[p].version + 1
        /\ d.task = commands[c].task /\ d.expected = commands[c].expected
        /\ d.attempts = commands[c].attempts
    BY <2>3, <2>4, <2>5, <2>7, Zenon DEF Command
  <2> HIDE DEF d
  <2>9. commands' \in [Commands -> Command] /\ commands'[c] = d
        /\ \A e \in Commands \ {c} : commands'[e] = commands[e]
    BY <2>6, <2>8, Zenon DEF RestInv, RestType
  <2>10. calls'[p] = NoCall /\ \A q \in Requests \ {p} : calls'[q] = calls[q]
    BY <1>1, Zenon DEF HostInv, HostType
  <2>11. RestType'
    BY <1>1, <2>9, Zenon DEF RestInv, RestType
  <2>12. ASSUME NEW q \in Requests, NEW e \in Commands, calls'[q].command = e
         PROVE  q # p /\ calls'[q] = calls[q]
    BY <2>10, <2>12, NoCallFacts, HostAssumption, Zenon
  <2>13. ASSUME NEW q \in Requests, NEW e \in Commands PROVE Carries(q, e)'
    <3> SUFFICES ASSUME calls'[q].command = e PROVE Carries(q, e)'
      BY Zenon DEF Carries
    <3>1. q # p /\ calls'[q] = calls[q] /\ Carries(q, e)
      BY <2>12, Zenon DEF RestInv
    <3>2. CASE e = c
      BY <2>4, <2>5, <2>8, <2>9, <3>1, <3>2, Zenon DEF Carries, At
    <3>3. CASE e # c
      BY <2>9, <3>1, <3>3, Zenon DEF Carries, At
    <3> QED
      BY <3>2, <3>3, Zenon
  <2>14. ASSUME NEW q \in Requests, NEW e \in Commands PROVE Known(q, e)'
    <3> SUFFICES ASSUME calls'[q].command = e PROVE Known(q, e)'
      BY Zenon DEF Known
    <3>1. q # p /\ calls'[q] = calls[q] /\ Known(q, e)
      BY <2>12, Zenon DEF RestInv
    <3> QED
      BY <1>1, <3>1 DEF Known, At, Written
  <2>15. AppliedFollows'
    <3> SUFFICES ASSUME NEW a \in applied
                 PROVE  /\ commands'[a.command].attempts > 0
                        /\ commands'[a.command].answer \notin {"none", "StatusBadRequest"}
                        /\ a.item.task = commands'[a.command].task
                        /\ commands'[a.command].expected # AnyVersion =>
                               a.item.version = commands'[a.command].expected + 1
      BY <1>1, Zenon DEF AppliedFollows
    <3>1. PICK e \in Commands : e = a.command
      BY Zenon DEF RestInv, RestType
    <3>2. CASE e = c
      BY <2>4, <2>5, <2>8, <2>9, <3>1, <3>2, ZenonT(30) DEF RestInv, AppliedFollows
    <3>3. CASE e # c
      BY <2>9, <3>1, <3>3, Zenon DEF RestInv, AppliedFollows
    <3> QED
      BY <3>2, <3>3, Zenon
  <2>16. AwaitedFollows'
    <3>1. ASSUME NEW q \in awaited'
          PROVE  /\ q \in awaited /\ calls'[q] = calls[q] /\ calls[q].command # c
                 /\ calls[q].command \in Commands
      <4>1. q \in awaited /\ q # p /\ q \in Requests
        BY <1>1, Zenon DEF RestInv, RestType
      <4>2. calls[q].command # NoCommand /\ calls[q] \in Call
        BY <4>1, RequestFacts, Zenon DEF RestInv, AwaitedFollows
      <4> QED
        BY <1>4, <2>1, <2>10, <4>1, <4>2, Zenon DEF RestInv, AwaitedFollows, Call
    <3> QED
      BY <2>9, <3>1 DEF RestInv, AwaitedFollows
  <2>17. ASSUME NEW e \in Commands PROVE FirstAttempt(e)'
    <3> SUFFICES ASSUME commands'[e].attempts = 1 PROVE FirstAttempt(e)'
      BY Zenon DEF FirstAttempt
    <3>1. FirstAttempt(e) /\ commands[e].attempts = 1
      BY <2>8, <2>9, Zenon DEF RestInv
    <3>2. \A q \in Requests : calls'[q].command = e => calls[q].command = e /\ calls'[q] = calls[q]
      BY <2>12, Zenon
    <3>3. CASE e # c
      BY <1>1, <2>9, <3>1, <3>2, <3>3, Zenon DEF FirstAttempt, At
    <3>4. CASE e = c
      <4>1. \A q \in Requests : calls'[q].command # c
        BY <2>1, <2>12, <3>1, <3>2, <3>4, Zenon DEF FirstAttempt
      <4>2. commands'[c].answer = "StatusConflict" => calls[p].outcome = "conflict"
        BY <2>4, <2>5, <2>8, <2>9, Zenon
      <4>3. commands'[c].answer = "StatusConflict" => \A a \in applied' : a.command # c
        BY <1>1, <2>1, <2>2, <3>1, <3>4, <4>2, Zenon DEF FirstAttempt, At
      <4> QED
        BY <3>4, <4>1, <4>3, Zenon DEF FirstAttempt
    <3> QED
      BY <3>3, <3>4, Zenon
  <2>18. ASSUME NEW e \in Commands PROVE Answered(e)'
    <3>1. CASE e # c
      BY <1>1, <2>9, <3>1, Zenon DEF RestInv, Answered
    <3>2. CASE e = c
      <4> SUFFICES ASSUME d.answer = "StatusOK"
                   PROVE  [command |-> c, item |-> [task |-> d.task, version |-> d.version]] \in applied
        BY <1>1, <2>1, <2>3, <2>8, <2>9, <3>2 DEF Answered, Carries
      <4>1. calls[p].outcome = "ok"
        BY <2>4, <2>5, <2>8, Zenon
      <4>2. [command |-> c, item |-> Written(p)] \in applied
        BY <2>1, <2>3, <4>1, Zenon DEF Known
      <4>3. Written(p) = [task |-> d.task, version |-> d.version]
        BY <2>1, <2>3, <2>8, Zenon DEF Written, Carries
      <4> QED
        BY <4>2, <4>3, Zenon
    <3> QED
      BY <3>1, <3>2, Zenon
  <2> QED
    BY <1>2, <2>11, <2>13, <2>14, <2>15, <2>16, <2>17, <2>18, Zenon DEF RestInv
<1> QED
  BY <1>3, <1>4

\* A command is sent for the first time, or again.
LEMMA SendFollows ==
    ASSUME RestInv, HostInv, NEW p \in Requests, NEW c \in Commands, NEW id \in TaskIDs,
           NEW expected \in AnyVersion..MaxVersion, Send(c, p, id, expected)
    PROVE  RestInv' /\ HostInv'
<1> DEFINE k == [NoCall EXCEPT !.at = "get", !.command = c, !.task = id, !.expected = expected]
           d == [Sending(c, id, expected) EXCEPT !.attempts = @ + 1, !.answer = "waiting"]
<1>1. /\ Begin(p, c, id, expected) /\ MaySend(c, id, expected) /\ awaited' = awaited \cup {p}
      /\ commands' = [commands EXCEPT ![c] = d] /\ applied' = applied
  BY Zenon DEF Send
<1>2. HostInv'
  BY <1>1, BeginKeeps
<1>3. calls[p].at = "idle" /\ calls' = [calls EXCEPT ![p] = k]
  BY <1>1 DEF Begin, At
<1>4. /\ k \in Call /\ k.at = "get" /\ k.command = c /\ k.task = id /\ k.expected = expected
      /\ k.outcome = "none"
  BY NoCallFacts, Zenon DEF Call, SomeTask
<1> HIDE DEF k
<1>5. c # NoCommand /\ commands[c] \in Command
  BY HostAssumption, Zenon DEF RestInv, RestType
<1>6. calls[p].command = NoCommand
  <2>1. \A e \in Commands : calls[p].command # e
    BY <1>3, Zenon DEF RestInv, Carries, At
  <2> QED
    BY <2>1, RequestFacts, Zenon DEF Call
<1>7. commands[c].attempts = 0 =>
          /\ \A q \in Requests : calls[q].command # c
          /\ \A a \in applied : a.command # c
  BY DEF RestInv, Carries, AppliedFollows, RestType
<1>8. commands[c].answer # "waiting" /\ \A q \in awaited : calls[q].command # c
  <2>1. commands[c].answer # "waiting"
    <3>1. CASE commands[c].attempts = 0
      BY <3>1, Zenon DEF RestInv, Answered
    <3>2. CASE commands[c].attempts # 0
      BY <1>1, <3>2 DEF MaySend
    <3> QED
      BY <3>1, <3>2, Zenon
  <2> QED
    BY <2>1, Zenon DEF RestInv, AwaitedFollows
<1>9. /\ d \in Command /\ d.task = id /\ d.expected = expected /\ d.answer = "waiting"
      /\ d.attempts = commands[c].attempts + 1
  <2>1. Unsent \in Command /\ Unsent.attempts = 0
    BY HostAssumption DEF Unsent, Command, SomeTask, AnyVersion
  <2>2. /\ Sending(c, id, expected) \in Command
        /\ Sending(c, id, expected).task = id
        /\ Sending(c, id, expected).expected = expected
        /\ Sending(c, id, expected).attempts = commands[c].attempts
    <3>1. CASE commands[c].attempts = 0
      <4>1. Sending(c, id, expected) = [Unsent EXCEPT !.task = id, !.expected = expected]
        BY <3>1 DEF Sending
      <4> QED
        BY <2>1, <3>1, <4>1, Zenon DEF Command, SomeTask
    <3>2. CASE commands[c].attempts # 0
      BY <1>1, <1>5, <3>2 DEF Sending, MaySend
    <3> QED
      BY <3>1, <3>2, Zenon
  <2>3. PICK s \in Command : s = Sending(c, id, expected)
    BY <2>2, Zenon
  <2>4. d = [s EXCEPT !.attempts = s.attempts + 1, !.answer = "waiting"]
    BY <2>3
  <2> HIDE DEF d
  <2>5. s.task = id /\ s.expected = expected /\ s.attempts = commands[c].attempts /\ s.attempts + 1 \in Nat
    BY <2>2, <2>3 DEF Command
  <2>6. d \in Command
    BY <2>4, <2>5, Zenon DEF Command
  <2>7. d.task = s.task /\ d.expected = s.expected /\ d.answer = "waiting" /\ d.attempts = s.attempts + 1
    BY <2>4 DEF Command
  <2> QED
    BY <2>5, <2>6, <2>7, Zenon
<1>10. commands[c].attempts # 0 => d.task = commands[c].task /\ d.expected = commands[c].expected
  BY <1>1, <1>9 DEF MaySend
<1> HIDE DEF d
<1>11. commands' \in [Commands -> Command] /\ commands'[c] = d
       /\ \A e \in Commands \ {c} : commands'[e] = commands[e]
  BY <1>1, <1>9, Zenon DEF RestInv, RestType
<1>12. calls'[p] = k /\ \A q \in Requests \ {p} : calls'[q] = calls[q]
  BY <1>3, Zenon DEF HostInv, HostType
<1>13. RestType'
  BY <1>1, <1>11, Zenon DEF RestInv, RestType
<1>14. ASSUME NEW q \in Requests, NEW e \in Commands PROVE Carries(q, e)' /\ Known(q, e)'
  <2>1. CASE q = p /\ e = c
    BY <1>4, <1>5, <1>9, <1>11, <1>12, <2>1 DEF Carries, Known, At, Command
  <2>2. CASE q = p /\ e # c
    BY <1>4, <1>12, <2>2, Zenon DEF Carries, Known
  <2>3. CASE q # p /\ e # c
    <3>1. commands'[e] = commands[e] /\ calls'[q] = calls[q] /\ applied' = applied
      BY <1>1, <1>11, <1>12, <2>3, Zenon
    <3>2. Carries(q, e) /\ Known(q, e)
      BY Zenon DEF RestInv
    <3> QED
      BY <3>1, <3>2, Zenon DEF Carries, Known, At, Written
  <2>4. CASE q # p /\ e = c
    <3>1. calls'[q] = calls[q] /\ applied' = applied
      BY <1>1, <1>12, <2>4, Zenon
    <3>2. Carries(q, c) /\ Known(q, c)
      BY Zenon DEF RestInv
    <3>3. Known(q, c)'
      BY <3>1, <3>2, Zenon DEF Known, At, Written
    <3>4. ASSUME calls[q].command = c
          PROVE  /\ commands'[c].attempts > 0 /\ commands'[c].answer = "waiting"
                 /\ commands'[c].task = commands[c].task
                 /\ commands'[c].expected = commands[c].expected
      <4>1. commands[c].attempts > 0 /\ commands[c].attempts \in Nat
        BY <1>5, <3>2, <3>4, Zenon DEF Carries, Command
      <4> QED
        BY ONLY <1>9, <1>10, <1>11, <4>1
    <3>5. Carries(q, c)'
      BY <3>1, <3>2, <3>4, Zenon DEF Carries, At
    <3> QED
      BY <2>4, <3>3, <3>5, Zenon
  <2> QED
    BY <2>1, <2>2, <2>3, <2>4, Zenon
<1>15. AppliedFollows'
  <2> SUFFICES ASSUME NEW a \in applied
               PROVE  /\ commands'[a.command].attempts > 0
                      /\ commands'[a.command].answer \notin {"none", "StatusBadRequest"}
                      /\ a.item.task = commands'[a.command].task
                      /\ commands'[a.command].expected # AnyVersion =>
                             a.item.version = commands'[a.command].expected + 1
    BY <1>1, Zenon DEF AppliedFollows
  <2>1. PICK e \in Commands : e = a.command
    BY Zenon DEF RestInv, RestType
  <2>2. CASE e = c
    <3>1. commands[c].attempts # 0 /\ commands[c].attempts \in Nat
      BY <1>5, <1>7, <2>1, <2>2, Zenon DEF Command
    <3>2. /\ commands'[c].attempts > 0 /\ commands'[c].answer = "waiting"
          /\ commands'[c].task = commands[c].task /\ commands'[c].expected = commands[c].expected
      BY <1>9, <1>10, <1>11, <3>1
    <3> QED
      BY <2>1, <2>2, <3>2, Zenon DEF RestInv, AppliedFollows
  <2>3. CASE e # c
    BY <1>11, <2>1, <2>3, Zenon DEF RestInv, AppliedFollows
  <2> QED
    BY <2>2, <2>3, Zenon
<1>16. AwaitedFollows'
  <2>1. ASSUME NEW q \in awaited'
        PROVE  \/ q = p /\ calls'[q].command = c
               \/ /\ q # p /\ q \in awaited /\ calls'[q] = calls[q]
                  /\ calls[q].command \in Commands \ {c}
    <3>1. CASE q = p
      BY <1>4, <1>12, <3>1, Zenon
    <3>2. CASE q # p
      <4>1. q \in awaited /\ q \in Requests
        BY <1>1, <3>2, Zenon DEF RestInv, RestType
      <4>2. calls[q].command # NoCommand /\ calls[q] \in Call
        BY <4>1, RequestFacts, Zenon DEF RestInv, AwaitedFollows
      <4> QED
        BY <1>8, <1>12, <3>2, <4>1, <4>2, Zenon DEF Call
    <3> QED
      BY <3>1, <3>2, Zenon
  <2>2. ASSUME NEW q \in awaited'
        PROVE  calls'[q].command # NoCommand /\ commands'[calls'[q].command].answer = "waiting"
    BY <1>5, <1>9, <1>11, <2>1, ZenonT(30) DEF RestInv, AwaitedFollows
  <2>3. ASSUME NEW q \in awaited', NEW r \in awaited', calls'[q].command = calls'[r].command
        PROVE  q = r
    BY <2>1, <2>3, Zenon DEF RestInv, AwaitedFollows
  <2> QED
    BY <2>2, <2>3, Zenon DEF AwaitedFollows
<1>17. ASSUME NEW e \in Commands PROVE FirstAttempt(e)'
  <2>1. CASE e # c
    <3>1. \A q \in Requests : calls'[q].command = e => calls[q].command = e /\ calls'[q] = calls[q]
      BY <1>4, <1>12, <2>1, Zenon
    <3> QED
      BY <1>1, <1>11, <2>1, <3>1, FirstKept, Zenon DEF RestInv
  <2>2. CASE e = c /\ commands[c].attempts # 0
    <3>1. commands[c].attempts \in Nat
      BY <1>5, Zenon DEF Command
    <3>2. commands'[c].attempts # 1
      BY ONLY <1>9, <1>11, <2>2, <3>1
    <3> QED
      BY <2>2, <3>2, Zenon DEF FirstAttempt
  <2>3. CASE e = c /\ commands[c].attempts = 0
    <3>1. \A q \in Requests : calls'[q].command = c => q = p
      BY <1>7, <1>12, <2>3, Zenon
    <3> QED
      BY <1>1, <1>7, <1>9, <1>11, <2>3, <3>1, Zenon DEF FirstAttempt
  <2> QED
    BY <2>1, <2>2, <2>3, Zenon
<1>18. ASSUME NEW e \in Commands PROVE Answered(e)'
  BY <1>1, <1>5, <1>9, <1>11 DEF RestInv, Answered, Command
<1> QED
  BY <1>2, <1>13, <1>14, <1>15, <1>16, <1>17, <1>18, Zenon DEF RestInv

\* A command is turned down before the engine is called.
LEMMA RejectFollows ==
    ASSUME RestInv, HostInv, NEW c \in Commands, Reject(c)
    PROVE  RestInv' /\ HostInv'
<1> DEFINE d == [commands[c] EXCEPT !.attempts = 1, !.answer = "StatusBadRequest"]
<1>1. /\ commands[c].attempts = 0 /\ commands' = [commands EXCEPT ![c] = d]
      /\ UNCHANGED hostVars /\ awaited' = awaited /\ applied' = applied
  BY Zenon DEF Reject
<1>2. HostInv' /\ calls' = calls
  BY <1>1, HostUnchanged DEF hostVars
<1>3. commands[c] \in Command
  BY Zenon DEF RestInv, RestType
<1>4. d \in Command /\ d.attempts = 1 /\ d.answer = "StatusBadRequest"
  BY <1>3, Zenon DEF Command
<1> HIDE DEF d
<1>5. commands' \in [Commands -> Command] /\ commands'[c] = d
      /\ \A e \in Commands \ {c} : commands'[e] = commands[e]
  BY <1>1, <1>4, Zenon DEF RestInv, RestType
<1>6. /\ \A q \in Requests : calls[q].command # c
      /\ \A a \in applied : a.command # c
  BY <1>1 DEF RestInv, Carries, AppliedFollows, RestType
<1>7. RestType'
  BY <1>1, <1>5, Zenon DEF RestInv, RestType
<1>8. ASSUME NEW q \in Requests, NEW e \in Commands PROVE Carries(q, e)' /\ Known(q, e)'
  <2>1. CASE e = c
    BY <1>2, <1>6, <2>1, Zenon DEF Carries, Known
  <2>2. CASE e # c
    BY <1>1, <1>2, <1>5, <2>2, ZenonT(30) DEF RestInv, Carries, Known, At, Written
  <2> QED
    BY <2>1, <2>2, Zenon
<1>9. AppliedFollows'
  <2>1. \A a \in applied : commands'[a.command] = commands[a.command]
    BY <1>5, <1>6, Zenon DEF RestInv, RestType
  <2> QED
    BY <1>1, <2>1, Zenon DEF RestInv, AppliedFollows
<1>10. AwaitedFollows'
  <2>1. \A q \in awaited : commands'[calls[q].command] = commands[calls[q].command]
    <3> SUFFICES ASSUME NEW q \in awaited PROVE calls[q].command \in Commands \ {c}
      BY <1>5, Zenon
    <3>1. q \in Requests /\ calls[q].command # NoCommand
      BY Zenon DEF RestInv, RestType, AwaitedFollows
    <3> QED
      BY <1>6, <3>1, RequestFacts, Zenon DEF Call
  <2> QED
    BY <1>1, <1>2, <2>1 DEF RestInv, AwaitedFollows
<1>11. ASSUME NEW e \in Commands PROVE FirstAttempt(e)' /\ Answered(e)'
  <2>1. CASE e = c
    BY <1>1, <1>2, <1>4, <1>5, <1>6, <2>1 DEF FirstAttempt, Answered
  <2>2. CASE e # c
    <3>1. commands'[e] = commands[e] /\ calls' = calls /\ applied' = applied
      BY <1>1, <1>2, <1>5, <2>2, Zenon
    <3>2. FirstAttempt(e) /\ Answered(e)
      BY Zenon DEF RestInv
    <3>3. Answered(e)'
      BY <3>1, <3>2, Zenon DEF Answered
    <3>4. FirstAttempt(e)'
      BY <3>1, <3>2, FirstKept, Zenon
    <3> QED
      BY <3>3, <3>4, Zenon
  <2> QED
    BY <2>1, <2>2
<1> QED
  BY <1>2, <1>7, <1>8, <1>9, <1>10, <1>11, Zenon DEF RestInv

-----------------------------------------------------------------------------
(* The theorems *********************************************************)

LEMMA InitialInv ==
    ASSUME RestInit
    PROVE  HostInv /\ RestInv
<1>1. /\ rows = [id \in TaskIDs |-> 0] /\ history = {} /\ outbox = {}
      /\ txs = [p \in Requests |-> Closed] /\ calls = [p \in Requests |-> NoCall]
      /\ owed = [p \in Requests |-> {}] /\ delivered = {} /\ lost = {}
      /\ commands = [c \in Commands |-> Unsent] /\ awaited = {} /\ applied = {}
  BY Zenon DEF RestInit, HostInit
<1>2. 0 \in Versions
  BY HostAssumption DEF Versions
<1>3. HostType
  BY <1>1, <1>2, ClosedFacts, NoCallFacts, Zenon DEF HostType
<1>4. Ahead /\ Exclusive
  BY <1>1, ClosedFacts, Zenon DEF Ahead, Exclusive
<1>5. ASSUME NEW i \in Item PROVE ~(i.version <= 0)
  BY HostAssumption DEF Item
<1>6. ASSUME NEW p \in Requests PROVE Progress(p) /\ RecordsFollow(p) /\ OwedFollows(p)
  <2>1. txs[p] = Closed /\ calls[p] = NoCall /\ owed[p] = {}
    BY <1>1, Zenon
  <2>2. Staged(p) = {}
    BY <1>5, <2>1, ClosedFacts, Zenon DEF Staged, Item
  <2>3. Progress(p)
    BY <2>1, ClosedFacts, NoCallFacts, Zenon DEF Progress, At
  <2>4. RecordsFollow(p)
    BY <2>1, <2>2, ClosedFacts, NoCallFacts, Zenon DEF RecordsFollow
  <2>5. OwedFollows(p)
    BY <2>1, ClosedFacts, Zenon DEF OwedFollows
  <2> QED
    BY <2>3, <2>4, <2>5, Zenon
<1>7. CommittedTogether
  <2>1. \A i \in Item : rows[i.task] = 0
    BY <1>1, Zenon DEF Item
  <2> QED
    BY <1>1, <1>5, <2>1, Zenon DEF CommittedTogether
<1>8. HostInv
  BY <1>1, <1>3, <1>4, <1>6, <1>7, Zenon DEF HostInv, NoneForgotten
<1>9. Unsent \in Command /\ Unsent.answer = "none" /\ Unsent.attempts = 0
  BY HostAssumption DEF Unsent, Command, SomeTask, AnyVersion
<1>10. RestType
  BY <1>1, <1>9, Zenon DEF RestType
<1>11. ASSUME NEW p \in Requests, NEW c \in Commands PROVE Carries(p, c) /\ Known(p, c)
  <2>1. calls[p].command # c
    BY <1>1, NoCallFacts, HostAssumption, Zenon
  <2> QED
    BY <2>1, Zenon DEF Carries, Known
<1>12. AppliedFollows /\ AwaitedFollows
  BY <1>1, Zenon DEF AppliedFollows, AwaitedFollows
<1>13. ASSUME NEW c \in Commands PROVE FirstAttempt(c) /\ Answered(c)
  BY <1>1, <1>9 DEF FirstAttempt, Answered
<1> QED
  BY <1>8, <1>10, <1>11, <1>12, <1>13, Zenon DEF RestInv

LEMMA NextKeeps ==
    ASSUME HostInv, RestInv, [RestNext]_restVars
    PROVE  HostInv' /\ RestInv'
<1>1. CASE UNCHANGED restVars
  <2>1. UNCHANGED hostVars /\ calls' = calls /\ commands' = commands /\ awaited' = awaited /\ applied' = applied
    BY <1>1, Zenon DEF restVars, hostVars
  <2>2. HostInv'
    BY <2>1, HostUnchanged
  <2>3. RestInv'
    BY <2>1, RestUnchanged, Zenon
  <2> QED
    BY <2>2, <2>3, Zenon
<1>2. ASSUME NEW p \in Requests, HostStep(p), UNCHANGED <<commands, awaited, applied>>
      PROVE  HostInv' /\ RestInv'
  BY <1>2, HostStepKeeps, HostStepFollows, Zenon
<1>3. ASSUME NEW p \in Requests, Work(p) PROVE HostInv' /\ RestInv'
  <2>1. HostInv'
    BY <1>3, EngineStepKeeps, Zenon DEF Work
  <2> QED
    BY <1>3, <2>1, WorkFollows, Zenon
<1>4. ASSUME NEW p \in Requests, NEW c \in Commands, NEW id \in TaskIDs,
             NEW expected \in AnyVersion..MaxVersion, Send(c, p, id, expected)
      PROVE  HostInv' /\ RestInv'
  BY <1>4, SendFollows, Zenon
<1>5. ASSUME NEW p \in Requests, HangUp(p) PROVE HostInv' /\ RestInv'
  BY <1>5, HangUpFollows, Zenon
<1>6. ASSUME NEW p \in Requests, Respond(p) PROVE HostInv' /\ RestInv'
  BY <1>6, RespondFollows
<1>7. ASSUME NEW c \in Commands, Reject(c) PROVE HostInv' /\ RestInv'
  BY <1>7, RejectFollows
<1> QED
  BY <1>1, <1>2, <1>3, <1>4, <1>5, <1>6, <1>7, Zenon DEF RestNext

\* Both invariants hold of hosts and clients together, whatever the requests, the
\* tasks and the commands are.
THEOREM RestInvariance == RestSpec => [](HostInv /\ RestInv)
<1>1. RestInit => HostInv /\ RestInv
  BY InitialInv
<1>2. HostInv /\ RestInv /\ [RestNext]_restVars => (HostInv /\ RestInv)'
  BY NextKeeps, Zenon
<1> QED
  BY <1>1, <1>2, PTL DEF RestSpec

\* A state change, its record and its event are committed together or not at all,
\* whoever leads the transaction and wherever an operation fails, is cancelled or
\* crashes (Do, mutate).
THEOREM ChangesCommitTogether == RestSpec => []CommittedTogether
<1>1. HostInv => CommittedTogether
  BY Zenon DEF HostInv
<1> QED
  BY <1>1, RestInvariance, PTL

\* Consumers in the process are told of exactly what was committed: never of a change
\* that was rolled back, and of every one whose process neither crashed nor missed
\* the answer to its commit (finish, Result.Dispatch).
THEOREM ExactlyTheCommittedIsDelivered == RestSpec => []DeliveredExactly
<1>1. HostInv => DeliveredExactly
  <2> SUFFICES ASSUME HostInv PROVE DeliveredExactly
    OBVIOUS
  <2>1. outbox = {i \in Item : i.version <= rows[i.task]}
    BY Zenon DEF HostInv, CommittedTogether
  <2> QED
    BY <2>1, Zenon DEF HostInv, DeliveredExactly, DeliveredIsCommitted
<1> QED
  BY <1>1, RestInvariance, PTL

\* A command that insists on a version takes effect at most once however often it is
\* sent, and whether or not the attempts overlap (mutate, Store.Update).
THEOREM ResendingIsHarmless == RestSpec => []ResentAppliesOnce
<1>1. RestInv => ResentAppliesOnce
  <2> SUFFICES ASSUME RestInv, NEW a \in applied, NEW b \in applied, a.command = b.command,
                      commands[a.command].expected # AnyVersion
               PROVE  a = b
    BY Zenon DEF ResentAppliesOnce
  <2>1. a \in [command : Commands, item : Item] /\ b \in [command : Commands, item : Item]
    BY Zenon DEF RestInv, RestType
  <2>2. a.item.task = b.item.task /\ a.item.version = b.item.version
    BY Zenon DEF RestInv, AppliedFollows
  <2>3. a.item = b.item
    BY <2>1, <2>2 DEF Item
  <2> QED
    BY <2>1, <2>3
<1> QED
  BY <1>1, RestInvariance, PTL

\* No two commits write the same version of a task: what a commit adds to the history
\* was not there before, so that a command applied once took effect once (Store.Update).
THEOREM CommitsAreNew ==
    RestSpec => [][\A p \in Requests :
                       EngineCommit(p) \/ CommitUnanswered(p) => Written(p) \notin history]_restVars
<1>1. HostInv => \A p \in Requests :
          EngineCommit(p) \/ CommitUnanswered(p) => Written(p) \notin history
  BY CommitsOne DEF EngineCommit, CommitUnanswered
<1> QED
  BY <1>1, RestInvariance, PTL

\* A status code tells the truth about what was committed (StatusFor, respond).
THEOREM AnswersAreTrue == RestSpec => []AnswersTrue
<1>1. RestInv => AnswersTrue
  <2> SUFFICES ASSUME RestInv, NEW c \in Commands
               PROVE  LET done == {a.item : a \in {b \in applied : b.command = c}} IN
                      /\ commands[c].answer = "StatusOK" =>
                             [task |-> commands[c].task, version |-> commands[c].version] \in done
                      /\ commands[c].answer \in {"StatusBadRequest", "StatusConflict"}
                             /\ commands[c].attempts = 1 => done = {}
    BY Zenon DEF AnswersTrue
  <2> DEFINE done == {a.item : a \in {b \in applied : b.command = c}}
  <2>1. ASSUME commands[c].answer = "StatusOK"
        PROVE  [task |-> commands[c].task, version |-> commands[c].version] \in done
    <3>1. PICK a \in applied :
              a = [command |-> c, item |-> [task |-> commands[c].task, version |-> commands[c].version]]
      BY <2>1, Zenon DEF RestInv, Answered
    <3> QED
      BY <3>1
  <2>2. ASSUME commands[c].answer \in {"StatusBadRequest", "StatusConflict"}, commands[c].attempts = 1
        PROVE  done = {}
    <3>1. \A a \in applied : a.command # c
      BY <2>2, Zenon DEF RestInv, AppliedFollows, FirstAttempt
    <3> QED
      BY <3>1, Zenon
  <2> QED
    BY <2>1, <2>2, Zenon
<1> QED
  BY <1>1, RestInvariance, PTL
=============================================================================
