---------------------------- MODULE RestRequests ----------------------------
(***************************************************************************)
(* Clients of the REST contract, whose answers can be lost.                *)
(*                                                                         *)
(* A client sends a command for a task, with the version it read or        *)
(* without one.  A binder hands it to the API, the API to the engine, and  *)
(* what the engine returns becomes a status code.  The client may hang up, *)
(* or never see the answer; it then sends the same command again, also     *)
(* while the first one is still being worked on.                           *)
(*                                                                         *)
(* The handlers run without a transaction of the host's around them, so    *)
(* that the dispatch of respond has nothing to do.                         *)
(***************************************************************************)
EXTENDS HostTransaction

CONSTANTS MaxAttempts   \* bound: how often a command is sent

ASSUME RestAssumption == MaxAttempts \in Nat

VARIABLES
    commands,   \* what each client sent, and what it was answered
    awaited,    \* the requests whose answer a client is waiting for
    applied     \* history variable: what each command's attempts committed

restVars == <<hostVars, commands, awaited, applied>>

Unsent == [task |-> CHOOSE id \in TaskIDs : TRUE, expected |-> AnyVersion, attempts |-> 0,
           answer |-> "none", version |-> 0]

\* Mutant: whatever the engine did not commit is answered as a conflict.
StatusForConflict(call) ==
    IF call.outcome = "ok" THEN "StatusOK" ELSE "StatusConflict"

StatusFor(call) ==
    CASE call.outcome = "ok" -> "StatusOK"
      [] call.outcome = "conflict" -> "StatusConflict"
      [] call.outcome = "error" -> "StatusInternalServerError"

\* What the command decided stays the same when it is sent again.
Sending(c, id, expected) ==
    IF commands[c].attempts = 0 THEN [Unsent EXCEPT !.task = id, !.expected = expected]
    ELSE commands[c]

MaySend(c, id, expected) ==
    /\ commands[c].attempts < MaxAttempts
    /\ IF commands[c].attempts = 0 THEN expected \in {AnyVersion, rows[id]}
       ELSE /\ commands[c].answer \in {"lost", "StatusInternalServerError"}
            /\ id = commands[c].task /\ expected = commands[c].expected

\* A request arrives and its operation begins.
Send(c, p, id, expected) ==
    /\ txs[p].led = "nobody"
    /\ MaySend(c, id, expected)
    /\ Begin(p, c, id, expected)
    /\ commands' = [commands EXCEPT ![c] = [Sending(c, id, expected) EXCEPT
            !.attempts = @ + 1, !.answer = "waiting"]]
    /\ awaited' = awaited \cup {p}
    /\ UNCHANGED applied

\* A body that cannot be read or decoded is answered before the engine is called.
Reject(c) ==
    /\ commands[c].attempts = 0
    /\ commands' = [commands EXCEPT ![c].attempts = 1, ![c].answer = "StatusBadRequest"]
    /\ UNCHANGED <<hostVars, awaited, applied>>

\* The client no longer waits for a request.
Leave(p) ==
    /\ awaited' = awaited \ {p}
    /\ commands' = IF p \in awaited
                   THEN [commands EXCEPT ![calls[p].command].answer = "lost"]
                   ELSE commands

\* The client closes its connection.  net/http and gin cancel the request's
\* context; fiber does not notice.
HangUp(p) ==
    /\ p \in awaited
    /\ Leave(p)
    /\ Cancel(p) \/ UNCHANGED hostVars
    /\ UNCHANGED applied

\* The answer is written, to whoever still waits for it.
Respond(p) ==
    LET c == calls[p].command IN
    /\ At(p, "answer")
    /\ calls' = [calls EXCEPT ![p] = NoCall]
    /\ awaited' = awaited \ {p}
    /\ commands' = IF p \in awaited
                   THEN [commands EXCEPT ![c].answer = StatusFor(calls[p]),
                                         ![c].version = calls[p].version + 1]
                   ELSE commands
    /\ UNCHANGED <<committed, txs, owed, delivered, lost, applied>>

\* A step of the operation; a crash also breaks the client's connection.
Work(p) ==
    /\ EngineStep(p)
    /\ IF calls'[p] = NoCall THEN Leave(p) ELSE UNCHANGED <<commands, awaited>>
    /\ applied' = IF calls[p].command # NoCommand /\ history' # history
                  THEN applied \cup {[command |-> calls[p].command, item |-> Written(p)]}
                  ELSE applied

RestInit ==
    /\ HostInit
    /\ commands = [c \in Commands |-> Unsent]
    /\ awaited = {}
    /\ applied = {}

RestNext ==
    \E p \in Requests :
        \/ HostStep(p) /\ UNCHANGED <<commands, awaited, applied>>
        \/ Work(p)
        \/ \E c \in Commands, id \in TaskIDs, expected \in AnyVersion..MaxVersion :
             Send(c, p, id, expected)
        \/ HangUp(p)
        \/ Respond(p)
        \/ \E c \in Commands : Reject(c)

RestSpec == RestInit /\ [][RestNext]_restVars

-----------------------------------------------------------------------------
(* Properties ***********************************************************)

\* A command that insists on a version takes effect at most once, however often it
\* is sent, also when two attempts run at the same time or the first one committed
\* and its answer was lost (mutate, Store.Update).
ResentAppliesOnce ==
    \A a, b \in applied :
        a.command = b.command /\ commands[a.command].expected # AnyVersion => a = b

\* The status code tells the truth: a success was committed, at the version the
\* client was given; and a client that is told of a conflict or a bad request at
\* its first attempt may correct it and send it again, for nothing of it was
\* committed.  Only an internal error leaves open what happened (StatusFor).
AnswersTrue ==
    \A c \in Commands :
        LET done == {a.item : a \in {b \in applied : b.command = c}} IN
        /\ commands[c].answer = "StatusOK" =>
               [task |-> commands[c].task, version |-> commands[c].version] \in done
        /\ commands[c].answer \in {"StatusBadRequest", "StatusConflict"} /\ commands[c].attempts = 1 => done = {}
=============================================================================
