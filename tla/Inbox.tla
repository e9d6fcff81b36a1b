-------------------------------- MODULE Inbox --------------------------------
(***************************************************************************)
(* Reading an inbox page by page while its tasks change.                   *)
(*                                                                         *)
(* The same committed operations go to both kinds of store.  The one in    *)
(* memory keeps tasks and sorts them; a SQL store keeps a row without the  *)
(* candidates, a child row per candidate, and answers with a statement.    *)
(* A reader behind the REST contract asks the SQL store for one page after *)
(* the other, each request authorized and resolved anew, and a page takes  *)
(* two statements: the rows, then their candidates.                        *)
(*                                                                         *)
(* An identifier is a number here: identifiers are created in the order of *)
(* time, but a host may choose its own.  Correlation, type and due-before  *)
(* filters are left out: each is one more conjunct of the same kind.       *)
(***************************************************************************)
EXTENDS Task, Integers, Sequences, SequencesExt

CONSTANTS TaskIDs,      \* the identifiers tasks are created under
          Templates,    \* what tasks are created with, and who creates them
          Readers,      \* the acting users who read
          Supervisors,  \* those the host's own policy lets ask for any inbox
          Requests,     \* the queries they send
          NULL,         \* the absent value of a column
          Me,           \* the word a request names its own acting user by
          MaxChanges,   \* bound: operations, moves, and creations during a walk
          MaxQueryLimit, DefaultQueryLimit

ASSUME InboxAssumption ==
    /\ TaskIDs \subseteq Nat
    /\ Readers \subseteq Actors \cup {Nobody}
    /\ Supervisors \subseteq Actors
    /\ MaxChanges \in Nat
    /\ DefaultQueryLimit \in Nat \ {0} /\ MaxQueryLimit \in Nat \ {0}
    /\ \A t \in Templates :
           /\ t.pool \in CandidatePool /\ t.policy \in EscalationPolicy
           /\ t.dueAt \in Nat \cup {Never} /\ t.priority \in Int
           /\ t.creator \in Actors \cup {Nobody}
    /\ Requests # {}
    /\ \A q \in Requests :
           /\ {q.candidate, q.assignee} \subseteq Actors \cup {Nobody, Me}
           /\ q.statuses \subseteq Statuses /\ q.group \in Groups \cup {NULL}
           /\ q.orderBy \in {"created", "priority", "due", "urgency"}
           /\ q.descending \in BOOLEAN /\ q.limit \in Nat
    /\ Me \notin Actors \cup {Nobody}
    /\ NULL \notin Actors \cup Sweepers /\ NULL \notin Suspendable /\ NULL \notin Nat

VARIABLES
    memory,      \* the tasks of the store in memory, by identifier
    rows,        \* the tasks table
    candidates,  \* the candidates table
    directory,   \* the groups of each actor
    changes,     \* bound: how many of them there have been
    walk,        \* the reader's progress through the pages
    steady       \* history variable: the tasks that matched ever since the walk began

stores == <<memory, rows, candidates>>
inboxVars == <<stores, directory, changes, walk, steady>>

(* The tasks ************************************************************)

\* A task with the columns an inbox reads besides those of a transition.
NewInboxTask(id, template) ==
    LET t == NewTask(template.pool, template.policy, template.dueAt) IN
    [f \in DOMAIN t \cup {"id", "priority", "createdBy"} |->
        IF f = "id" THEN id
        ELSE IF f = "priority" THEN template.priority
        ELSE IF f = "createdBy" THEN template.creator
        ELSE t[f]]

GroupsOf(a) == directory[a]

\* Service.Eligible: exclusion first, then users, then the live membership.
Eligible(pool, a) ==
    /\ a # Nobody
    /\ a \notin pool.excluded
    /\ a \in pool.users \/ GroupsOf(a) \cap pool.groups # {}

\* What the operations make of a task, whoever calls them.
Successors(t) ==
    {Claimed(t, a) : a \in {b \in Actors : MayClaim(t, b) /\ Eligible(t.candidates, b)}}
      \cup (IF t.status = "RESERVED" THEN {Released(t), Started(t)} ELSE {})
      \cup (IF MayEscalate(t) THEN {Escalated(t)} ELSE {})
      \cup (IF MayCancel(t) THEN {Cancelled(t)} ELSE {})

(* The rows of the SQL stores *******************************************)

\* An empty string, an absent time: NULL.
NullIf(value, absent) == IF value = absent THEN NULL ELSE value
Default(column, absent) == IF column = NULL THEN absent ELSE column

TaskRow(t) ==
    [f \in DOMAIN t \ {"candidates"} |->
        IF f \in {"assignee", "lockedBy", "createdBy"} THEN NullIf(t[f], Nobody)
        ELSE IF f = "suspendedFrom" THEN NullIf(t[f], "NONE")
        ELSE IF f = "dueAt" THEN NullIf(t[f], Never)
        ELSE IF f = "lockedUntil" THEN NullIf(t[f], 0)
        ELSE t[f]]

\* Scanning a row back, the pool to be attached.
ScannedTask(row, pool) ==
    [f \in DOMAIN row \cup {"candidates"} |->
        IF f = "candidates" THEN pool
        ELSE IF f \in {"assignee", "lockedBy", "createdBy"} THEN Default(row[f], Nobody)
        ELSE IF f = "suspendedFrom" THEN Default(row[f], "NONE")
        ELSE IF f = "dueAt" THEN Default(row[f], Never)
        ELSE IF f = "lockedUntil" THEN Default(row[f], 0)
        ELSE row[f]]

CandidateRows(id, pool) ==
    {[task |-> id, kind |-> "user", value |-> u] : u \in pool.users} \cup
    {[task |-> id, kind |-> "group", value |-> g] : g \in pool.groups} \cup
    {[task |-> id, kind |-> "excluded", value |-> u] : u \in pool.excluded}

ScannedPool(id) ==
    LET named(kind) == {c.value : c \in {r \in candidates : r.task = id /\ r.kind = kind}}
    IN [users |-> named("user"), groups |-> named("group"), excluded |-> named("excluded")]

(* A query **************************************************************)

EffectiveLimit(q) ==
    IF q.limit = 0 THEN DefaultQueryLimit
    ELSE IF q.limit > MaxQueryLimit THEN MaxQueryLimit ELSE q.limit

\* The cursor of a task: its ordering, its direction, and the task's whole key.
Position(t) == [priority |-> t.priority, dueAt |-> t.dueAt, id |-> t.id]
NoCursor == [orderBy |-> "none", descending |-> FALSE, after |-> NULL]
CursorAfter(q, t) ==
    [orderBy |-> q.orderBy, descending |-> q.descending, after |-> Position(t)]

\* A cursor continues only the ordering and direction that issued it.
Continues(cursor, q) ==
    cursor = NoCursor \/ (cursor.orderBy = q.orderBy /\ cursor.descending = q.descending)

(* The page of the SQL stores *******************************************)

OrderingKey(ordering) ==
    IF ordering = "priority" THEN <<"priority", "id">>
    ELSE IF ordering = "due" THEN <<"noDeadline", "dueAt", "id">>
    ELSE IF ordering = "urgency" THEN <<"priority", "noDeadline", "dueAt", "id">>
    ELSE <<"id">>

Beyond(x, y, descending) == IF descending THEN x < y ELSE x > y

\* Comparing a column with NULL is not true, whatever the comparison.
Same(column, value) == column # NULL /\ column = value

KeyEqual(row, term, after) ==
    IF term = "noDeadline" THEN (row.dueAt = NULL) = (after.dueAt = Never)
    ELSE IF term = "dueAt" THEN after.dueAt = Never \/ Same(row.dueAt, after.dueAt)
    ELSE row[term] = after[term]

\* The flag sorts ascending either way: only having no deadline is beyond one.
KeyBeyond(row, term, after, q) ==
    IF term = "noDeadline" THEN row.dueAt = NULL
    ELSE IF term = "dueAt" THEN row.dueAt # NULL /\ Beyond(row.dueAt, after.dueAt, q.descending)
    ELSE Beyond(row[term], after[term], q.descending)

\* Mutant: the disjunct of the flag is left out with the one of the due date.
KeysetWithoutFlag(row, q, after) ==
    LET key == OrderingKey(q.orderBy) IN
    \E i \in DOMAIN key :
        /\ key[i] # "noDeadline"
        /\ key[i] = "dueAt" => after.dueAt # Never
        /\ \A j \in 1..(i - 1) : KeyEqual(row, key[j], after)
        /\ KeyBeyond(row, key[i], after, q)

\* Strictly after the key: the disjuncts that could match nothing left out.
KeysetCondition(row, q, after) ==
    LET key == OrderingKey(q.orderBy) IN
    \E i \in DOMAIN key :
        /\ key[i] \in {"noDeadline", "dueAt"} => after.dueAt # Never
        /\ \A j \in 1..(i - 1) : KeyEqual(row, key[j], after)
        /\ KeyBeyond(row, key[i], after, q)

\* ORDER BY: NULL due dates are told apart by the flag before them.
SortValue(row, term) ==
    IF term = "noDeadline" THEN IF row.dueAt = NULL THEN 1 ELSE 0 ELSE row[term]

OrderBy(r, s, q) ==
    LET key == OrderingKey(q.orderBy) IN
    \E i \in DOMAIN key :
        /\ \A j \in 1..(i - 1) : SortValue(r, key[j]) = SortValue(s, key[j])
        /\ SortValue(r, key[i]) # SortValue(s, key[i])
        /\ IF key[i] = "noDeadline" THEN r.dueAt # NULL
           ELSE Beyond(SortValue(s, key[i]), SortValue(r, key[i]), q.descending)

\* The rows in order: each has as many before it as its place says.
Sorted(ids, precedes) ==
    [n \in 1..Cardinality(ids) |->
        CHOOSE i \in ids : Cardinality({j \in ids : <<j, i>> \in precedes}) = n - 1]

\* One row beyond the page tells whether another page exists.
TaskPage(ordered, limit) ==
    [ids |-> SubSeq(ordered, 1, IF Len(ordered) > limit THEN limit ELSE Len(ordered)),
     more |-> Len(ordered) > limit]

HasCandidate(id, kind, values) ==
    \E c \in candidates : c.task = id /\ c.kind = kind /\ c.value \in values

\* Mutant: the exclusion narrows the pool by user only, not by group.
CandidateConditionGroups(row, q) ==
    q.candidate # Nobody =>
        \/ Same(row.assignee, q.candidate)
        \/ /\ row.assignee = NULL
           /\ \/ /\ HasCandidate(row.id, "user", {q.candidate})
                 /\ ~HasCandidate(row.id, "excluded", {q.candidate})
              \/ HasCandidate(row.id, "group", q.candidateGroups)

CandidateCondition(row, q) ==
    q.candidate # Nobody =>
        /\ \/ Same(row.assignee, q.candidate)
           \/ /\ row.assignee = NULL
              /\ \/ HasCandidate(row.id, "user", {q.candidate})
                 \/ HasCandidate(row.id, "group", q.candidateGroups)
        /\ ~HasCandidate(row.id, "excluded", {q.candidate})

QueryConditions(row, q) ==
    /\ q.assignee # Nobody => Same(row.assignee, q.assignee)
    /\ q.statuses # {} => row.status \in q.statuses
    /\ q.group # NULL => HasCandidate(row.id, "group", {q.group})
    /\ CandidateCondition(row, q)

Selected(q) == {id \in DOMAIN rows : QueryConditions(rows[id], q)}

CountTasks(q) == Cardinality(Selected(q))

QueryTasks(q, cursor) ==
    LET matched == {id \in Selected(q) :
                       cursor # NoCursor => KeysetCondition(rows[id], q, cursor.after)}
        precedes == {p \in matched \X matched : OrderBy(rows[p[1]], rows[p[2]], q)}
    IN TaskPage(Sorted(matched, precedes), EffectiveLimit(q))

(* The page of the store in memory **************************************)

Compare(x, y) == IF x < y THEN 0 - 1 ELSE IF x > y THEN 1 ELSE 0

\* compare: negative, zero or positive, the deadline's absence last either way.
ComparePositions(a, b, q) ==
    LET directed(c) == IF q.descending THEN 0 - c ELSE c
        byPriority == IF q.orderBy \in {"priority", "urgency"}
                      THEN Compare(a.priority, b.priority) ELSE 0
        byDue == IF q.orderBy \notin {"due", "urgency"} \/ a.dueAt = b.dueAt THEN 0
                 ELSE IF a.dueAt = Never THEN 1
                 ELSE IF b.dueAt = Never THEN 0 - 1
                 ELSE directed(Compare(a.dueAt, b.dueAt))
    IN IF byPriority # 0 THEN directed(byPriority)
       ELSE IF byDue # 0 THEN byDue
       ELSE directed(Compare(a.id, b.id))

MatchesCandidate(t, q) ==
    q.candidate # Nobody =>
        /\ q.candidate \notin t.candidates.excluded
        /\ IF t.assignee # Nobody THEN t.assignee = q.candidate
           ELSE \/ q.candidate \in t.candidates.users
                \/ q.candidateGroups \cap t.candidates.groups # {}

Matches(t, q) ==
    /\ q.assignee # Nobody => t.assignee = q.assignee
    /\ q.statuses # {} => t.status \in q.statuses
    /\ q.group # NULL => q.group \in t.candidates.groups
    /\ MatchesCandidate(t, q)

MemoryPage(q, cursor) ==
    LET matched == {id \in DOMAIN memory :
                       /\ Matches(memory[id], q)
                       /\ cursor # NoCursor =>
                              ComparePositions(Position(memory[id]), cursor.after, q) > 0}
        precedes == {p \in matched \X matched :
                        ComparePositions(Position(memory[p[1]]), Position(memory[p[2]]), q) < 0}
    IN TaskPage(Sorted(matched, precedes), EffectiveLimit(q))

MemoryCount(q) == Cardinality({id \in DOMAIN memory : Matches(memory[id], q)})

(* The REST contract ****************************************************)

\* The word me stands for the acting user; without one it is refused.
ResolveMe(name, actor) == IF name = Me THEN actor ELSE name

NamesMe(r) == r.candidate = Me \/ r.assignee = Me

SelfOnly(actor, r) ==
    LET named == {ResolveMe(r.candidate, actor), ResolveMe(r.assignee, actor)} \ {Nobody} IN
    /\ actor # Nobody
    /\ r.group = NULL
    /\ named = {actor}

AuthorizedQuery(actor, r) ==
    /\ NamesMe(r) => actor # Nobody
    /\ actor \in Supervisors \/ SelfOnly(actor, r)

\* resolve: the candidate's membership as the directory has it now.
Resolve(actor, r) ==
    LET candidate == ResolveMe(r.candidate, actor) IN
    [assignee |-> ResolveMe(r.assignee, actor), candidate |-> candidate,
     candidateGroups |-> IF candidate = Nobody THEN {} ELSE GroupsOf(candidate),
     statuses |-> r.statuses, group |-> r.group, orderBy |-> r.orderBy,
     descending |-> r.descending, limit |-> r.limit]

ParticipantsOnly(actor, t) ==
    /\ actor # Nobody
    /\ actor \in {t.assignee, t.createdBy} \/ Eligible(t.candidates, actor)

(* The writers **********************************************************)

Asked == Resolve(walk.actor, walk.request)

\* What a change of the stores or of the directory leaves of the steady matches.
\* Bound: nothing is changed any more once the walk is over.
StillMatching ==
    /\ walk.at \notin {"done", "refused"}
    /\ walk' = walk
    /\ steady' = steady \cap Selected(Asked)'

Create(id, template) ==
    LET t == Activated(NewInboxTask(id, template), Nobody) IN
    /\ id \notin DOMAIN rows
    /\ walk.at = "idle" \/ changes < MaxChanges
    /\ changes' = IF walk.at = "idle" THEN changes ELSE changes + 1
    /\ memory' = [i \in DOMAIN memory \cup {id} |-> IF i = id THEN t ELSE memory[i]]
    /\ rows' = [i \in DOMAIN rows \cup {id} |-> IF i = id THEN TaskRow(t) ELSE rows[i]]
    /\ candidates' = candidates \cup CandidateRows(id, t.candidates)
    /\ UNCHANGED directory
    /\ StillMatching

\* Mutant: the candidates are written with the task only.
UpdateRowOnly(id, next) ==
    /\ memory' = [memory EXCEPT ![id] = next]
    /\ rows' = [rows EXCEPT ![id] = TaskRow(next)]
    /\ changes' = changes + 1
    /\ UNCHANGED <<candidates, directory>>
    /\ StillMatching

\* Every column of the row is written, and the candidate rows are written anew.
Update(id, next) ==
    /\ memory' = [memory EXCEPT ![id] = next]
    /\ rows' = [rows EXCEPT ![id] = TaskRow(next)]
    /\ candidates' = {c \in candidates : c.task # id} \cup CandidateRows(id, next.candidates)
    /\ changes' = changes + 1
    /\ UNCHANGED directory
    /\ StillMatching

Operate(id) ==
    /\ id \in DOMAIN memory
    /\ changes < MaxChanges
    /\ \E next \in Successors(memory[id]) : Update(id, next)

Move(a, groups) ==
    /\ changes < MaxChanges
    /\ groups # directory[a]
    /\ directory' = [directory EXCEPT ![a] = groups]
    /\ changes' = changes + 1
    /\ UNCHANGED stores
    /\ StillMatching

(* The reader ***********************************************************)

NoWalk(actor, r) ==
    [at |-> "idle", actor |-> actor, request |-> r, cursor |-> NoCursor,
     selected |-> << >>, more |-> FALSE, shown |-> << >>]

\* The first request of a walk: refused before anything is read, or begun.
Ask(actor, r) ==
    /\ walk.at = "idle"
    /\ walk' = [NoWalk(actor, r) EXCEPT !.at = IF AuthorizedQuery(actor, r) THEN "asking"
                                               ELSE "refused"]
    /\ steady' = IF AuthorizedQuery(actor, r) THEN Selected(Resolve(actor, r)) ELSE {}
    /\ UNCHANGED <<stores, directory, changes>>

\* The statement that selects the rows of a page.
SelectPage ==
    LET page == QueryTasks(Asked, walk.cursor) IN
    /\ walk.at = "asking"
    /\ walk' = [walk EXCEPT !.at = "attaching",
                            !.selected = [i \in DOMAIN page.ids |-> rows[page.ids[i]]],
                            !.more = page.more]
    /\ UNCHANGED <<stores, directory, changes, steady>>

\* The statement that reads their candidates, and the page it completes.
AttachCandidates ==
    LET tasks == [i \in DOMAIN walk.selected |->
                     ScannedTask(walk.selected[i], ScannedPool(walk.selected[i].id))]
    IN /\ walk.at = "attaching"
       /\ walk' = [walk EXCEPT
              !.at = IF walk.more THEN "asking" ELSE "done",
              !.cursor = IF walk.more THEN CursorAfter(Asked, Last(tasks)) ELSE @,
              !.selected = << >>, !.more = FALSE, !.shown = @ \o tasks]
       /\ UNCHANGED <<stores, directory, changes, steady>>

\* The reader goes on with another ordering or direction: the store refuses.
ContinueAnother(r) ==
    /\ walk.at = "asking" /\ walk.cursor # NoCursor
    /\ ~Continues(walk.cursor, r)
    /\ walk' = [walk EXCEPT !.at = "refused"]
    /\ UNCHANGED <<stores, directory, changes, steady>>

InboxInit ==
    /\ memory = << >> /\ rows = << >> /\ candidates = {}
    /\ directory = [a \in Actors |-> {g \in Groups : a \in Members[g]}]
    /\ changes = 0
    /\ walk = NoWalk(Nobody, CHOOSE r \in Requests : TRUE)
    /\ steady = {}

InboxNext ==
    \/ \E id \in TaskIDs, template \in Templates : Create(id, template)
    \/ \E id \in TaskIDs : Operate(id)
    \/ \E a \in Actors, groups \in SUBSET Groups : Move(a, groups)
    \/ \E actor \in Readers, r \in Requests : Ask(actor, r)
    \/ SelectPage
    \/ AttachCandidates
    \/ \E r \in Requests : ContinueAnother(r)

InboxSpec == InboxInit /\ [][InboxNext]_inboxVars

-----------------------------------------------------------------------------
(* Properties ***********************************************************)

\* Whichever store a host chose, a reader is shown the same: every row scans back
\* to the task that was written, pool included (taskArgs, TaskScanner.Task,
\* ScanCandidates), and the page and the count of the reader's query are the same
\* under the keyset statement and under memstore's comparison, cursor for cursor.
StoresAgree ==
    /\ DOMAIN rows = DOMAIN memory
    /\ \A id \in DOMAIN rows : ScannedTask(rows[id], ScannedPool(id)) = memory[id]
    /\ walk.at = "asking" =>
           /\ QueryTasks(Asked, walk.cursor) = MemoryPage(Asked, walk.cursor)
           /\ CountTasks(Asked) = MemoryCount(Asked)

\* Whatever is created, claimed, released, widened or moved between the pages of a
\* walk, no task is returned twice, and a walk to the last page has shown every task
\* that matched from its beginning to its end, although each request resolves the
\* membership anew (Page, keysetCondition).
PagesExact ==
    /\ \A i, j \in DOMAIN walk.shown : i # j => walk.shown[i].id # walk.shown[j].id
    /\ walk.at = "done" => steady \subseteq {walk.shown[i].id : i \in DOMAIN walk.shown}

\* The filter of an inbox and the rule of a claim are one rule, written twice: the
\* READY tasks a query by candidate selects are exactly those the candidate is
\* eligible to claim (candidateCondition, Service.Eligible).
ClaimableIsListed ==
    \A a \in Actors :
        Selected([assignee |-> Nobody, candidate |-> a, candidateGroups |-> GroupsOf(a),
                  statuses |-> {"READY"}, group |-> NULL])
      = {id \in DOMAIN memory : /\ memory[id].status = "READY"
                                /\ Eligible(memory[id].candidates, a)}

\* Whoever is not given more by the host is listed nothing they may not also read:
\* every query SelfOnly permits selects only tasks ParticipantsOnly lets the same
\* actor open.
ListedIsReadable ==
    \A a \in Actors \ Supervisors, r \in Requests : AuthorizedQuery(a, r) =>
        \A id \in Selected(Resolve(a, r)) : ParticipantsOnly(a, memory[id])

\* Listing, claiming and reading are one rule: what is listed can be claimed and
\* read, and what can be claimed is listed.
ListingMatchesRules == ClaimableIsListed /\ ListedIsReadable
=============================================================================
