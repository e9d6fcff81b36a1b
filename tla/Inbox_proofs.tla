---------------------------- MODULE Inbox_proofs ----------------------------
(***************************************************************************)
(* What the operators of the inbox compute, in any state in which the      *)
(* tables mirror the store in memory: the lemmas under InboxWalk_proofs.   *)
(*                                                                         *)
(* Both stores order tasks by their positions, and a position never        *)
(* changes.  That order is First below; the comparison of the store in     *)
(* memory, the keyset condition and the ORDER BY of the SQL stores are     *)
(* three ways of writing it.                                               *)
(***************************************************************************)
EXTENDS Inbox, FiniteSetTheorems, TLAPS

(* Types ****************************************************************)

InboxTask ==
    [id : Nat, priority : Int, createdBy : Actors \cup {Nobody},
     version : Nat, status : Statuses,
     suspendedFrom : Suspendable \cup {"NONE"},
     assignee : Actors \cup {Nobody},
     started : BOOLEAN, closed : BOOLEAN, progress : Nat,
     candidates : CandidatePool, policy : EscalationPolicy,
     escalationCount : Nat, dueAt : Nat \cup {Never},
     lockedBy : Sweepers \cup {Nobody}, lockedUntil : Nat]

InboxRow ==
    [id : Nat, priority : Int, createdBy : Actors \cup {Nobody, NULL},
     version : Nat, status : Statuses,
     suspendedFrom : Suspendable \cup {"NONE", NULL},
     assignee : Actors \cup {Nobody, NULL},
     started : BOOLEAN, closed : BOOLEAN, progress : Nat,
     policy : EscalationPolicy,
     escalationCount : Nat, dueAt : Nat \cup {Never, NULL},
     lockedBy : Sweepers \cup {Nobody, NULL}, lockedUntil : Nat \cup {NULL}]

Positions == [priority : Int, dueAt : Nat \cup {Never}, id : Nat]

Cursors == [orderBy : {"created", "priority", "due", "urgency"},
            descending : BOOLEAN, after : Positions]

WalkType ==
    [at : {"idle", "refused", "asking", "attaching", "done"},
     actor : Readers \cup {Nobody}, request : Requests, cursor : Cursors \cup {NoCursor},
     selected : Seq(InboxRow), more : BOOLEAN, shown : Seq(InboxTask)]

RowPosition(row) ==
    [priority |-> row.priority, dueAt |-> Default(row.dueAt, Never), id |-> row.id]

(* The order of the positions *******************************************)

TiedPriority(a, b, q) == q.orderBy \in {"priority", "urgency"} => a.priority = b.priority
FirstPriority(a, b, q) ==
    q.orderBy \in {"priority", "urgency"} /\ Beyond(b.priority, a.priority, q.descending)

TiedDue(a, b, q) == q.orderBy \in {"due", "urgency"} => a.dueAt = b.dueAt
FirstDue(a, b, q) ==
    /\ q.orderBy \in {"due", "urgency"}
    /\ a.dueAt # Never
    /\ b.dueAt = Never \/ Beyond(b.dueAt, a.dueAt, q.descending)

First(a, b, q) ==
    \/ FirstPriority(a, b, q)
    \/ /\ TiedPriority(a, b, q)
       /\ \/ FirstDue(a, b, q)
          \/ TiedDue(a, b, q) /\ Beyond(b.id, a.id, q.descending)

(* The invariant ********************************************************)

\* A task in the pool is nobody's.
Unheld(t) == t.status = "READY" => t.assignee = Nobody

\* The tables hold the tasks that the store in memory holds.
Mirrored ==
    /\ DOMAIN memory \subseteq TaskIDs /\ IsFiniteSet(DOMAIN memory)
    /\ memory = [id \in DOMAIN memory |-> memory[id]]
    /\ \A id \in DOMAIN memory :
           memory[id] \in InboxTask /\ memory[id].id = id /\ Unheld(memory[id])
    /\ rows = [id \in DOMAIN memory |-> TaskRow(memory[id])]
    /\ candidates = UNION {CandidateRows(id, memory[id].candidates) : id \in DOMAIN memory}
    /\ directory \in [Actors -> SUBSET Groups]

Spot(id) == Position(memory[id])

-----------------------------------------------------------------------------
(* The order ************************************************************)

LEMMA BeyondOrder ==
    ASSUME NEW d \in BOOLEAN, NEW x \in Int, NEW y \in Int, NEW z \in Int
    PROVE  /\ ~Beyond(x, x, d)
           /\ ~(Beyond(x, y, d) /\ Beyond(y, x, d))
           /\ Beyond(x, y, d) /\ Beyond(y, z, d) => Beyond(x, z, d)
           /\ x # y => Beyond(x, y, d) \/ Beyond(y, x, d)
  BY DEF Beyond

LEMMA DueOrder ==
    ASSUME NEW q, q.descending \in BOOLEAN,
           NEW a \in Positions, NEW b \in Positions, NEW c \in Positions
    PROVE  /\ ~FirstDue(a, a, q)
           /\ ~(FirstDue(a, b, q) /\ FirstDue(b, a, q))
           /\ FirstDue(a, b, q) /\ FirstDue(b, c, q) => FirstDue(a, c, q)
           /\ ~TiedDue(a, b, q) => FirstDue(a, b, q) \/ FirstDue(b, a, q)
           /\ ~(FirstDue(a, b, q) /\ TiedDue(a, b, q))
           /\ FirstDue(a, b, q) /\ TiedDue(b, c, q) => FirstDue(a, c, q)
           /\ TiedDue(a, b, q) /\ FirstDue(b, c, q) => FirstDue(a, c, q)
           /\ TiedDue(a, b, q) /\ TiedDue(b, c, q) => TiedDue(a, c, q)
           /\ TiedDue(a, b, q) => TiedDue(b, a, q)
  <1>1. \A p \in Positions : p.dueAt # Never => p.dueAt \in Int
    BY DEF Positions
  <1>2. \A x, y, z \in Int :
           /\ ~Beyond(x, x, q.descending)
           /\ ~(Beyond(x, y, q.descending) /\ Beyond(y, x, q.descending))
           /\ Beyond(x, y, q.descending) /\ Beyond(y, z, q.descending)
                  => Beyond(x, z, q.descending)
           /\ x # y => Beyond(x, y, q.descending) \/ Beyond(y, x, q.descending)
    BY BeyondOrder
  <1> QED  BY <1>1, <1>2, Zenon DEF FirstDue, TiedDue

LEMMA PriorityOrder ==
    ASSUME NEW q, q.descending \in BOOLEAN,
           NEW a \in Positions, NEW b \in Positions, NEW c \in Positions
    PROVE  /\ ~FirstPriority(a, a, q)
           /\ ~(FirstPriority(a, b, q) /\ FirstPriority(b, a, q))
           /\ FirstPriority(a, b, q) /\ FirstPriority(b, c, q) => FirstPriority(a, c, q)
           /\ ~TiedPriority(a, b, q) => FirstPriority(a, b, q) \/ FirstPriority(b, a, q)
           /\ ~(FirstPriority(a, b, q) /\ TiedPriority(a, b, q))
           /\ FirstPriority(a, b, q) /\ TiedPriority(b, c, q) => FirstPriority(a, c, q)
           /\ TiedPriority(a, b, q) /\ FirstPriority(b, c, q) => FirstPriority(a, c, q)
           /\ TiedPriority(a, b, q) /\ TiedPriority(b, c, q) => TiedPriority(a, c, q)
           /\ TiedPriority(a, b, q) => TiedPriority(b, a, q)
  <1>1. \A p \in Positions : p.priority \in Int
    BY Zenon DEF Positions
  <1>2. \A x, y, z \in Int :
           /\ ~Beyond(x, x, q.descending)
           /\ ~(Beyond(x, y, q.descending) /\ Beyond(y, x, q.descending))
           /\ Beyond(x, y, q.descending) /\ Beyond(y, z, q.descending)
                  => Beyond(x, z, q.descending)
           /\ x # y => Beyond(x, y, q.descending) \/ Beyond(y, x, q.descending)
    BY BeyondOrder
  <1> QED  BY <1>1, <1>2, Zenon DEF FirstPriority, TiedPriority

\* First is a strict order, and total over the positions of different tasks.
LEMMA FirstOrder ==
    ASSUME NEW q, q.descending \in BOOLEAN,
           NEW a \in Positions, NEW b \in Positions, NEW c \in Positions
    PROVE  /\ ~First(a, a, q)
           /\ ~(First(a, b, q) /\ First(b, a, q))
           /\ First(a, b, q) /\ First(b, c, q) => First(a, c, q)
           /\ a.id # b.id => First(a, b, q) \/ First(b, a, q)
  <1>1. a.id \in Int /\ b.id \in Int /\ c.id \in Int
    BY DEF Positions
  <1>2. \A x, y, z \in Int :
           /\ ~Beyond(x, x, q.descending)
           /\ ~(Beyond(x, y, q.descending) /\ Beyond(y, x, q.descending))
           /\ Beyond(x, y, q.descending) /\ Beyond(y, z, q.descending)
                  => Beyond(x, z, q.descending)
           /\ x # y => Beyond(x, y, q.descending) \/ Beyond(y, x, q.descending)
    BY BeyondOrder
  <1>3. ~First(a, a, q)
    BY <1>1, <1>2, DueOrder, PriorityOrder DEF First
  <1>4. ~(First(a, b, q) /\ First(b, a, q))
    BY <1>1, <1>2, DueOrder, PriorityOrder DEF First
  <1>5. First(a, b, q) /\ First(b, c, q) => First(a, c, q)
    BY <1>1, <1>2, DueOrder, PriorityOrder DEF First
  <1>6. a.id # b.id => First(a, b, q) \/ First(b, a, q)
    BY <1>1, <1>2, DueOrder, PriorityOrder DEF First
  <1> QED  BY <1>3, <1>4, <1>5, <1>6, Zenon

\* compare, the comparison of the store in memory, is that order.
LEMMA CompareIsFirst ==
    ASSUME NEW q, q.descending \in BOOLEAN, NEW a \in Positions, NEW b \in Positions
    PROVE  /\ ComparePositions(a, b, q) < 0 <=> First(a, b, q)
           /\ ComparePositions(a, b, q) > 0 <=> First(b, a, q)
  <1>1. /\ a.id \in Int /\ b.id \in Int /\ a.priority \in Int /\ b.priority \in Int
        /\ a.dueAt # Never => a.dueAt \in Int
        /\ b.dueAt # Never => b.dueAt \in Int
    BY DEF Positions
  <1> QED
    BY <1>1 DEF ComparePositions, Compare, First, FirstPriority, TiedPriority, FirstDue,
                TiedDue, Beyond

(* The statements of the SQL stores *************************************)

\* A row at a position: an absent deadline is NULL.
RowAt(row, p) ==
    /\ p \in Positions
    /\ row.priority = p.priority /\ row.id = p.id
    /\ row.dueAt = NullIf(p.dueAt, Never)

LEMMA RowAtValues ==
    ASSUME NEW row, NEW p, RowAt(row, p)
    PROVE  /\ row.priority = p.priority /\ p.priority \in Int
           /\ row.id = p.id /\ p.id \in Int
           /\ p.dueAt = Never => row.dueAt = NULL
           /\ p.dueAt # Never => row.dueAt # NULL /\ row.dueAt = p.dueAt /\ p.dueAt \in Int
  BY InboxAssumption, NeverAssumption DEF RowAt, NullIf, Positions

\* A condition on the terms of a key, spelled out for each ordering.
LEMMA KeysetCases ==
    ASSUME NEW row, NEW q, NEW after,
           q.orderBy \in {"created", "priority", "due", "urgency"}
    PROVE  /\ q.orderBy = "created" =>
                 (KeysetCondition(row, q, after) <=> KeyBeyond(row, "id", after, q))
           /\ q.orderBy = "priority" =>
                 (KeysetCondition(row, q, after) <=>
                      \/ KeyBeyond(row, "priority", after, q)
                      \/ KeyEqual(row, "priority", after) /\ KeyBeyond(row, "id", after, q))
           /\ q.orderBy = "due" =>
                 (KeysetCondition(row, q, after) <=>
                      \/ after.dueAt # Never /\ KeyBeyond(row, "noDeadline", after, q)
                      \/ /\ after.dueAt # Never
                         /\ KeyEqual(row, "noDeadline", after)
                         /\ KeyBeyond(row, "dueAt", after, q)
                      \/ /\ KeyEqual(row, "noDeadline", after)
                         /\ KeyEqual(row, "dueAt", after)
                         /\ KeyBeyond(row, "id", after, q))
           /\ q.orderBy = "urgency" =>
                 (KeysetCondition(row, q, after) <=>
                      \/ KeyBeyond(row, "priority", after, q)
                      \/ /\ after.dueAt # Never
                         /\ KeyEqual(row, "priority", after)
                         /\ KeyBeyond(row, "noDeadline", after, q)
                      \/ /\ after.dueAt # Never
                         /\ KeyEqual(row, "priority", after)
                         /\ KeyEqual(row, "noDeadline", after)
                         /\ KeyBeyond(row, "dueAt", after, q)
                      \/ /\ KeyEqual(row, "priority", after)
                         /\ KeyEqual(row, "noDeadline", after)
                         /\ KeyEqual(row, "dueAt", after)
                         /\ KeyBeyond(row, "id", after, q))
  <1>1. CASE q.orderBy = "created"
    <2>1. OrderingKey(q.orderBy) = <<"id">>  BY <1>1, Zenon DEF OrderingKey
    <2> QED  BY <1>1, <2>1 DEF KeysetCondition
  <1>2. CASE q.orderBy = "priority"
    <2>1. OrderingKey(q.orderBy) = <<"priority", "id">>  BY <1>2, Zenon DEF OrderingKey
    <2> QED  BY <1>2, <2>1 DEF KeysetCondition
  <1>3. CASE q.orderBy = "due"
    <2>1. OrderingKey(q.orderBy) = <<"noDeadline", "dueAt", "id">>
      BY <1>3, Zenon DEF OrderingKey
    <2> QED  BY <1>3, <2>1 DEF KeysetCondition
  <1>4. CASE q.orderBy = "urgency"
    <2>1. OrderingKey(q.orderBy) = <<"priority", "noDeadline", "dueAt", "id">>
      BY <1>4, Zenon DEF OrderingKey
    <2> QED  BY <1>4, <2>1 DEF KeysetCondition
  <1> QED  BY <1>1, <1>2, <1>3, <1>4, Zenon

\* The keyset condition selects the rows after a position, and no others.
LEMMA KeysetIsFirst ==
    ASSUME NEW row, NEW p, RowAt(row, p), NEW after \in Positions,
           NEW q, q.descending \in BOOLEAN,
           q.orderBy \in {"created", "priority", "due", "urgency"}
    PROVE  KeysetCondition(row, q, after) <=> First(after, p, q)
  <1>1. /\ row.priority = p.priority /\ p.priority \in Int
        /\ row.id = p.id /\ p.id \in Int
        /\ p.dueAt = Never => row.dueAt = NULL
        /\ p.dueAt # Never => row.dueAt # NULL /\ row.dueAt = p.dueAt /\ p.dueAt \in Int
    BY RowAtValues, Zenon
  <1>2. /\ after.priority \in Int /\ after.id \in Int
        /\ after.dueAt # Never => after.dueAt \in Int
    BY DEF Positions
  <1>3. KeyBeyond(row, "id", after, q) <=> Beyond(p.id, after.id, q.descending)
    BY <1>1, Zenon DEF KeyBeyond
  <1>4. /\ KeyBeyond(row, "priority", after, q)
              <=> Beyond(p.priority, after.priority, q.descending)
        /\ KeyEqual(row, "priority", after) <=> p.priority = after.priority
    BY <1>1, Zenon DEF KeyBeyond, KeyEqual
  <1>5. /\ KeyBeyond(row, "noDeadline", after, q) <=> p.dueAt = Never
        /\ KeyEqual(row, "noDeadline", after) <=> ((p.dueAt = Never) <=> (after.dueAt = Never))
    BY <1>1, Zenon DEF KeyBeyond, KeyEqual
  <1>6. /\ KeyBeyond(row, "dueAt", after, q)
              <=> p.dueAt # Never /\ Beyond(p.dueAt, after.dueAt, q.descending)
        /\ KeyEqual(row, "dueAt", after)
              <=> after.dueAt = Never \/ (p.dueAt # Never /\ p.dueAt = after.dueAt)
    BY <1>1, Zenon DEF KeyBeyond, KeyEqual, Same
  <1>7. CASE q.orderBy = "created"
    BY <1>3, <1>7, KeysetCases DEF First, FirstPriority, TiedPriority, FirstDue, TiedDue
  <1>8. CASE q.orderBy = "priority"
    BY <1>3, <1>4, <1>8, KeysetCases
       DEF First, FirstPriority, TiedPriority, FirstDue, TiedDue
  <1>9. CASE q.orderBy = "due"
    BY <1>3, <1>5, <1>6, <1>9, KeysetCases
       DEF First, FirstPriority, TiedPriority, FirstDue, TiedDue
  <1>10. CASE q.orderBy = "urgency"
    BY <1>3, <1>4, <1>5, <1>6, <1>10, KeysetCases
       DEF First, FirstPriority, TiedPriority, FirstDue, TiedDue
  <1> QED  BY <1>7, <1>8, <1>9, <1>10, Zenon

\* The last term decides between rows that the others leave tied.
LEMMA OrderByCases ==
    ASSUME NEW r, NEW s, NEW q, q.orderBy \in {"created", "priority", "due", "urgency"}
    PROVE  LET tied(term) == SortValue(r, term) = SortValue(s, term)
               first(term) ==
                   /\ SortValue(r, term) # SortValue(s, term)
                   /\ IF term = "noDeadline" THEN r.dueAt # NULL
                      ELSE Beyond(SortValue(s, term), SortValue(r, term), q.descending)
           IN /\ q.orderBy = "created" => (OrderBy(r, s, q) <=> first("id"))
              /\ q.orderBy = "priority" =>
                    (OrderBy(r, s, q) <=> first("priority") \/ (tied("priority") /\ first("id")))
              /\ q.orderBy = "due" =>
                    (OrderBy(r, s, q) <=>
                         \/ first("noDeadline")
                         \/ tied("noDeadline") /\ first("dueAt")
                         \/ tied("noDeadline") /\ tied("dueAt") /\ first("id"))
              /\ q.orderBy = "urgency" =>
                    (OrderBy(r, s, q) <=>
                         \/ first("priority")
                         \/ tied("priority") /\ first("noDeadline")
                         \/ tied("priority") /\ tied("noDeadline") /\ first("dueAt")
                         \/ /\ tied("priority") /\ tied("noDeadline") /\ tied("dueAt")
                            /\ first("id"))
  <1>1. CASE q.orderBy = "created"
    <2>1. OrderingKey(q.orderBy) = <<"id">>  BY <1>1, Zenon DEF OrderingKey
    <2> QED  BY <1>1, <2>1 DEF OrderBy
  <1>2. CASE q.orderBy = "priority"
    <2>1. OrderingKey(q.orderBy) = <<"priority", "id">>  BY <1>2, Zenon DEF OrderingKey
    <2> QED  BY <1>2, <2>1 DEF OrderBy
  <1>3. CASE q.orderBy = "due"
    <2>1. OrderingKey(q.orderBy) = <<"noDeadline", "dueAt", "id">>
      BY <1>3, Zenon DEF OrderingKey
    <2> QED  BY <1>3, <2>1 DEF OrderBy
  <1>4. CASE q.orderBy = "urgency"
    <2>1. OrderingKey(q.orderBy) = <<"priority", "noDeadline", "dueAt", "id">>
      BY <1>4, Zenon DEF OrderingKey
    <2> QED  BY <1>4, <2>1 DEF OrderBy
  <1> QED  BY <1>1, <1>2, <1>3, <1>4, Zenon

\* ORDER BY puts one row before another exactly where their positions are.
LEMMA OrderByIsFirst ==
    ASSUME NEW r, NEW p, RowAt(r, p), NEW s, NEW o, RowAt(s, o),
           NEW q, q.descending \in BOOLEAN,
           q.orderBy \in {"created", "priority", "due", "urgency"}
    PROVE  OrderBy(r, s, q) <=> First(p, o, q)
  <1> DEFINE tied(term) == SortValue(r, term) = SortValue(s, term)
             first(term) ==
                 /\ SortValue(r, term) # SortValue(s, term)
                 /\ IF term = "noDeadline" THEN r.dueAt # NULL
                    ELSE Beyond(SortValue(s, term), SortValue(r, term), q.descending)
  <1>1. /\ r.priority = p.priority /\ p.priority \in Int
        /\ r.id = p.id /\ p.id \in Int
        /\ p.dueAt = Never => r.dueAt = NULL
        /\ p.dueAt # Never => r.dueAt # NULL /\ r.dueAt = p.dueAt /\ p.dueAt \in Int
    BY RowAtValues, Zenon
  <1>2. /\ s.priority = o.priority /\ o.priority \in Int
        /\ s.id = o.id /\ o.id \in Int
        /\ o.dueAt = Never => s.dueAt = NULL
        /\ o.dueAt # Never => s.dueAt # NULL /\ s.dueAt = o.dueAt /\ o.dueAt \in Int
    BY RowAtValues, Zenon
  <1>3. first("id") <=> Beyond(o.id, p.id, q.descending)
    BY <1>1, <1>2 DEF SortValue, Beyond
  <1>4. /\ tied("priority") <=> p.priority = o.priority
        /\ first("priority") <=> Beyond(o.priority, p.priority, q.descending)
    BY <1>1, <1>2 DEF SortValue, Beyond
  <1>5. /\ tied("noDeadline") <=> ((p.dueAt = Never) <=> (o.dueAt = Never))
        /\ first("noDeadline") <=> p.dueAt # Never /\ o.dueAt = Never
    BY <1>1, <1>2 DEF SortValue
  <1>6. ASSUME tied("noDeadline")
        PROVE  /\ tied("dueAt") <=> p.dueAt = o.dueAt
               /\ p.dueAt # Never =>
                      (first("dueAt") <=> Beyond(o.dueAt, p.dueAt, q.descending))
               /\ p.dueAt = Never => ~first("dueAt")
    <2>1. SortValue(r, "dueAt") = r.dueAt /\ SortValue(s, "dueAt") = s.dueAt
      BY Zenon DEF SortValue
    <2>2. CASE p.dueAt = Never
      BY <1>1, <1>2, <1>5, <1>6, <2>1, <2>2, Zenon
    <2>3. CASE p.dueAt # Never
      BY <1>1, <1>2, <1>5, <1>6, <2>1, <2>3 DEF Beyond
    <2> QED  BY <2>2, <2>3, Zenon
  <1>7. CASE q.orderBy = "created"
    <2>1. OrderBy(r, s, q) <=> first("id")  BY <1>7, OrderByCases
    <2> HIDE DEF first
    <2> QED  BY <1>3, <1>7, <2>1, Zenon DEF First, FirstPriority, TiedPriority, FirstDue, TiedDue
  <1>8. CASE q.orderBy = "priority"
    <2>1. OrderBy(r, s, q) <=> first("priority") \/ (tied("priority") /\ first("id"))
      BY <1>8, OrderByCases
    <2> HIDE DEF first, tied
    <2> QED
      BY <1>3, <1>4, <1>8, <2>1, Zenon DEF First, FirstPriority, TiedPriority, FirstDue, TiedDue
  <1>9. CASE q.orderBy = "due"
    <2>1. OrderBy(r, s, q) <=>
              \/ first("noDeadline")
              \/ tied("noDeadline") /\ first("dueAt")
              \/ tied("noDeadline") /\ tied("dueAt") /\ first("id")
      BY <1>9, OrderByCases
    <2> HIDE DEF first, tied
    <2> QED
      BY <1>3, <1>5, <1>6, <1>9, <2>1, Zenon
         DEF First, FirstPriority, TiedPriority, FirstDue, TiedDue
  <1>10. CASE q.orderBy = "urgency"
    <2>1. OrderBy(r, s, q) <=>
              \/ first("priority")
              \/ tied("priority") /\ first("noDeadline")
              \/ tied("priority") /\ tied("noDeadline") /\ first("dueAt")
              \/ /\ tied("priority") /\ tied("noDeadline") /\ tied("dueAt")
                 /\ first("id")
      BY <1>10, OrderByCases
    <2> HIDE DEF first, tied
    <2> QED
      BY <1>3, <1>4, <1>5, <1>6, <1>10, <2>1
         DEF First, FirstPriority, TiedPriority, FirstDue, TiedDue
  <1> QED  BY <1>7, <1>8, <1>9, <1>10, Zenon

(* Sorting **************************************************************)

StrictlyOrders(R, S) ==
    /\ \A x \in S : <<x, x>> \notin R
    /\ \A x, y, z \in S : <<x, y>> \in R /\ <<y, z>> \in R => <<x, z>> \in R
    /\ \A x, y \in S : x # y => <<x, y>> \in R \/ <<y, x>> \in R

Below(S, R, x) == {j \in S : <<j, x>> \in R}

LEMMA RankRange ==
    ASSUME NEW S, IsFiniteSet(S), NEW R, StrictlyOrders(R, S), NEW x \in S
    PROVE  /\ IsFiniteSet(Below(S, R, x))
           /\ Cardinality(Below(S, R, x)) + 1 \in 1..Cardinality(S)
  <1>1. Below(S, R, x) \in SUBSET S /\ x \notin Below(S, R, x)
    BY Zenon DEF Below, StrictlyOrders
  <1>2. IsFiniteSet(Below(S, R, x)) /\ Cardinality(Below(S, R, x)) <= Cardinality(S)
    BY <1>1, FS_Subset, Zenon
  <1>3. Cardinality(S) # Cardinality(Below(S, R, x))
    BY <1>1, FS_Subset, Zenon
  <1>4. Cardinality(S) \in Nat /\ Cardinality(Below(S, R, x)) \in Nat
    BY <1>2, FS_CardinalityType, Zenon
  <1> QED  BY <1>2, <1>3, <1>4

LEMMA RankRises ==
    ASSUME NEW S, IsFiniteSet(S), NEW R, StrictlyOrders(R, S),
           NEW x \in S, NEW y \in S, <<x, y>> \in R
    PROVE  Cardinality(Below(S, R, x)) < Cardinality(Below(S, R, y))
  <1>1. Below(S, R, x) \in SUBSET Below(S, R, y)
    BY Zenon DEF Below, StrictlyOrders
  <1>2. x \in Below(S, R, y) /\ x \notin Below(S, R, x)
    BY Zenon DEF Below, StrictlyOrders
  <1>3. IsFiniteSet(Below(S, R, x)) /\ IsFiniteSet(Below(S, R, y))
    BY RankRange, Zenon
  <1>4. /\ Cardinality(Below(S, R, x)) <= Cardinality(Below(S, R, y))
        /\ Cardinality(Below(S, R, y)) # Cardinality(Below(S, R, x))
    BY <1>1, <1>2, <1>3, FS_Subset, Zenon
  <1>5. Cardinality(Below(S, R, x)) \in Nat /\ Cardinality(Below(S, R, y)) \in Nat
    BY <1>3, FS_CardinalityType, Zenon
  <1> QED  BY <1>4, <1>5

\* Sorted holds every element once, in the order.
LEMMA SortedIsSorted ==
    ASSUME NEW S, IsFiniteSet(S), NEW R, StrictlyOrders(R, S)
    PROVE  /\ Cardinality(S) \in Nat
           /\ Sorted(S, R) \in [1..Cardinality(S) -> S]
           /\ \A i, j \in 1..Cardinality(S) :
                  i < j => <<Sorted(S, R)[i], Sorted(S, R)[j]>> \in R
           /\ \A x \in S : \E i \in 1..Cardinality(S) : Sorted(S, R)[i] = x
  <1> DEFINE n == Cardinality(S)
             rank == [x \in S |-> Cardinality(Below(S, R, x)) + 1]
  <1>1. n \in Nat
    BY FS_CardinalityType, Zenon
  <1>2. \A x \in S : rank[x] \in 1..n
    BY RankRange, Zenon
  <1>3. \A x, y \in S : <<x, y>> \in R => rank[x] < rank[y]
    <2>1. \A x, y \in S : <<x, y>> \in R =>
              Cardinality(Below(S, R, x)) < Cardinality(Below(S, R, y))
      BY RankRises, Zenon
    <2>2. \A x \in S : Cardinality(Below(S, R, x)) \in Nat
      BY RankRange, FS_CardinalityType, Zenon
    <2> QED  BY <2>1, <2>2
  <1> HIDE DEF n
  <1>4. rank \in [S -> 1..n]
    BY <1>2, Zenon
  <1>5. \A x, y \in S : rank[x] = rank[y] => x = y
    <2> SUFFICES ASSUME NEW x \in S, NEW y \in S, rank[x] = rank[y], x # y
                 PROVE  FALSE
      BY Zenon
    <2>1. <<x, y>> \in R \/ <<y, x>> \in R
      BY Zenon DEF StrictlyOrders
    <2>2. rank[x] \in Int /\ rank[y] \in Int
      BY <1>1, <1>2
    <2> HIDE DEF rank
    <2>3. rank[x] < rank[y] \/ rank[y] < rank[x]
      BY <2>1, <1>3, Zenon
    <2> QED  BY <2>2, <2>3
  <1>6. rank \in Injection(S, 1..n)
    BY <1>4, <1>5, Zenon DEF Injection, IsInjective
  <1>7. IsFiniteSet(1..n) /\ Cardinality(1..n) = n
    BY <1>1, FS_Interval
  <1>8. rank \in Surjection(S, 1..n)
    BY <1>6, <1>7, FS_Injection, Zenon DEF n
  <1>9. \A i \in 1..n : \E x \in S : rank[x] = i
    BY <1>8, Zenon DEF Surjection
  <1>10. \A i \in 1..n : Sorted(S, R)[i] \in S /\ rank[Sorted(S, R)[i]] = i
    <2> SUFFICES ASSUME NEW i \in 1..n
                 PROVE  Sorted(S, R)[i] \in S /\ rank[Sorted(S, R)[i]] = i
      BY Zenon
    <2> DEFINE P(x) == Cardinality({j \in S : <<j, x>> \in R}) = i - 1
    <2>1. PICK x \in S : rank[x] = i
      BY <1>9, Zenon
    <2>2. \A y \in S : /\ Cardinality(Below(S, R, y)) \in Nat
                       /\ Cardinality(Below(S, R, y)) = Cardinality({j \in S : <<j, y>> \in R})
      BY RankRange, FS_CardinalityType, Zenon DEF Below
    <2>3. \A y \in S : rank[y] = i <=> P(y)
      BY <2>2
    <2>4. Sorted(S, R)[i] = CHOOSE y \in S : P(y)
      BY Zenon DEF Sorted, n
    <2>5. \E y \in S : P(y)
      BY <2>1, <2>3, Zenon
    <2> HIDE DEF P
    <2>6. Sorted(S, R)[i] \in S /\ P(Sorted(S, R)[i])
      BY <2>4, <2>5, Zenon
    <2> QED  BY <2>3, <2>6, Zenon
  <1> HIDE DEF rank
  <1>11. Sorted(S, R) \in [1..n -> S]
    <2> DEFINE at(k) == CHOOSE i \in S : Cardinality({j \in S : <<j, i>> \in R}) = k - 1
    <2>1. Sorted(S, R) = [k \in 1..n |-> at(k)]
      BY Zenon DEF Sorted, n
    <2> HIDE DEF at
    <2>2. \A k \in 1..n : Sorted(S, R)[k] = at(k)
      BY <2>1, Zenon
    <2>3. \A k \in 1..n : at(k) \in S
      BY <2>2, <1>10, Zenon
    <2> QED  BY <2>1, <2>3, Zenon
  <1>12. \A i, j \in 1..n : i < j => <<Sorted(S, R)[i], Sorted(S, R)[j]>> \in R
    <2> SUFFICES ASSUME NEW i \in 1..n, NEW j \in 1..n, i < j
                 PROVE  <<Sorted(S, R)[i], Sorted(S, R)[j]>> \in R
      BY Zenon
    <2>1. PICK x \in S, y \in S : x = Sorted(S, R)[i] /\ y = Sorted(S, R)[j]
      BY <1>10, Zenon
    <2>2. rank[x] = i /\ rank[y] = j
      BY <2>1, <1>10, Zenon
    <2>3. x # y
      BY <2>2, <1>1
    <2>4. ~(<<y, x>> \in R)
      BY <2>2, <1>3, <1>1
    <2> QED  BY <2>1, <2>3, <2>4, Zenon DEF StrictlyOrders
  <1>13. \A x \in S : \E i \in 1..n : Sorted(S, R)[i] = x
    BY <1>2, <1>5, <1>10, Zenon
  <1> QED  BY <1>1, <1>11, <1>12, <1>13, Zenon DEF n

(* Tasks and their rows *************************************************)

\* What a transition leaves of a task: where it is listed.
SameSpot(t, next) == next.id = t.id /\ Position(next) = Position(t)

LEMMA RecordKeeps ==
    ASSUME NEW t \in InboxTask, NEW to \in Statuses
    PROVE  /\ Record(t, to) \in InboxTask
           /\ SameSpot(t, Record(t, to))
           /\ Record(t, to).candidates = t.candidates
           /\ Record(t, to).assignee = t.assignee /\ Record(t, to).status = to
  <1>1. PICK v \in Nat : v = t.version + 1
    BY DEF InboxTask
  <1>2. PICK c \in BOOLEAN : c = IF to \in Terminal THEN TRUE ELSE t.closed
    BY Zenon DEF InboxTask
  <1>3. PICK b \in Sweepers \cup {Nobody} : b = IF to \in Terminal THEN Nobody ELSE t.lockedBy
    BY Zenon DEF InboxTask
  <1>4. PICK l \in Nat : l = IF to \in Terminal THEN 0 ELSE t.lockedUntil
    BY Zenon DEF InboxTask
  <1>5. Record(t, to) = [t EXCEPT !.status = to, !.version = v, !.closed = c,
                                  !.lockedBy = b, !.lockedUntil = l]
    BY <1>1, <1>2, <1>3, <1>4 DEF Record, InboxTask
  <1>6. [t EXCEPT !.status = to, !.version = v, !.closed = c, !.lockedBy = b,
                  !.lockedUntil = l] \in InboxTask
    BY Zenon DEF InboxTask
  <1>7. /\ Record(t, to).id = t.id /\ Record(t, to).priority = t.priority
        /\ Record(t, to).dueAt = t.dueAt /\ Record(t, to).candidates = t.candidates
        /\ Record(t, to).assignee = t.assignee /\ Record(t, to).status = to
    BY <1>5 DEF InboxTask
  <1> QED  BY <1>5, <1>6, <1>7, Zenon DEF SameSpot, Position

LEMMA SuccessorKeeps ==
    ASSUME NEW t \in InboxTask, Unheld(t), NEW next \in Successors(t)
    PROVE  next \in InboxTask /\ SameSpot(t, next) /\ Unheld(next)
  <1>1. /\ "READY" \in Statuses /\ "RESERVED" \in Statuses /\ "IN_PROGRESS" \in Statuses
        /\ "EXITED" \in Statuses /\ "OBSOLETE" \in Statuses
        /\ t.status \in Statuses
    BY Zenon DEF Statuses, Suspendable, Terminal, InboxTask
  <1>2. ASSUME NEW a \in Actors 
        PROVE  /\ Claimed(t, a) \in InboxTask /\ SameSpot(t, Claimed(t, a))
               /\ Unheld(Claimed(t, a))
    <2>1. [t EXCEPT !.assignee = a] \in InboxTask /\ SameSpot(t, [t EXCEPT !.assignee = a])
      BY Zenon DEF InboxTask, SameSpot, Position
    <2> QED  BY <1>1, <2>1, RecordKeeps, Zenon DEF Claimed, SameSpot, Unheld
  <1>3. Released(t) \in InboxTask /\ SameSpot(t, Released(t)) /\ Unheld(Released(t))
    <2>1. /\ [t EXCEPT !.assignee = Nobody] \in InboxTask
          /\ SameSpot(t, [t EXCEPT !.assignee = Nobody])
          /\ [t EXCEPT !.assignee = Nobody].assignee = Nobody
      BY Zenon DEF InboxTask, SameSpot, Position
    <2> QED  BY <1>1, <2>1, RecordKeeps, Zenon DEF Released, SameSpot, Unheld
  <1>4. Started(t) \in InboxTask /\ SameSpot(t, Started(t)) /\ Unheld(Started(t))
    <2>1. /\ [t EXCEPT !.started = TRUE] \in InboxTask
          /\ SameSpot(t, [t EXCEPT !.started = TRUE])
      BY Zenon DEF InboxTask, SameSpot, Position
    <2> QED  BY <1>1, <2>1, RecordKeeps, Zenon DEF Started, SameSpot, Unheld
  <1>5. Cancelled(t) \in InboxTask /\ SameSpot(t, Cancelled(t)) /\ Unheld(Cancelled(t))
    BY <1>1, RecordKeeps, Zenon DEF Cancelled, Unheld
  <1>6. Escalated(t) \in InboxTask /\ SameSpot(t, Escalated(t)) /\ Unheld(Escalated(t))
    <2>1. CASE t.policy.action = "SUPERSEDE"
      BY <1>1, <2>1, RecordKeeps, Zenon DEF Escalated, Obsoleted, Unheld
    <2>2. CASE t.policy.action # "SUPERSEDE"
      <3>1. t.candidates \in CandidatePool /\ t.policy \in EscalationPolicy
        BY Zenon DEF InboxTask
      <3>2. Widened(t.candidates, t.policy) \in CandidatePool
        BY <3>1, Zenon DEF Widened, CandidatePool, EscalationPolicy
      <3>3. PICK pool \in CandidatePool :
               pool = IF t.policy.action = "WIDEN" THEN Widened(t.candidates, t.policy)
                      ELSE t.candidates
        BY <3>1, <3>2, Zenon
      <3>4. PICK count \in Nat : count = t.escalationCount + 1
        BY DEF InboxTask
      <3>5. [t EXCEPT !.escalationCount = @ + 1,
                      !.candidates = IF t.policy.action = "WIDEN" THEN Widened(@, t.policy)
                                     ELSE @]
            = [t EXCEPT !.escalationCount = count, !.candidates = pool]
        BY <3>3, <3>4, Zenon DEF InboxTask
      <3>6. /\ [t EXCEPT !.escalationCount = count, !.candidates = pool] \in InboxTask
            /\ SameSpot(t, [t EXCEPT !.escalationCount = count, !.candidates = pool])
            /\ [t EXCEPT !.escalationCount = count, !.candidates = pool].assignee = t.assignee
        BY Zenon DEF InboxTask, SameSpot, Position
      <3>7. PICK u \in InboxTask :
               u = [t EXCEPT !.escalationCount = count, !.candidates = pool]
        BY <3>6, Zenon
      <3>8. Escalated(t) = Record(u, t.status)
        BY <2>2, <3>5, <3>7, Zenon DEF Escalated
      <3>9. SameSpot(t, u) /\ u.assignee = t.assignee
        BY <3>6, <3>7, Zenon
      <3>10. PICK to \in Statuses : to = t.status
        BY <1>1, Zenon
      <3>11. /\ Record(u, to) \in InboxTask /\ SameSpot(u, Record(u, to))
             /\ Record(u, to).assignee = u.assignee /\ Record(u, to).status = to
        BY RecordKeeps, Zenon
      <3> QED  BY <3>8, <3>9, <3>10, <3>11 DEF SameSpot, Unheld
    <2> QED  BY <2>1, <2>2, Zenon
  <1> QED  BY <1>2, <1>3, <1>4, <1>5, <1>6 DEF Successors

LEMMA CreatedTask ==
    ASSUME NEW id \in TaskIDs, NEW template \in Templates
    PROVE  /\ Activated(NewInboxTask(id, template), Nobody) \in InboxTask
           /\ Activated(NewInboxTask(id, template), Nobody).id = id
           /\ Unheld(Activated(NewInboxTask(id, template), Nobody))
  <1>1. /\ id \in Nat
        /\ template.pool \in CandidatePool /\ template.policy \in EscalationPolicy
        /\ template.dueAt \in Nat \cup {Never} /\ template.priority \in Int
        /\ template.creator \in Actors \cup {Nobody}
    BY InboxAssumption, Zenon
  <1>2. NewInboxTask(id, template)
        = [id |-> id, priority |-> template.priority, createdBy |-> template.creator,
           version |-> 0, status |-> "CREATED", suspendedFrom |-> "NONE",
           assignee |-> Nobody, started |-> FALSE, closed |-> FALSE, progress |-> 0,
           candidates |-> template.pool, policy |-> template.policy, escalationCount |-> 0,
           dueAt |-> template.dueAt, lockedBy |-> Nobody, lockedUntil |-> 0]
    <2>1. PICK t : t = NewTask(template.pool, template.policy, template.dueAt)
      BY Zenon
    <2>2. /\ DOMAIN t = {"version", "status", "suspendedFrom", "assignee", "started", "closed",
                         "progress", "candidates", "policy", "escalationCount", "dueAt",
                         "lockedBy", "lockedUntil"}
          /\ t.version = 0 /\ t.status = "CREATED" /\ t.suspendedFrom = "NONE"
          /\ t.assignee = Nobody /\ t.started = FALSE /\ t.closed = FALSE /\ t.progress = 0
          /\ t.candidates = template.pool /\ t.policy = template.policy
          /\ t.escalationCount = 0 /\ t.dueAt = template.dueAt /\ t.lockedBy = Nobody
          /\ t.lockedUntil = 0
      BY <2>1, Zenon DEF NewTask
    <2>3. NewInboxTask(id, template) =
             [f \in DOMAIN t \cup {"id", "priority", "createdBy"} |->
                 IF f = "id" THEN id
                 ELSE IF f = "priority" THEN template.priority
                 ELSE IF f = "createdBy" THEN template.creator
                 ELSE t[f]]
      BY <2>1, Zenon DEF NewInboxTask
    <2> QED  BY <2>2, <2>3, Zenon
  <1>3. "CREATED" \in Statuses /\ "READY" \in Statuses
    BY Zenon DEF Statuses, Suspendable
  <1>4. NewInboxTask(id, template) \in InboxTask /\ NewInboxTask(id, template).id = id
    BY <1>1, <1>2, <1>3 DEF InboxTask
  <1>5. /\ [NewInboxTask(id, template) EXCEPT !.assignee = Nobody] \in InboxTask
        /\ [NewInboxTask(id, template) EXCEPT !.assignee = Nobody].id = id
        /\ [NewInboxTask(id, template) EXCEPT !.assignee = Nobody].assignee = Nobody
    BY <1>4, Zenon DEF InboxTask
  <1> QED  BY <1>3, <1>5, RecordKeeps, Zenon DEF Activated, SameSpot, Unheld

LEMMA RowOfTask ==
    ASSUME NEW t \in InboxTask
    PROVE  /\ TaskRow(t) \in InboxRow
           /\ RowAt(TaskRow(t), Position(t))
           /\ RowPosition(TaskRow(t)) = Position(t)
           /\ Position(t) \in Positions
           /\ TaskRow(t).id = t.id /\ TaskRow(t).status = t.status
           /\ t.assignee = Nobody => TaskRow(t).assignee = NULL
           /\ t.assignee # Nobody =>
                  TaskRow(t).assignee # NULL /\ TaskRow(t).assignee = t.assignee
  <1>1. TaskRow(t) = [id |-> t.id, priority |-> t.priority,
           createdBy |-> NullIf(t.createdBy, Nobody),
           version |-> t.version, status |-> t.status,
           suspendedFrom |-> NullIf(t.suspendedFrom, "NONE"),
           assignee |-> NullIf(t.assignee, Nobody), started |-> t.started,
           closed |-> t.closed, progress |-> t.progress, policy |-> t.policy,
           escalationCount |-> t.escalationCount, dueAt |-> NullIf(t.dueAt, Never),
           lockedBy |-> NullIf(t.lockedBy, Nobody), lockedUntil |-> NullIf(t.lockedUntil, 0)]
    <2>1. DOMAIN t = {"id", "priority", "createdBy", "version", "status", "suspendedFrom",
                      "assignee", "started", "closed", "progress", "candidates", "policy",
                      "escalationCount", "dueAt", "lockedBy", "lockedUntil"}
      BY Zenon DEF InboxTask
    <2> QED  BY <2>1 DEF TaskRow
  <1>2. /\ NullIf(t.createdBy, Nobody) \in Actors \cup {Nobody, NULL}
        /\ NullIf(t.suspendedFrom, "NONE") \in Suspendable \cup {"NONE", NULL}
        /\ NullIf(t.assignee, Nobody) \in Actors \cup {Nobody, NULL}
        /\ NullIf(t.dueAt, Never) \in Nat \cup {Never, NULL}
        /\ NullIf(t.lockedBy, Nobody) \in Sweepers \cup {Nobody, NULL}
        /\ NullIf(t.lockedUntil, 0) \in Nat \cup {NULL}
    BY Zenon DEF NullIf, InboxTask
  <1>3. TaskRow(t) \in InboxRow
    BY <1>1, <1>2 DEF InboxRow, InboxTask
  <1>4. /\ TaskRow(t).id = t.id /\ TaskRow(t).status = t.status
        /\ TaskRow(t).priority = t.priority
        /\ TaskRow(t).dueAt = NullIf(t.dueAt, Never)
        /\ TaskRow(t).assignee = NullIf(t.assignee, Nobody)
    BY <1>1
  <1>5. Position(t) \in Positions
    BY Zenon DEF Position, Positions, InboxTask
  <1>6. RowAt(TaskRow(t), Position(t))
    BY <1>4, <1>5, Zenon DEF RowAt, Position
  <1>7. Default(NullIf(t.dueAt, Never), Never) = t.dueAt
    BY InboxAssumption, Zenon DEF Default, NullIf, InboxTask
  <1>8. RowPosition(TaskRow(t)) = Position(t)
    BY <1>4, <1>7, Zenon DEF RowPosition, Position
  <1>9. t.assignee # Nobody => t.assignee # NULL
    BY InboxAssumption, Zenon DEF InboxTask
  <1> QED  BY <1>3, <1>4, <1>5, <1>6, <1>8, <1>9, Zenon DEF NullIf

\* What is scanned is the task that was written, with the pool attached.
LEMMA ScannedIsWritten ==
    ASSUME NEW t \in InboxTask
    PROVE  ScannedTask(TaskRow(t), t.candidates) = t
  <1>1. DOMAIN t = {"id", "priority", "createdBy", "version", "status", "suspendedFrom",
                    "assignee", "started", "closed", "progress", "candidates", "policy",
                    "escalationCount", "dueAt", "lockedBy", "lockedUntil"}
    BY Zenon DEF InboxTask
  <1>2. t = [f \in DOMAIN t |-> t[f]]
    BY Zenon DEF InboxTask
  <1>3. PICK r : r = TaskRow(t)
    BY Zenon
  <1>4. DOMAIN r = DOMAIN t \ {"candidates"}
    BY <1>3, Zenon DEF TaskRow
  <1>5. /\ Default(NullIf(t.createdBy, Nobody), Nobody) = t.createdBy
        /\ Default(NullIf(t.suspendedFrom, "NONE"), "NONE") = t.suspendedFrom
        /\ Default(NullIf(t.assignee, Nobody), Nobody) = t.assignee
        /\ Default(NullIf(t.dueAt, Never), Never) = t.dueAt
        /\ Default(NullIf(t.lockedBy, Nobody), Nobody) = t.lockedBy
        /\ Default(NullIf(t.lockedUntil, 0), 0) = t.lockedUntil
    BY InboxAssumption, Zenon DEF Default, NullIf, InboxTask
  <1>6. \A f \in DOMAIN r : r[f] =
            IF f \in {"assignee", "lockedBy", "createdBy"} THEN NullIf(t[f], Nobody)
            ELSE IF f = "suspendedFrom" THEN NullIf(t[f], "NONE")
            ELSE IF f = "dueAt" THEN NullIf(t[f], Never)
            ELSE IF f = "lockedUntil" THEN NullIf(t[f], 0)
            ELSE t[f]
    BY <1>3, <1>4, Zenon DEF TaskRow
  <1> DEFINE scanned(f) ==
        IF f = "candidates" THEN t.candidates
        ELSE IF f \in {"assignee", "lockedBy", "createdBy"} THEN Default(r[f], Nobody)
        ELSE IF f = "suspendedFrom" THEN Default(r[f], "NONE")
        ELSE IF f = "dueAt" THEN Default(r[f], Never)
        ELSE IF f = "lockedUntil" THEN Default(r[f], 0)
        ELSE r[f]
  <1>7. \A f \in DOMAIN t : scanned(f) = t[f]
    <2> SUFFICES ASSUME NEW f \in DOMAIN t PROVE scanned(f) = t[f]
      BY Zenon
    <2>1. CASE f = "candidates"
      BY <2>1, Zenon
    <2>2. CASE f \in {"assignee", "lockedBy", "createdBy"}
      BY <1>1, <1>4, <1>5, <1>6, <2>2
    <2>3. CASE f \in {"suspendedFrom", "dueAt", "lockedUntil"}
      BY <1>1, <1>4, <1>5, <1>6, <2>3
    <2>4. CASE f \notin {"candidates", "assignee", "lockedBy", "createdBy", "suspendedFrom",
                         "dueAt", "lockedUntil"}
      BY <1>4, <1>6, <2>4, Zenon
    <2> QED  BY <2>1, <2>2, <2>3, <2>4, Zenon
  <1>8. ScannedTask(TaskRow(t), t.candidates)
        = [f \in DOMAIN r \cup {"candidates"} |-> scanned(f)]
    BY <1>3, Zenon DEF ScannedTask
  <1>9. DOMAIN r \cup {"candidates"} = DOMAIN t
    BY <1>1, <1>4, Zenon
  <1> HIDE DEF scanned
  <1> QED  BY <1>2, <1>7, <1>8, <1>9, Zenon

\* Scanning any row of the type with any pool gives a task, at the row's position.
LEMMA ScannedTaskType ==
    ASSUME NEW row \in InboxRow, NEW pool \in CandidatePool
    PROVE  /\ ScannedTask(row, pool) \in InboxTask
           /\ ScannedTask(row, pool).id = row.id
           /\ Position(ScannedTask(row, pool)) = RowPosition(row)
  <1>1. ScannedTask(row, pool) = [id |-> row.id, priority |-> row.priority,
           createdBy |-> Default(row.createdBy, Nobody),
           version |-> row.version, status |-> row.status,
           suspendedFrom |-> Default(row.suspendedFrom, "NONE"),
           assignee |-> Default(row.assignee, Nobody), started |-> row.started,
           closed |-> row.closed, progress |-> row.progress, candidates |-> pool,
           policy |-> row.policy, escalationCount |-> row.escalationCount,
           dueAt |-> Default(row.dueAt, Never), lockedBy |-> Default(row.lockedBy, Nobody),
           lockedUntil |-> Default(row.lockedUntil, 0)]
    <2>1. DOMAIN row = {"id", "priority", "createdBy", "version", "status", "suspendedFrom",
                        "assignee", "started", "closed", "progress", "policy",
                        "escalationCount", "dueAt", "lockedBy", "lockedUntil"}
      BY Zenon DEF InboxRow
    <2> QED  BY <2>1 DEF ScannedTask
  <1>2. /\ Default(row.createdBy, Nobody) \in Actors \cup {Nobody}
        /\ Default(row.suspendedFrom, "NONE") \in Suspendable \cup {"NONE"}
        /\ Default(row.assignee, Nobody) \in Actors \cup {Nobody}
        /\ Default(row.dueAt, Never) \in Nat \cup {Never}
        /\ Default(row.lockedBy, Nobody) \in Sweepers \cup {Nobody}
        /\ Default(row.lockedUntil, 0) \in Nat
    BY Zenon DEF Default, InboxRow
  <1>3. ScannedTask(row, pool) \in InboxTask
    BY <1>1, <1>2 DEF InboxTask, InboxRow
  <1>4. /\ ScannedTask(row, pool).id = row.id
        /\ ScannedTask(row, pool).priority = row.priority
        /\ ScannedTask(row, pool).dueAt = Default(row.dueAt, Never)
    BY <1>1
  <1> QED  BY <1>3, <1>4, Zenon DEF Position, RowPosition

(* The candidates table *************************************************)

Named(id, kind, v) == [task |-> id, kind |-> kind, value |-> v]

LEMMA CandidateRowsAre ==
    ASSUME NEW id, NEW pool, NEW c
    PROVE  c \in CandidateRows(id, pool) <=>
              \/ \E v \in pool.users : c = Named(id, "user", v)
              \/ \E v \in pool.groups : c = Named(id, "group", v)
              \/ \E v \in pool.excluded : c = Named(id, "excluded", v)
  BY Zenon DEF CandidateRows, Named

LEMMA CandidatesOf ==
    ASSUME Mirrored, NEW id \in DOMAIN memory
    PROVE  /\ \A c \in candidates : c.task = id =>
                  \/ \E v \in memory[id].candidates.users : c = Named(id, "user", v)
                  \/ \E v \in memory[id].candidates.groups : c = Named(id, "group", v)
                  \/ \E v \in memory[id].candidates.excluded : c = Named(id, "excluded", v)
           /\ \A v \in memory[id].candidates.users : Named(id, "user", v) \in candidates
           /\ \A v \in memory[id].candidates.groups : Named(id, "group", v) \in candidates
           /\ \A v \in memory[id].candidates.excluded : Named(id, "excluded", v) \in candidates
  <1>1. \A c : c \in candidates <=>
           \E i \in DOMAIN memory : c \in CandidateRows(i, memory[i].candidates)
    BY Zenon DEF Mirrored
  <1>2. \A i, kind, v : Named(i, kind, v).task = i
    BY Zenon DEF Named
  <1>3. ASSUME NEW c \in candidates, c.task = id
        PROVE  c \in CandidateRows(id, memory[id].candidates)
    <2>1. PICK i \in DOMAIN memory : c \in CandidateRows(i, memory[i].candidates)
      BY <1>1, Zenon
    <2>2. c.task = i
      BY <1>2, <2>1, CandidateRowsAre
    <2> QED  BY <1>3, <2>1, <2>2, Zenon
  <1> QED  BY <1>1, <1>3, CandidateRowsAre

LEMMA HasCandidateIs ==
    ASSUME Mirrored, NEW id \in DOMAIN memory, NEW values
    PROVE  /\ HasCandidate(id, "user", values)
                 <=> \E v \in values : v \in memory[id].candidates.users
           /\ HasCandidate(id, "group", values)
                 <=> \E v \in values : v \in memory[id].candidates.groups
           /\ HasCandidate(id, "excluded", values)
                 <=> \E v \in values : v \in memory[id].candidates.excluded
  <1>1. \A kind, v : /\ Named(id, kind, v).task = id
                     /\ Named(id, kind, v).kind = kind
                     /\ Named(id, kind, v).value = v
    BY Zenon DEF Named
  <1>2. "user" # "group" /\ "user" # "excluded" /\ "group" # "excluded"
    BY Zenon
  <1>3. /\ \A c \in candidates : c.task = id =>
               \/ \E v \in memory[id].candidates.users : c = Named(id, "user", v)
               \/ \E v \in memory[id].candidates.groups : c = Named(id, "group", v)
               \/ \E v \in memory[id].candidates.excluded : c = Named(id, "excluded", v)
        /\ \A v \in memory[id].candidates.users : Named(id, "user", v) \in candidates
        /\ \A v \in memory[id].candidates.groups : Named(id, "group", v) \in candidates
        /\ \A v \in memory[id].candidates.excluded : Named(id, "excluded", v) \in candidates
    BY CandidatesOf, Zenon
  <1>4. HasCandidate(id, "user", values)
           <=> \E v \in values : v \in memory[id].candidates.users
    BY <1>1, <1>2, <1>3 DEF HasCandidate
  <1>5. HasCandidate(id, "group", values)
           <=> \E v \in values : v \in memory[id].candidates.groups
    BY <1>1, <1>2, <1>3 DEF HasCandidate
  <1>6. HasCandidate(id, "excluded", values)
           <=> \E v \in values : v \in memory[id].candidates.excluded
    BY <1>1, <1>2, <1>3 DEF HasCandidate
  <1> QED  BY <1>4, <1>5, <1>6, Zenon

LEMMA PoolScanned ==
    ASSUME Mirrored, NEW id \in DOMAIN memory
    PROVE  ScannedPool(id) = memory[id].candidates
  <1> DEFINE named(kind) == {c.value : c \in {r \in candidates : r.task = id /\ r.kind = kind}}
  <1>1. \A kind, v : /\ Named(id, kind, v).task = id
                     /\ Named(id, kind, v).kind = kind
                     /\ Named(id, kind, v).value = v
    BY Zenon DEF Named
  <1>2. "user" # "group" /\ "user" # "excluded" /\ "group" # "excluded"
    OBVIOUS
  <1>3. /\ \A c \in candidates : c.task = id =>
               \/ \E v \in memory[id].candidates.users : c = Named(id, "user", v)
               \/ \E v \in memory[id].candidates.groups : c = Named(id, "group", v)
               \/ \E v \in memory[id].candidates.excluded : c = Named(id, "excluded", v)
        /\ \A v \in memory[id].candidates.users : Named(id, "user", v) \in candidates
        /\ \A v \in memory[id].candidates.groups : Named(id, "group", v) \in candidates
        /\ \A v \in memory[id].candidates.excluded : Named(id, "excluded", v) \in candidates
    BY CandidatesOf
  <1>4. named("user") = memory[id].candidates.users
    BY <1>1, <1>2, <1>3
  <1>5. named("group") = memory[id].candidates.groups
    BY <1>1, <1>2, <1>3
  <1>6. named("excluded") = memory[id].candidates.excluded
    BY <1>1, <1>2, <1>3
  <1>7. ScannedPool(id) = [users |-> named("user"), groups |-> named("group"),
                           excluded |-> named("excluded")]
    BY Zenon DEF ScannedPool
  <1>8. memory[id].candidates \in CandidatePool
    BY Zenon DEF Mirrored, InboxTask
  <1>9. memory[id].candidates
        = [users |-> memory[id].candidates.users, groups |-> memory[id].candidates.groups,
           excluded |-> memory[id].candidates.excluded]
    BY <1>8, Zenon DEF CandidatePool
  <1> HIDE DEF named
  <1> QED  BY <1>4, <1>5, <1>6, <1>7, <1>9, Zenon

(* Selecting ************************************************************)

LEMMA MirroredRow ==
    ASSUME Mirrored
    PROVE  /\ DOMAIN rows = DOMAIN memory
           /\ \A id \in DOMAIN memory :
                  /\ memory[id] \in InboxTask /\ memory[id].id = id
                  /\ rows[id] = TaskRow(memory[id])
                  /\ rows[id] \in InboxRow /\ rows[id].id = id
                  /\ RowAt(rows[id], Spot(id))
                  /\ RowPosition(rows[id]) = Spot(id)
                  /\ Spot(id) \in Positions /\ Spot(id).id = id
  <1>1. DOMAIN rows = DOMAIN memory
    BY Zenon DEF Mirrored
  <1>2. \A id \in DOMAIN memory : /\ memory[id] \in InboxTask /\ memory[id].id = id
                                  /\ rows[id] = TaskRow(memory[id])
    BY Zenon DEF Mirrored
  <1>3. \A t \in InboxTask : /\ TaskRow(t) \in InboxRow /\ TaskRow(t).id = t.id
                             /\ RowAt(TaskRow(t), Position(t))
                             /\ RowPosition(TaskRow(t)) = Position(t)
                             /\ Position(t) \in Positions
    BY RowOfTask, Zenon
  <1>4. \A t : Position(t).id = t.id
    BY Zenon DEF Position
  <1> QED  BY <1>1, <1>2, <1>3, <1>4, Zenon DEF Spot

\* A resolved query whose actors are actors.
Resolved(q) ==
    /\ q.assignee \in Actors \cup {Nobody} /\ q.candidate \in Actors \cup {Nobody}

\* The WHERE clause of the statement is matches, the filter in memory.
LEMMA ConditionsAreMatches ==
    ASSUME Mirrored, NEW q, Resolved(q), NEW id \in DOMAIN memory
    PROVE  QueryConditions(rows[id], q) <=> Matches(memory[id], q)
  <1>1. /\ memory[id] \in InboxTask /\ rows[id] = TaskRow(memory[id]) /\ rows[id].id = id
    BY MirroredRow, Zenon
  <1>2. /\ rows[id].status = memory[id].status
        /\ memory[id].assignee = Nobody => rows[id].assignee = NULL
        /\ memory[id].assignee # Nobody =>
               rows[id].assignee # NULL /\ rows[id].assignee = memory[id].assignee
    BY <1>1, RowOfTask, Zenon
  <1>3. \A a \in Actors : Same(rows[id].assignee, a) <=> memory[id].assignee = a
    BY <1>2, ActorsAssumption, Zenon DEF Same
  <1>4. /\ HasCandidate(id, "user", {q.candidate})
               <=> q.candidate \in memory[id].candidates.users
        /\ HasCandidate(id, "excluded", {q.candidate})
               <=> q.candidate \in memory[id].candidates.excluded
        /\ HasCandidate(id, "group", q.candidateGroups)
               <=> q.candidateGroups \cap memory[id].candidates.groups # {}
        /\ HasCandidate(id, "group", {q.group}) <=> q.group \in memory[id].candidates.groups
    BY HasCandidateIs
  <1>5. rows[id].assignee = NULL <=> memory[id].assignee = Nobody
    BY <1>2, Zenon
  <1>6. CandidateCondition(rows[id], q) <=> MatchesCandidate(memory[id], q)
    BY <1>1, <1>3, <1>4, <1>5, Zenon DEF CandidateCondition, MatchesCandidate, Resolved
  <1> QED
    BY <1>1, <1>2, <1>3, <1>4, <1>6 DEF QueryConditions, Matches, Resolved

(* A page ***************************************************************)

Orderings == {"created", "priority", "due", "urgency"}

Ordered(q) == q.orderBy \in Orderings /\ q.descending \in BOOLEAN

LEMMA ResolveFacts ==
    ASSUME NEW actor \in Actors \cup {Nobody}, NEW r \in Requests, NamesMe(r) => actor # Nobody
    PROVE  /\ Resolved(Resolve(actor, r))
           /\ Ordered(Resolve(actor, r)) /\ Ordered(r)
           /\ Resolve(actor, r).orderBy = r.orderBy
           /\ Resolve(actor, r).descending = r.descending
           /\ EffectiveLimit(Resolve(actor, r)) \in Nat \ {0}
  <1>1. /\ r.candidate \in Actors \cup {Nobody, Me} /\ r.assignee \in Actors \cup {Nobody, Me}
        /\ r.orderBy \in Orderings /\ r.descending \in BOOLEAN /\ r.limit \in Nat
        /\ DefaultQueryLimit \in Nat \ {0} /\ MaxQueryLimit \in Nat \ {0}
    BY InboxAssumption, Zenon DEF Orderings
  <1>2. /\ Resolve(actor, r).candidate = ResolveMe(r.candidate, actor)
        /\ Resolve(actor, r).assignee = ResolveMe(r.assignee, actor)
        /\ Resolve(actor, r).orderBy = r.orderBy
        /\ Resolve(actor, r).descending = r.descending
        /\ Resolve(actor, r).limit = r.limit
    BY Zenon DEF Resolve
  <1>3. Resolved(Resolve(actor, r))
    BY <1>1, <1>2, Zenon DEF Resolved, ResolveMe, NamesMe
  <1>4. EffectiveLimit(Resolve(actor, r)) \in Nat \ {0}
    BY <1>1, <1>2, Zenon DEF EffectiveLimit
  <1> QED  BY <1>1, <1>2, <1>3, <1>4, Zenon DEF Ordered

LEMMA FirstSameOrder ==
    ASSUME NEW q, NEW r, q.orderBy = r.orderBy, q.descending = r.descending, NEW a, NEW b
    PROVE  First(a, b, q) <=> First(a, b, r)
  BY Zenon DEF First, FirstPriority, TiedPriority, FirstDue, TiedDue

\* The matches beyond a cursor, and their order.
After(q, cursor) ==
    {id \in Selected(q) : cursor # NoCursor => First(cursor.after, Spot(id), q)}

InOrder(S, q) == {p \in S \X S : First(Spot(p[1]), Spot(p[2]), q)}

LEMMA QueryIs ==
    ASSUME Mirrored, NEW q, Ordered(q), NEW cursor \in Cursors \cup {NoCursor}
    PROVE  QueryTasks(q, cursor)
           = TaskPage(Sorted(After(q, cursor), InOrder(After(q, cursor), q)),
                      EffectiveLimit(q))
  <1>1. Selected(q) \subseteq DOMAIN memory
    BY MirroredRow, Zenon DEF Selected
  <1>2. \A id \in DOMAIN memory : RowAt(rows[id], Spot(id))
    BY MirroredRow, Zenon
  <1>3. cursor # NoCursor => cursor.after \in Positions
    BY Zenon DEF Cursors
  <1>4. \A id \in Selected(q) : cursor # NoCursor =>
            (KeysetCondition(rows[id], q, cursor.after) <=> First(cursor.after, Spot(id), q))
    BY <1>1, <1>2, <1>3, KeysetIsFirst DEF Ordered, Orderings
  <1>5. {id \in Selected(q) : cursor # NoCursor => KeysetCondition(rows[id], q, cursor.after)}
        = After(q, cursor)
    BY <1>4, Zenon DEF After
  <1>6. \A i, j \in After(q, cursor) :
            OrderBy(rows[i], rows[j], q) <=> First(Spot(i), Spot(j), q)
    BY <1>1, <1>2, OrderByIsFirst DEF Ordered, Orderings, After
  <1>7. \A p \in After(q, cursor) \X After(q, cursor) :
            OrderBy(rows[p[1]], rows[p[2]], q) <=> First(Spot(p[1]), Spot(p[2]), q)
    BY <1>6, Zenon
  <1>8. {p \in After(q, cursor) \X After(q, cursor) : OrderBy(rows[p[1]], rows[p[2]], q)}
        = InOrder(After(q, cursor), q)
    BY <1>7, Zenon DEF InOrder
  <1> QED  BY <1>5, <1>8, Zenon DEF QueryTasks

LEMMA MemoryPageIs ==
    ASSUME Mirrored, NEW q, Resolved(q), Ordered(q), NEW cursor \in Cursors \cup {NoCursor}
    PROVE  /\ MemoryPage(q, cursor)
              = TaskPage(Sorted(After(q, cursor), InOrder(After(q, cursor), q)),
                         EffectiveLimit(q))
           /\ {id \in DOMAIN memory : Matches(memory[id], q)} = Selected(q)
  <1>1. DOMAIN rows = DOMAIN memory
    BY MirroredRow, Zenon
  <1>2. \A id \in DOMAIN memory : Spot(id) \in Positions
    BY MirroredRow, Zenon
  <1>3. cursor # NoCursor => cursor.after \in Positions
    BY Zenon DEF Cursors
  <1>4. {id \in DOMAIN memory : Matches(memory[id], q)} = Selected(q)
    BY <1>1, ConditionsAreMatches, Zenon DEF Selected
  <1>5. \A id \in DOMAIN memory : cursor # NoCursor =>
            (ComparePositions(Spot(id), cursor.after, q) > 0
                 <=> First(cursor.after, Spot(id), q))
    BY <1>2, <1>3, CompareIsFirst DEF Ordered
  <1>6. {id \in DOMAIN memory :
            /\ Matches(memory[id], q)
            /\ cursor # NoCursor => ComparePositions(Position(memory[id]), cursor.after, q) > 0}
        = After(q, cursor)
    BY <1>4, <1>5, Zenon DEF After, Spot
  <1>7. \A i, j \in After(q, cursor) :
            ComparePositions(Spot(i), Spot(j), q) < 0 <=> First(Spot(i), Spot(j), q)
    BY <1>1, <1>2, CompareIsFirst DEF Ordered, After, Selected
  <1>8. \A p \in After(q, cursor) \X After(q, cursor) :
            ComparePositions(Spot(p[1]), Spot(p[2]), q) < 0
                <=> First(Spot(p[1]), Spot(p[2]), q)
    BY <1>7, Zenon
  <1>9. {p \in After(q, cursor) \X After(q, cursor) :
            ComparePositions(Position(memory[p[1]]), Position(memory[p[2]]), q) < 0}
        = InOrder(After(q, cursor), q)
    BY <1>8, Zenon DEF InOrder, Spot
  <1> QED  BY <1>4, <1>6, <1>9, Zenon DEF MemoryPage

\* A page is in order, and what it leaves out of the matches comes after it.
PageSound(page, S, q) ==
    /\ page.ids \in Seq(S) /\ page.more \in BOOLEAN
    /\ \A i, j \in DOMAIN page.ids : i < j => First(Spot(page.ids[i]), Spot(page.ids[j]), q)
    /\ page.more => Len(page.ids) > 0
    /\ \A x \in S : \/ \E i \in DOMAIN page.ids : page.ids[i] = x
                    \/ page.more /\ First(Spot(page.ids[Len(page.ids)]), Spot(x), q)

LEMMA PageIs ==
    ASSUME Mirrored, NEW q, Ordered(q), NEW S \in SUBSET DOMAIN memory,
           NEW limit \in Nat \ {0}, NEW page,
           page = TaskPage(Sorted(S, InOrder(S, q)), limit)
    PROVE  PageSound(page, S, q)
  <1>1. IsFiniteSet(S)
    BY FS_Subset, Zenon DEF Mirrored
  <1>2. \A x \in S : Spot(x) \in Positions /\ Spot(x).id = x
    BY MirroredRow, Zenon
  <1>3. \A x, y : <<x, y>> \in InOrder(S, q) <=> x \in S /\ y \in S /\ First(Spot(x), Spot(y), q)
    BY Zenon DEF InOrder
  <1>4. StrictlyOrders(InOrder(S, q), S)
    <2>1. \A a, b, c \in Positions :
             /\ ~First(a, a, q)
             /\ First(a, b, q) /\ First(b, c, q) => First(a, c, q)
             /\ a.id # b.id => First(a, b, q) \/ First(b, a, q)
      BY FirstOrder DEF Ordered
    <2> QED  BY <1>2, <1>3, <2>1, Zenon DEF StrictlyOrders
  <1> DEFINE n == Cardinality(S)
  <1>5. PICK s : s = Sorted(S, InOrder(S, q))
    BY Zenon
  <1>6. /\ n \in Nat /\ s \in [1..n -> S]
        /\ \A i, j \in 1..n : i < j => <<s[i], s[j]>> \in InOrder(S, q)
        /\ \A x \in S : \E i \in 1..n : s[i] = x
    BY <1>1, <1>4, <1>5, SortedIsSorted
  <1> HIDE DEF n
  <1>7. s \in Seq(S) /\ Len(s) = n
    BY <1>6
  <1>8. PICK m \in 0..n : m = IF n > limit THEN limit ELSE n
    BY <1>6
  <1>9. page = [ids |-> SubSeq(s, 1, m), more |-> n > limit]
    BY <1>5, <1>7, <1>8, Zenon DEF TaskPage
  <1>10. page.ids = SubSeq(s, 1, m) /\ page.more = (n > limit)
    BY <1>9
  <1>11. /\ page.ids \in Seq(S) /\ Len(page.ids) = m /\ DOMAIN page.ids = 1..m
         /\ \A i \in 1..m : page.ids[i] = s[i]
    BY <1>6, <1>7, <1>8, <1>10
  <1>12. \A i, j \in 1..n : i < j => First(Spot(s[i]), Spot(s[j]), q)
    BY <1>3, <1>6, Zenon
  <1>13. \A i, j \in DOMAIN page.ids : i < j => First(Spot(page.ids[i]), Spot(page.ids[j]), q)
    <2>1. \A i \in 1..m : i \in 1..n
      BY <1>6, <1>8
    <2> QED  BY <1>11, <1>12, <2>1, Zenon
  <1>14. page.more => m > 0
    <2>1. n > limit => m > 0
      BY <1>6, <1>8
    <2> QED  BY <1>10, <2>1, Zenon
  <1>15. ASSUME NEW x \in S
         PROVE  \/ \E i \in DOMAIN page.ids : page.ids[i] = x
                \/ page.more /\ First(Spot(page.ids[Len(page.ids)]), Spot(x), q)
    <2>1. PICK k \in 1..n : s[k] = x
      BY <1>6, Zenon
    <2>2. CASE k <= m
      <3>1. k \in 1..m
        BY <1>6, <1>8, <2>1, <2>2
      <3> QED  BY <1>11, <2>1, <3>1
    <2>3. CASE ~(k <= m)
      <3>1. n > limit /\ m = limit /\ m \in 1..n /\ m < k /\ m \in 1..m
        BY <1>6, <1>8, <2>1, <2>3
      <3>2. First(Spot(s[m]), Spot(x), q)
        BY <1>12, <2>1, <3>1
      <3> QED  BY <1>10, <1>11, <3>1, <3>2, Zenon
    <2> QED  BY <2>2, <2>3, Zenon
  <1>16. page.more \in BOOLEAN
    BY <1>10
  <1> QED  BY <1>11, <1>13, <1>14, <1>15, <1>16 DEF PageSound
=============================================================================
