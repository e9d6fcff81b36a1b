-------------------------- MODULE InboxWalk_proofs --------------------------
(***************************************************************************)
(* Proofs about the inbox: the two kinds of store agree on every page, a   *)
(* walk through the pages is exact, and what is listed is what the rules   *)
(* of claiming and reading say.  One invariant, InboxInv, carries them     *)
(* all; each action keeps it.                                              *)
(***************************************************************************)
EXTENDS Inbox_proofs, SequenceTheorems

(* The invariant of a walk ***********************************************)

ShownIds == {walk.shown[i].id : i \in DOMAIN walk.shown}

\* A request past its authorization names an actor wherever it says me.
RequestAllowed == NamesMe(walk.request) => walk.actor # Nobody

\* What was shown is stored, where it was; nothing shown is beyond the cursor.
ShownBefore ==
    /\ \A i \in DOMAIN walk.shown :
           /\ walk.shown[i].id \in DOMAIN memory
           /\ Position(walk.shown[i]) = Spot(walk.shown[i].id)
    /\ \A i, j \in DOMAIN walk.shown : i # j => walk.shown[i].id # walk.shown[j].id
    /\ walk.at \in {"asking", "attaching"} =>
           \A i \in DOMAIN walk.shown :
               /\ walk.cursor # NoCursor
               /\ ~First(walk.cursor.after, Position(walk.shown[i]), walk.request)

\* The rows of a page: in order, all of them beyond the cursor.
PageInOrder ==
    /\ \A i \in DOMAIN walk.selected :
           /\ walk.selected[i].id \in DOMAIN memory
           /\ RowPosition(walk.selected[i]) = Spot(walk.selected[i].id)
           /\ walk.cursor # NoCursor =>
                  First(walk.cursor.after, Spot(walk.selected[i].id), walk.request)
    /\ \A i, j \in DOMAIN walk.selected : i < j =>
           First(Spot(walk.selected[i].id), Spot(walk.selected[j].id), walk.request)
    /\ walk.more => Len(walk.selected) > 0

\* Every steady match was shown, is on the page, or is still to come.
SteadyKept ==
    /\ walk.at = "idle" => walk.shown = << >> /\ walk.cursor = NoCursor /\ steady = {}
    /\ walk.at = "asking" =>
           \A id \in steady :
               \/ id \in ShownIds
               \/ walk.cursor = NoCursor
               \/ First(walk.cursor.after, Spot(id), walk.request)
    /\ walk.at = "attaching" =>
           \A id \in steady :
               \/ id \in ShownIds
               \/ \E i \in DOMAIN walk.selected : walk.selected[i].id = id
               \/ /\ walk.more
                  /\ First(Spot(walk.selected[Len(walk.selected)].id), Spot(id), walk.request)
    /\ walk.at = "done" => steady \subseteq ShownIds
    /\ walk.at \in {"asking", "attaching"} => steady \subseteq Selected(Asked)

Walking ==
    /\ walk \in WalkType
    /\ walk.at \in {"asking", "attaching"} => RequestAllowed
    /\ ShownBefore
    /\ walk.at = "attaching" => PageInOrder
    /\ SteadyKept

InboxInv == Mirrored /\ Walking

-----------------------------------------------------------------------------
(* The stores ***********************************************************)

\* What every write of the stores keeps: no task goes, and none moves.
SpotsKept ==
    /\ DOMAIN memory \subseteq DOMAIN memory'
    /\ \A id \in DOMAIN memory : Spot(id)' = Spot(id)

LEMMA RowTaskOf ==
    ASSUME NEW i, NEW pool, NEW c \in CandidateRows(i, pool)
    PROVE  c.task = i
  BY CandidateRowsAre DEF Named

LEMMA CreateMirrors ==
    ASSUME Mirrored, NEW id \in TaskIDs, NEW template \in Templates, Create(id, template)
    PROVE  Mirrored' /\ SpotsKept
  <1>1. PICK t \in InboxTask : /\ t = Activated(NewInboxTask(id, template), Nobody)
                               /\ t.id = id /\ Unheld(t)
    BY CreatedTask, Zenon
  <1>2. /\ id \notin DOMAIN rows
        /\ memory' = [i \in DOMAIN memory \cup {id} |-> IF i = id THEN t ELSE memory[i]]
        /\ rows' = [i \in DOMAIN rows \cup {id} |-> IF i = id THEN TaskRow(t) ELSE rows[i]]
        /\ candidates' = candidates \cup CandidateRows(id, t.candidates)
        /\ directory' = directory
    BY <1>1, Zenon DEF Create
  <1>3. DOMAIN rows = DOMAIN memory /\ id \notin DOMAIN memory
    BY <1>2, MirroredRow, Zenon
  <1>4. /\ DOMAIN memory' = DOMAIN memory \cup {id}
        /\ memory'[id] = t
        /\ \A i \in DOMAIN memory : memory'[i] = memory[i]
        /\ memory' = [i \in DOMAIN memory' |-> memory'[i]]
    BY <1>2, <1>3, Zenon
  <1>5. DOMAIN memory' \subseteq TaskIDs /\ IsFiniteSet(DOMAIN memory')
    BY <1>4, FS_AddElement DEF Mirrored
  <1>6. \A i \in DOMAIN memory' :
            memory'[i] \in InboxTask /\ memory'[i].id = i /\ Unheld(memory'[i])
    BY <1>1, <1>4, Zenon DEF Mirrored
  <1>7. rows' = [i \in DOMAIN memory' |-> TaskRow(memory'[i])]
    <2>1. \A i \in DOMAIN memory : rows[i] = TaskRow(memory[i])
      BY MirroredRow, Zenon
    <2>2. \A i \in DOMAIN memory' :
             (IF i = id THEN TaskRow(t) ELSE rows[i]) = TaskRow(memory'[i])
      BY <1>3, <1>4, <2>1
    <2> QED  BY <1>2, <1>3, <1>4, <2>2
  <1>8. candidates' = UNION {CandidateRows(i, memory'[i].candidates) : i \in DOMAIN memory'}
    <2>1. \A c : c \in candidates <=>
             \E i \in DOMAIN memory : c \in CandidateRows(i, memory[i].candidates)
      BY Zenon DEF Mirrored
    <2>2. \A c : c \in candidates' <=>
             \E i \in DOMAIN memory' : c \in CandidateRows(i, memory'[i].candidates)
      BY <1>2, <1>4, <2>1, Zenon
    <2> QED  BY <2>2, Zenon
  <1>9. directory' \in [Actors -> SUBSET Groups]
    BY <1>2, Zenon DEF Mirrored
  <1>10. SpotsKept
    BY <1>4, Zenon DEF SpotsKept, Spot
  <1> QED  BY <1>4, <1>5, <1>6, <1>7, <1>8, <1>9, <1>10 DEF Mirrored

LEMMA OperateMirrors ==
    ASSUME Mirrored, NEW id \in TaskIDs, Operate(id)
    PROVE  Mirrored' /\ SpotsKept
  <1>1. id \in DOMAIN memory
    BY Zenon DEF Operate
  <1>2. memory[id] \in InboxTask /\ memory[id].id = id /\ Unheld(memory[id])
    BY <1>1, Zenon DEF Mirrored
  <1>3. PICK next \in Successors(memory[id]) : Update(id, next)
    BY Zenon DEF Operate
  <1>4. next \in InboxTask /\ SameSpot(memory[id], next) /\ Unheld(next)
    BY <1>2, <1>3, SuccessorKeeps, Zenon
  <1>5. /\ memory' = [memory EXCEPT ![id] = next]
        /\ rows' = [rows EXCEPT ![id] = TaskRow(next)]
        /\ candidates' = {c \in candidates : c.task # id} \cup CandidateRows(id, next.candidates)
        /\ directory' = directory
    BY <1>3, Zenon DEF Update
  <1>6. /\ DOMAIN memory' = DOMAIN memory
        /\ memory'[id] = next
        /\ \A i \in DOMAIN memory : i # id => memory'[i] = memory[i]
        /\ memory' = [i \in DOMAIN memory' |-> memory'[i]]
    BY <1>1, <1>5, Zenon
  <1>7. \A i \in DOMAIN memory' :
            memory'[i] \in InboxTask /\ memory'[i].id = i /\ Unheld(memory'[i])
    BY <1>2, <1>4, <1>6, Zenon DEF Mirrored, SameSpot
  <1>8. rows' = [i \in DOMAIN memory' |-> TaskRow(memory'[i])]
    <2>1. rows = [i \in DOMAIN memory |-> TaskRow(memory[i])]
      BY Zenon DEF Mirrored
    <2>2. /\ DOMAIN rows' = DOMAIN memory'
          /\ \A i \in DOMAIN memory' : rows'[i] = TaskRow(memory'[i])
          /\ rows' = [i \in DOMAIN rows' |-> rows'[i]]
      BY <1>1, <1>5, <1>6, <2>1
    <2> QED  BY <2>2, Zenon
  <1>9. candidates' = UNION {CandidateRows(i, memory'[i].candidates) : i \in DOMAIN memory'}
    <2>1. \A c : c \in candidates <=>
             \E i \in DOMAIN memory : c \in CandidateRows(i, memory[i].candidates)
      BY Zenon DEF Mirrored
    <2>2. \A i, pool : \A c \in CandidateRows(i, pool) : c.task = i
      BY RowTaskOf, Zenon
    <2>3. \A c : c \in candidates /\ c.task # id <=>
             \E i \in DOMAIN memory : i # id /\ c \in CandidateRows(i, memory[i].candidates)
      BY <2>1, <2>2, Zenon
    <2>4. \A c : c \in candidates' <=>
             \/ \E i \in DOMAIN memory : i # id /\ c \in CandidateRows(i, memory[i].candidates)
             \/ c \in CandidateRows(id, next.candidates)
      BY <1>5, <2>3, Zenon
    <2>5. \A c : c \in candidates' <=>
             \E i \in DOMAIN memory' : c \in CandidateRows(i, memory'[i].candidates)
      BY <1>1, <1>6, <2>4
    <2> QED  BY <2>5, Zenon
  <1>10. directory' \in [Actors -> SUBSET Groups]
    BY <1>5, Zenon DEF Mirrored
  <1>11. SpotsKept
    BY <1>4, <1>6, Zenon DEF SpotsKept, Spot, SameSpot
  <1>12. DOMAIN memory' \subseteq TaskIDs /\ IsFiniteSet(DOMAIN memory')
    BY <1>6, Zenon DEF Mirrored
  <1> QED  BY <1>6, <1>7, <1>8, <1>9, <1>10, <1>11, <1>12 DEF Mirrored

LEMMA MoveMirrors ==
    ASSUME Mirrored, NEW a \in Actors, NEW groups \in SUBSET Groups, Move(a, groups)
    PROVE  Mirrored' /\ SpotsKept
  <1>1. /\ memory' = memory /\ rows' = rows /\ candidates' = candidates
        /\ directory' = [directory EXCEPT ![a] = groups]
    BY Zenon DEF Move, stores
  <1>2. directory' \in [Actors -> SUBSET Groups]
    BY <1>1, Zenon DEF Mirrored
  <1> QED  BY <1>1, <1>2 DEF Mirrored, SpotsKept, Spot

\* A change of the stores or of the directory keeps the reader's walk sound.
LEMMA WritesKeepWalk ==
    ASSUME InboxInv, Mirrored', SpotsKept, StillMatching
    PROVE  Walking'
  <1>1. /\ walk' = walk /\ steady' = steady \cap Selected(Asked)'
        /\ walk.at \notin {"done", "refused"}
    BY Zenon DEF StillMatching
  <1>2. walk \in WalkType /\ ShownBefore /\ SteadyKept
    BY Zenon DEF InboxInv, Walking
  <1>3. \A id \in DOMAIN memory : id \in DOMAIN memory' /\ Spot(id)' = Spot(id)
    BY Zenon DEF SpotsKept
  <1>4. ShownIds' = ShownIds
    BY <1>1, Zenon DEF ShownIds
  <1>5. walk.at \in {"asking", "attaching"} => \A id \in steady : id \in DOMAIN memory
    BY <1>2, MirroredRow, Zenon DEF SteadyKept, Selected, InboxInv
  <1>6. ShownBefore'
    <2>1. ASSUME NEW i \in DOMAIN walk.shown
          PROVE  /\ walk.shown[i].id \in DOMAIN memory'
                 /\ Position(walk.shown[i]) = Spot(walk.shown[i].id)'
      BY <1>1, <1>2, <1>3, Zenon DEF ShownBefore
    <2> QED  BY <1>1, <1>2, <2>1, Zenon DEF ShownBefore
  <1>7. ASSUME walk.at = "attaching" PROVE PageInOrder'
    <2>1. PageInOrder
      BY <1>7, Zenon DEF InboxInv, Walking
    <2>2. \A i \in DOMAIN walk.selected :
             /\ walk.selected[i].id \in DOMAIN memory'
             /\ Spot(walk.selected[i].id)' = Spot(walk.selected[i].id)
      BY <1>1, <1>3, <2>1, Zenon DEF PageInOrder
    <2> QED  BY <1>1, <2>1, <2>2 DEF PageInOrder
  <1>8. SteadyKept'
    <2>1. walk.at = "idle" => walk.shown = << >> /\ walk.cursor = NoCursor /\ steady' = {}
      BY <1>1, <1>2, Zenon DEF SteadyKept
    <2>2. ASSUME walk.at = "asking", NEW id \in steady'
          PROVE  \/ id \in ShownIds
                 \/ walk.cursor = NoCursor
                 \/ First(walk.cursor.after, Spot(id)', walk.request)
      <3>1. id \in steady /\ id \in DOMAIN memory
        BY <1>1, <1>5, <2>2, Zenon
      <3>2. Spot(id)' = Spot(id)
        BY <1>3, <3>1, Zenon
      <3> QED  BY <1>2, <2>2, <3>1, <3>2 DEF SteadyKept
    <2>3. ASSUME walk.at = "attaching", NEW id \in steady'
          PROVE  \/ id \in ShownIds
                 \/ \E i \in DOMAIN walk.selected : walk.selected[i].id = id
                 \/ /\ walk.more
                    /\ First(Spot(walk.selected[Len(walk.selected)].id)', Spot(id)',
                             walk.request)
      <3>1. id \in steady /\ id \in DOMAIN memory
        BY <1>1, <1>5, <2>3, Zenon
      <3>2. Spot(id)' = Spot(id)
        BY <1>3, <3>1, Zenon
      <3>3. walk.more => Len(walk.selected) \in DOMAIN walk.selected
        <4>1. PageInOrder
          BY <2>3, Zenon DEF InboxInv, Walking
        <4>2. walk.selected \in Seq(InboxRow)
          BY <1>2, Zenon DEF WalkType
        <4> QED  BY <4>1, <4>2 DEF PageInOrder
      <3>4. walk.more => walk.selected[Len(walk.selected)].id \in DOMAIN memory
        BY <2>3, <3>3, Zenon DEF InboxInv, Walking, PageInOrder
      <3>5. walk.more => Spot(walk.selected[Len(walk.selected)].id)'
                         = Spot(walk.selected[Len(walk.selected)].id)
        BY <1>1, <1>3, <3>4
      <3> QED  BY <1>2, <2>3, <3>1, <3>2, <3>5 DEF SteadyKept
    <2>4. steady' \subseteq Selected(Asked)'
      BY <1>1, Zenon
    <2> QED  BY <1>1, <1>4, <2>1, <2>2, <2>3, <2>4 DEF SteadyKept
  <1>9. walk'.at \in {"asking", "attaching"} => RequestAllowed'
    BY <1>1, Zenon DEF InboxInv, Walking, RequestAllowed, NamesMe
  <1> QED  BY <1>1, <1>2, <1>6, <1>7, <1>8, <1>9 DEF Walking

(* The reader ***********************************************************)

LEMMA ReadsKeepStores ==
    ASSUME Mirrored, UNCHANGED <<stores, directory>>
    PROVE  Mirrored' /\ SpotsKept
  <1>1. memory' = memory /\ rows' = rows /\ candidates' = candidates /\ directory' = directory
    BY Zenon DEF stores
  <1> QED  BY <1>1 DEF Mirrored, SpotsKept, Spot

LEMMA SelectedSame ==
    ASSUME UNCHANGED <<stores, directory>>, NEW actor, NEW r,
           walk'.actor = actor, walk'.request = r
    PROVE  Selected(Asked)' = Selected(Resolve(actor, r))
  <1>1. rows' = rows /\ candidates' = candidates /\ directory' = directory
    BY Zenon DEF stores
  <1>2. PICK q : q = Resolve(actor, r)
    BY Zenon
  <1>3. Asked' = q
    BY <1>1, <1>2, Zenon DEF Asked, Resolve, GroupsOf
  <1>4. \A id, kind, values :
           HasCandidate(id, kind, values)' <=> HasCandidate(id, kind, values)
    BY <1>1, Zenon DEF HasCandidate
  <1>5. ASSUME NEW row PROVE QueryConditions(row, q)' <=> QueryConditions(row, q)
    BY <1>4, Zenon DEF QueryConditions, CandidateCondition
  <1>6. Selected(Asked)' = {id \in DOMAIN rows : QueryConditions(rows[id], q)}
    BY <1>1, <1>3, <1>5 DEF Selected, QueryConditions, CandidateCondition, HasCandidate
  <1> QED  BY <1>2, <1>6, Zenon DEF Selected

LEMMA InitInv == InboxInit => InboxInv
  <1> SUFFICES ASSUME InboxInit PROVE InboxInv
    BY Zenon
  <1>1. /\ memory = << >> /\ rows = << >> /\ candidates = {}
        /\ directory = [a \in Actors |-> {g \in Groups : a \in Members[g]}]
        /\ walk = NoWalk(Nobody, CHOOSE r \in Requests : TRUE) /\ steady = {}
    BY Zenon DEF InboxInit
  <1>2. DOMAIN memory = {}
    BY <1>1
  <1>3. Mirrored
    <2>1. IsFiniteSet(DOMAIN memory)
      BY <1>2, FS_EmptySet, Zenon
    <2>2. candidates = UNION {CandidateRows(id, memory[id].candidates) : id \in DOMAIN memory}
      BY <1>1, <1>2, Zenon
    <2>3. directory \in [Actors -> SUBSET Groups]
      BY <1>1, Zenon
    <2>4. rows = [id \in DOMAIN memory |-> TaskRow(memory[id])]
      BY <1>1, <1>2
    <2>5. memory = [id \in DOMAIN memory |-> memory[id]]
      BY <1>1
    <2> QED  BY <1>2, <2>1, <2>2, <2>3, <2>4, <2>5 DEF Mirrored
  <1>4. PICK r \in Requests : r = CHOOSE any \in Requests : TRUE
    BY InboxAssumption, Zenon
  <1>5. walk = [at |-> "idle", actor |-> Nobody, request |-> r, cursor |-> NoCursor,
                selected |-> << >>, more |-> FALSE, shown |-> << >>]
    BY <1>1, <1>4, Zenon DEF NoWalk
  <1>6. /\ walk.at = "idle" /\ walk.shown = << >> /\ walk.cursor = NoCursor
    BY <1>5, Zenon
  <1>7. walk \in WalkType
    BY <1>5 DEF WalkType
  <1>8. ShownBefore /\ SteadyKept
    <2>1. DOMAIN walk.shown = {}
      BY <1>6
    <2>2. ShownBefore
      BY <2>1, Zenon DEF ShownBefore
    <2>3. walk.at \notin {"asking", "attaching", "done"}
      BY <1>6, Zenon
    <2>4. SteadyKept
      BY <1>1, <1>6, <2>3, Zenon DEF SteadyKept
    <2> QED  BY <2>2, <2>4, Zenon
  <1>9. Walking
    BY <1>6, <1>7, <1>8, Zenon DEF Walking
  <1> QED  BY <1>3, <1>9, Zenon DEF InboxInv

LEMMA AskKeeps ==
    ASSUME InboxInv, NEW actor \in Readers, NEW r \in Requests, Ask(actor, r)
    PROVE  InboxInv'
  <1>1. Mirrored' /\ SpotsKept
    BY ReadsKeepStores, Zenon DEF InboxInv, Ask
  <1>2. PICK at \in {"asking", "refused"} :
           at = IF AuthorizedQuery(actor, r) THEN "asking" ELSE "refused"
    BY Zenon
  <1>3. walk' = [at |-> at, actor |-> actor, request |-> r, cursor |-> NoCursor,
                 selected |-> << >>, more |-> FALSE, shown |-> << >>]
    BY <1>2, Zenon DEF Ask, NoWalk
  <1>4. /\ walk'.at = at /\ walk'.actor = actor /\ walk'.request = r
        /\ walk'.cursor = NoCursor /\ walk'.shown = << >>
    BY <1>3, Zenon
  <1>5. walk' \in WalkType
    BY <1>3 DEF WalkType
  <1>6. at = "asking" => RequestAllowed'
    BY <1>2, <1>4, Zenon DEF AuthorizedQuery, RequestAllowed, NamesMe
  <1>7. ShownBefore'
    BY <1>4 DEF ShownBefore
  <1>8. Selected(Asked)' = Selected(Resolve(actor, r))
    BY <1>4, SelectedSame, Zenon DEF Ask
  <1>9. at = "asking" => steady' = Selected(Resolve(actor, r))
    BY <1>2, Zenon DEF Ask
  <1>10. SteadyKept'
    BY <1>4, <1>8, <1>9, Zenon DEF SteadyKept
  <1> QED  BY <1>1, <1>4, <1>5, <1>6, <1>7, <1>10 DEF InboxInv, Walking

LEMMA AskedFacts ==
    ASSUME InboxInv, walk.at \in {"asking", "attaching"}
    PROVE  /\ Resolved(Asked) /\ Ordered(Asked) /\ Ordered(walk.request)
           /\ Asked.orderBy = walk.request.orderBy
           /\ Asked.descending = walk.request.descending
           /\ EffectiveLimit(Asked) \in Nat \ {0}
           /\ walk.cursor \in Cursors \cup {NoCursor}
  <1>1. /\ walk.actor \in Actors \cup {Nobody} /\ walk.request \in Requests
        /\ NamesMe(walk.request) => walk.actor # Nobody
        /\ walk.cursor \in Cursors \cup {NoCursor}
    BY InboxAssumption, Zenon DEF InboxInv, Walking, WalkType, RequestAllowed
  <1> QED  BY <1>1, ResolveFacts, Zenon DEF Asked

LEMMA ContinueKeeps ==
    ASSUME InboxInv, NEW r \in Requests, ContinueAnother(r)
    PROVE  InboxInv'
  <1>1. Mirrored' /\ SpotsKept
    BY ReadsKeepStores, Zenon DEF InboxInv, ContinueAnother
  <1>2. walk \in WalkType /\ walk' = [walk EXCEPT !.at = "refused"]
    BY Zenon DEF InboxInv, Walking, ContinueAnother
  <1>3. walk'.at = "refused" /\ walk'.shown = walk.shown
    BY <1>2, Zenon DEF WalkType
  <1>4. walk' \in WalkType
    BY <1>2, Zenon DEF WalkType
  <1>5. \A id \in DOMAIN memory : id \in DOMAIN memory' /\ Spot(id)' = Spot(id)
    BY <1>1, Zenon DEF SpotsKept
  <1>6. ShownBefore'
    <2>1. ASSUME NEW i \in DOMAIN walk.shown
          PROVE  /\ walk.shown[i].id \in DOMAIN memory'
                 /\ Position(walk.shown[i]) = Position(memory'[walk.shown[i].id])
      BY <1>5, Zenon DEF InboxInv, Walking, ShownBefore, Spot
    <2> QED  BY <1>3, <2>1, Zenon DEF ShownBefore, InboxInv, Walking, Spot
  <1>7. SteadyKept'
    BY <1>3, Zenon DEF SteadyKept
  <1> QED  BY <1>1, <1>3, <1>4, <1>6, <1>7 DEF InboxInv, Walking

\* A read that keeps the actor and the request keeps what the query selects.
LEMMA AskedSelectsSame ==
    ASSUME UNCHANGED <<stores, directory>>,
           walk'.actor = walk.actor, walk'.request = walk.request
    PROVE  Selected(Asked)' = Selected(Asked)
  <1>1. PICK actor, r : actor = walk.actor /\ r = walk.request
    BY Zenon
  <1>2. Selected(Asked)' = Selected(Resolve(actor, r))
    BY <1>1, SelectedSame, Zenon
  <1>3. Selected(Asked) = Selected(Resolve(actor, r))
    BY <1>1, Zenon DEF Asked
  <1> QED  BY <1>2, <1>3, Zenon

LEMMA SelectPageKeeps ==
    ASSUME InboxInv, SelectPage
    PROVE  InboxInv'
  <1>1. /\ Mirrored /\ walk \in WalkType /\ ShownBefore /\ SteadyKept
        /\ walk.at = "asking" /\ UNCHANGED <<stores, directory>> /\ steady' = steady
    BY Zenon DEF InboxInv, Walking, SelectPage
  <1>2. /\ Mirrored'
        /\ memory' = memory
        /\ \A id : Spot(id)' = Spot(id)
    BY <1>1, ReadsKeepStores, Zenon DEF stores, Spot
  <1>3. PICK q, cursor : q = Asked /\ cursor = walk.cursor
    BY Zenon
  <1>4. /\ Ordered(q) /\ EffectiveLimit(q) \in Nat \ {0} /\ cursor \in Cursors \cup {NoCursor}
        /\ q.orderBy = walk.request.orderBy /\ q.descending = walk.request.descending
    BY <1>1, <1>3, AskedFacts, Zenon
  <1>5. PICK S : S = After(q, cursor)
    BY Zenon
  <1>6. S \in SUBSET DOMAIN memory
    BY <1>1, <1>5, MirroredRow, Zenon DEF After, Selected
  <1> PICK limit \in Nat \ {0} : limit = EffectiveLimit(q)
    BY <1>4, Zenon
  <1>7. PICK page : page = TaskPage(Sorted(S, InOrder(S, q)), limit)
    BY Zenon
  <1>8. QueryTasks(Asked, walk.cursor) = page
    BY <1>1, <1>3, <1>4, <1>5, <1>7, QueryIs
  <1>9. /\ page.ids \in Seq(S) /\ page.more \in BOOLEAN
        /\ \A i, j \in DOMAIN page.ids : i < j =>
               First(Spot(page.ids[i]), Spot(page.ids[j]), q)
        /\ page.more => Len(page.ids) > 0
        /\ \A x \in S : \/ \E i \in DOMAIN page.ids : page.ids[i] = x
                        \/ page.more /\ First(Spot(page.ids[Len(page.ids)]), Spot(x), q)
    <2>1. PageSound(page, S, q)
      BY <1>1, <1>4, <1>6, <1>7, PageIs, Zenon
    <2> QED  BY <2>1, Zenon DEF PageSound
  <1>10. PICK ids, more : ids = page.ids /\ more = page.more
    BY Zenon
  <1>11. PICK selected : selected = [i \in DOMAIN ids |-> rows[ids[i]]]
    BY Zenon
  <1>12. walk' = [walk EXCEPT !.at = "attaching", !.selected = selected, !.more = more]
    BY <1>8, <1>10, <1>11, Zenon DEF SelectPage
  <1>13. /\ ids \in Seq(S) /\ more \in BOOLEAN
         /\ \A i, j \in DOMAIN ids : i < j => First(Spot(ids[i]), Spot(ids[j]), q)
         /\ more => Len(ids) > 0
         /\ \A x \in S : \/ \E i \in DOMAIN ids : ids[i] = x
                         \/ more /\ First(Spot(ids[Len(ids)]), Spot(x), q)
    BY <1>9, <1>10, Zenon
  <1>14. \A i \in DOMAIN ids : ids[i] \in S /\ ids[i] \in DOMAIN memory
    BY <1>6, <1>13
  <1>15. /\ DOMAIN selected = DOMAIN ids
         /\ \A i \in DOMAIN ids :
                /\ selected[i] \in InboxRow /\ selected[i].id = ids[i]
                /\ RowPosition(selected[i]) = Spot(ids[i])
    BY <1>1, <1>11, <1>14, MirroredRow, Zenon
  <1>16. selected \in Seq(InboxRow) /\ Len(selected) = Len(ids)
    <2>1. DOMAIN ids = 1..Len(ids) /\ Len(ids) \in Nat
      BY <1>13
    <2>2. selected \in [1..Len(ids) -> InboxRow]
      BY <1>11, <1>15, <2>1, Zenon
    <2> QED  BY <2>1, <2>2
  <1>17. walk' \in WalkType
    BY <1>1, <1>12, <1>13, <1>16, Zenon DEF WalkType
  <1>18. /\ walk'.at = "attaching" /\ walk'.actor = walk.actor /\ walk'.request = walk.request
         /\ walk'.cursor = walk.cursor /\ walk'.selected = selected /\ walk'.more = more
         /\ walk'.shown = walk.shown
    BY <1>1, <1>12, Zenon DEF WalkType
  <1>19. RequestAllowed'
    BY <1>1, <1>18, Zenon DEF RequestAllowed, InboxInv, Walking
  <1>20. ShownBefore'
    BY <1>1, <1>2, <1>18, Zenon DEF ShownBefore, Spot
  <1>21. \A a, b : First(a, b, q) <=> First(a, b, walk.request)
    <2>1. PICK r : r = walk.request
      BY Zenon
    <2> QED  BY <1>4, <2>1, FirstSameOrder, Zenon
  <1>22. \A id \in S : walk.cursor # NoCursor =>
             First(walk.cursor.after, Spot(id), walk.request)
    BY <1>3, <1>5, <1>21, Zenon DEF After
  <1>23. PageInOrder'
    <2>1. \A i \in DOMAIN selected :
             /\ selected[i].id \in DOMAIN memory'
             /\ RowPosition(selected[i]) = Position(memory'[selected[i].id])
             /\ walk'.cursor # NoCursor =>
                    First(walk'.cursor.after, Position(memory'[selected[i].id]), walk'.request)
      BY <1>2, <1>14, <1>15, <1>18, <1>22 DEF Spot
    <2>2. \A i, j \in DOMAIN selected : i < j =>
             First(Position(memory'[selected[i].id]), Position(memory'[selected[j].id]),
                   walk'.request)
      BY <1>2, <1>13, <1>15, <1>18, <1>21 DEF Spot
    <2>3. more => Len(selected) > 0
      BY <1>13, <1>16, Zenon
    <2> QED  BY <1>18, <2>1, <2>2, <2>3 DEF PageInOrder, Spot
  <1>24. ASSUME NEW id \in steady'
         PROVE  \/ id \in ShownIds'
                \/ \E i \in DOMAIN selected : selected[i].id = id
                \/ more /\ First(Position(memory'[selected[Len(selected)].id]),
                                 Position(memory'[id]), walk.request)
    <2>1. id \in steady /\ id \in Selected(q)
      BY <1>1, <1>3, Zenon DEF SteadyKept
    <2>2. ShownIds' = ShownIds
      BY <1>18, Zenon DEF ShownIds
    <2>3. id \in ShownIds \/ id \in S
      BY <1>1, <1>3, <1>5, <1>21, <2>1 DEF SteadyKept, After
    <2>4. CASE id \in S
      <3>1. CASE \E i \in DOMAIN ids : ids[i] = id
        BY <1>15, <3>1, Zenon
      <3>2. CASE more /\ First(Spot(ids[Len(ids)]), Spot(id), q)
        <4>1. Len(ids) \in DOMAIN ids
          BY <1>13, <3>2
        <4>2. selected[Len(selected)].id = ids[Len(ids)]
          BY <1>15, <1>16, <4>1, Zenon
        <4> QED  BY <1>2, <1>21, <3>2, <4>2, Zenon DEF Spot
      <3> QED  BY <1>13, <2>4, <3>1, <3>2
    <2> QED  BY <2>2, <2>3, <2>4, Zenon
  <1>25. steady' \subseteq Selected(Asked)'
    BY <1>1, <1>18, AskedSelectsSame, Zenon DEF SteadyKept
  <1>26. SteadyKept'
    BY <1>18, <1>24, <1>25, Zenon DEF SteadyKept, Spot
  <1> QED  BY <1>2, <1>17, <1>18, <1>19, <1>20, <1>23, <1>26 DEF InboxInv, Walking

LEMMA AttachKeeps ==
    ASSUME InboxInv, AttachCandidates
    PROVE  InboxInv'
  <1>1. /\ Mirrored /\ walk \in WalkType /\ ShownBefore /\ SteadyKept /\ PageInOrder
        /\ walk.at = "attaching" /\ UNCHANGED <<stores, directory>> /\ steady' = steady
    BY Zenon DEF InboxInv, Walking, AttachCandidates
  <1>2. Mirrored' /\ memory' = memory
    BY <1>1, ReadsKeepStores, Zenon DEF stores
  <1>3. PICK selected \in Seq(InboxRow), shown \in Seq(InboxTask), more \in BOOLEAN,
             cursor \in Cursors \cup {NoCursor}, r \in Requests :
           /\ selected = walk.selected /\ shown = walk.shown /\ more = walk.more
           /\ cursor = walk.cursor /\ r = walk.request
    BY <1>1, Zenon DEF WalkType
  <1>4. /\ r.descending \in BOOLEAN /\ r.orderBy \in Orderings
        /\ Asked.orderBy = r.orderBy /\ Asked.descending = r.descending
        /\ RequestAllowed
    BY <1>1, <1>3, AskedFacts, Zenon DEF Ordered, InboxInv, Walking
  <1>5. /\ \A i \in DOMAIN selected :
               /\ selected[i].id \in DOMAIN memory
               /\ RowPosition(selected[i]) = Spot(selected[i].id)
               /\ cursor # NoCursor => First(cursor.after, Spot(selected[i].id), r)
        /\ \A i, j \in DOMAIN selected : i < j =>
               First(Spot(selected[i].id), Spot(selected[j].id), r)
        /\ more => Len(selected) > 0
    BY <1>1, <1>3, Zenon DEF PageInOrder
  <1>6. /\ \A i \in DOMAIN shown :
               /\ shown[i].id \in DOMAIN memory
               /\ Position(shown[i]) = Spot(shown[i].id)
               /\ cursor # NoCursor
               /\ ~First(cursor.after, Position(shown[i]), r)
        /\ \A i, j \in DOMAIN shown : i # j => shown[i].id # shown[j].id
    BY <1>1, <1>3, Zenon DEF ShownBefore
  <1>7. \A id \in DOMAIN memory : Spot(id) \in Positions /\ Spot(id).id = id
    BY <1>1, MirroredRow, Zenon
  <1>8. PICK tasks : tasks = [i \in DOMAIN selected |->
                                 ScannedTask(selected[i], ScannedPool(selected[i].id))]
    BY Zenon
  <1>9. \A i \in DOMAIN selected : /\ tasks[i] \in InboxTask /\ tasks[i].id = selected[i].id
                                   /\ Position(tasks[i]) = Spot(selected[i].id)
    <2> SUFFICES ASSUME NEW i \in DOMAIN selected
                 PROVE  /\ tasks[i] \in InboxTask /\ tasks[i].id = selected[i].id
                        /\ Position(tasks[i]) = Spot(selected[i].id)
      BY Zenon
    <2>1. PICK row \in InboxRow : row = selected[i]
      OBVIOUS
    <2>2. PICK id \in DOMAIN memory : id = row.id
      BY <1>5, <2>1, Zenon
    <2>3. PICK pool \in CandidatePool : pool = ScannedPool(id)
      BY <1>1, PoolScanned DEF Mirrored, InboxTask
    <2>4. tasks[i] = ScannedTask(row, pool)
      BY <1>8, <2>1, <2>2, <2>3
    <2>5. /\ ScannedTask(row, pool) \in InboxTask
          /\ ScannedTask(row, pool).id = row.id
          /\ Position(ScannedTask(row, pool)) = RowPosition(row)
      BY ScannedTaskType, Zenon
    <2> QED  BY <1>5, <2>1, <2>4, <2>5, Zenon
  <1>10. PICK m \in Nat, n \in Nat : m = Len(selected) /\ n = Len(shown)
    OBVIOUS
  <1>11. DOMAIN selected = 1..m /\ DOMAIN shown = 1..n
    BY <1>10
  <1>12. tasks \in Seq(InboxTask) /\ Len(tasks) = m
    <2>1. tasks \in [1..m -> InboxTask]
      BY <1>8, <1>9, <1>11, Zenon
    <2> QED  BY <2>1
  <1>13. PICK all \in Seq(InboxTask) : all = shown \o tasks
    BY <1>12, ConcatProperties, Zenon
  <1>14. /\ DOMAIN all = 1..(n + m)
         /\ \A i \in 1..n : all[i] = shown[i]
         /\ \A i \in 1..m : all[n + i] = tasks[i]
    <2>1. /\ Len(shown \o tasks) = n + m
          /\ \A i \in 1..(n + m) : (shown \o tasks)[i] =
                 IF i <= n THEN shown[i] ELSE tasks[i - n]
      <3>1. /\ Len(shown \o tasks) = Len(shown) + Len(tasks)
            /\ \A i \in 1..(Len(shown) + Len(tasks)) : (shown \o tasks)[i] =
                   IF i <= Len(shown) THEN shown[i] ELSE tasks[i - Len(shown)]
        BY <1>12, ConcatProperties, Zenon
      <3>2. Len(shown) = n /\ Len(tasks) = m
        BY <1>10, <1>12, Zenon
      <3> QED  BY <3>1, <3>2, Zenon
    <2>2. DOMAIN all = 1..(n + m)
      BY <1>13, <2>1
    <2>3. \A i \in 1..n : i \in 1..(n + m) /\ i <= n
      OBVIOUS
    <2>4. \A i \in 1..m : n + i \in 1..(n + m) /\ ~(n + i <= n) /\ (n + i) - n = i
      OBVIOUS
    <2>5. \A i \in 1..n : all[i] = shown[i]
      BY <1>13, <2>1, <2>3, Zenon
    <2>6. \A i \in 1..m : all[n + i] = tasks[i]
      BY <1>13, <2>1, <2>4, Zenon
    <2> QED  BY <2>2, <2>5, <2>6, Zenon
  <1>15. \A k \in DOMAIN all : k \in 1..n \/ \E i \in 1..m : k = n + i
    <2> SUFFICES ASSUME NEW k \in DOMAIN all, k \notin 1..n
                 PROVE  k - n \in 1..m /\ k = n + (k - n)
      BY Zenon
    <2> QED  BY <1>14
  <1>16. PICK next \in Cursors \cup {NoCursor} :
            next = IF more THEN CursorAfter(Asked, Last(tasks)) ELSE cursor
    <2>1. CASE more
      <3>1. Last(tasks) = tasks[m] /\ m \in 1..m
        BY <1>5, <1>10, <1>12, <2>1 DEF Last
      <3>2. Position(tasks[m]) \in Positions
        BY <1>5, <1>7, <1>9, <1>11, <3>1
      <3>3. CursorAfter(Asked, Last(tasks)) =
               [orderBy |-> r.orderBy, descending |-> r.descending,
                after |-> Position(tasks[m])]
        BY <1>4, <3>1, Zenon DEF CursorAfter
      <3>4. CursorAfter(Asked, Last(tasks)) \in Cursors
        BY <1>4, <3>2, <3>3 DEF Cursors, Orderings
      <3> QED  BY <2>1, <3>4, Zenon
    <2> QED  BY <2>1, Zenon
  <1>17. more => /\ m \in 1..m /\ next # NoCursor
                 /\ next.after = Spot(selected[m].id)
    <2> SUFFICES ASSUME more PROVE m \in 1..m /\ next # NoCursor
                                   /\ next.after = Spot(selected[m].id)
      BY Zenon
    <2>1. Last(tasks) = tasks[m] /\ m \in 1..m
      BY <1>5, <1>10, <1>12 DEF Last
    <2>2. next = [orderBy |-> r.orderBy, descending |-> r.descending,
                  after |-> Position(tasks[m])]
      BY <1>4, <1>16, <2>1, Zenon DEF CursorAfter
    <2>3. next.orderBy = r.orderBy /\ next.after = Position(tasks[m])
      BY <2>2, Zenon
    <2>4. NoCursor.orderBy = "none" /\ r.orderBy # "none"
      BY <1>4, Zenon DEF NoCursor, Orderings
    <2> QED  BY <1>9, <1>11, <2>1, <2>3, <2>4
  <1>18. PICK at \in {"asking", "done"} : at = IF more THEN "asking" ELSE "done"
    BY Zenon
  <1>19. walk' = [walk EXCEPT !.at = at, !.cursor = next, !.selected = << >>,
                              !.more = FALSE, !.shown = all]
    <2>1. walk' = [walk EXCEPT
              !.at = IF walk.more THEN "asking" ELSE "done",
              !.cursor = IF walk.more THEN CursorAfter(Asked, Last(tasks)) ELSE walk.cursor,
              !.selected = << >>, !.more = FALSE, !.shown = walk.shown \o tasks]
      BY <1>1, <1>3, <1>8, Zenon DEF AttachCandidates, WalkType
    <2> QED  BY <1>3, <1>13, <1>16, <1>18, <2>1
  <1>20. walk' \in WalkType
    <2>1. at \in {"idle", "refused", "asking", "attaching", "done"} /\ << >> \in Seq(InboxRow)
      BY <1>18
    <2> QED  BY <1>1, <1>13, <1>16, <1>19, <2>1, Zenon DEF WalkType
  <1>21. /\ walk'.at = at /\ walk'.actor = walk.actor /\ walk'.request = r
         /\ walk'.cursor = next /\ walk'.shown = all
    BY <1>1, <1>3, <1>19, Zenon DEF WalkType
  <1>22. RequestAllowed'
    BY <1>3, <1>4, <1>21, Zenon DEF RequestAllowed
  <1>23. \A a, b, c \in Positions :
            /\ ~First(a, a, r)
            /\ ~(First(a, b, r) /\ First(b, a, r))
            /\ First(a, b, r) /\ First(b, c, r) => First(a, c, r)
    BY <1>4, FirstOrder
  <1>24. cursor # NoCursor => cursor.after \in Positions
    BY Zenon DEF Cursors
  <1>25. \A k \in DOMAIN all : /\ all[k].id \in DOMAIN memory
                               /\ Position(all[k]) = Spot(all[k].id)
    <2> SUFFICES ASSUME NEW k \in DOMAIN all
                 PROVE  all[k].id \in DOMAIN memory /\ Position(all[k]) = Spot(all[k].id)
      BY Zenon
    <2>1. CASE k \in 1..n
      BY <1>6, <1>11, <1>14, <2>1
    <2>2. ASSUME NEW i \in 1..m, k = n + i
          PROVE  all[k].id \in DOMAIN memory /\ Position(all[k]) = Spot(all[k].id)
      <3>1. all[k] = tasks[i]
        BY <1>14, <2>2, Zenon
      <3>2. tasks[i].id = selected[i].id /\ Position(tasks[i]) = Spot(selected[i].id)
        BY <1>9, <1>11, Zenon
      <3>3. selected[i].id \in DOMAIN memory
        BY <1>5, <1>11, Zenon
      <3> QED  BY <3>1, <3>2, <3>3, Zenon
    <2> QED  BY <1>15, <2>1, <2>2, Zenon
  <1>26. \A i, j \in DOMAIN all : i # j => all[i].id # all[j].id
    <2>1. ASSUME NEW i \in 1..n, NEW j \in 1..m PROVE all[i].id # all[n + j].id
      <3>1. all[i] = shown[i] /\ all[n + j] = tasks[j] /\ tasks[j].id = selected[j].id
        BY <1>9, <1>11, <1>14, Zenon
      <3>2. cursor # NoCursor /\ ~First(cursor.after, Spot(shown[i].id), r)
        BY <1>6, <1>11, Zenon
      <3>3. First(cursor.after, Spot(selected[j].id), r)
        BY <1>5, <1>11, <3>2, Zenon
      <3> QED  BY <3>1, <3>2, <3>3, Zenon
    <2>2. ASSUME NEW i \in 1..m, NEW j \in 1..m, i < j PROVE all[n + i].id # all[n + j].id
      <3>1. /\ all[n + i].id = selected[i].id /\ all[n + j].id = selected[j].id
            /\ selected[i].id \in DOMAIN memory
        BY <1>5, <1>9, <1>11, <1>14, Zenon
      <3>2. First(Spot(selected[i].id), Spot(selected[j].id), r)
        BY <1>5, <1>11, <2>2
      <3>3. ~First(Spot(selected[i].id), Spot(selected[i].id), r)
        BY <1>7, <1>23, <3>1, Zenon
      <3> QED  BY <3>1, <3>2, <3>3, Zenon
    <2>3. \A i, j \in 1..m : i # j => i < j \/ j < i
      OBVIOUS
    <2>4. \A i, j \in 1..m : i # j => all[n + i].id # all[n + j].id
      BY <2>2, <2>3, Zenon
    <2>5. \A i, j \in 1..n : i # j => all[i].id # all[j].id
      BY <1>6, <1>11, <1>14, Zenon
    <2> QED  BY <1>15, <2>1, <2>4, <2>5, ZenonT(30)
  <1>27. ASSUME more, NEW k \in DOMAIN all
         PROVE  next # NoCursor /\ ~First(next.after, Position(all[k]), r)
    <2>1. /\ m \in 1..m /\ next # NoCursor /\ next.after = Spot(selected[m].id)
          /\ selected[m].id \in DOMAIN memory
      BY <1>5, <1>11, <1>17, <1>27
    <2>2. CASE k \in 1..n
      <3>1. /\ all[k] = shown[k] /\ cursor # NoCursor
            /\ Position(shown[k]) = Spot(shown[k].id) /\ shown[k].id \in DOMAIN memory
            /\ ~First(cursor.after, Position(shown[k]), r)
        BY <1>6, <1>11, <1>14, <2>2
      <3>2. First(cursor.after, Spot(selected[m].id), r)
        BY <1>5, <1>11, <2>1, <3>1
      <3>3. /\ cursor.after \in Positions /\ Spot(selected[m].id) \in Positions
            /\ Position(shown[k]) \in Positions
        BY <1>7, <1>24, <2>1, <3>1
      <3> QED  BY <1>23, <2>1, <3>1, <3>2, <3>3
    <2>3. ASSUME NEW i \in 1..m, k = n + i
          PROVE  ~First(next.after, Position(all[k]), r)
      <3>1. Position(all[k]) = Spot(selected[i].id) /\ selected[i].id \in DOMAIN memory
        BY <1>5, <1>9, <1>11, <1>14, <2>3, Zenon
      <3>2. Spot(selected[i].id) \in Positions /\ Spot(selected[m].id) \in Positions
        BY <1>7, <2>1, <3>1, Zenon
      <3>3. i = m \/ i < m
        OBVIOUS
      <3>4. i < m => First(Spot(selected[i].id), Spot(selected[m].id), r)
        BY <1>5, <1>11, <2>1, Zenon
      <3> QED  BY <1>23, <2>1, <3>1, <3>2, <3>3, <3>4
    <2> QED  BY <1>15, <2>1, <2>2, <2>3, Zenon
  <1>28. ShownBefore'
    BY <1>2, <1>18, <1>21, <1>25, <1>26, <1>27 DEF ShownBefore, Spot
  <1>29. ShownIds' = {all[k].id : k \in DOMAIN all}
    BY <1>21, Zenon DEF ShownIds
  <1>30. ASSUME NEW id \in steady'
         PROVE  \/ id \in ShownIds'
                \/ more /\ First(next.after, Spot(id), r)
    <2>1. \/ id \in ShownIds
          \/ \E i \in DOMAIN selected : selected[i].id = id
          \/ more /\ First(Spot(selected[m].id), Spot(id), r)
      BY <1>1, <1>3, <1>10, Zenon DEF SteadyKept
    <2>2. CASE id \in ShownIds
      <3>1. PICK i \in 1..n : shown[i].id = id
        BY <1>3, <1>11, <2>2, Zenon DEF ShownIds
      <3>2. i \in DOMAIN all /\ all[i].id = id
        BY <1>14, <3>1
      <3> QED  BY <1>29, <3>2, Zenon
    <2>3. CASE \E i \in DOMAIN selected : selected[i].id = id
      <3>1. PICK i \in 1..m : selected[i].id = id
        BY <1>11, <2>3, Zenon
      <3>2. n + i \in DOMAIN all
        BY <1>14
      <3>3. all[n + i] = tasks[i] /\ tasks[i].id = id
        BY <1>9, <1>11, <1>14, <3>1, Zenon
      <3> QED  BY <1>29, <3>2, <3>3, Zenon
    <2> QED  BY <1>17, <2>1, <2>2, <2>3
  <1>31. steady' \subseteq Selected(Asked)'
    BY <1>1, <1>3, <1>21, AskedSelectsSame DEF SteadyKept
  <1>32. SteadyKept'
    <2>1. at = "asking" => \A id \in steady' :
              \/ id \in ShownIds' \/ next = NoCursor
              \/ First(next.after, Position(memory'[id]), r)
      BY <1>2, <1>18, <1>30 DEF Spot
    <2>2. at = "done" => steady' \subseteq ShownIds'
      BY <1>18, <1>30, Zenon
    <2> QED  BY <1>18, <1>21, <1>31, <2>1, <2>2 DEF SteadyKept, Spot
  <1>33. walk'.at # "attaching"
    BY <1>18, <1>21, Zenon
  <1> QED  BY <1>2, <1>20, <1>22, <1>28, <1>32, <1>33 DEF InboxInv, Walking

LEMMA NextKeeps == InboxInv /\ [InboxNext]_inboxVars => InboxInv'
  <1> SUFFICES ASSUME InboxInv, [InboxNext]_inboxVars PROVE InboxInv'
    BY Zenon
  <1>1. ASSUME NEW id \in TaskIDs, NEW template \in Templates, Create(id, template)
        PROVE  InboxInv'
    <2>1. Mirrored' /\ SpotsKept
      BY <1>1, CreateMirrors, Zenon DEF InboxInv
    <2>2. StillMatching
      BY <1>1, Zenon DEF Create
    <2> QED  BY <2>1, <2>2, WritesKeepWalk, Zenon DEF InboxInv
  <1>2. ASSUME NEW id \in TaskIDs, Operate(id) PROVE InboxInv'
    <2>1. Mirrored' /\ SpotsKept
      BY <1>2, OperateMirrors, Zenon DEF InboxInv
    <2>2. StillMatching
      BY <1>2, Zenon DEF Operate, Update
    <2> QED  BY <2>1, <2>2, WritesKeepWalk, Zenon DEF InboxInv
  <1>3. ASSUME NEW a \in Actors, NEW groups \in SUBSET Groups, Move(a, groups) PROVE InboxInv'
    <2>1. Mirrored' /\ SpotsKept
      BY <1>3, MoveMirrors, Zenon DEF InboxInv
    <2>2. StillMatching
      BY <1>3, Zenon DEF Move
    <2> QED  BY <2>1, <2>2, WritesKeepWalk, Zenon DEF InboxInv
  <1>4. ASSUME NEW actor \in Readers, NEW r \in Requests, Ask(actor, r) PROVE InboxInv'
    BY <1>4, AskKeeps, Zenon
  <1>5. CASE SelectPage
    BY <1>5, SelectPageKeeps, Zenon
  <1>6. CASE AttachCandidates
    BY <1>6, AttachKeeps, Zenon
  <1>7. ASSUME NEW r \in Requests, ContinueAnother(r) PROVE InboxInv'
    BY <1>7, ContinueKeeps, Zenon
  <1>8. CASE UNCHANGED inboxVars
    <2>1. /\ memory' = memory /\ rows' = rows /\ candidates' = candidates
          /\ directory' = directory /\ walk' = walk /\ steady' = steady
      BY <1>8, Zenon DEF inboxVars, stores
    <2>2. Mirrored' /\ SpotsKept
      BY <2>1, ReadsKeepStores, Zenon DEF InboxInv, stores
    <2>3. Selected(Asked)' = Selected(Asked)
      BY <2>1, AskedSelectsSame, Zenon DEF stores
    <2>4. ShownIds' = ShownIds /\ RequestAllowed' = RequestAllowed
      BY <2>1, Zenon DEF ShownIds, RequestAllowed
    <2>5. ShownBefore'
      BY <2>1, Zenon DEF ShownBefore, Spot, InboxInv, Walking
    <2>6. PageInOrder => PageInOrder'
      BY <2>1, Zenon DEF PageInOrder, Spot
    <2>7. SteadyKept'
      BY <2>1, <2>3, <2>4, Zenon DEF SteadyKept, Spot, InboxInv, Walking
    <2> QED  BY <2>1, <2>2, <2>4, <2>5, <2>6, <2>7 DEF InboxInv, Walking
  <1> QED  BY <1>1, <1>2, <1>3, <1>4, <1>5, <1>6, <1>7, <1>8 DEF InboxNext

\* The invariant of the inbox: the tables mirror the store in memory, what was shown
\* lies at or before the cursor, a page being read lies beyond it in order, and every
\* steady match was shown, is on that page or is still to come.
THEOREM InboxInvariance == InboxSpec => []InboxInv
  <1>1. InboxInit => InboxInv
    BY InitInv, Zenon
  <1>2. InboxInv /\ [InboxNext]_inboxVars => InboxInv'
    BY NextKeeps, Zenon
  <1> QED  BY <1>1, <1>2, PTL DEF InboxSpec

\* Whatever the tasks, the requests and the changes between them, the store in memory
\* and the SQL stores hold the same tasks and answer every request of a walk with the
\* same page and the same count (memstore.Query; keysetCondition, orderBy).
THEOREM StoresShowTheSame == InboxSpec => []StoresAgree
  <1>1. InboxInv => StoresAgree
    <2> SUFFICES ASSUME InboxInv PROVE StoresAgree
      BY Zenon
    <2>1. Mirrored /\ DOMAIN rows = DOMAIN memory
      BY MirroredRow, Zenon DEF InboxInv
    <2>2. ASSUME NEW id \in DOMAIN rows
          PROVE  ScannedTask(rows[id], ScannedPool(id)) = memory[id]
      <3>1. /\ id \in DOMAIN memory /\ memory[id] \in InboxTask
            /\ rows[id] = TaskRow(memory[id]) /\ ScannedPool(id) = memory[id].candidates
        BY <2>1, MirroredRow, PoolScanned, Zenon
      <3>2. PICK t \in InboxTask : t = memory[id]
        BY <3>1, Zenon
      <3> QED  BY <3>1, <3>2, ScannedIsWritten, Zenon
    <2>3. ASSUME walk.at = "asking"
          PROVE  /\ QueryTasks(Asked, walk.cursor) = MemoryPage(Asked, walk.cursor)
                 /\ CountTasks(Asked) = MemoryCount(Asked)
      <3>1. PICK q, cursor : q = Asked /\ cursor = walk.cursor
        BY Zenon
      <3>2. Resolved(q) /\ Ordered(q) /\ cursor \in Cursors \cup {NoCursor}
        BY <2>3, <3>1, AskedFacts, Zenon
      <3>3. QueryTasks(q, cursor) = MemoryPage(q, cursor)
        BY <2>1, <3>2, QueryIs, MemoryPageIs, Zenon
      <3>4. CountTasks(q) = MemoryCount(q)
        BY <2>1, <3>2, MemoryPageIs, Zenon DEF CountTasks, MemoryCount
      <3> QED  BY <3>1, <3>3, <3>4, Zenon
    <2> QED  BY <2>1, <2>2, <2>3, Zenon DEF StoresAgree
  <1> QED  BY <1>1, InboxInvariance, PTL

\* However many pages a walk takes and whatever changes meanwhile, no task is returned
\* twice, and the last page completes the tasks that matched throughout.
THEOREM WalksAreExact == InboxSpec => []PagesExact
  <1>1. InboxInv => PagesExact
    BY Zenon DEF InboxInv, Walking, ShownBefore, SteadyKept, ShownIds, PagesExact
  <1> QED  BY <1>1, InboxInvariance, PTL

\* For every pool, directory and query: the claimable tasks are the ones listed, and an
\* actor without the host's leave is listed nothing they may not read.
THEOREM ListingIsTheRule == InboxSpec => []ListingMatchesRules
  <1>1. ASSUME InboxInv PROVE ClaimableIsListed
    <2> SUFFICES ASSUME NEW a \in Actors
                 PROVE  Selected([assignee |-> Nobody, candidate |-> a,
                                  candidateGroups |-> GroupsOf(a), statuses |-> {"READY"},
                                  group |-> NULL])
                        = {id \in DOMAIN memory : /\ memory[id].status = "READY"
                                                  /\ Eligible(memory[id].candidates, a)}
      BY Zenon DEF ClaimableIsListed
    <2>1. PICK q : q = [assignee |-> Nobody, candidate |-> a,
                        candidateGroups |-> GroupsOf(a), statuses |-> {"READY"},
                        group |-> NULL]
      BY Zenon
    <2>2. /\ q.assignee = Nobody /\ q.candidate = a /\ q.candidateGroups = GroupsOf(a)
          /\ q.statuses = {"READY"} /\ q.group = NULL
      BY <2>1, Zenon
    <2>3. Resolved(q) /\ a # Nobody
      BY <2>2, ActorsAssumption, Zenon DEF Resolved
    <2>4. ASSUME NEW id \in DOMAIN memory
          PROVE  QueryConditions(rows[id], q)
                    <=> memory[id].status = "READY" /\ Eligible(memory[id].candidates, a)
      <3>1. QueryConditions(rows[id], q) <=> Matches(memory[id], q)
        BY <1>1, <2>3, ConditionsAreMatches, Zenon DEF InboxInv
      <3>2. memory[id].status = "READY" => memory[id].assignee = Nobody
        BY <1>1, Zenon DEF InboxInv, Mirrored, Unheld
      <3> QED
        BY <2>2, <2>3, <3>1, <3>2, Zenon DEF Matches, MatchesCandidate, Eligible
    <2>5. DOMAIN rows = DOMAIN memory
      BY <1>1, MirroredRow, Zenon DEF InboxInv
    <2>6. Selected(q) = {id \in DOMAIN memory : /\ memory[id].status = "READY"
                                                /\ Eligible(memory[id].candidates, a)}
      BY <2>4, <2>5, Zenon DEF Selected
    <2> QED  BY <2>1, <2>6, Zenon
  <1>2. ASSUME InboxInv PROVE ListedIsReadable
    <2> SUFFICES ASSUME NEW a \in Actors \ Supervisors, NEW r \in Requests,
                        AuthorizedQuery(a, r), NEW id \in Selected(Resolve(a, r))
                 PROVE  ParticipantsOnly(a, memory[id])
      BY Zenon DEF ListedIsReadable
    <2>1. PICK q : q = Resolve(a, r)
      BY Zenon
    <2>2. /\ q.candidate = ResolveMe(r.candidate, a) /\ q.assignee = ResolveMe(r.assignee, a)
          /\ q.candidateGroups = IF q.candidate = Nobody THEN {} ELSE GroupsOf(q.candidate)
      BY <2>1, Zenon DEF Resolve
    <2>3. a # Nobody /\ Resolved(q)
      BY <2>1, ActorsAssumption, ResolveFacts, Zenon
    <2>4. q.candidate = a \/ q.assignee = a
      BY <2>2, Zenon DEF AuthorizedQuery, SelfOnly
    <2>5. id \in DOMAIN memory /\ Matches(memory[id], q)
      <3>1. id \in DOMAIN rows /\ QueryConditions(rows[id], q)
        BY <2>1, Zenon DEF Selected
      <3>2. id \in DOMAIN memory
        BY <1>2, <3>1, MirroredRow, Zenon DEF InboxInv
      <3> QED  BY <1>2, <2>3, <3>1, <3>2, ConditionsAreMatches DEF InboxInv
    <2>6. CASE q.assignee = a
      BY <2>3, <2>5, <2>6, Zenon DEF Matches, ParticipantsOnly
    <2>7. CASE q.candidate = a
      BY <2>2, <2>3, <2>5, <2>7 DEF Matches, MatchesCandidate, ParticipantsOnly, Eligible
    <2> QED  BY <2>4, <2>6, <2>7, Zenon
  <1>3. InboxInv => ListingMatchesRules
    BY <1>1, <1>2, Zenon DEF ListingMatchesRules
  <1> QED  BY <1>3, InboxInvariance, PTL
=============================================================================
