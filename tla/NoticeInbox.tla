----------------------------- MODULE NoticeInbox -----------------------------
(***************************************************************************)
(* The notifications of several subjects, published by several callers at  *)
(* once, while their recipient reads them page by page and marks them read *)
(* (notify.Service over notify/sqlstore).                                  *)
(*                                                                         *)
(* A publish stamps its drafts with the clock and with fresh identifiers   *)
(* and then writes subject after subject, each in a transaction of its     *)
(* own.  The transaction locks the subject's close record, reads what the  *)
(* decisions need, and writes; what another subject's transaction commits  *)
(* in between is met again by the unique key of source and recipient.      *)
(* Between its decisions and its commit a transaction's rows are seen by   *)
(* nobody and a conflicting row waits for it, so writing and committing    *)
(* are one step.                                                           *)
(*                                                                         *)
(* Titles, links, payloads and reasons are left out; retention is modelled *)
(* in TaskNotifications.                                                   *)
(***************************************************************************)
EXTENDS Integers, FiniteSets, Sequences, SequencesExt

CONSTANTS Recipients,    \* the users notices are made for
          Subjects,      \* numbers, in the order of their names
          Kinds,
          Publishes,     \* the sets of drafts a caller may publish
          CloseRequests, \* the closes a caller may ask for
          Publishers,       \* the publishes that can be under way at once
          ListQueries,   \* what the reader may ask for
          NoOne,         \* not a recipient
          MaxPublishes, MaxCloses, MaxMarks, MaxClock  \* bounds

AllKinds == "*"

ASSUME NoticeInboxAssumption ==
    /\ Subjects \subseteq Nat
    /\ NoOne \notin Recipients
    /\ AllKinds \notin Kinds
    /\ {MaxPublishes, MaxCloses, MaxMarks, MaxClock} \subseteq Nat
    /\ \A q \in ListQueries : q.limit \in Nat \ {0}
    \* A publish names a recipient once for a subject, as the projector's do.
    /\ \A drafts \in Publishes : \A d, e \in drafts :
         d.subject = e.subject /\ d.recipient = e.recipient => d = e

VARIABLES
    clock,      \* the hosts' clock
    lastID,     \* the identifiers handed out so far; they ascend with time
    notices,    \* the committed rows
    watermarks, \* the version each kind of a subject was closed at
    calls,      \* what each caller's publish is doing
    reported,   \* history variable: what each finished call reported as created
    published, closes, marks,   \* bounds: how many of each there have been
    reading,    \* the recipient's listing
    lasting     \* history variable: what matched ever since the listing began

noticeInboxVars ==
    <<clock, lastID, notices, watermarks, calls, reported, published, closes, marks,
      reading, lasting>>

Notice(d, id, at) ==
    [id |-> id, recipient |-> d.recipient, source |-> d.source, subject |-> d.subject,
     version |-> d.version, kind |-> d.kind, state |-> "ACTIVE", read |-> FALSE,
     createdAt |-> at]

Largest(S) == CHOOSE x \in S : \A y \in S : y <= x
Least(S) == CHOOSE x \in S : \A y \in S : x <= y

(* Insertion ************************************************************)

Floor(records, n) == Largest({records[n.subject][n.kind], records[n.subject][AllKinds]})

HasOpen(held, n) ==
    \E m \in held : /\ m.recipient = n.recipient /\ m.subject = n.subject
                    /\ m.kind = n.kind /\ m.state # "CLOSED"

HasSource(held, n) == \E m \in held : m.source = n.source /\ m.recipient = n.recipient

\* Suppression, coalescing and idempotency, in that order: what becomes of one
\* stamped notice among the notices held.
Decision(held, records, i) ==
    CASE i.notice.version < Floor(records, i.notice) -> "suppressed"
      [] i.coalesce /\ HasOpen(held, i.notice) -> "coalesced"
      [] HasSource(held, i.notice) -> "duplicate"
      [] OTHER -> "accepted"

Accepted(held, records, insertions) ==
    {i.notice : i \in {j \in insertions : Decision(held, records, j) = "accepted"}}

(* Publishing ***********************************************************)

NoCall == [at |-> "idle", pending |-> {}, accepted |-> {}, created |-> {}]

\* Every draft gets an identifier and the instant of the call.
Publish(c, drafts) ==
    LET ordered == SetToSeq(drafts)
        stamped == {[notice |-> Notice(ordered[k], lastID + k, clock),
                     coalesce |-> ordered[k].coalesce] : k \in DOMAIN ordered}
    IN /\ calls[c] = NoCall
       /\ published < MaxPublishes
       /\ published' = published + 1
       /\ lastID' = lastID + Len(ordered)
       /\ calls' = [calls EXCEPT ![c] = [NoCall EXCEPT !.at = "writing", !.pending = stamped]]
       /\ UNCHANGED <<clock, notices, watermarks, reported, closes, marks, reading, lasting>>

\* Subjects are written in their order, so that callers lock them in one order.
NextSubject(call) == Least({i.notice.subject : i \in call.pending})

OfSubject(call) == {i \in call.pending : i.notice.subject = NextSubject(call)}

\* Mutant: nothing makes the callers of one subject wait.
LockedNever(subject) == FALSE

Locked(subject) ==
    \E c \in Publishers : calls[c].at = "decided" /\ NextSubject(calls[c]) = subject

\* Lock the subject's close record, then read floors, open kinds and sources.
Decide(c) ==
    /\ calls[c].at = "writing" /\ calls[c].pending # {}
    /\ ~Locked(NextSubject(calls[c]))
    /\ calls' = [calls EXCEPT ![c].at = "decided",
                              ![c].accepted = Accepted(notices, watermarks, OfSubject(calls[c]))]
    /\ UNCHANGED <<clock, lastID, notices, watermarks, reported, published, closes, marks,
                   reading, lasting>>

\* Mutant: a row whose source was taken meanwhile is written all the same.
WritableAll(accepted) == accepted

\* The statement skips a row whose source and recipient already have one.
Writable(accepted) == {n \in accepted : ~HasSource(notices, n)}

\* What was accepted is reported as created only when its identifier is found.
Reportable(accepted) ==
    {n \in accepted : \E m \in notices \cup Writable(accepted) : m.id = n.id}

MatchesList(n, q) ==
    /\ n.recipient = q.recipient
    /\ q.states # {} => n.state \in q.states
    /\ q.subject # 0 => n.subject = q.subject

StillListed ==
    lasting' = {id \in lasting : \E n \in notices' : n.id = id /\ MatchesList(n, reading.query)}

Write(c) ==
    LET call == calls[c] IN
    /\ call.at = "decided"
    /\ notices' = notices \cup Writable(call.accepted)
    /\ calls' = [calls EXCEPT ![c] =
            [at |-> "writing", pending |-> call.pending \ OfSubject(call), accepted |-> {},
             created |-> call.created \cup Reportable(call.accepted)]]
    /\ StillListed
    /\ UNCHANGED <<clock, lastID, watermarks, reported, published, closes, marks, reading>>

\* A subject that fails ends the call: what was written stays and is reported.
Fail(c) ==
    /\ calls[c].at \in {"writing", "decided"} /\ calls[c].pending # {}
    /\ calls' = [calls EXCEPT ![c] = [@ EXCEPT !.at = "writing", !.pending = {}, !.accepted = {}]]
    /\ UNCHANGED <<clock, lastID, notices, watermarks, reported, published, closes, marks,
                   reading, lasting>>

Return(c) ==
    /\ calls[c].at = "writing" /\ calls[c].pending = {}
    /\ reported' = reported \o <<calls[c].created>>
    /\ calls' = [calls EXCEPT ![c] = NoCall]
    /\ UNCHANGED <<clock, lastID, notices, watermarks, published, closes, marks, reading,
                   lasting>>

(* Closing **************************************************************)

Closing(req) ==
    {n \in notices : /\ n.subject = req.subject /\ n.state # "CLOSED"
                     /\ n.version <= req.version
                     /\ req.kinds # {} => n.kind \in req.kinds
                     /\ n.recipient # req.except}

Raised(req) ==
    [watermarks EXCEPT ![req.subject] =
        [k \in DOMAIN @ |->
            IF k \in (IF req.kinds = {} THEN {AllKinds} ELSE req.kinds)
            THEN Largest({@[k], req.version}) ELSE @[k]]]

\* Raise the record, close, and publish the successor to whoever was closed; the
\* successor of a late close is itself below a newer close's record.
Close(req) ==
    LET closing == Closing(req)
        rest == (notices \ closing) \cup {[n EXCEPT !.state = "CLOSED"] : n \in closing}
        told == SetToSeq({n.recipient : n \in closing} \ req.skip)
        successor(r) == [recipient |-> r, source |-> req.source, subject |-> req.subject,
                         version |-> req.version, kind |-> req.successor]
        successors == {[notice |-> Notice(successor(told[k]), lastID + k, clock),
                        coalesce |-> FALSE] : k \in DOMAIN told}
        created == Accepted(rest, Raised(req), successors)
    IN /\ closes < MaxCloses
       /\ ~Locked(req.subject)
       /\ closes' = closes + 1
       /\ watermarks' = Raised(req)
       /\ lastID' = lastID + Len(told)
       /\ notices' = rest \cup created
       /\ reported' = reported \o <<created>>
       /\ StillListed
       /\ UNCHANGED <<clock, calls, published, marks, reading>>

(* Listing **************************************************************)

NoListing(q) ==
    [at |-> "idle", query |-> q, after |-> << >>, shown |-> << >>, loadedAt |-> 0,
     loaded |-> {}]

\* before: what comes after a cursor's position, newest first.
Before(n, after) ==
    \/ n.createdAt < after[1]
    \/ n.createdAt = after[1] /\ n.id < after[2]

NewestFirst(n, m) == n.createdAt > m.createdAt \/ (n.createdAt = m.createdAt /\ n.id > m.id)

List(q, after) ==
    SetToSortSeq({n \in notices : MatchesList(n, q) /\ (after # << >> => Before(n, after))},
                 NewestFirst)

\* A page: one row beyond it tells whether another exists.
Page(listing) ==
    LET found == List(listing.query, listing.after)
        more == Len(found) > listing.query.limit
        page == IF more THEN SubSeq(found, 1, listing.query.limit) ELSE found
    IN [listing EXCEPT
          !.at = IF more THEN "more" ELSE "done",
          !.after = IF more THEN <<Last(page).createdAt, Last(page).id>> ELSE @,
          !.shown = @ \o [k \in DOMAIN page |-> page[k].id]]

Load(q) ==
    /\ reading.at = "idle"
    /\ reading' = Page([NoListing(q) EXCEPT
            !.loadedAt = clock,
            !.loaded = {n.id : n \in {m \in notices : m.recipient = q.recipient}}])
    /\ lasting' = {n.id : n \in {m \in notices : MatchesList(m, q)}}
    /\ UNCHANGED <<clock, lastID, notices, watermarks, calls, reported, published, closes, marks>>

LoadMore ==
    /\ reading.at = "more"
    /\ reading' = Page(reading)
    /\ UNCHANGED <<clock, lastID, notices, watermarks, calls, reported, published, closes,
                   marks, lasting>>

\* A cursor continues only the recipient and the filters that issued it.
ContinueOther(q) ==
    /\ reading.at = "more"
    /\ [q EXCEPT !.limit = reading.query.limit] # reading.query
    /\ reading' = [reading EXCEPT !.at = "refused"]
    /\ UNCHANGED <<clock, lastID, notices, watermarks, calls, reported, published, closes,
                   marks, lasting>>

(* Marking read *********************************************************)

\* A closed notice keeps its state and records that it was read.
Read(n) == [n EXCEPT !.state = IF @ = "ACTIVE" THEN "READ" ELSE @, !.read = TRUE]

Mark(marked) ==
    /\ marks < MaxMarks
    /\ marks' = marks + 1
    /\ notices' = (notices \ marked) \cup {Read(n) : n \in marked}
    /\ StillListed
    /\ UNCHANGED <<clock, lastID, watermarks, calls, reported, published, closes, reading>>

\* Another recipient's identifier is not found, and then nothing is marked.
MarkRead(r, id) == \E n \in notices : n.recipient = r /\ n.id = id /\ Mark({n})

MarkAllRead(r, through) ==
    Mark({n \in notices : n.recipient = r /\ n.state = "ACTIVE" /\ n.createdAt <= through})

\* The reader marks everything up to the instant its list was loaded.
MarkLoaded ==
    /\ reading.at \in {"more", "done"}
    /\ MarkAllRead(reading.query.recipient, reading.loadedAt)

Tick ==
    /\ clock < MaxClock
    /\ clock' = clock + 1
    /\ UNCHANGED <<lastID, notices, watermarks, calls, reported, published, closes, marks,
                   reading, lasting>>

NoticeInboxInit ==
    /\ clock = 1
    /\ lastID = 0
    /\ notices = {}
    /\ watermarks = [s \in Subjects |-> [k \in Kinds \cup {AllKinds} |-> -1]]
    /\ calls = [c \in Publishers |-> NoCall]
    /\ reported = << >>
    /\ published = 0 /\ closes = 0 /\ marks = 0
    /\ reading = NoListing(CHOOSE q \in ListQueries : TRUE)
    /\ lasting = {}

NoticeInboxNext ==
    \/ Tick
    \/ \E c \in Publishers :
         \/ \E drafts \in Publishes : Publish(c, drafts)
         \/ Decide(c)
         \/ Write(c)
         \/ Fail(c)
         \/ Return(c)
    \/ \E req \in CloseRequests : Close(req)
    \/ \E q \in ListQueries : Load(q) \/ ContinueOther(q)
    \/ LoadMore
    \/ MarkLoaded
    \/ \E r \in Recipients, id \in 1..lastID : MarkRead(r, id)

NoticeInboxSpec == NoticeInboxInit /\ [][NoticeInboxNext]_noticeInboxVars

-----------------------------------------------------------------------------
(* Properties ***********************************************************)

\* What a publish writes for a subject is what the store in memory, which decides
\* and writes under one lock, would write at the moment of the commit, although
\* the decisions were read earlier and other subjects, with the same sources, were
\* written in between (sqlstore insert, MemoryStore.insert).
WrittenAsInMemory ==
    [][\A c \in Publishers :
         Write(c) => notices' \ notices = Accepted(notices, watermarks, OfSubject(calls[c]))]_noticeInboxVars

\* A source leaves a recipient at most one notice, however many callers publish it
\* at once, on whatever subjects; and a notice is reported as created, and so
\* signalled, by exactly one call: the one that wrote it.
CreatedOnce ==
    /\ \A n, m \in notices : n.source = m.source /\ n.recipient = m.recipient => n = m
    /\ LET told == reported \o SetToSeq({calls[c].created : c \in Publishers}) IN
       /\ \A i, j \in DOMAIN told : \A n \in told[i], m \in told[j] :
            n.source = m.source /\ n.recipient = m.recipient => i = j \/ n = m
       /\ {n.id : n \in notices} = {n.id : n \in UNION {told[i] : i \in DOMAIN told}}

\* Read to its last page, a listing has shown nothing twice, and every notice that
\* matched it from the first page to the last: also those of one instant, and
\* whatever is published, closed or marked meanwhile (List, before, newestFirst).
PagedOnce ==
    /\ \A i, j \in DOMAIN reading.shown : reading.shown[i] = reading.shown[j] => i = j
    /\ reading.at = "done" => lasting \subseteq {reading.shown[i] : i \in DOMAIN reading.shown}

\* A notice is made once and shown once, by concurrent callers and over pages.
NoticesOnce == CreatedOnce /\ PagedOnce

\* "Passing the instant a client loaded its list keeps anything that arrived
\* afterwards unread" (MarkAllRead), what is stamped with that very instant aside.
ArrivalsStayUnread ==
    [][MarkLoaded =>
        \A n \in notices : n \notin notices' /\ n.createdAt < reading.loadedAt
                           => n.id \in reading.loaded]_noticeInboxVars
=============================================================================
