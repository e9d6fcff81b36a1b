------------------------------ MODULE Retention ------------------------------
(***************************************************************************)
(* Keeping stored notifications within bounds.                             *)
(*                                                                         *)
(* A pass deletes what has been inactive for too long, and then brings     *)
(* every recipient within the count bound: the oldest inactive             *)
(* notifications first, then, under one of the two strategies, the oldest  *)
(* unread ones, whose recipients it signals at its end.  The SQL store     *)
(* runs a pass as single statements of its own, selecting identifiers and  *)
(* then deleting them, so passes on several instances, arriving            *)
(* notifications and readers all come in between.                          *)
(***************************************************************************)
EXTENDS Naturals, SequencesExt

CONSTANTS Recipients,       \* numbers, for the order pages of recipients follow
          RecipientOf,      \* the recipient of each notification, in order of creation
          Passes,           \* instances that prune
          MaxPerRecipient,  \* the count bound
          Batch,            \* the most rows one statement takes
          Aging             \* bound: the notifications that grow old

\* A pruner is not made with other bounds; no count bound at all is left out.
ValidBounds == MaxPerRecipient \in Nat \ {0} /\ Batch \in Nat \ {0}

ASSUME RetentionAssumption ==
    /\ Recipients \subseteq Nat \ {0}
    /\ RecipientOf \in Seq(Recipients)
    /\ ValidBounds

VARIABLES
    strategy,   \* whether the count bound may evict unread notifications
    notices,    \* the state of each notification
    passes      \* each instance's pass

retentionVars == <<strategy, notices, passes>>

Notices == DOMAIN RecipientOf

\* AGED is inactive for longer than the age bound.
Kept == {"ACTIVE", "INACTIVE", "AGED"}

Held(r) == {n \in Notices : RecipientOf[n] = r /\ notices[n] \in Kept}

NoPass ==
    [at |-> "idle", ids |-> << >>, over |-> << >>, after |-> 0, more |-> FALSE,
     excess |-> 0, deleted |-> 0, active |-> FALSE, recipients |-> {},
     evicted |-> {}, alone |-> TRUE, quiet |-> TRUE]

RetentionInit ==
    /\ strategy \in {"EvictOldestActive", "RetainActive"}
    /\ notices = [n \in Notices |-> "none"]
    /\ passes = [p \in Passes |-> NoPass]

Disturbed == [p \in Passes |-> IF passes[p].at = "idle" THEN NoPass
                               ELSE [passes[p] EXCEPT !.quiet = FALSE]]

(* What happens to notifications meanwhile ******************************)

Insert(n) ==
    /\ notices[n] = "none" /\ \A m \in 1..(n - 1) : notices[m] # "none"
    /\ notices' = [notices EXCEPT ![n] = "ACTIVE"]
    /\ passes' = Disturbed
    /\ UNCHANGED strategy

\* Read, or closed by what happened to its subject.
Deactivate(n) ==
    /\ notices[n] = "ACTIVE"
    /\ notices' = [notices EXCEPT ![n] = "INACTIVE"]
    /\ passes' = Disturbed
    /\ UNCHANGED strategy

GrowOld(n) ==
    /\ notices[n] = "INACTIVE" /\ n \in Aging
    /\ notices' = [notices EXCEPT ![n] = "AGED"]
    /\ passes' = Disturbed
    /\ UNCHANGED strategy

(* The statements of a pass *********************************************)

\* SELECT ... ORDER BY created_at, id LIMIT n
SelectIDs(states, recipients, n) ==
    LET found == {m \in Notices : notices[m] \in states /\ RecipientOf[m] \in recipients}
        ordered == SetToSortSeq(found, <) IN
    SubSeq(ordered, 1, IF Len(ordered) < n THEN Len(ordered) ELSE n)

\* What is still as the selection found it.
DeleteIDs(ids, active) ==
    {n \in Range(ids) : notices[n] \in Kept /\ (notices[n] = "ACTIVE") = active}

Without(removed) == [n \in Notices |-> IF n \in removed THEN "gone" ELSE notices[n]]

\* Recipients over the bound, in order, with what they hold.
RecipientsOver(after) ==
    LET over == {r \in Recipients : r > after /\ Cardinality(Held(r)) > MaxPerRecipient}
        ordered == SetToSortSeq(over, <) IN
    [i \in 1..(IF Len(ordered) < Batch THEN Len(ordered) ELSE Batch) |->
        [recipient |-> ordered[i], count |-> Cardinality(Held(ordered[i]))]]

Continues(p, pass) == passes' = [passes EXCEPT ![p] = pass] /\ UNCHANGED strategy

\* A pass that starts beside another is not alone, and neither is the other.
StartPass(p) ==
    LET others == {q \in Passes \ {p} : passes[q].at # "idle"} IN
    /\ passes[p].at = "idle"
    /\ passes' = [q \in Passes |->
                     IF q = p THEN [NoPass EXCEPT !.at = "age", !.alone = others = {}]
                     ELSE IF q \in others THEN [passes[q] EXCEPT !.alone = FALSE] ELSE passes[q]]
    /\ UNCHANGED <<strategy, notices>>

\* Those inactive the longest, which need not be the oldest.
SelectAged(p) ==
    LET aged == {n \in Notices : notices[n] = "AGED"} IN
    /\ passes[p].at = "age"
    /\ \E ids \in SUBSET aged :
           /\ Cardinality(ids) = Min({Batch, Cardinality(aged)})
           /\ Continues(p, [passes[p] EXCEPT !.at = "age delete", !.ids = SetToSeq(ids)])
    /\ UNCHANGED notices

DeleteAged(p) ==
    LET removed == DeleteIDs(passes[p].ids, FALSE) IN
    /\ passes[p].at = "age delete"
    /\ notices' = Without(removed)
    /\ Continues(p, [passes[p] EXCEPT !.at = IF Len(passes[p].ids) < Batch THEN "count" ELSE "age", !.ids = << >>])

\* A page of recipients over the bound.
Count(p) ==
    LET over == RecipientsOver(passes[p].after) IN
    /\ passes[p].at = "count"
    /\ Continues(p, [passes[p] EXCEPT !.at = "holder", !.over = over, !.more = Len(over) = Batch,
                                 !.after = IF over = << >> THEN @ ELSE Last(over).recipient])
    /\ UNCHANGED notices
\* The next recipient of the page, the next page, or the end of the pass.
Holder(p) ==
    LET pass == passes[p] IN
    /\ pass.at = "holder"
    /\ IF pass.over # << >>
       THEN Continues(p, [pass EXCEPT !.at = "oldest", !.active = FALSE, !.deleted = 0,
                                 !.excess = Head(pass.over).count - MaxPerRecipient])
       ELSE Continues(p, [pass EXCEPT !.at = IF pass.more THEN "count" ELSE "end"])
    /\ UNCHANGED notices

Take(pass) ==
    LET left == pass.excess - pass.deleted IN IF left < Batch THEN left ELSE Batch

SelectOldest(p) ==
    LET pass == passes[p]
        states == IF pass.active THEN {"ACTIVE"} ELSE {"INACTIVE", "AGED"} IN
    /\ pass.at = "oldest"
    /\ Continues(p, [pass EXCEPT !.at = "delete",
                            !.ids = SelectIDs(states, {Head(pass.over).recipient}, Take(pass))])
    /\ UNCHANGED notices

\* Mutant: a recipient is signalled for what was selected.
EvictedOf(pass, removed) ==
    IF pass.active /\ pass.ids # << >> THEN pass.recipients \cup {Head(pass.over).recipient}
    ELSE pass.recipients

\* The recipients whose unread notifications were evicted.
RecipientsOf(pass, removed) ==
    IF pass.active /\ removed # {} THEN pass.recipients \cup {Head(pass.over).recipient}
    ELSE pass.recipients

\* Mutant: what was deleted already is deleted again among the unread.
LeftUnreduced(pass, deleted) == pass.excess

\* What is left to delete once the inactive ones are gone.
Left(pass, deleted) == pass.excess - deleted

\* Deletes what was selected, and selects again while there is more to delete
\* and to select.  Then unread ones, if the strategy allows it and the inactive
\* were not enough; else the next recipient.
DeleteOldest(p) ==
    LET pass == passes[p]
        removed == DeleteIDs(pass.ids, pass.active)
        deleted == pass.deleted + Cardinality(removed)
        next == [pass EXCEPT !.ids = << >>, !.recipients = RecipientsOf(pass, removed),
                             !.evicted = IF pass.active THEN @ \cup removed ELSE @] IN
    /\ pass.at = "delete"
    /\ notices' = Without(removed)
    /\ IF deleted < pass.excess /\ Len(pass.ids) = Take(pass)
       THEN Continues(p, [next EXCEPT !.at = "oldest", !.deleted = deleted])
       ELSE IF deleted < pass.excess /\ ~pass.active /\ strategy = "EvictOldestActive"
       THEN Continues(p, [next EXCEPT !.at = "oldest", !.active = TRUE, !.deleted = 0,
                                 !.excess = Left(pass, deleted)])
       ELSE Continues(p, [next EXCEPT !.at = "holder", !.over = Tail(@), !.active = FALSE,
                                 !.excess = 0, !.deleted = 0])

\* The pass is over, and the recipients of what it evicted are signalled; or a
\* statement fails, the pass is given up and nobody is.
EndPass(p) ==
    /\ passes[p].at # "idle"
    /\ Continues(p, NoPass)
    /\ UNCHANGED notices

Prune(p) ==
    \/ StartPass(p) \/ SelectAged(p) \/ DeleteAged(p) \/ Count(p) \/ Holder(p)
    \/ SelectOldest(p) \/ DeleteOldest(p) \/ EndPass(p)

RetentionNext ==
    \/ \E n \in Notices : Insert(n) \/ Deactivate(n) \/ GrowOld(n)
    \/ \E p \in Passes : Prune(p)

RetentionSpec == RetentionInit /\ [][RetentionNext]_retentionVars

(* What retention promises **********************************************)

\* The bounds hold as of the end of a pass: when nothing arrived, was read or
\* grew old during it, nothing inactive is over age and nobody is over the count
\* bound, but for unread notifications that are to be retained, and that
\* whatever other passes deleted meanwhile.
PassMeetsBounds ==
    \A p \in Passes :
        passes[p].at = "end" /\ passes[p].quiet =>
            /\ \A n \in Notices : notices[n] # "AGED"
            /\ \A r \in Recipients :
                   \/ Cardinality(Held(r)) <= MaxPerRecipient
                   \/ strategy = "RetainActive" /\ \A n \in Held(r) : notices[n] = "ACTIVE"

\* What a step deletes for the count bound, and whose it is.
DeletesForCount(p) == passes[p].at = "delete" /\ passes'[p].at # "delete" /\ notices' # notices

LeavesBound(p) ==
    DeletesForCount(p) =>
        \A r \in Recipients :
            Head(passes[p].over).recipient = r => Cardinality(Held(r)') >= MaxPerRecipient

\* A pass that no other overlaps never deletes a notification for the count
\* bound that the bound lets the recipient keep, though notifications arrive and
\* are read between its selections and its deletions.
LonePassKeepsBound == [][\A p \in Passes : passes[p].alone => LeavesBound(p)]_retentionVars

\* A pass that ends signals exactly the recipients it took unread notifications
\* from: not those whose notifications were read or deleted by others before it
\* could, and nobody at all where unread notifications are retained.
EvictedAreTold ==
    \A p \in Passes :
        LET evicted == passes[p].evicted IN
        passes[p].at = "end" =>
            /\ passes[p].recipients = {RecipientOf[n] : n \in evicted}
            /\ strategy = "RetainActive" => evicted = {}

\* A pass ends with everybody within bounds, and told of what it took unread.
PassKeepsPromises == PassMeetsBounds /\ EvictedAreTold
=============================================================================
