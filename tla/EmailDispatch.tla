---------------------------- MODULE EmailDispatch ----------------------------
(***************************************************************************)
(* The dispatchers that email notifications nobody has read yet.           *)
(*                                                                         *)
(* A pass leases the notices due for email, settles the sends an earlier   *)
(* pass left in doubt, and sends each recipient one message.  Every write  *)
(* to the delivery records is a transaction of its own, fenced by the      *)
(* owner of the lease; a pass may stop between any two of them, and its    *)
(* leases may lapse while it runs.                                         *)
(*                                                                         *)
(* Notices are numbered in the order they were created.  Time is abstract: *)
(* a notice comes of age and later exceeds the maximum lag, a lease lapses *)
(* and a retry falls due at some point.  The mailer, the address book, the *)
(* filter and the template belong to the host and answer as they like.     *)
(***************************************************************************)
EXTENDS Integers, Sequences, FiniteSets, FiniteSetsExt

CONSTANTS NoticeCount,       \* how many notices there are
          Recipients,
          RecipientOf,       \* who each notice is for
          Dispatchers,       \* also the owners they record in their leases
          NoOwner,
          BatchLimit,        \* the most notices one message of a dispatcher covers
          ClaimLimit,        \* the most notices one pass claims
          MaxEmailAttempts,  \* attempts before a delivery is recorded as failed
          MaxTries,          \* bound: sends considered for one notice
          Changing,          \* bound: the notices that are read, deleted or grow too old
          MaxEmailFaults     \* bound: failures of the store or the host's ports, stopped
                             \* passes and passes that outlast their leases

Notices == 1..NoticeCount
Guarantees == {"AT_MOST_ONCE", "AT_LEAST_ONCE"}

\* What NewEmailDispatcher insists on; the lag follows the grace delay by the
\* order in which a notice ages.
ValidLimits(batch, claim, attempts) ==
    batch \in Nat \ {0} /\ claim \in Nat \ {0} /\ attempts \in Nat \ {0}

ASSUME EmailAssumption ==
    /\ NoticeCount \in Nat
    /\ RecipientOf \in [Notices -> Recipients]
    /\ NoOwner \notin Dispatchers
    /\ DOMAIN BatchLimit = Dispatchers
    /\ \A d \in Dispatchers : ValidLimits(BatchLimit[d], ClaimLimit, MaxEmailAttempts)
    /\ MaxTries \in Nat
    /\ Changing \in [Guarantees -> SUBSET Notices]
    /\ MaxEmailFaults \in [Guarantees -> Nat]

VARIABLES
    guarantee,   \* what every dispatcher was built with
    notices,     \* the state of each notice, and the age of an active one
    deliveries,  \* its delivery record, if it has one
    emailPasses, \* each dispatcher's pass
    keys,        \* the notices each idempotency key was made for
    mail,        \* history variable: the keys of the messages each notice arrived in
    emailFaults

emailVars == <<guarantee, notices, deliveries, emailPasses, keys, mail, emailFaults>>

Active == {"young", "due", "stale"}   \* only one that is due is claimed

\* The statuses that settle a delivery; CLAIMED, SENDING and RETRY do not.
Final == {"SENT", "SKIPPED", "FAILED", "ABANDONED"}

Unrecorded == [status |-> "NONE", batch |-> 0, owner |-> NoOwner, leased |-> FALSE,
               attempts |-> 0, waiting |-> FALSE]

Ids(candidates) == {c.id : c \in candidates}

\* claimed are the notices leased by the pass, doubts and fresh the candidates
\* not dealt with yet, group the ones of the message at hand and key that
\* message's idempotency key.
IdlePass ==
    [at |-> "idle", claimed |-> {}, doubts |-> {}, fresh |-> {},
     group |-> {}, key |-> 0, answer |-> "none"]

EmailInit ==
    /\ guarantee \in Guarantees
    /\ notices = [n \in Notices |-> "young"]
    /\ deliveries = [n \in Notices |-> Unrecorded]
    /\ emailPasses = [d \in Dispatchers |-> IdlePass]
    /\ keys = << >>
    /\ mail = [n \in Notices |-> << >>]
    /\ emailFaults = 0

(* The delivery records *************************************************)

Qualifies(n) == notices[n] = "due"

\* A record that may be leased again.
Lapsed(r) ==
    /\ ~r.leased
    /\ \/ r.status = "SENDING"
       \/ r.status \in {"CLAIMED", "RETRY"} /\ ~r.waiting

\* A send in doubt is claimed whatever became of the notice, unless it is gone.
Claimable(n) ==
    /\ notices[n] # "deleted"
    /\ CASE deliveries[n].status = "NONE" -> Qualifies(n)
         [] deliveries[n].status = "SENDING" -> Lapsed(deliveries[n])
         [] OTHER -> Lapsed(deliveries[n]) /\ Qualifies(n)

\* The oldest notices due, at most ClaimLimit of them.
DueEmails ==
    LET due == {n \in Notices : Claimable(n)} IN
    {n \in due : Cardinality({m \in due : m < n}) < ClaimLimit}

\* The records whose notice is gone.
Orphans == {n \in Notices : notices[n] = "deleted" /\ deliveries[n].status # "NONE"}

\* Mutant: a lapsed send starts over like any other delivery.
LeasedAfresh(r, d) == [r EXCEPT !.status = "CLAIMED", !.owner = d, !.leased = TRUE]

\* A send in doubt stays in doubt.
LeasedTo(r, d) ==
    [r EXCEPT !.status = IF @ = "SENDING" THEN @ ELSE "CLAIMED",
              !.owner = d, !.leased = TRUE]

\* SENDING keeps the lease; every other status releases it.
ApplyEmailRecord(r, status, batch, attempt) ==
    LET written == [r EXCEPT !.status = status, !.waiting = status = "RETRY",
                             !.batch = IF batch = 0 THEN @ ELSE batch,
                             !.attempts = IF attempt THEN @ + 1 ELSE @]
    IN IF status = "SENDING" THEN written
       ELSE [written EXCEPT !.owner = NoOwner, !.leased = FALSE]

HeldBy(records, d, ids) == {n \in ids : records[n].owner = d}

\* Only the records the owner still holds are changed.
RecordEmails(records, d, ids, status, batch, attempt) ==
    [n \in Notices |-> IF n \in HeldBy(records, d, ids)
                       THEN ApplyEmailRecord(records[n], status, batch, attempt)
                       ELSE records[n]]

Settled(records, d, candidates, status) ==
    RecordEmails(records, d, Ids(candidates), status, 0, FALSE)

\* Another attempt later, or none once the attempts are used up.
Retried(records, d, candidates, countAttempt) ==
    LET made(c) == IF countAttempt THEN c.attempts + 1 ELSE c.attempts
        spent == {c \in candidates : made(c) >= MaxEmailAttempts}
    IN RecordEmails(
         RecordEmails(records, d, Ids(spent), "FAILED", 0, countAttempt),
         d, Ids(candidates \ spent), "RETRY", 0, countAttempt)

\* A write the store accepts, or one it refuses and the pass only reports.
Fails(failures) == emailFaults' = emailFaults + failures /\ emailFaults' <= MaxEmailFaults[guarantee]

Writes(records, failures) ==
    \/ deliveries' = records /\ Fails(failures)
    \/ deliveries' = deliveries /\ Fails(failures + 1)

(* A pass ***************************************************************)

CandidateOf(n) == [id |-> n, batch |-> deliveries[n].batch, attempts |-> deliveries[n].attempts]

\* The pass over the notices it leased: the sends in doubt and the others.
Grouped(taken, records) ==
    [IdlePass EXCEPT
        !.at = "work",
        !.claimed = taken,
        !.doubts = {CandidateOf(n) : n \in {m \in taken : records[m].status = "SENDING"}},
        !.fresh = {CandidateOf(n) : n \in {m \in taken : records[m].status = "CLAIMED"}}]

\* The in-memory store claims under its mutex.  A pass that finds nothing to do
\* changes nothing and is left out.
ClaimEmails(d) ==
    /\ emailPasses[d].at = "idle"
    /\ DueEmails # {} \/ Orphans # {}
    /\ deliveries' = [n \in Notices |-> IF n \in DueEmails
                                        THEN LeasedTo(deliveries[n], d) ELSE deliveries[n]]
    /\ emailPasses' = [emailPasses EXCEPT ![d] = Grouped(DueEmails, deliveries')]
    /\ UNCHANGED <<guarantee, notices, keys, mail, emailFaults>>

\* A SQL store selects what is due without locking it ...
SelectDue(d) ==
    /\ emailPasses[d].at = "idle"
    /\ DueEmails # {}
    /\ emailPasses' = [emailPasses EXCEPT ![d] = [IdlePass EXCEPT
            !.at = "claim",
            !.doubts = {n \in DueEmails : deliveries[n].status # "NONE"},
            !.fresh = {n \in DueEmails : deliveries[n].status = "NONE"}]]
    /\ UNCHANGED <<guarantee, notices, deliveries, keys, mail, emailFaults>>

\* ... inserts records for the notices that had none, unless one was written or
\* the notice deleted in the meantime,
InsertDeliveries(ids) ==
    {n \in ids : deliveries[n].status = "NONE" /\ notices[n] # "deleted"}

\* Mutant: the update does not repeat the selection's condition.
TakeOverSelected(ids) == {n \in ids : deliveries[n].status # "NONE"}

\* ... takes over the records that may still be leased again,
TakeOverDeliveries(ids) ==
    {n \in ids : deliveries[n].status # "NONE" /\ Lapsed(deliveries[n])}

\* ... and goes on with what it holds now and has not been deleted.
ClaimedEmails(d) ==
    /\ emailPasses[d].at = "claim"
    /\ LET taken == InsertDeliveries(emailPasses[d].fresh) \cup TakeOverDeliveries(emailPasses[d].doubts)
       IN /\ deliveries' = [n \in Notices |-> IF n \in taken
                                              THEN LeasedTo(deliveries[n], d) ELSE deliveries[n]]
          /\ emailPasses' = [emailPasses EXCEPT ![d] =
                Grouped({n \in taken : notices[n] # "deleted"}, deliveries')]
    /\ UNCHANGED <<guarantee, notices, keys, mail, emailFaults>>

Done(pass) == [pass EXCEPT !.at = "work", !.group = {}, !.key = 0, !.answer = "none"]

StillActive(candidates) == {c \in candidates : notices[c.id] \in Active}

\* A message is prepared.  Each candidate is read again and the ones read, closed
\* or deleted since they were claimed are skipped; one that cannot be read is
\* tried again later.  Then the message is rendered, which may fail for good.
Prepare(d, pass, group, key, records, failures) ==
    \E unread \in SUBSET group :
      LET known == group \ unread
          live == StillActive(known)
          kept == Settled(Retried(records, d, unread, TRUE), d, known \ live, "SKIPPED")
      IN /\ Fails(failures + Cardinality(unread))
         /\ \/ /\ live = {}
               /\ emailPasses' = [emailPasses EXCEPT ![d] = pass]
               /\ deliveries' = kept
            \/ /\ live # {}
               /\ emailPasses' = [emailPasses EXCEPT ![d] = pass]
               /\ deliveries' = Settled(kept, d, live, "FAILED")
            \/ /\ live # {}
               /\ emailPasses' = [emailPasses EXCEPT ![d] =
                     [pass EXCEPT !.at = "record", !.group = live, !.key = key]]
               /\ deliveries' = kept

\* Without an answer from the address book the record stays SENDING and keeps its
\* key for the pass that finds the lease lapsed.
ResolveDoubt(d) ==
    /\ emailPasses[d].at = "work"
    /\ \E key \in {c.batch : c \in emailPasses[d].doubts} :
         LET group == {c \in emailPasses[d].doubts : c.batch = key}
             rest == [emailPasses[d] EXCEPT !.doubts = @ \ group]
             move(records, failures) == /\ emailPasses' = [emailPasses EXCEPT ![d] = rest]
                                        /\ Writes(records, failures)
         IN \/ guarantee = "AT_MOST_ONCE" /\ move(Settled(deliveries, d, group, "ABANDONED"), 0)
            \/ guarantee = "AT_LEAST_ONCE" /\ move(deliveries, 1)
            \/ guarantee = "AT_LEAST_ONCE" /\ move(Settled(deliveries, d, group, "SKIPPED"), 0)
            \/ guarantee = "AT_LEAST_ONCE" /\ Prepare(d, rest, group, key, deliveries, 0)
    /\ UNCHANGED <<guarantee, notices, keys, mail>>

\* The oldest of the candidates, as many as one message covers.
Batched(d, candidates) ==
    {c \in candidates : Cardinality({b \in candidates : b.id < c.id}) < BatchLimit[d]}

\* One recipient's fresh candidates: filtered, then held to the batch limit; the
\* rest is released to the next pass at once.  The candidates the filter fails
\* on, and all of them when the address book fails, are tried again later.
DeliverTo(d) ==
    /\ emailPasses[d].at = "work"
    /\ emailPasses[d].doubts = {}
    /\ \E r \in {RecipientOf[c.id] : c \in emailPasses[d].fresh} :
         LET group == {c \in emailPasses[d].fresh : RecipientOf[c.id] = r}
             rest == [emailPasses[d] EXCEPT !.fresh = @ \ group]
             move(records, failures) == /\ emailPasses' = [emailPasses EXCEPT ![d] = rest]
                                        /\ Writes(records, failures)
         IN \E unsure \in SUBSET group : \E rejected \in SUBSET (group \ unsure) :
              LET selected == group \ (unsure \cup rejected)
                  failures == Cardinality(unsure)
                  filtered == Settled(Retried(deliveries, d, unsure, TRUE), d, rejected, "SKIPPED")
                  chosen == Batched(d, selected)
              IN \/ move(Retried(filtered, d, selected, TRUE), failures + 1)
                 \/ move(Settled(filtered, d, selected, "SKIPPED"), failures)
                 \/ Prepare(d, rest, chosen, 0,
                            Settled(filtered, d, selected \ chosen, "CLAIMED"), failures)
    /\ UNCHANGED <<guarantee, notices, keys, mail>>

\* Every candidate of the message is recorded as SENDING, or it is not sent.
MaySend(d) == \A c \in emailPasses[d].group : deliveries[c.id].owner = d

\* A new message gets its key here, before anybody else can see it.
RecordSending(d) ==
    LET pass == emailPasses[d]
        made == IF pass.key = 0 THEN Append(keys, Ids(pass.group)) ELSE keys
        key == IF pass.key = 0 THEN Len(made) ELSE pass.key
        held == HeldBy(deliveries, d, Ids(pass.group))
    IN
    /\ pass.at = "record"
    /\ \A c \in pass.group : deliveries[c.id].attempts < MaxTries
    /\ \/ /\ held # {}
          /\ deliveries' = RecordEmails(deliveries, d, held, "SENDING", key, TRUE)
          /\ emailPasses' = [emailPasses EXCEPT ![d] =
                IF MaySend(d) THEN [pass EXCEPT !.at = "send", !.key = key] ELSE Done(pass)]
          /\ keys' = made
          /\ UNCHANGED emailFaults
       \/ /\ held = {}
          /\ emailPasses' = [emailPasses EXCEPT ![d] = Done(pass)]
          /\ UNCHANGED <<deliveries, keys, emailFaults>>
       \/ /\ Fails(1)
          /\ emailPasses' = [emailPasses EXCEPT ![d] = Done(pass)]
          /\ UNCHANGED <<deliveries, keys>>
    /\ UNCHANGED <<guarantee, notices, mail>>

\* The mailer: a send it cannot account for may have reached the recipient.
SendEmail(d, answer) ==
    /\ emailPasses[d].at = "send"
    /\ \/ /\ answer \in {"sent", "doubt"}
          /\ mail' = [n \in Notices |-> IF n \in Ids(emailPasses[d].group)
                                        THEN Append(mail[n], emailPasses[d].key) ELSE mail[n]]
       \/ answer \in {"rejected", "doubt", "unsent"} /\ UNCHANGED mail
    /\ emailPasses' = [emailPasses EXCEPT ![d].at = "settle", ![d].answer = answer]
    /\ UNCHANGED <<guarantee, notices, deliveries, keys, emailFaults>>

Answers == {"sent", "rejected", "doubt", "unsent"}

\* A doubt under at least once is left SENDING for a later pass to repeat.
Outcome(d) ==
    LET group == emailPasses[d].group
        counted == {[c EXCEPT !.attempts = @ + 1] : c \in group}
    IN CASE emailPasses[d].answer = "sent" -> Settled(deliveries, d, group, "SENT")
         [] emailPasses[d].answer = "rejected" -> Settled(deliveries, d, group, "FAILED")
         [] emailPasses[d].answer = "doubt" ->
              IF guarantee = "AT_MOST_ONCE"
              THEN Settled(deliveries, d, group, "ABANDONED") ELSE deliveries
         [] OTHER -> Retried(deliveries, d, counted, FALSE)

SettleSend(d) ==
    /\ emailPasses[d].at = "settle"
    /\ Writes(Outcome(d), 0)
    /\ emailPasses' = [emailPasses EXCEPT ![d] = Done(emailPasses[d])]
    /\ UNCHANGED <<guarantee, notices, keys, mail>>

\* The end of a pass removes the records of deleted notices, leased or not.
PurgeEmailRecords(d) ==
    /\ emailPasses[d].at = "work"
    /\ emailPasses[d].doubts = {} /\ emailPasses[d].fresh = {}
    /\ LET purged == {n \in Orphans : Cardinality({m \in Orphans : m < n}) < ClaimLimit}
       IN Writes([n \in Notices |-> IF n \in purged THEN Unrecorded ELSE deliveries[n]], 0)
    /\ emailPasses' = [emailPasses EXCEPT ![d] = IdlePass]
    /\ UNCHANGED <<guarantee, notices, keys, mail>>

\* A crash, or a cancelled context: every later step of the pass fails.
Stop(d) ==
    /\ emailPasses[d].at # "idle"
    /\ Fails(1)
    /\ emailPasses' = [emailPasses EXCEPT ![d] = IdlePass]
    /\ UNCHANGED <<guarantee, notices, deliveries, keys, mail>>

(* Recipients, retention and time ***************************************)

\* Read or closed: the dispatcher does not tell them apart.
Deactivate(n) ==
    /\ notices[n] \in Active
    /\ notices' = [notices EXCEPT ![n] = "read"]
    /\ UNCHANGED <<guarantee, deliveries, emailPasses, keys, mail, emailFaults>>

DeleteNotice(n) ==
    /\ notices[n] # "deleted"
    /\ notices' = [notices EXCEPT ![n] = "deleted"]
    /\ UNCHANGED <<guarantee, deliveries, emailPasses, keys, mail, emailFaults>>

\* Past the grace delay, then past the maximum lag; the older notice first.
Age(n) ==
    /\ \A m \in Notices : m < n => notices[m] # notices[n]
    /\ \/ notices[n] = "young" /\ notices' = [notices EXCEPT ![n] = "due"]
       \/ /\ notices[n] = "due" /\ n \in Changing[guarantee]
          /\ notices' = [notices EXCEPT ![n] = "stale"]
    /\ UNCHANGED <<guarantee, deliveries, emailPasses, keys, mail, emailFaults>>

\* The leases of one claim end together, and those of an earlier pass of the
\* same dispatcher before the ones of its present pass, which outlasts them then.
LeaseLapses(d) ==
    LET held == {n \in Notices : deliveries[n].owner = d /\ deliveries[n].leased}
        older == held \ emailPasses[d].claimed
        ending == IF older = {} THEN held ELSE older
    IN
    /\ held # {}
    /\ Fails(IF older = {} THEN 1 ELSE 0)
    /\ deliveries' = [n \in Notices |-> [deliveries[n] EXCEPT !.leased = @ /\ n \notin ending]]
    /\ UNCHANGED <<guarantee, notices, emailPasses, keys, mail>>

RetryFallsDue(n) ==
    /\ deliveries[n].waiting
    /\ deliveries' = [deliveries EXCEPT ![n].waiting = FALSE]
    /\ UNCHANGED <<guarantee, notices, emailPasses, keys, mail, emailFaults>>

PassStep(d) ==
    \/ ClaimEmails(d)
    \/ SelectDue(d)
    \/ ClaimedEmails(d)
    \/ ResolveDoubt(d)
    \/ DeliverTo(d)
    \/ RecordSending(d)
    \/ \E answer \in Answers : SendEmail(d, answer)
    \/ SettleSend(d)
    \/ PurgeEmailRecords(d)

EmailNext ==
    \/ \E d \in Dispatchers : PassStep(d) \/ Stop(d) \/ LeaseLapses(d)
    \/ \E n \in Changing[guarantee] : Deactivate(n) \/ DeleteNotice(n)
    \/ \E n \in Notices : \/ Age(n)
                          \/ RetryFallsDue(n)

EmailSpec == EmailInit /\ [][EmailNext]_emailVars

-----------------------------------------------------------------------------
(* Properties ***********************************************************)

\* Under AtMostOnce no recipient is mailed a notice twice, whichever passes
\* stop, outlast their leases or lose an answer (the SENDING record made before
\* the send, and the abandonment of doubts).
EmailedAtMostOnce ==
    guarantee = "AT_MOST_ONCE" => \A n \in Notices : Len(mail[n]) <= 1

\* Whatever is sent under a key is among the notices the key was made for: a
\* send repeated after a doubt, by whichever dispatcher, is never merged with
\* newer notices (grouping by batch in Dispatch).
RepeatsCoverNoMore ==
    \A n \in Notices : \A i \in DOMAIN mail[n] : n \in keys[mail[n][i]]

\* Whichever guarantee was chosen, nobody is mailed a notice more often than it
\* allows or under a key that was not made for it.
GuaranteeKept == EmailedAtMostOnce /\ RepeatsCoverNoMore

\* An outcome that is recorded as final is never changed again, only removed
\* with a deleted notice.
OutcomesAreFinal ==
    [][\A n \in Notices : deliveries[n].status \in Final =>
          \/ deliveries'[n] = deliveries[n]
          \/ notices[n] = "deleted" /\ deliveries'[n] = Unrecorded]_emailVars
=============================================================================
