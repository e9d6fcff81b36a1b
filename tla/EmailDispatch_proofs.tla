------------------------- MODULE EmailDispatch_proofs -------------------------
(***************************************************************************)
(* Proofs about the email dispatchers, for every number of notices,        *)
(* recipients, dispatchers, attempts and faults, whichever passes stop or  *)
(* outlast their leases: nobody is mailed a notice more often than the     *)
(* guarantee allows, a key covers no notice it was not made for, and a     *)
(* final outcome stays.                                                    *)
(***************************************************************************)
EXTENDS EmailDispatch, TLAPS

(* The inductive invariant **********************************************)

\* What a write that gives up the lease may leave a delivery as.
Released == Final \cup {"CLAIMED", "RETRY"}

Delivery == [status : Released \cup {"NONE", "SENDING"}, batch : Nat,
             owner : Dispatchers \cup {NoOwner}, leased : BOOLEAN, attempts : Nat,
             waiting : BOOLEAN]

Candidate == [id : Notices, batch : Nat, attempts : Nat]

\* What a SQL store selected is known by its numbers until it is claimed.
Pass == [at : {"idle", "claim", "work", "record", "send", "settle"},
         claimed : SUBSET Notices, doubts : SUBSET (Notices \cup Candidate),
         fresh : SUBSET (Notices \cup Candidate), group : SUBSET Candidate,
         key : Nat, answer : Answers \cup {"none"}]

EmailTypes ==
    /\ guarantee \in Guarantees
    /\ notices \in [Notices -> Active \cup {"read", "deleted"}]
    /\ deliveries \in [Notices -> Delivery]
    /\ emailPasses \in [Dispatchers -> Pass]
    /\ keys \in Seq(SUBSET Notices)
    /\ mail \in [Notices -> Seq(Nat)]

\* The key was made for the notice.
Made(key, n) == key \in DOMAIN keys /\ n \in keys[key]

\* A final outcome is nobody's, only a retry waits, and a send in doubt has the key of
\* the message it is in.
RecordSound(r, n) ==
    /\ r.status \in Final => r.owner = NoOwner /\ ~r.leased
    /\ r.waiting => r.status = "RETRY"
    /\ r.status = "SENDING" => Made(r.batch, n)

\* The dispatcher has recorded no send of what it still holds among the candidates.
Unopened(d, candidates) ==
    \A c \in candidates : deliveries[c.id].owner = d => deliveries[c.id].status = "CLAIMED"

Covered(key, candidates) == \A c \in candidates : Made(key, c.id)

\* No notice is before a pass twice.
Apart(doubts, fresh, group) ==
    /\ \A b, c \in doubts \cup fresh \cup group : b.id = c.id => b = c
    /\ doubts \cap fresh = {}
    /\ group \cap (doubts \cup fresh) = {}

\* A message without a key is of notices no send is recorded for.  One with a key
\* covers notices of that key, and is only prepared again under at least once.
MessageSound(d, p) ==
    /\ p.at = "record" /\ p.key = 0 => Unopened(d, p.group)
    /\ p.at = "record" /\ p.key # 0 => guarantee = "AT_LEAST_ONCE" /\ Covered(p.key, p.group)
    /\ p.at \in {"send", "settle"} => Covered(p.key, p.group)
    /\ p.at = "settle" => p.answer \in Answers

PassSound(d, p) ==
    \/ p.at = "idle"
    \/ p.at = "claim" /\ p.doubts \subseteq Notices /\ p.fresh \subseteq Notices
    \/ /\ p.at \in {"work", "record", "send", "settle"}
       /\ p.doubts \subseteq Candidate /\ p.fresh \subseteq Candidate
       /\ Apart(p.doubts, p.fresh, p.group)
       /\ Unopened(d, p.fresh)
       /\ \A c \in p.doubts : Made(c.batch, c.id)
       /\ MessageSound(d, p)

\* Whatever was mailed, was under a key made for it.
MailCovered == \A n \in Notices : \A i \in DOMAIN mail[n] : Made(mail[n][i], n)

\* The message a pass is about to hand to the mailer has the notice in it.
Sends(d, n) == emailPasses[d].at = "send" /\ n \in Ids(emailPasses[d].group)

\* The notice was not mailed and is not about to be.
Unsent(n) == mail[n] = << >> /\ \A d \in Dispatchers : ~Sends(d, n)

\* A delivery a fresh message may still be made of.
Open(n) ==
    \/ deliveries[n].status \in {"CLAIMED", "RETRY"}
    \/ deliveries[n].status = "NONE" /\ notices[n] # "deleted"

\* A pass whose message was not sent and that may therefore open its deliveries again.
Returns(d, n) ==
    /\ emailPasses[d].at = "settle" /\ emailPasses[d].answer = "unsent"
    /\ n \in Ids(emailPasses[d].group) /\ deliveries[n].owner = d

\* Of a notice one message at most is sent or about to be; then no delivery of it is
\* open, and no pass is about to open it.
SentOnce ==
    \A n \in Notices :
        /\ Open(n) => Unsent(n)
        /\ \A d \in Dispatchers : Returns(d, n) => Unsent(n)
        /\ Len(mail[n]) <= 1
        /\ \A d \in Dispatchers : Sends(d, n) => mail[n] = << >>
        /\ \A d, e \in Dispatchers : Sends(d, n) /\ Sends(e, n) => d = e

EInv ==
    /\ EmailTypes
    /\ \A n \in Notices : RecordSound(deliveries[n], n)
    /\ \A d \in Dispatchers : PassSound(d, emailPasses[d])
    /\ MailCovered
    /\ guarantee = "AT_MOST_ONCE" => SentOnce

(* Writes to the delivery records ***************************************)

\* A delivery whose lease was given up.
Loosed(r) ==
    /\ r.status \in Released /\ r.owner = NoOwner /\ ~r.leased
    /\ r.waiting => r.status = "RETRY"

\* The records with some of those the dispatcher holds among ids given up, as one of
\* the statuses.
Releases(records, written, d, ids, statuses) ==
    /\ written \in [Notices -> Delivery]
    /\ \A n \in Notices :
          \/ written[n] = records[n]
          \/ /\ n \in ids /\ records[n].owner = d
             /\ Loosed(written[n]) /\ written[n].status \in statuses

\* RecordEmails gives up what its owner holds when it records anything but SENDING.
LEMMA RecordReleases ==
    ASSUME NEW records \in [Notices -> Delivery], NEW d \in Dispatchers, NEW ids,
           NEW status \in Released, NEW attempt \in BOOLEAN
    PROVE  Releases(records, RecordEmails(records, d, ids, status, 0, attempt), d, ids, {status})
<1> DEFINE written == RecordEmails(records, d, ids, status, 0, attempt)
<1>1. ASSUME NEW n \in Notices, n \in HeldBy(records, d, ids)
      PROVE  /\ written[n] \in Delivery /\ Loosed(written[n]) /\ written[n].status = status
             /\ n \in ids /\ records[n].owner = d
  <2>1. PICK r \in Delivery : r = records[n]
      BY Zenon
  <2>2. PICK a \in Nat : a = IF attempt THEN r.attempts + 1 ELSE r.attempts
      BY DEF Delivery
  <2>3. status # "SENDING"
      BY DEF Released, Final
  <2>4. written[n] = [[r EXCEPT !.status = status, !.waiting = (status = "RETRY"),
                                !.batch = r.batch, !.attempts = a]
                      EXCEPT !.owner = NoOwner, !.leased = FALSE]
      BY <1>1, <2>1, <2>2, <2>3 DEF RecordEmails, ApplyEmailRecord
  <2>5. PICK w : w = written[n]
      BY Zenon
  <2> HIDE DEF written
  <2>6. w \in Delivery /\ w.status = status /\ w.owner = NoOwner /\ w.leased = FALSE
        /\ w.waiting = (status = "RETRY")
      BY ONLY <2>1, <2>2, <2>4, <2>5, status \in Released, Zenon DEF Delivery
  <2>7. n \in ids /\ records[n].owner = d
      BY <1>1, Zenon DEF HeldBy
  <2> QED
      BY <2>5, <2>6, <2>7, Zenon DEF Loosed
<1>2. ASSUME NEW n \in Notices, n \notin HeldBy(records, d, ids) PROVE written[n] = records[n]
    BY <1>2, Zenon DEF RecordEmails
<1>3. written = [n \in Notices |-> written[n]]
    BY Zenon DEF RecordEmails
<1> HIDE DEF written
<1>4. written \in [Notices -> Delivery]
    BY <1>1, <1>2, <1>3, Zenon
<1>5. \A n \in Notices :
          \/ written[n] = records[n]
          \/ /\ n \in ids /\ records[n].owner = d
             /\ Loosed(written[n]) /\ written[n].status \in {status}
    BY <1>1, <1>2, Zenon
<1>6. Releases(records, written, d, ids, {status})
    BY <1>4, <1>5, Zenon DEF Releases
<1> QED
    BY <1>6, Zenon DEF written

\* One write after another is a write: what the first gave up the second does not hold.
LEMMA ReleasesCompose ==
    ASSUME NEW d \in Dispatchers, NEW first, NEW second, NEW third,
           NEW ids, NEW statuses,
           Releases(first, second, d, ids, statuses), Releases(second, third, d, ids, statuses)
    PROVE  Releases(first, third, d, ids, statuses)
<1>1. NoOwner # d
    BY EmailAssumption, Zenon
<1>2. third \in [Notices -> Delivery]
    BY Zenon DEF Releases
<1>3. ASSUME NEW n \in Notices
      PROVE  \/ third[n] = first[n]
             \/ /\ n \in ids /\ first[n].owner = d
                /\ Loosed(third[n]) /\ third[n].status \in statuses
  <2>1. CASE second[n] = first[n]
      BY <2>1, Zenon DEF Releases
  <2>2. CASE /\ n \in ids /\ first[n].owner = d
             /\ Loosed(second[n]) /\ second[n].status \in statuses
    <3>1. third[n] = second[n]
        BY <1>1, <2>2, Zenon DEF Releases, Loosed
    <3> QED
        BY <2>2, <3>1, Zenon
  <2> QED
      BY <2>1, <2>2, Zenon DEF Releases
<1> QED
    BY <1>2, <1>3, Zenon DEF Releases

\* No write at all is one of these too.
LEMMA ReleasesNone ==
    ASSUME NEW records \in [Notices -> Delivery], NEW d, NEW ids, NEW statuses
    PROVE  Releases(records, records, d, ids, statuses)
    BY Zenon DEF Releases

\* A write of fewer records, or to fewer statuses, is one of more.
LEMMA ReleasesMore ==
    ASSUME NEW records, NEW written, NEW d, NEW I, NEW K, NEW S, NEW U,
           Releases(records, written, d, I, S), I \subseteq K, S \subseteq U
    PROVE  Releases(records, written, d, K, U)
    BY Zenon DEF Releases

\* Settled gives up what its owner holds.
LEMMA SettledReleases ==
    ASSUME NEW records \in [Notices -> Delivery], NEW d \in Dispatchers, NEW candidates,
           NEW status \in Released
    PROVE  Releases(records, Settled(records, d, candidates, status), d, Ids(candidates), {status})
    BY RecordReleases, Zenon DEF Settled

\* Retried does, as RETRY or FAILED.
LEMMA RetriedReleases ==
    ASSUME NEW records \in [Notices -> Delivery], NEW d \in Dispatchers, NEW candidates,
           NEW count \in BOOLEAN
    PROVE  Releases(records, Retried(records, d, candidates, count), d, Ids(candidates), Released)
<1>1. PICK spent : /\ spent \subseteq candidates
                   /\ Retried(records, d, candidates, count) =
                        RecordEmails(RecordEmails(records, d, Ids(spent), "FAILED", 0, count),
                                     d, Ids(candidates \ spent), "RETRY", 0, count)
  <2> DEFINE made(c) == IF count THEN c.attempts + 1 ELSE c.attempts
             cs == {c \in candidates : made(c) >= MaxEmailAttempts}
  <2>1. cs \subseteq candidates
      BY Zenon
  <2>2. Retried(records, d, candidates, count) =
                        RecordEmails(RecordEmails(records, d, Ids(cs), "FAILED", 0, count),
                                     d, Ids(candidates \ cs), "RETRY", 0, count)
      BY Zenon DEF Retried
  <2> HIDE DEF cs
  <2> QED
      BY <2>1, <2>2, Zenon
<1>2. {"FAILED"} \subseteq Released /\ {"RETRY"} \subseteq Released
    BY Zenon DEF Released, Final
<1>3. PICK failed : failed = RecordEmails(records, d, Ids(spent), "FAILED", 0, count)
    BY Zenon
<1>4. Releases(records, failed, d, Ids(spent), {"FAILED"})
    BY <1>2, <1>3, RecordReleases, Zenon
<1>5. failed \in [Notices -> Delivery]
    BY <1>4, Zenon DEF Releases
<1>6. Releases(failed, Retried(records, d, candidates, count), d, Ids(candidates \ spent), {"RETRY"})
    BY <1>1, <1>2, <1>3, <1>5, RecordReleases, Zenon
<1>7. Ids(spent) \subseteq Ids(candidates) /\ Ids(candidates \ spent) \subseteq Ids(candidates)
    BY <1>1, Zenon DEF Ids
<1> QED
  <2>1. Releases(records, failed, d, Ids(candidates), Released)
      BY ONLY <1>2, <1>4, <1>7, ReleasesMore
  <2>2. Releases(failed, Retried(records, d, candidates, count), d, Ids(candidates), Released)
      BY ONLY <1>2, <1>6, <1>7, ReleasesMore
  <2> QED
      BY <2>1, <2>2, ReleasesCompose, Zenon

(* Steps ****************************************************************)

\* What OutcomesAreFinal says of one step.
FinalsKept ==
    \A n \in Notices : deliveries[n].status \in Final =>
        \/ deliveries'[n] = deliveries[n]
        \/ notices[n] = "deleted" /\ deliveries'[n] = Unrecorded

\* What a pass knows stays true as long as no record becomes the dispatcher's or, while
\* it is, another status.
LEMMA PassKept ==
    ASSUME NEW e \in Dispatchers, NEW p \in Pass, p = emailPasses'[e], PassSound(e, p),
           guarantee' = guarantee, \A k, n : Made(k, n) => Made(k, n)',
           \A n \in Notices : deliveries'[n].owner = e =>
               deliveries[n].owner = e /\ deliveries'[n].status = deliveries[n].status
    PROVE  PassSound(e, emailPasses[e])'
<1>1. p.group \subseteq Candidate /\ \A c \in Candidate : c.id \in Notices
    BY Zenon DEF Pass, Candidate
<1>2. ASSUME NEW cs, cs \subseteq Candidate, Unopened(e, cs) PROVE Unopened(e, cs)'
    BY <1>1, <1>2, Zenon DEF Unopened
<1>3. ASSUME NEW cs, NEW key, Covered(key, cs) PROVE Covered(key, cs)'
    BY <1>3, Zenon DEF Covered
<1>4. CASE p.at = "idle"
    BY <1>4, Zenon DEF PassSound
<1>5. CASE p.at = "claim" /\ p.doubts \subseteq Notices /\ p.fresh \subseteq Notices
    BY <1>5, Zenon DEF PassSound
<1>6. CASE /\ p.at \in {"work", "record", "send", "settle"}
           /\ p.doubts \subseteq Candidate /\ p.fresh \subseteq Candidate
           /\ Apart(p.doubts, p.fresh, p.group)
           /\ Unopened(e, p.fresh)
           /\ \A c \in p.doubts : Made(c.batch, c.id)
           /\ MessageSound(e, p)
  <2>1. /\ Unopened(e, emailPasses[e].fresh)'
        /\ Apart(emailPasses[e].doubts, emailPasses[e].fresh, emailPasses[e].group)'
    <3>1. Unopened(e, p.fresh)'
        BY <1>2, <1>6, Zenon
    <3> QED
        BY <1>6, <3>1, Zenon DEF Apart, Unopened
  <2>2. \A c \in p.doubts : Made(c.batch, c.id)'
      BY <1>6, Zenon
  <2>3. MessageSound(e, emailPasses[e])'
    <3>1. p.at = "record" /\ p.key = 0 => Unopened(e, p.group)'
        BY <1>1, <1>2, <1>6, Zenon DEF MessageSound
    <3>2. p.at = "record" /\ p.key # 0 => guarantee' = "AT_LEAST_ONCE" /\ Covered(p.key, p.group)'
        BY <1>3, <1>6, Zenon DEF MessageSound
    <3>3. p.at \in {"send", "settle"} => Covered(p.key, p.group)'
        BY <1>3, <1>6, Zenon DEF MessageSound
    <3>4. p.at = "settle" => p.answer \in Answers
        BY <1>6, Zenon DEF MessageSound
    <3> QED
        BY <3>1, <3>2, <3>3, <3>4, Zenon DEF MessageSound, Unopened, Covered
  <2> QED
      BY <1>6, <2>1, <2>2, <2>3, Zenon DEF PassSound
<1> QED
    BY <1>4, <1>5, <1>6, Zenon DEF PassSound

\* Nothing is mailed or about to be mailed that was not, and nothing is opened again
\* that could have been: a notice is still mailed once.
LEMMA SentOnceKept ==
    ASSUME SentOnce, mail' = mail,
           \A e \in Dispatchers, n \in Notices : Sends(e, n)' => Sends(e, n),
           \A n \in Notices : Open(n)' => Open(n) \/ Unsent(n),
           \A e \in Dispatchers, n \in Notices : Returns(e, n)' => Returns(e, n) \/ Unsent(n)
    PROVE  SentOnce'
<1> SUFFICES ASSUME NEW n \in Notices
             PROVE  /\ Open(n)' => Unsent(n)'
                    /\ \A d \in Dispatchers : Returns(d, n)' => Unsent(n)'
                    /\ Len(mail'[n]) <= 1
                    /\ \A d \in Dispatchers : Sends(d, n)' => mail'[n] = << >>
                    /\ \A d, e \in Dispatchers : Sends(d, n)' /\ Sends(e, n)' => d = e
    BY Zenon DEF SentOnce
<1>1. Unsent(n) => Unsent(n)'
    BY Zenon DEF Unsent
<1>2. Open(n)' => Unsent(n)'
    BY <1>1, Zenon DEF SentOnce
<1>3. ASSUME NEW d \in Dispatchers, Returns(d, n)' PROVE Unsent(n)'
    BY <1>1, <1>3, Zenon DEF SentOnce
<1>4. /\ Len(mail'[n]) <= 1
      /\ \A d \in Dispatchers : Sends(d, n)' => mail'[n] = << >>
      /\ \A d, e \in Dispatchers : Sends(d, n)' /\ Sends(e, n)' => d = e
    BY Zenon DEF SentOnce
<1> QED
    BY <1>2, <1>3, <1>4, Zenon

\* The pass of one dispatcher moves on.
LEMMA PassMoves ==
    ASSUME EmailTypes, NEW d \in Dispatchers, NEW p \in Pass,
           emailPasses' = [emailPasses EXCEPT ![d] = p]
    PROVE  /\ emailPasses' \in [Dispatchers -> Pass] /\ emailPasses'[d] = p
           /\ \A e \in Dispatchers : e # d => emailPasses'[e] = emailPasses[e]
    BY Zenon DEF EmailTypes

\* A pass moves on without a message of its own, and gives up some of its deliveries.
\* Under at most once it opens no delivery that was mailed.
LEMMA ReleaseInv ==
    ASSUME EInv, NEW d \in Dispatchers, NEW p \in Pass, PassSound(d, p),
           p.at # "send", p.at # "settle",
           emailPasses' = [emailPasses EXCEPT ![d] = p],
           UNCHANGED <<guarantee, notices, keys, mail>>,
           NEW ids, NEW statuses, Releases(deliveries, deliveries', d, ids, statuses),
           guarantee = "AT_MOST_ONCE" =>
               \/ statuses \subseteq Final
               \/ \A n \in ids : n \in Notices /\ deliveries[n].owner = d => Unsent(n)
    PROVE  EInv' /\ FinalsKept
<1>0. /\ EmailTypes /\ guarantee' = guarantee /\ notices' = notices /\ keys' = keys /\ mail' = mail
      /\ NoOwner \notin Dispatchers
    BY EmailAssumption, Zenon DEF EInv
<1>1. /\ emailPasses' \in [Dispatchers -> Pass] /\ emailPasses'[d] = p
      /\ \A e \in Dispatchers : e # d => emailPasses'[e] = emailPasses[e]
    BY <1>0, PassMoves, Zenon
<1>2. /\ deliveries' \in [Notices -> Delivery]
      /\ \A n \in Notices :
            \/ deliveries'[n] = deliveries[n]
            \/ /\ n \in ids /\ deliveries[n].owner = d
               /\ Loosed(deliveries'[n]) /\ deliveries'[n].status \in statuses
    BY Zenon DEF Releases
<1>3. \A k, n : Made(k, n) => Made(k, n)'
    BY <1>0, Zenon DEF Made
<1>4. EmailTypes'
    BY <1>0, <1>1, <1>2, Zenon DEF EmailTypes
<1>5. ASSUME NEW n \in Notices PROVE RecordSound(deliveries[n], n)'
  <2>1. CASE deliveries'[n] = deliveries[n]
      BY <1>3, <2>1, Zenon DEF EInv, RecordSound
  <2>2. CASE Loosed(deliveries'[n])
    <3>1. deliveries'[n].status # "SENDING"
        BY <2>2, Zenon DEF Loosed, Released, Final
    <3> QED
        BY <2>2, <3>1, Zenon DEF Loosed, RecordSound
  <2> QED
      BY <1>2, <2>1, <2>2, Zenon
<1>6. FinalsKept
  <2> SUFFICES ASSUME NEW n \in Notices, deliveries[n].status \in Final
               PROVE  deliveries'[n] = deliveries[n]
      BY Zenon DEF FinalsKept
  <2>1. deliveries[n].owner = NoOwner
      BY Zenon DEF EInv, RecordSound
  <2> QED
      BY <1>0, <1>2, <2>1, Zenon
<1>7. ASSUME NEW e \in Dispatchers PROVE PassSound(e, emailPasses[e])'
  <2>1. PICK q \in Pass : q = emailPasses'[e]
      BY <1>1, Zenon
  <2>2. PassSound(e, q)
      BY <1>1, <2>1, Zenon DEF EInv
  <2>3. \A n \in Notices : deliveries'[n].owner = e =>
            deliveries[n].owner = e /\ deliveries'[n].status = deliveries[n].status
      BY <1>0, <1>2, Zenon DEF Loosed
  <2> QED
      BY <1>0, <1>3, <2>1, <2>2, <2>3, PassKept, Zenon
<1>8. MailCovered'
    BY <1>0, Zenon DEF EInv, MailCovered, Made
<1>9. ASSUME guarantee = "AT_MOST_ONCE" PROVE SentOnce'
  <2>1. SentOnce
      BY <1>9, Zenon DEF EInv
  <2>2. \A e \in Dispatchers, n \in Notices : Sends(e, n)' => Sends(e, n)
      BY <1>1, Zenon DEF Sends
  <2>3. ASSUME NEW n \in Notices, Open(n)' PROVE Open(n) \/ Unsent(n)
    <3>1. CASE deliveries'[n] = deliveries[n]
        BY <1>0, <2>3, <3>1, Zenon DEF Open
    <3>2. CASE /\ n \in ids /\ deliveries[n].owner = d
               /\ Loosed(deliveries'[n]) /\ deliveries'[n].status \in statuses
      <4>1. deliveries'[n].status \notin Final
          BY <2>3, <3>2, Zenon DEF Open, Final
      <4> QED
          BY <1>9, <3>2, <4>1, Zenon
    <3> QED
        BY <1>2, <3>1, <3>2, Zenon
  <2>4. ASSUME NEW e \in Dispatchers, NEW n \in Notices, Returns(e, n)' PROVE Returns(e, n)
    <3>1. e # d /\ emailPasses'[e] = emailPasses[e]
        BY <1>1, <2>4, Zenon DEF Returns
    <3>2. deliveries[n].owner = e
        BY <1>0, <1>2, <2>4, Zenon DEF Returns, Loosed
    <3> QED
        BY <2>4, <3>1, <3>2, Zenon DEF Returns
  <2> QED
      BY <1>0, <2>1, <2>2, <2>3, <2>4, SentOnceKept, Zenon
<1> QED
    BY <1>0, <1>4, <1>5, <1>6, <1>7, <1>8, <1>9, Zenon DEF EInv

(* Claims ***************************************************************)

\* A record that may be leased, or made.
Takeable(n) ==
    /\ ~deliveries[n].waiting
    /\ \/ deliveries[n].status \in {"SENDING", "CLAIMED", "RETRY"}
       \/ deliveries[n].status = "NONE" /\ notices[n] # "deleted"

\* A lease leaves a send in doubt and its key as they are.
LEMMA LeasedFacts ==
    ASSUME NEW r \in Delivery, NEW d \in Dispatchers, NEW q, q = LeasedTo(r, d)
    PROVE  /\ q \in Delivery /\ q.owner = d /\ q.batch = r.batch /\ q.waiting = r.waiting
           /\ r.status = "SENDING" => q.status = "SENDING"
           /\ r.status # "SENDING" => q.status = "CLAIMED"
<1>1. PICK status \in Released \cup {"SENDING"} :
            status = IF r.status = "SENDING" THEN r.status ELSE "CLAIMED"
    BY Zenon DEF Released
<1>2. q = [r EXCEPT !.status = status, !.owner = d, !.leased = TRUE]
    BY <1>1, Zenon DEF LeasedTo
<1>3. /\ q \in Delivery /\ q.owner = d /\ q.batch = r.batch /\ q.waiting = r.waiting
      /\ q.status = status
    BY ONLY <1>2, r \in Delivery, d \in Dispatchers, Zenon DEF Delivery
<1> QED
    BY <1>1, <1>3, Zenon

\* The pass over what it leased: every notice once, as a doubt or fresh.
PassOver(p, kept, records) ==
    /\ p \in Pass /\ p.at = "work" /\ p.group = {}
    /\ p.doubts \subseteq Candidate /\ p.fresh \subseteq Candidate
    /\ \A c \in p.doubts : /\ c.id \in kept /\ records[c.id].status = "SENDING"
                           /\ c = CandidateOf(c.id) /\ c.batch = deliveries[c.id].batch
    /\ \A c \in p.fresh : /\ c.id \in kept /\ records[c.id].status = "CLAIMED"
                          /\ c = CandidateOf(c.id)

\* Grouped makes such a pass.
LEMMA GroupedFacts ==
    ASSUME EmailTypes, NEW kept, kept \subseteq Notices, NEW records
    PROVE  PassOver(Grouped(kept, records), kept, records)
<1> DEFINE doubts == {CandidateOf(n) : n \in {m \in kept : records[m].status = "SENDING"}}
           fresh == {CandidateOf(n) : n \in {m \in kept : records[m].status = "CLAIMED"}}
<1>1. \A n \in Notices : /\ CandidateOf(n) \in Candidate /\ CandidateOf(n).id = n
                         /\ CandidateOf(n).batch = deliveries[n].batch
    BY DEF CandidateOf, Candidate, EmailTypes, Delivery
<1>2. doubts \subseteq Candidate /\ fresh \subseteq Candidate
    BY <1>1, Zenon
<1>3. /\ \A c \in doubts : /\ c.id \in kept /\ records[c.id].status = "SENDING"
                           /\ c = CandidateOf(c.id) /\ c.batch = deliveries[c.id].batch
      /\ \A c \in fresh : /\ c.id \in kept /\ records[c.id].status = "CLAIMED"
                          /\ c = CandidateOf(c.id)
  <2>1. ASSUME NEW c \in doubts
        PROVE  /\ c.id \in kept /\ records[c.id].status = "SENDING"
               /\ c = CandidateOf(c.id) /\ c.batch = deliveries[c.id].batch
    <3>1. PICK n \in kept : c = CandidateOf(n) /\ records[n].status = "SENDING"
        BY Zenon
    <3> QED
        BY <1>1, <3>1, Zenon
  <2>2. ASSUME NEW c \in fresh
        PROVE  c.id \in kept /\ records[c.id].status = "CLAIMED" /\ c = CandidateOf(c.id)
    <3>1. PICK n \in kept : c = CandidateOf(n) /\ records[n].status = "CLAIMED"
        BY Zenon
    <3> QED
        BY <1>1, <3>1, Zenon
  <2> QED
      BY <2>1, <2>2, Zenon
<1>p. PICK p : p = Grouped(kept, records)
    BY Zenon
<1>4. p = [IdlePass EXCEPT !.at = "work", !.claimed = kept, !.doubts = doubts, !.fresh = fresh]
    BY <1>p, Zenon DEF Grouped
<1> HIDE DEF doubts, fresh
<1>5. p = [at |-> "work", claimed |-> kept, doubts |-> doubts, fresh |-> fresh,
           group |-> {}, key |-> 0, answer |-> "none"]
    BY ONLY <1>4, Zenon DEF IdlePass
<1>6. /\ p.at = "work" /\ p.group = {} /\ p.doubts = doubts /\ p.fresh = fresh
      /\ p.claimed = kept
    BY ONLY <1>5
<1>7. p \in Pass
    BY ONLY <1>2, <1>5, kept \subseteq Notices DEF Pass
<1> QED
    BY <1>p, <1>2, <1>3, <1>6, <1>7, Zenon DEF PassOver

\* A dispatcher leases deliveries, or makes them, and goes on with some.
LEMMA ClaimInv ==
    ASSUME EInv, NEW d \in Dispatchers, NEW taken, taken \subseteq Notices,
           NEW kept, kept \subseteq taken,
           \A n \in taken : Takeable(n),
           deliveries' = [n \in Notices |-> IF n \in taken
                                            THEN LeasedTo(deliveries[n], d) ELSE deliveries[n]],
           emailPasses' = [emailPasses EXCEPT ![d] = Grouped(kept, deliveries')],
           UNCHANGED <<guarantee, notices, keys, mail>>
    PROVE  EInv' /\ FinalsKept
<1>0. /\ EmailTypes /\ guarantee' = guarantee /\ notices' = notices /\ keys' = keys /\ mail' = mail
    BY Zenon DEF EInv
<1>1. PICK p : p = Grouped(kept, deliveries')
    BY Zenon
<1>2. /\ p \in Pass /\ p.at = "work" /\ p.group = {}
      /\ p.doubts \subseteq Candidate /\ p.fresh \subseteq Candidate
      /\ \A c \in p.doubts : /\ c.id \in kept /\ deliveries'[c.id].status = "SENDING"
                             /\ c = CandidateOf(c.id) /\ c.batch = deliveries[c.id].batch
      /\ \A c \in p.fresh : /\ c.id \in kept /\ deliveries'[c.id].status = "CLAIMED"
                            /\ c = CandidateOf(c.id)
  <2>1. PassOver(p, kept, deliveries')
      BY <1>0, <1>1, GroupedFacts, Zenon
  <2> QED
      BY <2>1, Zenon DEF PassOver
<1>3. /\ emailPasses' \in [Dispatchers -> Pass] /\ emailPasses'[d] = p
      /\ \A e \in Dispatchers : e # d => emailPasses'[e] = emailPasses[e]
    BY <1>0, <1>1, <1>2, PassMoves, Zenon
<1>4. ASSUME NEW n \in taken
      PROVE  /\ deliveries'[n] \in Delivery /\ deliveries'[n].owner = d /\ ~deliveries'[n].waiting
             /\ deliveries'[n].batch = deliveries[n].batch
             /\ deliveries[n].status = "SENDING" => deliveries'[n].status = "SENDING"
             /\ deliveries[n].status # "SENDING" => deliveries'[n].status = "CLAIMED"
  <2>1. PICK r, q : r \in Delivery /\ r = deliveries[n] /\ q = deliveries'[n] /\ q = LeasedTo(r, d)
      BY <1>0, Zenon DEF EmailTypes
  <2>2. ~deliveries[n].waiting
      BY Zenon DEF Takeable
  <2> QED
      BY ONLY <2>1, <2>2, d \in Dispatchers, LeasedFacts
<1>5. \A n \in Notices : n \notin taken => deliveries'[n] = deliveries[n]
    BY Zenon
<1>6. \A k, n : Made(k, n) => Made(k, n)'
    BY <1>0, Zenon DEF Made
<1>7. EmailTypes'
  <2>1. \A n \in Notices : deliveries'[n] \in Delivery
      BY <1>0, <1>4, <1>5, Zenon DEF EmailTypes
  <2>2. deliveries' \in [Notices -> Delivery]
      BY <2>1, Zenon
  <2> QED
      BY <1>0, <1>3, <2>2, Zenon DEF EmailTypes
<1>8. \A n \in taken : deliveries'[n].status \notin Final /\ deliveries[n].status \notin Final
    BY <1>4, Zenon DEF Takeable, Final
<1>9. ASSUME NEW n \in Notices PROVE RecordSound(deliveries[n], n)'
  <2>1. RecordSound(deliveries[n], n)
      BY Zenon DEF EInv
  <2>2. CASE n \in taken
    <3>1. deliveries'[n].status = "SENDING" => deliveries[n].status = "SENDING"
        BY <1>4, <2>2, Zenon
    <3> QED
        BY <1>4, <1>6, <1>8, <2>1, <2>2, <3>1, Zenon DEF RecordSound
  <2>3. CASE n \notin taken
      BY <1>5, <1>6, <2>1, <2>3, Zenon DEF RecordSound
  <2> QED
      BY <2>2, <2>3, Zenon
<1>10. FinalsKept
    BY <1>5, <1>8, Zenon DEF FinalsKept
<1>11. ASSUME NEW e \in Dispatchers PROVE PassSound(e, emailPasses[e])'
  <2>1. CASE e # d
    <3>1. PICK q \in Pass : q = emailPasses'[e] /\ q = emailPasses[e]
        BY <1>3, <2>1, Zenon
    <3>2. \A n \in Notices : deliveries'[n].owner = e =>
              deliveries[n].owner = e /\ deliveries'[n].status = deliveries[n].status
        BY <1>4, <1>5, <2>1, Zenon
    <3>3. PassSound(e, q)
        BY <3>1, Zenon DEF EInv
    <3> QED
        BY <1>0, <1>6, <3>1, <3>2, <3>3, PassKept, Zenon
  <2>2. CASE e = d
    <3>1. Apart(p.doubts, p.fresh, p.group)
        BY <1>2, Zenon DEF Apart
    <3>2. \A c \in p.fresh : deliveries'[c.id].status = "CLAIMED"
        BY <1>2, Zenon
    <3>3. ASSUME NEW c \in p.doubts PROVE Made(c.batch, c.id)'
      <4>1. c.id \in taken /\ deliveries[c.id].status = "SENDING" /\ c.batch = deliveries[c.id].batch
          BY <1>2, <1>4, Zenon
      <4>2. Made(c.batch, c.id)
          BY <4>1, Zenon DEF EInv, RecordSound
      <4> QED
          BY <1>6, <4>2, Zenon
    <3>4. MessageSound(d, emailPasses[d])'
        BY <1>2, <1>3, Zenon DEF MessageSound
    <3>5. Unopened(d, emailPasses[d].fresh)'
        BY <1>3, <3>2, Zenon DEF Unopened
    <3>6. Apart(emailPasses[d].doubts, emailPasses[d].fresh, emailPasses[d].group)'
        BY ONLY <1>3, <3>1 DEF Apart
    <3> QED
        BY <1>2, <1>3, <2>2, <3>3, <3>4, <3>5, <3>6, Zenon DEF PassSound
  <2> QED
      BY <2>1, <2>2, Zenon
<1>12. MailCovered'
    BY <1>0, Zenon DEF EInv, MailCovered, Made
<1>13. ASSUME guarantee = "AT_MOST_ONCE" PROVE SentOnce'
  <2>1. SentOnce
      BY <1>13, Zenon DEF EInv
  <2>2. \A e \in Dispatchers, n \in Notices : Sends(e, n)' => Sends(e, n)
      BY <1>2, <1>3, Zenon DEF Sends
  <2>3. ASSUME NEW n \in Notices, Open(n)' PROVE Open(n)
    <3>1. CASE n \notin taken
        BY <1>0, <1>5, <2>3, <3>1, Zenon DEF Open
    <3>2. CASE n \in taken
      <4>1. deliveries'[n].status # "SENDING"
          BY <2>3, Zenon DEF Open
      <4> QED
          BY <1>4, <3>2, <4>1, Zenon DEF Takeable, Open
    <3> QED
        BY <3>1, <3>2, Zenon
  <2>4. ASSUME NEW e \in Dispatchers, NEW n \in Notices, Returns(e, n)' PROVE Returns(e, n)
    <3>1. e # d /\ emailPasses'[e] = emailPasses[e]
        BY <1>2, <1>3, <2>4, Zenon DEF Returns
    <3>2. n \notin taken
        BY <1>4, <2>4, <3>1, Zenon DEF Returns
    <3> QED
        BY <1>5, <2>4, <3>1, <3>2, Zenon DEF Returns
  <2> QED
      BY <1>0, <2>1, <2>2, <2>3, <2>4, SentOnceKept, Zenon
<1> QED
    BY <1>0, <1>7, <1>9, <1>10, <1>11, <1>12, <1>13, Zenon DEF EInv

\* ClaimEmails: in one step.
LEMMA ClaimEmailsInv ==
    ASSUME EInv, NEW d \in Dispatchers, ClaimEmails(d)
    PROVE  EInv' /\ FinalsKept
<1>1. ASSUME NEW n \in Notices, Claimable(n) PROVE Takeable(n)
  <2>1. deliveries[n].waiting => deliveries[n].status = "RETRY"
      BY Zenon DEF EInv, RecordSound
  <2> QED
      BY ONLY <1>1, <2>1 DEF Claimable, Takeable, Lapsed
<1>2. PICK taken : taken = DueEmails
    BY Zenon
<1>3. taken \subseteq Notices /\ \A n \in taken : Takeable(n)
    BY <1>1, <1>2, Zenon DEF DueEmails
<1>4. /\ deliveries' = [n \in Notices |-> IF n \in taken
                                          THEN LeasedTo(deliveries[n], d) ELSE deliveries[n]]
      /\ emailPasses' = [emailPasses EXCEPT ![d] = Grouped(taken, deliveries')]
      /\ UNCHANGED <<guarantee, notices, keys, mail>>
    BY <1>2, Zenon DEF ClaimEmails
<1> QED
    BY <1>3, <1>4, ClaimInv, Zenon

\* ClaimedEmails: what the store inserted or took over in the end.
LEMMA ClaimedEmailsInv ==
    ASSUME EInv, NEW d \in Dispatchers, ClaimedEmails(d)
    PROVE  EInv' /\ FinalsKept
<1>1. PICK fresh, doubts : fresh = emailPasses[d].fresh /\ doubts = emailPasses[d].doubts
    BY Zenon
<1>2. fresh \subseteq Notices /\ doubts \subseteq Notices
  <2>1. emailPasses[d].at = "claim" /\ PassSound(d, emailPasses[d])
      BY Zenon DEF ClaimedEmails, EInv
  <2> QED
      BY <1>1, <2>1, Zenon DEF PassSound
<1>3. PICK taken : taken = InsertDeliveries(fresh) \cup TakeOverDeliveries(doubts)
    BY Zenon
<1>4. ASSUME NEW n \in Notices,
             \/ deliveries[n].status = "NONE" /\ notices[n] # "deleted"
             \/ deliveries[n].status # "NONE" /\ Lapsed(deliveries[n])
      PROVE  Takeable(n)
  <2>1. deliveries[n].waiting => deliveries[n].status = "RETRY"
      BY Zenon DEF EInv, RecordSound
  <2> QED
      BY ONLY <1>4, <2>1 DEF Takeable, Lapsed
<1>5. taken \subseteq Notices /\ \A n \in taken : Takeable(n)
    BY <1>2, <1>3, <1>4, Zenon DEF InsertDeliveries, TakeOverDeliveries
<1>6. PICK kept : kept = {n \in taken : notices[n] # "deleted"} /\ kept \subseteq taken
    BY Zenon
<1>7. /\ deliveries' = [n \in Notices |-> IF n \in taken
                                          THEN LeasedTo(deliveries[n], d) ELSE deliveries[n]]
      /\ emailPasses' = [emailPasses EXCEPT ![d] = Grouped(kept, deliveries')]
      /\ UNCHANGED <<guarantee, notices, keys, mail>>
    BY <1>1, <1>3, <1>6, Zenon DEF ClaimedEmails
<1> QED
    BY <1>5, <1>6, <1>7, ClaimInv, Zenon

\* A dispatcher between two passes.
LEMMA IdleFacts == IdlePass \in Pass /\ IdlePass.at = "idle"
    BY DEF IdlePass, Pass

\* A pass moves on and writes nothing.
LEMMA WritelessInv ==
    ASSUME EInv, NEW d \in Dispatchers, NEW p \in Pass, PassSound(d, p),
           p.at # "send", p.at # "settle",
           emailPasses' = [emailPasses EXCEPT ![d] = p],
           UNCHANGED <<guarantee, notices, deliveries, keys, mail>>
    PROVE  EInv' /\ FinalsKept
<1>1. deliveries \in [Notices -> Delivery] /\ deliveries' = deliveries
      /\ UNCHANGED <<guarantee, notices, keys, mail>>
    BY Zenon DEF EInv, EmailTypes
<1>2. Releases(deliveries, deliveries', d, {}, {})
    BY <1>1, ReleasesNone, Zenon
<1> QED
    BY <1>1, <1>2, ReleaseInv, Zenon

\* SelectDue: what is due is noted, not leased.
LEMMA SelectDueInv ==
    ASSUME EInv, NEW d \in Dispatchers, SelectDue(d)
    PROVE  EInv' /\ FinalsKept
<1>1. PICK doubts, fresh : /\ doubts = {n \in DueEmails : deliveries[n].status # "NONE"}
                           /\ fresh = {n \in DueEmails : deliveries[n].status = "NONE"}
    BY Zenon
<1>2. doubts \subseteq Notices /\ fresh \subseteq Notices
    BY <1>1, Zenon DEF DueEmails
<1>3. PICK p : p = [IdlePass EXCEPT !.at = "claim", !.doubts = doubts, !.fresh = fresh]
    BY Zenon
<1>4. p \in Pass /\ p.at = "claim" /\ p.doubts = doubts /\ p.fresh = fresh
    BY ONLY <1>2, <1>3, Zenon DEF IdlePass, Pass
<1>5. emailPasses' = [emailPasses EXCEPT ![d] = p]
      /\ UNCHANGED <<guarantee, notices, deliveries, keys, mail>>
    BY <1>1, <1>3, Zenon DEF SelectDue
<1>6. PassSound(d, p)
    BY <1>2, <1>4, Zenon DEF PassSound
<1> QED
    BY <1>4, <1>5, <1>6, WritelessInv, Zenon

\* Stop: the leases stay behind.
LEMMA StopInv ==
    ASSUME EInv, NEW d \in Dispatchers, Stop(d)
    PROVE  EInv' /\ FinalsKept
<1>1. PICK p \in Pass : p = IdlePass /\ p.at = "idle"
    BY IdleFacts, Zenon
<1>2. emailPasses' = [emailPasses EXCEPT ![d] = p]
      /\ UNCHANGED <<guarantee, notices, deliveries, keys, mail>>
    BY <1>1, Zenon DEF Stop
<1>3. PassSound(d, p)
    BY <1>1, Zenon DEF PassSound
<1> QED
    BY <1>1, <1>2, <1>3, WritelessInv, Zenon

(* Messages *************************************************************)

\* Parts of a pass are apart as the whole is, a message taken out of it included.
LEMMA ApartParts ==
    ASSUME NEW D, NEW F, NEW G, Apart(D, F, G), NEW doubts, NEW fresh, NEW group,
           doubts \subseteq D, fresh \subseteq F, group \subseteq D \cup F \cup G,
           group \cap (doubts \cup fresh) = {}
    PROVE  Apart(doubts, fresh, group)
<1>1. ASSUME NEW b \in doubts \cup fresh \cup group, NEW c \in doubts \cup fresh \cup group,
             b.id = c.id
      PROVE  b = c
  <2>1. b \in D \cup F \cup G /\ c \in D \cup F \cup G
      BY Zenon
  <2> QED
      BY <1>1, <2>1, Zenon DEF Apart
<1>2. doubts \cap fresh = {}
    BY Zenon DEF Apart
<1> QED
    BY <1>1, <1>2, Zenon DEF Apart

\* What is known of a pass between two messages.
LEMMA WorkFacts ==
    ASSUME EInv, NEW d \in Dispatchers, NEW p, p = emailPasses[d], p.at = "work"
    PROVE  /\ p \in Pass /\ p.doubts \subseteq Candidate /\ p.fresh \subseteq Candidate
           /\ Apart(p.doubts, p.fresh, p.group)
           /\ Unopened(d, p.fresh)
           /\ \A c \in p.doubts : Made(c.batch, c.id)
<1>1. p \in Pass /\ PassSound(d, p)
    BY Zenon DEF EInv, EmailTypes
<1> QED
    BY <1>1, Zenon DEF PassSound

\* A pass that has less before it.
LEMMA RestSound ==
    ASSUME EInv, NEW d \in Dispatchers, emailPasses[d].at = "work", NEW rest, rest.at = "work",
           rest.doubts \subseteq emailPasses[d].doubts, rest.fresh \subseteq emailPasses[d].fresh,
           rest.group = emailPasses[d].group
    PROVE  PassSound(d, rest)
<1>1. PICK p : p = emailPasses[d]
    BY Zenon
<1>2. /\ p.at = "work" /\ rest.doubts \subseteq p.doubts /\ rest.fresh \subseteq p.fresh
      /\ rest.group = p.group
    BY <1>1, Zenon
<1>3. /\ p.doubts \subseteq Candidate /\ p.fresh \subseteq Candidate
      /\ Apart(p.doubts, p.fresh, p.group)
      /\ Unopened(d, p.fresh)
      /\ \A c \in p.doubts : Made(c.batch, c.id)
    BY <1>1, <1>2, WorkFacts, Zenon
<1>4. p.group \cap (rest.doubts \cup rest.fresh) = {}
    BY <1>2, <1>3, Zenon DEF Apart
<1>5. Apart(rest.doubts, rest.fresh, rest.group)
  <2>1. rest.group \subseteq p.doubts \cup p.fresh \cup p.group
      BY <1>2, Zenon
  <2>2. rest.group \cap (rest.doubts \cup rest.fresh) = {}
      BY <1>2, <1>4, Zenon
  <2> QED
      BY ONLY <1>2, <1>3, <2>1, <2>2, ApartParts
<1>6. Unopened(d, rest.fresh)
    BY <1>2, <1>3, Zenon DEF Unopened
<1>7. MessageSound(d, rest)
    BY Zenon DEF MessageSound
<1> QED
    BY <1>2, <1>3, <1>5, <1>6, <1>7, Zenon DEF PassSound

\* A pass moves on, and its write is accepted or refused.
LEMMA WritesInv ==
    ASSUME EInv, NEW d \in Dispatchers, NEW p \in Pass, PassSound(d, p),
           p.at # "send", p.at # "settle",
           emailPasses' = [emailPasses EXCEPT ![d] = p],
           UNCHANGED <<guarantee, notices, keys, mail>>,
           NEW records, NEW failures, Writes(records, failures),
           NEW ids, NEW statuses, Releases(deliveries, records, d, ids, statuses),
           guarantee = "AT_MOST_ONCE" =>
               \/ statuses \subseteq Final
               \/ \A n \in ids : n \in Notices /\ deliveries[n].owner = d => Unsent(n)
    PROVE  EInv' /\ FinalsKept
<1>1. CASE deliveries' = records
  <2>1. Releases(deliveries, deliveries', d, ids, statuses)
      BY <1>1, Zenon
  <2> QED
      BY <2>1, ReleaseInv, Zenon
<1>2. CASE deliveries' = deliveries
    BY <1>2, WritelessInv, Zenon
<1> QED
    BY <1>1, <1>2, Zenon DEF Writes

\* Prepare: the deliveries of a message are given up or the message is to be recorded.
LEMMA PrepareInv ==
    ASSUME EInv, NEW d \in Dispatchers, NEW pass \in Pass, pass.at = "work", PassSound(d, pass),
           NEW group, group \subseteq Candidate, NEW key \in Nat,
           Apart(pass.doubts, pass.fresh, group),
           key = 0 => Unopened(d, group),
           key # 0 => guarantee = "AT_LEAST_ONCE" /\ Covered(key, group),
           NEW ids, Ids(group) \subseteq ids,
           NEW records, Releases(deliveries, records, d, ids, Released),
           guarantee = "AT_MOST_ONCE" =>
               \A n \in ids : n \in Notices /\ deliveries[n].owner = d => Unsent(n),
           NEW failures, Prepare(d, pass, group, key, records, failures),
           UNCHANGED <<guarantee, notices, keys, mail>>
    PROVE  EInv' /\ FinalsKept
<1>1. PICK unread \in SUBSET group :
        LET known == group \ unread
            live == StillActive(known)
            kept == Settled(Retried(records, d, unread, TRUE), d, known \ live, "SKIPPED")
        IN \/ /\ emailPasses' = [emailPasses EXCEPT ![d] = pass]
              /\ deliveries' = kept
           \/ /\ emailPasses' = [emailPasses EXCEPT ![d] = pass]
              /\ deliveries' = Settled(kept, d, live, "FAILED")
           \/ /\ emailPasses' = [emailPasses EXCEPT ![d] =
                     [pass EXCEPT !.at = "record", !.group = live, !.key = key]]
              /\ deliveries' = kept
    BY Zenon DEF Prepare
<1>2. PICK live, skipped : /\ live = StillActive(group \ unread)
                           /\ skipped = (group \ unread) \ live
    BY Zenon
<1>3. live \subseteq group /\ skipped \subseteq group /\ unread \subseteq group
    BY <1>2, Zenon DEF StillActive
<1>4. PICK retried, kept : /\ retried = Retried(records, d, unread, TRUE)
                           /\ kept = Settled(retried, d, skipped, "SKIPPED")
    BY Zenon
<1>5. \/ /\ emailPasses' = [emailPasses EXCEPT ![d] = pass]
         /\ deliveries' = kept \/ deliveries' = Settled(kept, d, live, "FAILED")
      \/ /\ emailPasses' = [emailPasses EXCEPT ![d] =
                [pass EXCEPT !.at = "record", !.group = live, !.key = key]]
         /\ deliveries' = kept
    BY <1>1, <1>2, <1>4, Zenon
<1>6. Ids(live) \subseteq ids /\ Ids(skipped) \subseteq ids /\ Ids(unread) \subseteq ids
    BY <1>3, Zenon DEF Ids
<1>7. "SKIPPED" \in Released /\ "FAILED" \in Released
      /\ {"SKIPPED"} \subseteq Released /\ {"FAILED"} \subseteq Released
    BY Zenon DEF Released, Final
<1>8. records \in [Notices -> Delivery]
    BY Zenon DEF Releases
<1>9. Releases(deliveries, kept, d, ids, Released) /\ kept \in [Notices -> Delivery]
  <2>1. Releases(records, retried, d, Ids(unread), Released)
      BY <1>4, <1>8, RetriedReleases, Zenon
  <2>2. retried \in [Notices -> Delivery]
      BY <2>1, Zenon DEF Releases
  <2>3. Releases(retried, kept, d, Ids(skipped), {"SKIPPED"})
      BY <1>4, <1>7, <2>2, SettledReleases, Zenon
  <2>4. Releases(records, retried, d, ids, Released)
      BY ONLY <1>6, <2>1, ReleasesMore
  <2>5. Releases(retried, kept, d, ids, Released)
      BY ONLY <1>6, <1>7, <2>3, ReleasesMore
  <2>6. Releases(records, kept, d, ids, Released)
      BY <2>4, <2>5, ReleasesCompose, Zenon
  <2>7. Releases(deliveries, kept, d, ids, Released)
      BY <2>6, ReleasesCompose, Zenon
  <2> QED
      BY <2>7, Zenon DEF Releases
<1>10. Releases(deliveries, deliveries', d, ids, Released)
  <2>1. CASE deliveries' = kept
      BY <1>9, <2>1, Zenon
  <2>2. CASE deliveries' = Settled(kept, d, live, "FAILED")
    <3>1. PICK failed : failed = Settled(kept, d, live, "FAILED") /\ failed = deliveries'
        BY <2>2, Zenon
    <3>2. Releases(kept, failed, d, Ids(live), {"FAILED"})
        BY <1>7, <1>9, <3>1, SettledReleases, Zenon
    <3>3. Releases(kept, failed, d, ids, Released)
        BY ONLY <1>6, <1>7, <3>2, ReleasesMore
    <3>4. Releases(deliveries, failed, d, ids, Released)
        BY <1>9, <3>3, ReleasesCompose, Zenon
    <3> QED
        BY <3>1, <3>4, Zenon
  <2> QED
      BY <1>5, <2>1, <2>2, Zenon
<1>11. PICK p \in Pass : /\ emailPasses' = [emailPasses EXCEPT ![d] = p]
                         /\ PassSound(d, p) /\ p.at \in {"work", "record"}
  <2>1. CASE emailPasses' = [emailPasses EXCEPT ![d] = pass]
      BY <2>1, Zenon
  <2>2. CASE emailPasses' = [emailPasses EXCEPT ![d] =
                [pass EXCEPT !.at = "record", !.group = live, !.key = key]]
    <3>1. PICK p : p = [pass EXCEPT !.at = "record", !.group = live, !.key = key]
        BY Zenon
    <3>2. live \subseteq Candidate
        BY <1>3, Zenon
    <3>3. /\ p \in Pass /\ p.at = "record" /\ p.group = live /\ p.key = key
          /\ p.doubts = pass.doubts /\ p.fresh = pass.fresh
        BY ONLY <3>1, <3>2, pass \in Pass, key \in Nat, Zenon DEF Pass
    <3>4. Apart(p.doubts, p.fresh, p.group)
      <4>1. /\ live \subseteq pass.doubts \cup pass.fresh \cup group
            /\ live \cap (pass.doubts \cup pass.fresh) = {}
          BY <1>3, Zenon DEF Apart
      <4>2. Apart(pass.doubts, pass.fresh, live)
          BY ONLY <4>1, Apart(pass.doubts, pass.fresh, group), ApartParts
      <4> QED
          BY <3>3, <4>2, Zenon
    <3>5. /\ p.doubts \subseteq Candidate /\ p.fresh \subseteq Candidate /\ Unopened(d, p.fresh)
          /\ \A c \in p.doubts : Made(c.batch, c.id)
        BY <3>3, Zenon DEF PassSound
    <3>6. MessageSound(d, p)
        BY <1>3, <3>3, Zenon DEF MessageSound, Unopened, Covered
    <3>7. PassSound(d, p)
        BY <3>3, <3>4, <3>5, <3>6, Zenon DEF PassSound
    <3> QED
        BY <2>2, <3>1, <3>3, <3>7, Zenon
  <2> QED
      BY <1>5, <2>1, <2>2, Zenon
<1> QED
    BY <1>10, <1>11, ReleaseInv, Zenon

\* What a pass has still open of its fresh deliveries was not mailed.
LEMMA FreshUnsent ==
    ASSUME EInv, guarantee = "AT_MOST_ONCE", NEW d \in Dispatchers, NEW candidates,
           Unopened(d, candidates),
           NEW n \in Ids(candidates), n \in Notices, deliveries[n].owner = d
    PROVE  Unsent(n)
<1>1. deliveries[n].status = "CLAIMED"
    BY Zenon DEF Ids, Unopened
<1>2. Open(n)
    BY <1>1, Zenon DEF Open
<1> QED
    BY <1>2, Zenon DEF EInv, SentOnce

\* ResolveDoubt: the doubts of one key.
LEMMA ResolveDoubtInv ==
    ASSUME EInv, NEW d \in Dispatchers, ResolveDoubt(d)
    PROVE  EInv' /\ FinalsKept
<1>1. PICK p : p = emailPasses[d] /\ p.at = "work"
    BY Zenon DEF ResolveDoubt
<1>2. /\ p \in Pass /\ p.doubts \subseteq Candidate /\ p.fresh \subseteq Candidate
      /\ Apart(p.doubts, p.fresh, p.group)
      /\ Unopened(d, p.fresh)
      /\ \A c \in p.doubts : Made(c.batch, c.id)
    BY <1>1, WorkFacts, Zenon
<1>3. PICK key, group, rest :
        /\ key \in {c.batch : c \in p.doubts}
        /\ group = {c \in p.doubts : c.batch = key}
        /\ rest = [p EXCEPT !.doubts = p.doubts \ group]
        /\ \/ /\ guarantee = "AT_MOST_ONCE"
              /\ emailPasses' = [emailPasses EXCEPT ![d] = rest]
              /\ Writes(Settled(deliveries, d, group, "ABANDONED"), 0)
           \/ /\ guarantee = "AT_LEAST_ONCE"
              /\ emailPasses' = [emailPasses EXCEPT ![d] = rest]
              /\ Writes(deliveries, 1)
           \/ /\ guarantee = "AT_LEAST_ONCE"
              /\ emailPasses' = [emailPasses EXCEPT ![d] = rest]
              /\ Writes(Settled(deliveries, d, group, "SKIPPED"), 0)
           \/ guarantee = "AT_LEAST_ONCE" /\ Prepare(d, rest, group, key, deliveries, 0)
    BY <1>1, Zenon DEF ResolveDoubt
<1>4. UNCHANGED <<guarantee, notices, keys, mail>>
    BY Zenon DEF ResolveDoubt
<1>5. key \in Nat /\ group \subseteq p.doubts /\ group \subseteq Candidate
    BY <1>2, <1>3, Zenon DEF Candidate
<1>6. Covered(key, group)
    BY <1>2, <1>3, Zenon DEF Covered
<1>7. /\ rest \in Pass /\ rest.at = "work" /\ rest.doubts = p.doubts \ group
      /\ rest.fresh = p.fresh /\ rest.group = p.group
  <2>1. PICK doubts \in SUBSET (Notices \cup Candidate) : doubts = p.doubts \ group
      BY <1>2, Zenon
  <2>2. rest = [p EXCEPT !.doubts = doubts]
      BY <1>3, <2>1, Zenon
  <2>3. /\ rest \in Pass /\ rest.at = p.at /\ rest.doubts = doubts /\ rest.fresh = p.fresh
        /\ rest.group = p.group
      BY ONLY <1>2, <2>2, doubts \in SUBSET (Notices \cup Candidate) DEF Pass
  <2> QED
      BY <1>1, <2>1, <2>3, Zenon
<1>8. PassSound(d, rest)
    BY <1>1, <1>7, RestSound, Zenon
<1>9. deliveries \in [Notices -> Delivery] /\ guarantee \in Guarantees
    BY Zenon DEF EInv, EmailTypes
<1>10. "ABANDONED" \in Released /\ "SKIPPED" \in Released /\ {"ABANDONED"} \subseteq Final
    BY Zenon DEF Released, Final
<1>11. CASE /\ guarantee = "AT_MOST_ONCE"
            /\ emailPasses' = [emailPasses EXCEPT ![d] = rest]
            /\ Writes(Settled(deliveries, d, group, "ABANDONED"), 0)
  <2>1. Releases(deliveries, Settled(deliveries, d, group, "ABANDONED"), d, Ids(group), {"ABANDONED"})
      BY <1>9, <1>10, SettledReleases, Zenon
  <2> QED
      BY <1>4, <1>7, <1>8, <1>10, <1>11, <2>1, WritesInv, Zenon
<1>12. CASE /\ guarantee = "AT_LEAST_ONCE"
            /\ emailPasses' = [emailPasses EXCEPT ![d] = rest]
            /\ Writes(deliveries, 1)
  <2>1. UNCHANGED <<guarantee, notices, deliveries, keys, mail>>
      BY <1>4, <1>12, Zenon DEF Writes
  <2> QED
      BY <1>7, <1>8, <1>12, <2>1, WritelessInv, Zenon
<1>13. CASE /\ guarantee = "AT_LEAST_ONCE"
            /\ emailPasses' = [emailPasses EXCEPT ![d] = rest]
            /\ Writes(Settled(deliveries, d, group, "SKIPPED"), 0)
  <2>1. Releases(deliveries, Settled(deliveries, d, group, "SKIPPED"), d, Ids(group), {"SKIPPED"})
      BY <1>9, <1>10, SettledReleases, Zenon
  <2> QED
      BY <1>4, <1>7, <1>8, <1>13, <2>1, WritesInv, Zenon
<1>14. CASE guarantee = "AT_LEAST_ONCE" /\ Prepare(d, rest, group, key, deliveries, 0)
  <2>1. Apart(rest.doubts, rest.fresh, group)
    <3>1. /\ rest.doubts \subseteq p.doubts /\ rest.fresh \subseteq p.fresh
          /\ group \subseteq p.doubts \cup p.fresh \cup p.group
          /\ group \cap (rest.doubts \cup rest.fresh) = {}
        BY <1>2, <1>5, <1>7, Zenon DEF Apart
    <3> QED
        BY ONLY <1>2, <3>1, ApartParts
  <2>2. Releases(deliveries, deliveries, d, Ids(group), Released)
      BY <1>9, ReleasesNone, Zenon
  <2>3. key # 0
    <3>1. PICK c \in p.doubts : key = c.batch
        BY <1>3, Zenon
    <3>2. key \in DOMAIN keys /\ keys \in Seq(SUBSET Notices)
        BY <1>2, <3>1, Zenon DEF Made, EInv, EmailTypes
    <3> QED
        BY ONLY <3>2
  <2> QED
      BY <1>4, <1>5, <1>6, <1>7, <1>8, <1>14, <2>1, <2>2, <2>3, PrepareInv, Zenon
<1> QED
    BY <1>3, <1>11, <1>12, <1>13, <1>14, Zenon

\* DeliverTo: the fresh deliveries of one recipient.
LEMMA DeliverToInv ==
    ASSUME EInv, NEW d \in Dispatchers, DeliverTo(d)
    PROVE  EInv' /\ FinalsKept
<1>1. PICK p : p = emailPasses[d] /\ p.at = "work"
    BY Zenon DEF DeliverTo
<1>2. /\ p \in Pass /\ p.doubts \subseteq Candidate /\ p.fresh \subseteq Candidate
      /\ Apart(p.doubts, p.fresh, p.group)
      /\ Unopened(d, p.fresh)
    BY <1>1, WorkFacts, Zenon
<1>a. PICK r : LET group == {c \in emailPasses[d].fresh : RecipientOf[c.id] = r}
                   rest == [emailPasses[d] EXCEPT !.fresh = @ \ group]
               IN \E unsure \in SUBSET group : \E rejected \in SUBSET (group \ unsure) :
                    LET selected == group \ (unsure \cup rejected)
                        failures == Cardinality(unsure)
                        filtered == Settled(Retried(deliveries, d, unsure, TRUE), d, rejected, "SKIPPED")
                        chosen == Batched(d, selected)
                    IN \/ /\ emailPasses' = [emailPasses EXCEPT ![d] = rest]
                          /\ Writes(Retried(filtered, d, selected, TRUE), failures + 1)
                       \/ /\ emailPasses' = [emailPasses EXCEPT ![d] = rest]
                          /\ Writes(Settled(filtered, d, selected, "SKIPPED"), failures)
                       \/ Prepare(d, rest, chosen, 0,
                                  Settled(filtered, d, selected \ chosen, "CLAIMED"), failures)
    BY Zenon DEF DeliverTo
<1>b. PICK group, rest : /\ group = {c \in emailPasses[d].fresh : RecipientOf[c.id] = r}
                         /\ rest = [emailPasses[d] EXCEPT !.fresh = @ \ group]
    BY Zenon
<1>c. PICK unsure, rejected :
        /\ unsure \subseteq group /\ rejected \subseteq group \ unsure
        /\ LET selected == group \ (unsure \cup rejected)
               failures == Cardinality(unsure)
               filtered == Settled(Retried(deliveries, d, unsure, TRUE), d, rejected, "SKIPPED")
               chosen == Batched(d, selected)
           IN \/ /\ emailPasses' = [emailPasses EXCEPT ![d] = rest]
                 /\ Writes(Retried(filtered, d, selected, TRUE), failures + 1)
              \/ /\ emailPasses' = [emailPasses EXCEPT ![d] = rest]
                 /\ Writes(Settled(filtered, d, selected, "SKIPPED"), failures)
              \/ Prepare(d, rest, chosen, 0,
                         Settled(filtered, d, selected \ chosen, "CLAIMED"), failures)
    BY <1>a, <1>b, Zenon
<1>d. PICK selected, chosen, failures, filtered :
        /\ selected = group \ (unsure \cup rejected) /\ chosen = Batched(d, selected)
        /\ failures = Cardinality(unsure)
        /\ filtered = Settled(Retried(deliveries, d, unsure, TRUE), d, rejected, "SKIPPED")
    BY Zenon
<1>e. \/ /\ emailPasses' = [emailPasses EXCEPT ![d] = rest]
         /\ Writes(Retried(filtered, d, selected, TRUE), failures + 1)
      \/ /\ emailPasses' = [emailPasses EXCEPT ![d] = rest]
         /\ Writes(Settled(filtered, d, selected, "SKIPPED"), failures)
      \/ Prepare(d, rest, chosen, 0,
                 Settled(filtered, d, selected \ chosen, "CLAIMED"), failures)
    BY <1>c, <1>d, Zenon
<1>3. /\ group \subseteq p.fresh /\ unsure \subseteq group /\ rejected \subseteq group
      /\ selected \subseteq group /\ chosen \subseteq selected
    BY <1>1, <1>b, <1>c, <1>d, Zenon DEF Batched
<1>4. UNCHANGED <<guarantee, notices, keys, mail>>
    BY Zenon DEF DeliverTo
<1>5. /\ rest \in Pass /\ rest.at = "work" /\ rest.doubts = p.doubts
      /\ rest.fresh = p.fresh \ group /\ rest.group = p.group
  <2>1. PICK fresh \in SUBSET (Notices \cup Candidate) : fresh = p.fresh \ group
      BY <1>2, Zenon
  <2>2. rest = [p EXCEPT !.fresh = fresh]
      BY <1>1, <1>b, <2>1, Zenon
  <2>3. /\ rest \in Pass /\ rest.at = p.at /\ rest.doubts = p.doubts /\ rest.fresh = fresh
        /\ rest.group = p.group
      BY ONLY <1>2, <2>2, fresh \in SUBSET (Notices \cup Candidate) DEF Pass
  <2> QED
      BY <1>1, <2>1, <2>3, Zenon
<1>6. PassSound(d, rest)
    BY <1>1, <1>5, RestSound, Zenon
<1>7. PICK ids : ids = Ids(p.fresh)
    BY Zenon
<1>8. \A cs : cs \subseteq p.fresh => Ids(cs) \subseteq ids
    BY <1>7, Zenon DEF Ids
<1>9. guarantee = "AT_MOST_ONCE" =>
          \A n \in ids : n \in Notices /\ deliveries[n].owner = d => Unsent(n)
    BY <1>2, <1>7, FreshUnsent, Zenon
<1>10. deliveries \in [Notices -> Delivery]
    BY Zenon DEF EInv, EmailTypes
<1>11. /\ "CLAIMED" \in Released /\ "SKIPPED" \in Released
       /\ {"CLAIMED"} \subseteq Released /\ {"SKIPPED"} \subseteq Released
    BY Zenon DEF Released, Final
<1>12. ASSUME NEW records, Releases(deliveries, records, d, ids, Released),
              NEW cs, cs \subseteq p.fresh, NEW status \in {"CLAIMED", "SKIPPED"}
       PROVE  Releases(deliveries, Settled(records, d, cs, status), d, ids, Released)
  <2>1. records \in [Notices -> Delivery] /\ status \in Released /\ {status} \subseteq Released
      BY <1>11, <1>12, Zenon DEF Releases
  <2>2. Releases(records, Settled(records, d, cs, status), d, Ids(cs), {status})
      BY <2>1, SettledReleases, Zenon
  <2>3. Ids(cs) \subseteq ids
      BY <1>8, <1>12, Zenon
  <2>4. Releases(records, Settled(records, d, cs, status), d, ids, Released)
      BY ONLY <2>1, <2>2, <2>3, ReleasesMore
  <2> QED
      BY <1>12, <2>4, ReleasesCompose, Zenon
<1>13. ASSUME NEW records, Releases(deliveries, records, d, ids, Released),
              NEW cs, cs \subseteq p.fresh
       PROVE  Releases(deliveries, Retried(records, d, cs, TRUE), d, ids, Released)
  <2>1. records \in [Notices -> Delivery] /\ Released \subseteq Released
      BY <1>13, Zenon DEF Releases
  <2>2. Releases(records, Retried(records, d, cs, TRUE), d, Ids(cs), Released)
      BY <2>1, RetriedReleases, Zenon
  <2>3. Ids(cs) \subseteq ids
      BY <1>8, <1>13, Zenon
  <2>4. Releases(records, Retried(records, d, cs, TRUE), d, ids, Released)
      BY ONLY <2>1, <2>2, <2>3, ReleasesMore, Zenon
  <2> QED
      BY <1>13, <2>4, ReleasesCompose, Zenon
<1>14. /\ unsure \subseteq p.fresh /\ rejected \subseteq p.fresh /\ selected \subseteq p.fresh
       /\ selected \ chosen \subseteq p.fresh /\ chosen \subseteq p.fresh /\ chosen \subseteq group
    BY <1>3, Zenon
<1>15. Releases(deliveries, filtered, d, ids, Released)
  <2>1. Releases(deliveries, deliveries, d, ids, Released)
      BY <1>10, ReleasesNone, Zenon
  <2>2. Releases(deliveries, Retried(deliveries, d, unsure, TRUE), d, ids, Released)
      BY <1>13, <1>14, <2>1, Zenon
  <2> QED
      BY <1>d, <1>12, <1>14, <2>2, Zenon
<1>16. CASE /\ emailPasses' = [emailPasses EXCEPT ![d] = rest]
            /\ Writes(Retried(filtered, d, selected, TRUE), failures + 1)
  <2>1. PICK records, n : /\ records = Retried(filtered, d, selected, TRUE) /\ Writes(records, n)
      BY <1>16, Zenon
  <2>2. Releases(deliveries, records, d, ids, Released)
      BY <1>13, <1>14, <1>15, <2>1, Zenon
  <2> QED
      BY <1>4, <1>5, <1>6, <1>9, <1>16, <2>1, <2>2, WritesInv, Zenon
<1>17. CASE /\ emailPasses' = [emailPasses EXCEPT ![d] = rest]
            /\ Writes(Settled(filtered, d, selected, "SKIPPED"), failures)
  <2>1. PICK records : /\ records = Settled(filtered, d, selected, "SKIPPED")
                       /\ Writes(records, failures)
      BY <1>17, Zenon
  <2>2. Releases(deliveries, records, d, ids, Released)
      BY <1>12, <1>14, <1>15, <2>1, Zenon
  <2> QED
      BY <1>4, <1>5, <1>6, <1>9, <1>17, <2>1, <2>2, WritesInv, Zenon
<1>18. CASE Prepare(d, rest, chosen, 0,
                    Settled(filtered, d, selected \ chosen, "CLAIMED"), failures)
  <2>1. PICK records : /\ records = Settled(filtered, d, selected \ chosen, "CLAIMED")
                       /\ Prepare(d, rest, chosen, 0, records, failures)
      BY <1>18, Zenon
  <2>2. Releases(deliveries, records, d, ids, Released)
      BY <1>12, <1>14, <1>15, <2>1, Zenon
  <2>3. Apart(rest.doubts, rest.fresh, chosen)
    <3>1. /\ rest.doubts \subseteq p.doubts /\ rest.fresh \subseteq p.fresh
          /\ chosen \subseteq p.doubts \cup p.fresh \cup p.group
          /\ chosen \cap (rest.doubts \cup rest.fresh) = {}
        BY <1>2, <1>5, <1>14, Zenon DEF Apart
    <3> QED
        BY ONLY <1>2, <3>1, ApartParts
  <2>4. chosen \subseteq Candidate /\ Ids(chosen) \subseteq ids /\ Unopened(d, chosen) /\ 0 \in Nat
      BY <1>2, <1>8, <1>14, Zenon DEF Unopened
  <2> QED
      BY <1>4, <1>5, <1>6, <1>9, <2>1, <2>2, <2>3, <2>4, PrepareInv, Zenon
<1> QED
    BY <1>e, <1>16, <1>17, <1>18, Zenon


(* Time, recipients and the purge ***************************************)

\* A step without a message: the record stays, fades while it is not final, or goes
\* with its notice.
Fades(n) ==
    \/ deliveries'[n] = deliveries[n]
    \/ notices[n] = "deleted" /\ notices'[n] = "deleted" /\ deliveries'[n] = Unrecorded
    \/ /\ deliveries[n].status \notin Final
       /\ deliveries'[n].status = deliveries[n].status
       /\ deliveries'[n].owner = deliveries[n].owner
       /\ deliveries'[n].batch = deliveries[n].batch
       /\ deliveries'[n].waiting => deliveries[n].waiting

\* A notice without a record.
LEMMA UnrecordedFacts ==
    /\ Unrecorded \in Delivery /\ Unrecorded.status = "NONE" /\ Unrecorded.owner = NoOwner
    /\ Unrecorded.waiting = FALSE
    BY DEF Unrecorded, Delivery

\* Such a step sends nothing, opens nothing and gives no pass a delivery.
LEMMA QuietInv ==
    ASSUME EInv, UNCHANGED <<guarantee, keys, mail>>,
           notices' \in [Notices -> Active \cup {"read", "deleted"}],
           \A n \in Notices : notices'[n] # "deleted" => notices[n] # "deleted",
           emailPasses' \in [Dispatchers -> Pass],
           \A e \in Dispatchers : emailPasses'[e] = emailPasses[e] \/ emailPasses'[e] = IdlePass,
           deliveries' \in [Notices -> Delivery],
           \A n \in Notices : Fades(n)
    PROVE  EInv' /\ FinalsKept
<1>0. /\ EmailTypes /\ guarantee' = guarantee /\ keys' = keys /\ mail' = mail
      /\ NoOwner \notin Dispatchers
    BY EmailAssumption, Zenon DEF EInv
<1>1. \A k, n : Made(k, n) => Made(k, n)'
    BY <1>0, Zenon DEF Made
<1>2. EmailTypes'
    BY <1>0, Zenon DEF EmailTypes
<1>3. ASSUME NEW n \in Notices PROVE RecordSound(deliveries[n], n)'
  <2>1. RecordSound(deliveries[n], n)
      BY Zenon DEF EInv
  <2>2. CASE deliveries'[n] = deliveries[n]
      BY <1>1, <2>1, <2>2, Zenon DEF RecordSound
  <2>3. CASE deliveries'[n] = Unrecorded
    <3>1. "NONE" # "SENDING" /\ "NONE" \notin Final
        BY Zenon DEF Final
    <3> QED
        BY <2>3, <3>1, UnrecordedFacts, Zenon DEF RecordSound
  <2>4. CASE /\ deliveries[n].status \notin Final
             /\ deliveries'[n].status = deliveries[n].status
             /\ deliveries'[n].batch = deliveries[n].batch
             /\ deliveries'[n].waiting => deliveries[n].waiting
      BY <1>1, <2>1, <2>4, Zenon DEF RecordSound
  <2> QED
      BY <2>2, <2>3, <2>4, Zenon DEF Fades
<1>4. FinalsKept
    BY Zenon DEF FinalsKept, Fades
<1>5. ASSUME NEW n \in Notices, NEW e \in Dispatchers, deliveries'[n].owner = e
      PROVE  deliveries[n].owner = e /\ deliveries'[n].status = deliveries[n].status
    BY <1>0, <1>5, UnrecordedFacts, Zenon DEF Fades
<1>6. ASSUME NEW e \in Dispatchers PROVE PassSound(e, emailPasses[e])'
  <2>1. CASE emailPasses'[e] = emailPasses[e]
    <3>1. PICK q \in Pass : q = emailPasses'[e] /\ PassSound(e, q)
        BY <2>1, Zenon DEF EInv
    <3> QED
        BY <1>0, <1>1, <1>5, <3>1, PassKept, Zenon
  <2>2. CASE emailPasses'[e] = IdlePass
      BY <2>2, IdleFacts, Zenon DEF PassSound
  <2> QED
      BY <2>1, <2>2, Zenon
<1>7. MailCovered'
    BY <1>0, Zenon DEF EInv, MailCovered, Made
<1>8. ASSUME guarantee = "AT_MOST_ONCE" PROVE SentOnce'
  <2>1. SentOnce
      BY <1>8, Zenon DEF EInv
  <2>2. "idle" # "send" /\ "idle" # "settle"
      BY Zenon
  <2>3. \A e \in Dispatchers, n \in Notices : Sends(e, n)' => Sends(e, n)
      BY <2>2, IdleFacts, Zenon DEF Sends
  <2>4. \A n \in Notices : Open(n)' => Open(n)
    <3>1. "NONE" \notin {"CLAIMED", "RETRY"}
        BY Zenon
    <3> QED
        BY <3>1, UnrecordedFacts, Zenon DEF Open, Fades
  <2>5. \A e \in Dispatchers, n \in Notices : Returns(e, n)' => Returns(e, n)
      BY <1>5, <2>2, IdleFacts, Zenon DEF Returns
  <2> QED
      BY <1>0, <2>1, <2>3, <2>4, <2>5, SentOnceKept, Zenon
<1> QED
    BY <1>0, <1>2, <1>3, <1>4, <1>6, <1>7, <1>8, Zenon DEF EInv

\* A step of the notices alone.
LEMMA NoticesInv ==
    ASSUME EInv, UNCHANGED <<guarantee, deliveries, emailPasses, keys, mail>>,
           notices' \in [Notices -> Active \cup {"read", "deleted"}],
           \A n \in Notices : notices'[n] # "deleted" => notices[n] # "deleted"
    PROVE  EInv' /\ FinalsKept
<1>1. EmailTypes /\ deliveries' = deliveries /\ emailPasses' = emailPasses
      /\ UNCHANGED <<guarantee, keys, mail>>
    BY Zenon DEF EInv
<1>2. emailPasses' \in [Dispatchers -> Pass] /\ deliveries' \in [Notices -> Delivery]
    BY <1>1, Zenon DEF EmailTypes
<1>3. \A n \in Notices : Fades(n)
    BY <1>1, Zenon DEF Fades
<1>4. \A e \in Dispatchers : emailPasses'[e] = emailPasses[e] \/ emailPasses'[e] = IdlePass
    BY <1>1, Zenon
<1> QED
    BY <1>1, <1>2, <1>3, <1>4, QuietInv, Zenon

\* Deactivate, DeleteNotice and Age: a deleted notice stays deleted.
LEMMA NoticeStepsInv ==
    ASSUME EInv, NEW n \in Notices, Deactivate(n) \/ DeleteNotice(n) \/ Age(n)
    PROVE  EInv' /\ FinalsKept
<1>1. PICK s \in Active \cup {"read", "deleted"} :
          notices[n] # "deleted" /\ notices' = [notices EXCEPT ![n] = s]
    BY Zenon DEF Deactivate, DeleteNotice, Age, Active
<1>2. UNCHANGED <<guarantee, deliveries, emailPasses, keys, mail>>
    BY Zenon DEF Deactivate, DeleteNotice, Age
<1>3. notices \in [Notices -> Active \cup {"read", "deleted"}]
    BY Zenon DEF EInv, EmailTypes
<1>4. notices' \in [Notices -> Active \cup {"read", "deleted"}]
    BY <1>1, <1>3, Zenon
<1>5. \A m \in Notices : notices'[m] # "deleted" => notices[m] # "deleted"
    BY <1>1, <1>3, Zenon
<1> QED
    BY <1>2, <1>4, <1>5, NoticesInv, Zenon

\* A step of the delivery records alone.
LEMMA FadingInv ==
    ASSUME EInv, UNCHANGED <<guarantee, notices, emailPasses, keys, mail>>,
           deliveries' \in [Notices -> Delivery], \A n \in Notices : Fades(n)
    PROVE  EInv' /\ FinalsKept
<1>1. EmailTypes /\ notices' = notices /\ emailPasses' = emailPasses
      /\ UNCHANGED <<guarantee, keys, mail>>
    BY Zenon DEF EInv
<1>2. /\ emailPasses' \in [Dispatchers -> Pass]
      /\ notices' \in [Notices -> Active \cup {"read", "deleted"}]
    BY <1>1, Zenon DEF EmailTypes
<1>3. \A e \in Dispatchers : emailPasses'[e] = emailPasses[e] \/ emailPasses'[e] = IdlePass
    BY <1>1, Zenon
<1>4. \A n \in Notices : notices'[n] # "deleted" => notices[n] # "deleted"
    BY <1>1, Zenon
<1> QED
    BY <1>1, <1>2, <1>3, <1>4, QuietInv, Zenon

\* LeaseLapses: a final record is not leased.
LEMMA LeaseLapsesInv ==
    ASSUME EInv, NEW d \in Dispatchers, LeaseLapses(d)
    PROVE  EInv' /\ FinalsKept
<1>1. PICK ending :
        deliveries' = [n \in Notices |-> [deliveries[n] EXCEPT !.leased = @ /\ n \notin ending]]
    BY Zenon DEF LeaseLapses
<1>2. ASSUME NEW n \in Notices PROVE deliveries'[n] \in Delivery /\ Fades(n)
  <2>1. PICK r, q : r \in Delivery /\ r = deliveries[n] /\ q = deliveries'[n]
      BY Zenon DEF EInv, EmailTypes
  <2>2. PICK leased \in BOOLEAN : leased = (r.leased /\ n \notin ending)
      BY Zenon
  <2>3. q = [r EXCEPT !.leased = leased]
      BY <1>1, <2>1, <2>2, Zenon
  <2>4. /\ q \in Delivery /\ q.status = r.status /\ q.owner = r.owner /\ q.batch = r.batch
        /\ q.waiting = r.waiting
      BY ONLY <2>1, <2>3, leased \in BOOLEAN DEF Delivery
  <2>5. ASSUME r.status \in Final PROVE q = r
    <3>1. RecordSound(r, n)
        BY <2>1, Zenon DEF EInv
    <3>2. leased = FALSE
        BY <2>2, <2>5, <3>1, Zenon DEF RecordSound
    <3>3. r.leased \in BOOLEAN /\ ~r.leased
        BY <2>1, <2>5, <3>1, Zenon DEF RecordSound, Delivery
    <3> QED
        BY ONLY <2>1, <2>3, <3>2, <3>3 DEF Delivery
  <2> QED
      BY <2>1, <2>4, <2>5, Zenon DEF Fades
<1>3. deliveries' \in [Notices -> Delivery]
    BY <1>1, <1>2, Zenon
<1>4. UNCHANGED <<guarantee, notices, emailPasses, keys, mail>>
    BY Zenon DEF LeaseLapses
<1> QED
    BY <1>2, <1>3, <1>4, FadingInv, Zenon

\* RetryFallsDue: only a retry waits.
LEMMA RetryFallsDueInv ==
    ASSUME EInv, NEW n \in Notices, RetryFallsDue(n)
    PROVE  EInv' /\ FinalsKept
<1>1. /\ deliveries \in [Notices -> Delivery] /\ deliveries[n].waiting
      /\ deliveries' = [deliveries EXCEPT ![n].waiting = FALSE]
      /\ UNCHANGED <<guarantee, notices, emailPasses, keys, mail>>
    BY Zenon DEF RetryFallsDue, EInv, EmailTypes
<1>2. PICK r, q : r \in Delivery /\ r = deliveries[n] /\ q = [r EXCEPT !.waiting = FALSE]
    BY <1>1, Zenon
<1>3. deliveries' = [deliveries EXCEPT ![n] = q]
    BY <1>1, <1>2, Zenon
<1>4. /\ q \in Delivery /\ q.status = r.status /\ q.owner = r.owner /\ q.batch = r.batch
      /\ q.waiting = FALSE
    BY ONLY <1>2, Zenon DEF Delivery
<1>5. r.status = "RETRY" /\ "RETRY" \notin Final
    BY <1>1, <1>2, Zenon DEF EInv, RecordSound, Final
<1>6. deliveries' \in [Notices -> Delivery] /\ deliveries'[n] = q
      /\ \A m \in Notices : m # n => deliveries'[m] = deliveries[m]
    BY <1>1, <1>3, <1>4, Zenon
<1>7. \A m \in Notices : Fades(m)
    BY <1>2, <1>4, <1>5, <1>6, Zenon DEF Fades
<1> QED
    BY <1>1, <1>6, <1>7, FadingInv, Zenon

\* PurgeEmailRecords: the records of deleted notices go.
LEMMA PurgeInv ==
    ASSUME EInv, NEW d \in Dispatchers, PurgeEmailRecords(d)
    PROVE  EInv' /\ FinalsKept
<1>1. PICK purged : /\ purged \subseteq Orphans
                    /\ Writes([n \in Notices |-> IF n \in purged THEN Unrecorded ELSE deliveries[n]], 0)
    BY Zenon DEF PurgeEmailRecords
<1>2. PICK p \in Pass : p = IdlePass /\ p.at = "idle"
    BY IdleFacts, Zenon
<1>3. EmailTypes /\ emailPasses' = [emailPasses EXCEPT ![d] = p]
      /\ UNCHANGED <<guarantee, notices, keys, mail>> /\ PassSound(d, p)
    BY <1>2, Zenon DEF PurgeEmailRecords, EInv, PassSound
<1>4. CASE deliveries' = deliveries
    BY <1>2, <1>3, <1>4, WritelessInv, Zenon
<1>5. CASE deliveries' = [n \in Notices |-> IF n \in purged THEN Unrecorded ELSE deliveries[n]]
  <2>1. \A n \in Notices : deliveries'[n] \in Delivery
      BY <1>3, <1>5, UnrecordedFacts, Zenon DEF EmailTypes
  <2>2. deliveries' \in [Notices -> Delivery]
      BY <1>5, <2>1, Zenon
  <2>3. \A n \in Notices : Fades(n)
      BY <1>1, <1>3, <1>5, Zenon DEF Fades, Orphans
  <2>4. /\ emailPasses' \in [Dispatchers -> Pass]
        /\ \A e \in Dispatchers : emailPasses'[e] = emailPasses[e] \/ emailPasses'[e] = IdlePass
      BY <1>2, <1>3, PassMoves, Zenon
  <2>5. /\ notices' \in [Notices -> Active \cup {"read", "deleted"}]
        /\ \A n \in Notices : notices'[n] # "deleted" => notices[n] # "deleted"
        /\ UNCHANGED <<guarantee, keys, mail>>
      BY <1>3, Zenon DEF EmailTypes
  <2> QED
      BY <2>2, <2>3, <2>4, <2>5, QuietInv, Zenon
<1> QED
    BY <1>1, <1>4, <1>5, Zenon DEF Writes

(* The message **********************************************************)

\* What is known of a pass with a message at hand, and that it may give the message up.
LEMMA MessageFacts ==
    ASSUME EInv, NEW d \in Dispatchers, NEW p, p = emailPasses[d],
           p.at \in {"record", "send", "settle"}
    PROVE  /\ p \in Pass /\ p.doubts \subseteq Candidate /\ p.fresh \subseteq Candidate
           /\ p.group \subseteq Candidate
           /\ Apart(p.doubts, p.fresh, p.group)
           /\ Unopened(d, p.fresh)
           /\ \A c \in p.doubts : Made(c.batch, c.id)
           /\ MessageSound(d, p)
<1>1. p \in Pass /\ PassSound(d, p)
    BY Zenon DEF EInv, EmailTypes
<1>2. p.group \subseteq Candidate
    BY <1>1, Zenon DEF Pass
<1> QED
    BY <1>1, <1>2, Zenon DEF PassSound

\* Done leaves the candidates that are still before the pass.
LEMMA DoneFacts ==
    ASSUME NEW p \in Pass
    PROVE  /\ Done(p) \in Pass /\ Done(p).at = "work" /\ Done(p).doubts = p.doubts
           /\ Done(p).fresh = p.fresh /\ Done(p).group = {}
<1>1. PICK q : q = Done(p)
    BY Zenon
<1>2. q = [p EXCEPT !.at = "work", !.group = {}, !.key = 0, !.answer = "none"]
    BY <1>1, Zenon DEF Done
<1>3. /\ q \in Pass /\ q.at = "work" /\ q.doubts = p.doubts /\ q.fresh = p.fresh /\ q.group = {}
    BY ONLY <1>2, p \in Pass, Zenon DEF Pass
<1> QED
    BY <1>1, <1>3, Zenon

\* A pass may give up its message.
LEMMA DoneSound ==
    ASSUME EInv, NEW d \in Dispatchers, NEW p, p = emailPasses[d],
           p.at \in {"record", "send", "settle"}
    PROVE  PassSound(d, Done(p)) /\ Done(p) \in Pass /\ Done(p).at = "work"
<1>1. /\ p \in Pass /\ p.doubts \subseteq Candidate /\ p.fresh \subseteq Candidate
      /\ Apart(p.doubts, p.fresh, p.group)
      /\ Unopened(d, p.fresh)
      /\ \A c \in p.doubts : Made(c.batch, c.id)
    BY MessageFacts, Zenon
<1>2. PICK q : /\ q = Done(p) /\ q \in Pass /\ q.at = "work" /\ q.doubts = p.doubts
               /\ q.fresh = p.fresh /\ q.group = {}
    BY <1>1, DoneFacts, Zenon
<1>3. Apart(q.doubts, q.fresh, q.group)
  <2>1. /\ q.doubts \subseteq p.doubts /\ q.fresh \subseteq p.fresh
        /\ q.group \subseteq p.doubts \cup p.fresh \cup p.group
        /\ q.group \cap (q.doubts \cup q.fresh) = {}
      BY <1>2, Zenon
  <2> QED
      BY ONLY <1>1, <2>1, ApartParts
<1>4. MessageSound(d, q)
    BY <1>2, Zenon DEF MessageSound
<1>5. PassSound(d, q)
    BY <1>1, <1>2, <1>3, <1>4, Zenon DEF PassSound
<1> QED
    BY <1>2, <1>5, Zenon

\* RecordEmails with SENDING keeps the lease and notes the key.
Sending(w, r, key) ==
    /\ w \in Delivery /\ w.status = "SENDING" /\ w.waiting = FALSE /\ w.batch = key
    /\ w.owner = r.owner

\* What is recorded before a send.
LEMMA SendingFacts ==
    ASSUME NEW r \in Delivery, NEW key \in Nat, key # 0
    PROVE  Sending(ApplyEmailRecord(r, "SENDING", key, TRUE), r, key)
<1>1. PICK a \in Nat : a = r.attempts + 1
    BY DEF Delivery
<1>2. PICK w : w = ApplyEmailRecord(r, "SENDING", key, TRUE)
    BY Zenon
<1>3. w = [r EXCEPT !.status = "SENDING", !.waiting = FALSE, !.batch = key, !.attempts = a]
    BY <1>1, <1>2, Zenon DEF ApplyEmailRecord
<1>4. Sending(w, r, key)
    BY ONLY <1>3, r \in Delivery, key \in Nat, a \in Nat, Zenon DEF Delivery, Sending
<1> QED
    BY <1>2, <1>4, Zenon

\* A key is made for exactly the notices of the message, and keys are never reused.
Extended(made, ids) ==
    /\ made \in Seq(SUBSET Notices) /\ Len(made) \in Nat /\ Len(made) # 0
    /\ Len(made) \in DOMAIN made /\ made[Len(made)] = ids
    /\ \A k \in DOMAIN keys : k \in DOMAIN made /\ made[k] = keys[k]

\* A new key leaves the earlier ones as they are.
LEMMA KeyMade ==
    ASSUME EmailTypes, NEW ids, ids \subseteq Notices
    PROVE  Extended(Append(keys, ids), ids)
<1>1. keys \in Seq(SUBSET Notices) /\ ids \in SUBSET Notices
    BY Zenon DEF EmailTypes
<1> QED
    BY ONLY <1>1 DEF Extended

\* RecordSending, when some deliveries are still held: every other one is as it was.
Recorded(d, p, q, key, held) ==
    /\ p = emailPasses[d] /\ p.at = "record"
    /\ key = (IF p.key = 0 THEN Len(keys') ELSE p.key)
    /\ keys' = (IF p.key = 0 THEN Append(keys, Ids(p.group)) ELSE keys)
    /\ held = HeldBy(deliveries, d, Ids(p.group))
    /\ deliveries' = RecordEmails(deliveries, d, held, "SENDING", key, TRUE)
    /\ (q = [p EXCEPT !.at = "send", !.key = key] /\ MaySend(d)) \/ q = Done(p)
    /\ emailPasses' = [emailPasses EXCEPT ![d] = q]
    /\ UNCHANGED <<guarantee, notices, mail>>

\* Such a step keeps the invariant: what may be sent was open.
LEMMA RecordedInv ==
    ASSUME EInv, NEW d \in Dispatchers, NEW p, NEW q, NEW key, NEW held,
           Recorded(d, p, q, key, held)
    PROVE  EInv' /\ FinalsKept
<1> USE DEF Recorded
<1>0. /\ EmailTypes /\ guarantee' = guarantee /\ notices' = notices /\ mail' = mail
      /\ NoOwner \notin Dispatchers
    BY EmailAssumption, Zenon DEF EInv
<1>1. /\ p \in Pass /\ p.doubts \subseteq Candidate /\ p.fresh \subseteq Candidate
      /\ p.group \subseteq Candidate
      /\ Apart(p.doubts, p.fresh, p.group)
      /\ Unopened(d, p.fresh)
      /\ \A c \in p.doubts : Made(c.batch, c.id)
      /\ MessageSound(d, p)
    BY MessageFacts, Zenon
<1>2. Ids(p.group) \subseteq Notices /\ held \subseteq Notices
  <2>1. \A c \in Candidate : c.id \in Notices
      BY Zenon DEF Candidate
  <2> QED
      BY <1>1, <2>1, Zenon DEF Ids, HeldBy
<1>3. /\ key \in Nat /\ key # 0 /\ keys' \in Seq(SUBSET Notices)
      /\ \A k \in DOMAIN keys : k \in DOMAIN keys' /\ keys'[k] = keys[k]
      /\ \A c \in p.group : key \in DOMAIN keys' /\ c.id \in keys'[key]
  <2>1. CASE p.key = 0
    <3>1. PICK made, ids : /\ made = keys' /\ made = Append(keys, ids) /\ key = Len(made)
                           /\ ids = Ids(p.group) /\ ids \subseteq Notices
        BY <1>2, <2>1, Zenon
    <3>2. Extended(made, ids)
        BY <1>0, <3>1, KeyMade, Zenon
    <3>3. \A c \in p.group : c.id \in ids
        BY <3>1, Zenon DEF Ids
    <3> QED
        BY <3>1, <3>2, <3>3, Zenon DEF Extended
  <2>2. CASE p.key # 0
    <3>1. Covered(p.key, p.group) /\ key = p.key /\ keys' = keys
        BY <1>1, <2>2, Zenon DEF MessageSound
    <3>2. p.key \in Nat /\ keys \in Seq(SUBSET Notices)
        BY <1>0, <1>1, Zenon DEF Pass, EmailTypes
    <3> QED
        BY <2>2, <3>1, <3>2, Zenon DEF Covered, Made
  <2> QED
      BY <2>1, <2>2, Zenon
<1>4. /\ \A k, n : Made(k, n) => Made(k, n)'
      /\ \A c \in p.group : Made(key, c.id)'
    BY <1>3, Zenon DEF Made
<1>5. ASSUME NEW n \in held
      PROVE  /\ deliveries'[n] \in Delivery /\ deliveries'[n].status = "SENDING"
             /\ deliveries'[n].waiting = FALSE /\ deliveries'[n].batch = key
             /\ deliveries'[n].owner = d /\ deliveries[n].owner = d
             /\ n \in Ids(p.group) /\ Made(key, n)'
  <2>1. n \in Notices /\ n \in HeldBy(deliveries, d, held) /\ n \in Ids(p.group)
        /\ deliveries[n].owner = d
      BY <1>2, Zenon DEF HeldBy
  <2>2. PICK r, w : /\ r \in Delivery /\ r = deliveries[n] /\ w = deliveries'[n]
                    /\ w = ApplyEmailRecord(r, "SENDING", key, TRUE)
      BY <1>0, <2>1, Zenon DEF RecordEmails, EmailTypes
  <2>3. Sending(w, r, key)
      BY <1>3, <2>2, SendingFacts, Zenon
  <2>4. Made(key, n)'
      BY <1>4, <2>1, Zenon DEF Ids
  <2> QED
      BY <2>1, <2>2, <2>3, <2>4, Zenon DEF Sending
<1>6. \A n \in Notices : n \notin held => deliveries'[n] = deliveries[n]
    BY Zenon DEF RecordEmails, HeldBy
<1>7. /\ q \in Pass /\ q.at \in {"send", "work"} /\ q.doubts = p.doubts /\ q.fresh = p.fresh
      /\ q.at = "send" => q.group = p.group /\ q.key = key /\ MaySend(d)
      /\ q.at = "work" => q.group = {}
  <2>1. CASE q = [p EXCEPT !.at = "send", !.key = key] /\ MaySend(d)
    <3>1. /\ q \in Pass /\ q.at = "send" /\ q.doubts = p.doubts /\ q.fresh = p.fresh
          /\ q.group = p.group /\ q.key = key
        BY ONLY <1>1, <1>3, <2>1, Zenon DEF Pass
    <3> QED
        BY <2>1, <3>1, Zenon
  <2>2. CASE q = Done(p)
      BY <1>1, <2>2, DoneFacts, Zenon
  <2> QED
      BY <2>1, <2>2, Zenon
<1>8. /\ emailPasses' \in [Dispatchers -> Pass] /\ emailPasses'[d] = q
      /\ \A e \in Dispatchers : e # d => emailPasses'[e] = emailPasses[e]
    BY <1>0, <1>7, PassMoves, Zenon
<1>9. EmailTypes'
  <2>1. \A n \in Notices : deliveries'[n] \in Delivery
      BY <1>0, <1>5, <1>6, Zenon DEF EmailTypes
  <2>2. deliveries' = [n \in Notices |-> deliveries'[n]]
      BY Zenon DEF RecordEmails
  <2>3. deliveries' \in [Notices -> Delivery]
      BY <2>1, <2>2, Zenon
  <2> QED
      BY <1>0, <1>3, <1>8, <2>3, Zenon DEF EmailTypes
<1>10. ASSUME NEW n \in Notices PROVE RecordSound(deliveries[n], n)'
  <2>1. CASE n \in held
    <3>1. "SENDING" \notin Final
        BY Zenon DEF Final
    <3> QED
        BY <1>5, <2>1, <3>1, Zenon DEF RecordSound
  <2>2. CASE n \notin held
      BY <1>4, <1>6, <2>2, ZenonT(30) DEF EInv, RecordSound
  <2> QED
      BY <2>1, <2>2, Zenon
<1>11. FinalsKept
  <2> SUFFICES ASSUME NEW n \in Notices, deliveries[n].status \in Final
               PROVE  deliveries'[n] = deliveries[n]
      BY Zenon DEF FinalsKept
  <2>1. deliveries[n].owner = NoOwner
      BY Zenon DEF EInv, RecordSound
  <2> QED
      BY <1>0, <1>5, <1>6, <2>1, Zenon
<1>12. ASSUME NEW e \in Dispatchers PROVE PassSound(e, emailPasses[e])'
  <2>1. CASE e # d
    <3>1. PICK o \in Pass : o = emailPasses'[e] /\ PassSound(e, o)
        BY <1>8, <2>1, Zenon DEF EInv
    <3>2. \A n \in Notices : deliveries'[n].owner = e =>
              deliveries[n].owner = e /\ deliveries'[n].status = deliveries[n].status
        BY <1>5, <1>6, <2>1, Zenon
    <3> QED
        BY <1>0, <1>4, <3>1, <3>2, PassKept, Zenon
  <2>2. CASE e = d
    <3>1. \A c \in p.fresh : c.id \in Notices /\ c.id \notin held
      <4>1. \A c \in p.fresh : c.id \notin Ids(p.group)
          BY <1>1, ZenonT(30) DEF Apart, Ids
      <4>2. \A c \in p.fresh : c.id \in Notices
          BY <1>1, Zenon DEF Candidate
      <4> QED
          BY <1>5, <4>1, <4>2, Zenon
    <3>2. Unopened(d, emailPasses[d].fresh)'
      <4>1. \A c \in p.fresh : deliveries'[c.id] = deliveries[c.id]
          BY <1>6, <3>1, Zenon
      <4>2. \A c \in p.fresh : deliveries'[c.id].owner = d => deliveries'[c.id].status = "CLAIMED"
          BY <1>1, <4>1, Zenon DEF Unopened
      <4>3. emailPasses'[d].fresh = p.fresh
          BY <1>7, <1>8, Zenon
      <4> QED
          BY <4>2, <4>3, Zenon DEF Unopened
    <3>3. Apart(q.doubts, q.fresh, q.group)
      <4>1. /\ q.doubts \subseteq p.doubts /\ q.fresh \subseteq p.fresh
            /\ q.group \subseteq p.doubts \cup p.fresh \cup p.group
          BY <1>7, Zenon
      <4>2. q.group \cap (q.doubts \cup q.fresh) = {}
          BY <1>1, <1>7, Zenon DEF Apart
      <4> QED
          BY ONLY <1>1, <4>1, <4>2, ApartParts
    <3>4. Apart(emailPasses[d].doubts, emailPasses[d].fresh, emailPasses[d].group)'
        BY ONLY <1>8, <3>3 DEF Apart
    <3>5. \A c \in q.doubts : Made(c.batch, c.id)'
        BY <1>1, <1>4, <1>7, Zenon
    <3>6. MessageSound(d, emailPasses[d])'
        BY <1>4, <1>7, <1>8, Zenon DEF MessageSound, Covered
    <3> QED
        BY <1>1, <1>7, <1>8, <2>2, <3>2, <3>4, <3>5, <3>6, Zenon DEF PassSound
  <2> QED
      BY <2>1, <2>2, Zenon
<1>13. MailCovered'
    BY <1>0, <1>4, Zenon DEF EInv, MailCovered
<1>14. ASSUME guarantee = "AT_MOST_ONCE" PROVE SentOnce'
  <2>1. SentOnce /\ p.key = 0 /\ Unopened(d, p.group)
      BY <1>1, <1>14, Zenon DEF EInv, MessageSound
  <2>2. ASSUME NEW n \in Notices, Sends(d, n)' PROVE n \in held /\ Unsent(n)
    <3>1. n \in Ids(p.group) /\ MaySend(d)
        BY <1>7, <1>8, <2>2, Zenon DEF Sends
    <3>2. PICK c \in p.group : c.id = n
        BY <3>1, Zenon DEF Ids
    <3>3. deliveries[n].owner = d /\ n \in held
        BY <3>1, <3>2, Zenon DEF MaySend, HeldBy
    <3>4. deliveries[n].status = "CLAIMED"
        BY <2>1, <3>2, <3>3, Zenon DEF Unopened
    <3> QED
        BY <2>1, <3>3, <3>4, Zenon DEF SentOnce, Open
  <2>3. \A e \in Dispatchers, n \in Notices : e # d /\ Sends(e, n)' => Sends(e, n)
      BY <1>8, Zenon DEF Sends
  <2>4. ASSUME NEW n \in Notices, n \notin held, Unsent(n) PROVE Unsent(n)'
      BY <1>0, <2>2, <2>3, <2>4, Zenon DEF Unsent
  <2>5. ASSUME NEW n \in Notices, Open(n)' PROVE Unsent(n)'
    <3>1. n \notin held
        BY <1>5, <2>5, Zenon DEF Open
    <3>2. Open(n)
        BY <1>0, <1>6, <2>5, <3>1, Zenon DEF Open
    <3> QED
        BY <2>1, <2>4, <3>1, <3>2, Zenon DEF SentOnce
  <2>6. ASSUME NEW n \in Notices, NEW e \in Dispatchers, Returns(e, n)' PROVE Unsent(n)'
    <3>1. e # d /\ emailPasses'[e] = emailPasses[e]
        BY <1>7, <1>8, <2>6, Zenon DEF Returns
    <3>2. n \notin held
        BY <1>5, <2>6, <3>1, Zenon DEF Returns
    <3>3. Returns(e, n)
        BY <1>6, <2>6, <3>1, <3>2, Zenon DEF Returns
    <3> QED
        BY <2>1, <2>4, <3>2, <3>3, Zenon DEF SentOnce
  <2>7. ASSUME NEW n \in Notices
        PROVE  /\ Len(mail'[n]) <= 1
               /\ \A e \in Dispatchers : Sends(e, n)' => mail'[n] = << >>
    <3>1. Len(mail'[n]) <= 1
        BY <1>0, <2>1, Zenon DEF SentOnce
    <3>2. ASSUME NEW e \in Dispatchers, Sends(e, n)' PROVE mail'[n] = << >>
        BY <1>0, <2>1, <2>2, <2>3, <3>2, Zenon DEF SentOnce, Unsent
    <3> QED
        BY <3>1, <3>2, Zenon
  <2>8. ASSUME NEW n \in Notices, NEW e \in Dispatchers, NEW f \in Dispatchers,
               Sends(e, n)', Sends(f, n)'
        PROVE  e = f
      BY <2>1, <2>2, <2>3, <2>8, Zenon DEF SentOnce, Unsent
  <2> QED
      BY <2>5, <2>6, <2>7, <2>8, Zenon DEF SentOnce
<1> QED
    BY <1>0, <1>9, <1>10, <1>11, <1>12, <1>13, <1>14, Zenon DEF EInv

\* RecordSending: recorded, no longer held, or refused.
LEMMA RecordSendingInv ==
    ASSUME EInv, NEW d \in Dispatchers, RecordSending(d)
    PROVE  EInv' /\ FinalsKept
<1>1. PICK p : p = emailPasses[d] /\ p.at = "record"
    BY Zenon DEF RecordSending
<1>2. UNCHANGED <<guarantee, notices, mail>>
    BY Zenon DEF RecordSending
<1>3. \/ LET made == IF emailPasses[d].key = 0
                     THEN Append(keys, Ids(emailPasses[d].group)) ELSE keys
             key == IF emailPasses[d].key = 0 THEN Len(made) ELSE emailPasses[d].key
             held == HeldBy(deliveries, d, Ids(emailPasses[d].group))
         IN /\ deliveries' = RecordEmails(deliveries, d, held, "SENDING", key, TRUE)
            /\ emailPasses' = [emailPasses EXCEPT ![d] =
                  IF MaySend(d) THEN [emailPasses[d] EXCEPT !.at = "send", !.key = key]
                  ELSE Done(emailPasses[d])]
            /\ keys' = made
      \/ /\ emailPasses' = [emailPasses EXCEPT ![d] = Done(emailPasses[d])]
         /\ UNCHANGED <<deliveries, keys>>
    BY Zenon DEF RecordSending
<1>4. CASE /\ emailPasses' = [emailPasses EXCEPT ![d] = Done(emailPasses[d])]
           /\ UNCHANGED <<deliveries, keys>>
  <2>1. PICK q : q = Done(p) /\ PassSound(d, q) /\ q \in Pass /\ q.at = "work"
      BY <1>1, DoneSound, Zenon
  <2>2. emailPasses' = [emailPasses EXCEPT ![d] = q]
        /\ UNCHANGED <<guarantee, notices, deliveries, keys, mail>>
      BY <1>1, <1>2, <1>4, <2>1, Zenon
  <2> QED
      BY <2>1, <2>2, WritelessInv, Zenon
<1>5. CASE LET made == IF emailPasses[d].key = 0
                       THEN Append(keys, Ids(emailPasses[d].group)) ELSE keys
               key == IF emailPasses[d].key = 0 THEN Len(made) ELSE emailPasses[d].key
               held == HeldBy(deliveries, d, Ids(emailPasses[d].group))
           IN /\ deliveries' = RecordEmails(deliveries, d, held, "SENDING", key, TRUE)
              /\ emailPasses' = [emailPasses EXCEPT ![d] =
                    IF MaySend(d) THEN [emailPasses[d] EXCEPT !.at = "send", !.key = key]
                    ELSE Done(emailPasses[d])]
              /\ keys' = made
  <2>1. PICK made, held : /\ made = IF p.key = 0 THEN Append(keys, Ids(p.group)) ELSE keys
                          /\ held = HeldBy(deliveries, d, Ids(p.group))
      BY Zenon
  <2>2. PICK key : key = IF p.key = 0 THEN Len(made) ELSE p.key
      BY Zenon
  <2>3. /\ deliveries' = RecordEmails(deliveries, d, held, "SENDING", key, TRUE)
        /\ emailPasses' = [emailPasses EXCEPT ![d] =
              IF MaySend(d) THEN [p EXCEPT !.at = "send", !.key = key] ELSE Done(p)]
        /\ keys' = made
      BY <1>1, <1>5, <2>1, <2>2, Zenon
  <2>4. PICK q : q = IF MaySend(d) THEN [p EXCEPT !.at = "send", !.key = key] ELSE Done(p)
      BY Zenon
  <2>5. /\ (q = [p EXCEPT !.at = "send", !.key = key] /\ MaySend(d)) \/ q = Done(p)
        /\ emailPasses' = [emailPasses EXCEPT ![d] = q]
        /\ keys' = (IF p.key = 0 THEN Append(keys, Ids(p.group)) ELSE keys)
        /\ key = (IF p.key = 0 THEN Len(keys') ELSE p.key)
      BY <2>1, <2>2, <2>3, <2>4, Zenon
  <2>6. Recorded(d, p, q, key, held)
      BY <1>1, <1>2, <2>1, <2>3, <2>5, Zenon DEF Recorded
  <2> QED
      BY <2>6, RecordedInv, Zenon
<1> QED
    BY <1>3, <1>4, <1>5, Zenon

\* SendEmail: the message goes out at most once, and an answer of unsent is true.
LEMMA SendEmailInv ==
    ASSUME EInv, NEW d \in Dispatchers, NEW answer \in Answers, SendEmail(d, answer)
    PROVE  EInv' /\ FinalsKept
<1>0. /\ EmailTypes /\ guarantee' = guarantee /\ notices' = notices
      /\ deliveries' = deliveries /\ keys' = keys
    BY Zenon DEF SendEmail, EInv
<1>1. PICK p, ids : p = emailPasses[d] /\ p.at = "send" /\ ids = Ids(p.group)
    BY Zenon DEF SendEmail
<1>2. /\ p \in Pass /\ p.doubts \subseteq Candidate /\ p.fresh \subseteq Candidate
      /\ p.group \subseteq Candidate
      /\ Apart(p.doubts, p.fresh, p.group)
      /\ Unopened(d, p.fresh)
      /\ \A c \in p.doubts : Made(c.batch, c.id)
      /\ MessageSound(d, p)
    BY <1>1, MessageFacts, Zenon
<1>3. \A n \in ids : Made(p.key, n)
    BY <1>1, <1>2, Zenon DEF MessageSound, Covered, Ids
<1>4. \/ mail' = [n \in Notices |-> IF n \in ids THEN Append(mail[n], p.key) ELSE mail[n]]
         /\ answer # "unsent"
      \/ mail' = mail
    BY <1>1, Zenon DEF SendEmail
<1>5. PICK q : q = [p EXCEPT !.at = "settle", !.answer = answer]
    BY Zenon
<1>6. /\ q \in Pass /\ q.at = "settle" /\ q.answer = answer /\ q.doubts = p.doubts
      /\ q.fresh = p.fresh /\ q.group = p.group /\ q.key = p.key
    BY ONLY <1>2, <1>5, answer \in Answers, Zenon DEF Pass
<1>7. emailPasses' = [emailPasses EXCEPT ![d] = q]
  <2>1. emailPasses \in [Dispatchers -> Pass]
      BY <1>0, Zenon DEF EmailTypes
  <2>2. emailPasses' = [emailPasses EXCEPT ![d].at = "settle", ![d].answer = answer]
      BY Zenon DEF SendEmail
  <2> QED
      BY ONLY <1>1, <1>5, <2>1, <2>2, d \in Dispatchers, Zenon
<1>8. /\ emailPasses' \in [Dispatchers -> Pass] /\ emailPasses'[d] = q
      /\ \A e \in Dispatchers : e # d => emailPasses'[e] = emailPasses[e]
    BY <1>0, <1>6, <1>7, PassMoves, Zenon
<1>9. ASSUME NEW n \in Notices
      PROVE  /\ mail'[n] \in Seq(Nat) /\ \A i \in DOMAIN mail'[n] : Made(mail'[n][i], n)
             /\ mail[n] = << >> => Len(mail'[n]) <= 1
             /\ n \notin ids => mail'[n] = mail[n]
             /\ answer = "unsent" => mail'[n] = mail[n]
  <2>1. PICK m : m = mail[n] /\ m \in Seq(Nat) /\ \A i \in DOMAIN m : Made(m[i], n)
      BY <1>0, Zenon DEF EInv, EmailTypes, MailCovered
  <2>2. CASE mail'[n] = m
      BY <2>1, <2>2
  <2>3. CASE mail'[n] = Append(m, p.key) /\ n \in ids /\ answer # "unsent"
    <3>1. PICK k \in Nat : k = p.key /\ Made(k, n)
        BY <1>2, <1>3, <2>3, Zenon DEF Pass
    <3>2. PICK w : w = mail'[n] /\ w = Append(m, k)
        BY <2>3, <3>1, Zenon
    <3>3. /\ w \in Seq(Nat) /\ (m = << >> => Len(w) <= 1)
          /\ \A i \in DOMAIN w : w[i] = k \/ (i \in DOMAIN m /\ w[i] = m[i])
        BY ONLY <2>1, <3>2, k \in Nat
    <3>4. \A i \in DOMAIN w : Made(w[i], n)
        BY <2>1, <3>1, <3>3, Zenon
    <3> QED
        BY <2>1, <2>3, <3>2, <3>3, <3>4, Zenon
  <2> QED
      BY <1>4, <2>1, <2>2, <2>3, Zenon
<1>10. EmailTypes'
  <2>1. mail' = [n \in Notices |-> mail'[n]]
      BY <1>0, <1>4, Zenon DEF EmailTypes
  <2>2. mail' \in [Notices -> Seq(Nat)]
      BY <1>9, <2>1, Zenon
  <2> QED
      BY <1>0, <1>8, <2>2, Zenon DEF EmailTypes
<1>11. \A k, n : Made(k, n) => Made(k, n)'
    BY <1>0, Zenon DEF Made
<1>12. \A n \in Notices : RecordSound(deliveries[n], n)'
    BY <1>0, <1>11, Zenon DEF EInv, RecordSound
<1>13. FinalsKept
    BY <1>0, Zenon DEF FinalsKept
<1>14. ASSUME NEW e \in Dispatchers PROVE PassSound(e, emailPasses[e])'
  <2>1. PICK o \in Pass : o = emailPasses'[e]
      BY <1>8, Zenon
  <2>2. PassSound(e, o)
    <3>1. CASE e # d
        BY <1>8, <2>1, <3>1, Zenon DEF EInv
    <3>2. CASE e = d
      <4>1. MessageSound(d, q)
          BY <1>2, <1>1, <1>6, Zenon DEF MessageSound
      <4>2. PassSound(d, q)
          BY <1>2, <1>6, <4>1, Zenon DEF PassSound
      <4> QED
          BY <1>8, <2>1, <3>2, <4>2, Zenon
    <3> QED
        BY <3>1, <3>2, Zenon
  <2> QED
      BY <1>0, <1>11, <2>1, <2>2, PassKept, Zenon
<1>15. MailCovered'
    BY <1>9, <1>11, Zenon DEF MailCovered
<1>16. ASSUME guarantee = "AT_MOST_ONCE" PROVE SentOnce'
  <2> SUFFICES ASSUME NEW n \in Notices
               PROVE  /\ Open(n)' => Unsent(n)'
                      /\ \A e \in Dispatchers : Returns(e, n)' => Unsent(n)'
                      /\ Len(mail'[n]) <= 1
                      /\ \A e \in Dispatchers : Sends(e, n)' => mail'[n] = << >>
                      /\ \A e, f \in Dispatchers : Sends(e, n)' /\ Sends(f, n)' => e = f
      BY Zenon DEF SentOnce
  <2>1. /\ Open(n) => Unsent(n)
        /\ \A e \in Dispatchers : Returns(e, n) => Unsent(n)
        /\ Len(mail[n]) <= 1
        /\ \A e \in Dispatchers : Sends(e, n) => mail[n] = << >>
        /\ \A e, f \in Dispatchers : Sends(e, n) /\ Sends(f, n) => e = f
      BY <1>16, Zenon DEF EInv, SentOnce
  <2>2. \A e \in Dispatchers : Sends(e, n)' => e # d /\ Sends(e, n)
      BY <1>6, <1>8, Zenon DEF Sends
  <2>3. Open(n)' => Open(n)
      BY <1>0, Zenon DEF Open
  <2>4. \A e \in Dispatchers : e # d /\ Returns(e, n)' => Returns(e, n)
      BY <1>0, <1>8, Zenon DEF Returns
  <2>5. CASE n \in ids
    <3>1. Sends(d, n)
        BY <1>1, <2>5, Zenon DEF Sends
    <3>2. mail[n] = << >> /\ ~Open(n) /\ \A e \in Dispatchers : ~Returns(e, n) /\ ~Sends(e, n)'
        BY <2>1, <2>2, <3>1, Zenon DEF Unsent
    <3>3. ASSUME NEW e \in Dispatchers, Returns(e, n)' PROVE Unsent(n)'
      <4>1. e = d /\ answer = "unsent"
          BY <1>6, <1>8, <2>4, <3>2, <3>3, Zenon DEF Returns
      <4> QED
          BY <1>9, <3>2, <4>1, Zenon DEF Unsent
    <3> QED
        BY <1>9, <2>3, <3>2, <3>3, Zenon
  <2>6. CASE n \notin ids
    <3>1. mail'[n] = mail[n]
        BY <1>9, <2>6, Zenon
    <3>2. Unsent(n) => Unsent(n)'
        BY <2>2, <3>1, Zenon DEF Unsent
    <3>3. \A e \in Dispatchers : Returns(e, n)' => Returns(e, n)
        BY <1>1, <1>6, <1>8, <2>4, <2>6, Zenon DEF Returns
    <3> QED
        BY <2>1, <2>2, <2>3, <3>1, <3>2, <3>3, Zenon
  <2> QED
      BY <2>5, <2>6, Zenon
<1> QED
    BY <1>0, <1>10, <1>12, <1>13, <1>14, <1>15, <1>16, Zenon DEF EInv

\* SettleSend: a delivery that may have been mailed is given a final outcome or left.
LEMMA SettleSendInv ==
    ASSUME EInv, NEW d \in Dispatchers, SettleSend(d)
    PROVE  EInv' /\ FinalsKept
<1>1. PICK p, group : p = emailPasses[d] /\ p.at = "settle" /\ group = p.group
    BY Zenon DEF SettleSend
<1>2. PICK q : q = Done(p) /\ PassSound(d, q) /\ q \in Pass /\ q.at = "work"
    BY <1>1, DoneSound, Zenon
<1>3. /\ emailPasses' = [emailPasses EXCEPT ![d] = q]
      /\ UNCHANGED <<guarantee, notices, keys, mail>>
    BY <1>1, <1>2, Zenon DEF SettleSend
<1>4. PICK records : records = Outcome(d) /\ Writes(records, 0)
    BY Zenon DEF SettleSend
<1>5. p.answer \in Answers /\ group \subseteq Candidate
    BY <1>1, MessageFacts, Zenon DEF MessageSound
<1>6. deliveries \in [Notices -> Delivery]
    BY Zenon DEF EInv, EmailTypes
<1>7. PICK counted : counted = {[c EXCEPT !.attempts = @ + 1] : c \in group}
    BY Zenon
<1>8. Ids(counted) \subseteq Ids(group)
  <2>1. \A c \in Candidate : [c EXCEPT !.attempts = @ + 1].id = c.id
      BY DEF Candidate
  <2>2. ASSUME NEW k \in counted PROVE k.id \in Ids(group)
    <3>1. PICK c \in group : k = [c EXCEPT !.attempts = @ + 1]
        BY <1>7, Zenon
    <3> QED
        BY <1>5, <2>1, <3>1, Zenon DEF Ids
  <2> QED
      BY <2>2, Zenon DEF Ids
<1>9. PICK statuses : /\ Releases(deliveries, records, d, Ids(group), statuses)
                      /\ p.answer = "unsent" \/ statuses \subseteq Final
  <2>1. ASSUME NEW status \in Final, records = Settled(deliveries, d, group, status)
        PROVE  \E statuses : /\ Releases(deliveries, records, d, Ids(group), statuses)
                             /\ statuses \subseteq Final
    <3>1. status \in Released
        BY <2>1, Zenon DEF Released
    <3>2. PICK statuses : statuses = {status}
        BY Zenon
    <3>3. Releases(deliveries, records, d, Ids(group), statuses)
        BY <1>6, <2>1, <3>1, <3>2, SettledReleases, Zenon
    <3>4. statuses \subseteq Final
        BY <2>1, <3>2, Zenon
    <3> QED
        BY <3>3, <3>4, Zenon
  <2>2. "SENT" \in Final /\ "FAILED" \in Final /\ "ABANDONED" \in Final
      BY Zenon DEF Final
  <2>3. CASE p.answer = "sent"
    <3>1. records = Settled(deliveries, d, group, "SENT")
        BY ONLY <1>1, <1>4, <2>3 DEF Outcome
    <3> QED
        BY <2>1, <2>2, <3>1, Zenon
  <2>4. CASE p.answer = "rejected"
    <3>1. records = Settled(deliveries, d, group, "FAILED")
        BY ONLY <1>1, <1>4, <2>4 DEF Outcome
    <3> QED
        BY <2>1, <2>2, <3>1, Zenon
  <2>5. CASE p.answer = "doubt"
    <3>1. records = Settled(deliveries, d, group, "ABANDONED") \/ records = deliveries
        BY ONLY <1>1, <1>4, <2>5 DEF Outcome
    <3>2. PICK none : /\ Releases(deliveries, deliveries, d, Ids(group), none)
                      /\ none \subseteq Final
        BY <1>6, ReleasesNone, Zenon
    <3> QED
        BY <2>1, <2>2, <3>1, <3>2, Zenon
  <2>6. CASE p.answer = "unsent"
    <3>1. records = Retried(deliveries, d, counted, FALSE)
        BY ONLY <1>1, <1>4, <1>7, <2>6 DEF Outcome
    <3>2. Releases(deliveries, records, d, Ids(counted), Released)
        BY <1>6, <3>1, RetriedReleases, Zenon
    <3>3. Releases(deliveries, records, d, Ids(group), Released)
        BY ONLY <1>8, <3>2, ReleasesMore
    <3> QED
        BY <2>6, <3>3, Zenon
  <2> QED
      BY <1>5, <2>3, <2>4, <2>5, <2>6, Zenon DEF Answers
<1>10. ASSUME guarantee = "AT_MOST_ONCE", p.answer = "unsent",
              NEW n \in Notices, n \in Ids(group), deliveries[n].owner = d
       PROVE  Unsent(n)
  <2>1. Returns(d, n)
      BY <1>1, <1>10, Zenon DEF Returns
  <2> QED
      BY <1>10, <2>1, Zenon DEF EInv, SentOnce
<1>11. PICK ids : ids = Ids(group)
    BY Zenon
<1> QED
    BY <1>2, <1>3, <1>4, <1>9, <1>10, <1>11, WritesInv, Zenon

(* Theorems *************************************************************)

\* Nothing is recorded, leased or mailed at first.
LEMMA EmailInitInv ==
    ASSUME EmailInit
    PROVE  EInv
<1>1. /\ guarantee \in Guarantees
      /\ \A n \in Notices : /\ notices[n] = "young" /\ deliveries[n] = Unrecorded
                            /\ mail[n] = << >>
      /\ \A d \in Dispatchers : emailPasses[d] = IdlePass /\ emailPasses[d].at = "idle"
      /\ keys = << >>
    BY IdleFacts, Zenon DEF EmailInit
<1>2. EmailTypes
  <2>1. keys \in Seq(SUBSET Notices) /\ << >> \in Seq(Nat)
      BY <1>1
  <2>2. /\ notices \in [Notices -> Active \cup {"read", "deleted"}]
        /\ deliveries \in [Notices -> Delivery] /\ emailPasses \in [Dispatchers -> Pass]
        /\ mail \in [Notices -> Seq(Nat)]
      BY <2>1, IdleFacts, UnrecordedFacts, Zenon DEF EmailInit, Active
  <2> QED
      BY <1>1, <2>1, <2>2, Zenon DEF EmailTypes
<1>3. \A n \in Notices : RecordSound(deliveries[n], n)
    BY <1>1, UnrecordedFacts, Zenon DEF RecordSound, Final
<1>4. \A d \in Dispatchers : PassSound(d, emailPasses[d])
    BY <1>1, Zenon DEF PassSound
<1>5. \A n \in Notices : Len(mail[n]) <= 1 /\ DOMAIN mail[n] = {}
    BY <1>1
<1>6. MailCovered
    BY <1>5, Zenon DEF MailCovered
<1>7. \A n \in Notices, d \in Dispatchers : ~Sends(d, n) /\ ~Returns(d, n)
    BY <1>1, Zenon DEF Sends, Returns
<1>8. SentOnce
    BY <1>1, <1>5, <1>7, Zenon DEF SentOnce, Unsent
<1> QED
    BY <1>2, <1>3, <1>4, <1>6, <1>8, Zenon DEF EInv

\* Every step keeps the invariant and the final outcomes.
LEMMA EmailNextInv ==
    ASSUME EInv, [EmailNext]_emailVars
    PROVE  EInv' /\ FinalsKept
<1>1. CASE UNCHANGED emailVars
  <2>1. /\ UNCHANGED <<guarantee, deliveries, emailPasses, keys, mail>> /\ notices' = notices
      BY <1>1, Zenon DEF emailVars
  <2>2. notices' \in [Notices -> Active \cup {"read", "deleted"}]
      BY <2>1, Zenon DEF EInv, EmailTypes
  <2> QED
      BY <2>1, <2>2, NoticesInv, Zenon
<1>2. ASSUME NEW d \in Dispatchers, PassStep(d) PROVE EInv' /\ FinalsKept
    BY <1>2, ClaimEmailsInv, SelectDueInv, ClaimedEmailsInv, ResolveDoubtInv, DeliverToInv,
       RecordSendingInv, SendEmailInv, SettleSendInv, PurgeInv, Zenon DEF PassStep
<1>3. ASSUME NEW d \in Dispatchers, Stop(d) \/ LeaseLapses(d) PROVE EInv' /\ FinalsKept
    BY <1>3, StopInv, LeaseLapsesInv, Zenon
<1>4. ASSUME NEW n \in Changing[guarantee], Deactivate(n) \/ DeleteNotice(n)
      PROVE  EInv' /\ FinalsKept
  <2>1. guarantee \in Guarantees
      BY Zenon DEF EInv, EmailTypes
  <2>2. Changing[guarantee] \subseteq Notices
      BY <2>1, EmailAssumption, Zenon
  <2> QED
      BY <1>4, <2>2, NoticeStepsInv, Zenon
<1>5. ASSUME NEW n \in Notices, Age(n) \/ RetryFallsDue(n) PROVE EInv' /\ FinalsKept
    BY <1>5, NoticeStepsInv, RetryFallsDueInv, Zenon
<1> QED
    BY <1>1, <1>2, <1>3, <1>4, <1>5, Zenon DEF EmailNext

\* The invariant of the dispatchers, whatever stops, lapses or is refused on the way.
THEOREM EmailInvariance == EmailSpec => []EInv
<1>1. EmailInit => EInv
    BY EmailInitInv, Zenon
<1>2. EInv /\ [EmailNext]_emailVars => EInv'
    BY EmailNextInv, Zenon
<1> QED
    BY <1>1, <1>2, PTL DEF EmailSpec

\* Under at most once nobody is mailed a notice twice, and under either guarantee a
\* message repeated under its key covers no notice the key was not made for: the
\* SENDING record before the send, the fenced writes and the abandonment of doubts.
THEOREM GuaranteesHold == EmailSpec => []GuaranteeKept
<1>1. EInv => GuaranteeKept
  <2> SUFFICES ASSUME EInv PROVE GuaranteeKept
      OBVIOUS
  <2>1. EmailedAtMostOnce
      BY Zenon DEF EInv, SentOnce, EmailedAtMostOnce
  <2>2. RepeatsCoverNoMore
      BY Zenon DEF EInv, MailCovered, Made, RepeatsCoverNoMore
  <2> QED
      BY <2>1, <2>2, Zenon DEF GuaranteeKept
<1> QED
    BY <1>1, EmailInvariance, PTL

\* An outcome recorded as final is never changed again, only removed with its notice:
\* a final record has no owner, so no fenced write reaches it, and no claim takes it.
THEOREM OutcomesStay == EmailSpec => OutcomesAreFinal
<1>1. EInv /\ [EmailNext]_emailVars =>
        [\A n \in Notices : deliveries[n].status \in Final =>
            \/ deliveries'[n] = deliveries[n]
            \/ notices[n] = "deleted" /\ deliveries'[n] = Unrecorded]_emailVars
    BY EmailNextInv, Zenon DEF FinalsKept
<1> QED
    BY <1>1, EmailInvariance, PTL DEF EmailSpec, OutcomesAreFinal
=============================================================================
