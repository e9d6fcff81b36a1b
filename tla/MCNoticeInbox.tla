---------------------------- MODULE MCNoticeInbox ----------------------------
(* An instance of the notification inbox for TLC. *)
EXTENDS NoticeInbox, TLC

CONSTANTS ann, ben, p1, p2

\* No state tells the publishers apart but by what they are doing.
PublisherSymmetry == Permutations(Publishers)

Draft(recipient, subject, source, version, coalesce) ==
    [recipient |-> recipient, subject |-> subject, source |-> source, version |-> version,
     kind |-> "offer", coalesce |-> coalesce]

\* The same source on two subjects, a publish of two subjects, and one that
\* coalesces with what another may be writing.
MCPublishes ==
    {{Draft(ann, 1, "a", 1, FALSE), Draft(ben, 1, "a", 1, FALSE)},
     {Draft(ann, 1, "b", 2, TRUE), Draft(ann, 2, "a", 1, FALSE)}}

MCCloseRequests ==
    {[subject |-> 1, kinds |-> {"offer"}, version |-> 1, except |-> NoOne,
      successor |-> "taken", source |-> "c", skip |-> {ben}],
     [subject |-> 1, kinds |-> {}, version |-> 2, except |-> ben,
      successor |-> "taken", source |-> "d", skip |-> {}]}

MCListQueries ==
    {[recipient |-> ann, states |-> {}, subject |-> 0, limit |-> 1],
     [recipient |-> ann, states |-> {"ACTIVE"}, subject |-> 1, limit |-> 2]}
=============================================================================
