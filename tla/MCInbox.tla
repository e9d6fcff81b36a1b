------------------------------- MODULE MCInbox -------------------------------
(* An instance for TLC of the two lists a user reads: tasks and notices. *)
EXTENDS Inbox, MCNoticeInbox, TLC

CONSTANTS alice, bob, leads

MCActors == {alice, bob}
MCGroups == {leads}
MCMembers == (leads :> {alice})

Pool(users, groups, excluded) == [users |-> users, groups |-> groups, excluded |-> excluded]

Widen == [action |-> "WIDEN", addUsers |-> {alice}, addGroups |-> {leads},
          exemptInProgress |-> FALSE, maxEscalations |-> 1]

\* Equal due dates and equal priorities, so that each term of a key decides.
MCTemplates ==
    {[pool |-> Pool({alice, bob}, {}, {}), policy |-> Widen, dueAt |-> Never, priority |-> 1,
      creator |-> bob],
     [pool |-> Pool({bob}, {leads}, {}), policy |-> Widen, dueAt |-> 5, priority |-> 1,
      creator |-> bob],
     [pool |-> Pool({alice}, {}, {bob}), policy |-> Widen, dueAt |-> 5, priority |-> 2,
      creator |-> alice]}

Request(candidate, assignee, orderBy, descending) ==
    [candidate |-> candidate, assignee |-> assignee, statuses |-> {}, group |-> NULL,
     orderBy |-> orderBy, descending |-> descending, limit |-> 1]

MCRequests ==
    {Request(Me, Nobody, "due", FALSE),
     Request(Me, Nobody, "urgency", TRUE),
     Request(Nobody, bob, "created", TRUE),
     [Request(Nobody, Nobody, "priority", FALSE) EXCEPT !.group = leads, !.limit = 9],
     [Request(Nobody, Me, "due", TRUE) EXCEPT !.statuses = {"READY", "RESERVED"}, !.limit = 0]}

\* The lists share no state, so each behaviour is one of them: the first step
\* decides which.
TasksUntouched == rows = << >> /\ changes = 0 /\ walk.at = "idle"
NoticesUntouched == published = 0 /\ closes = 0 /\ clock = 1 /\ reading.at = "idle"

InboxesInit == InboxInit /\ NoticeInboxInit

InboxesNext ==
    \/ NoticesUntouched /\ InboxNext /\ UNCHANGED noticeInboxVars
    \/ TasksUntouched /\ NoticeInboxNext /\ UNCHANGED inboxVars

InboxesSpec == InboxesInit /\ [][InboxesNext]_<<inboxVars, noticeInboxVars>>
=============================================================================
