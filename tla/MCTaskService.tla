---------------------------- MODULE MCTaskService ----------------------------
(* Instances of the service for TLC. *)
EXTENDS TaskService, TLC

CONSTANTS alice, bob, carol, leads

\* alice and bob may take the task; carol is in a candidate group but excluded.
MCActors == {alice, bob, carol}
MCGroups == {leads}
MCMembers == (leads :> {bob, carol})
MCPools == {[users |-> {alice}, groups |-> {leads}, excluded |-> {carol}]}

Widen == [action |-> "WIDEN", addUsers |-> {carol}, addGroups |-> {},
          exemptInProgress |-> FALSE, maxEscalations |-> 1]
Supersede == [action |-> "SUPERSEDE", addUsers |-> {}, addGroups |-> {},
              exemptInProgress |-> FALSE, maxEscalations |-> 0]
MCPolicies == {Widen, Supersede}
MCDueDates == {Never}

Symmetry == Permutations(Clients)
=============================================================================
