------------------------- MODULE MCTaskNotifications -------------------------
(* TaskNotifications, instantiated for TLC. *)
EXTENDS TaskNotifications, TLC

CONSTANTS alice, bob, carol, leads

\* The task is pooled for alice and bob; escalation adds the group carol is in.
MCActors == {alice, bob, carol}
MCMembers == (leads :> {carol})
MCPools == {[users |-> {alice, bob}, groups |-> {}, excluded |-> {}]}
MCPolicies == {[action |-> "WIDEN", addUsers |-> {}, addGroups |-> {leads},
                exemptInProgress |-> FALSE, maxEscalations |-> 0]}

Symmetry == Permutations({alice, bob}) \cup Permutations(Projections)
=============================================================================
