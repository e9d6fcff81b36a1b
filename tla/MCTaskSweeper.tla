---------------------------- MODULE MCTaskSweeper ----------------------------
(* Instances of the service with its sweepers for TLC. *)
EXTENDS TaskSweeper, TLC

CONSTANTS alice

MCMembers == [g \in {} |-> {}]
MCPools == {[users |-> {alice}, groups |-> {}, excluded |-> {}]}

Widen(exempt, max) ==
    [action |-> "WIDEN", addUsers |-> {}, addGroups |-> {},
     exemptInProgress |-> exempt, maxEscalations |-> max]
Supersede ==
    [action |-> "SUPERSEDE", addUsers |-> {}, addGroups |-> {},
     exemptInProgress |-> FALSE, maxEscalations |-> 0]

CappedPolicies == {Widen(TRUE, 2), Supersede}
Symmetry == Permutations(Sweepers)
=============================================================================
