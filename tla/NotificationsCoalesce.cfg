SPECIFICATION NotificationsSpec
CONSTANTS
    alice = alice
    bob = bob
    carol = carol
    leads = leads
    Actors <- MCActors
    Groups = {leads}
    Members <- MCMembers
    Pools <- MCPools
    Policies <- MCPolicies
    Requesters = {alice, bob}
    Nobody = Nobody
    Never = Never
    Sweepers = {s1}
    Projections = {p1}
    Batch = 2
    MaxVersion = 4
    MaxRead = 0
    MaxPruned = 0
SYMMETRY Symmetry
INVARIANTS
    EscalationOffersMade
CHECK_DEADLOCK FALSE
