SPECIFICATION NotificationsSpec
CONSTANTS
    alice = alice
    bob = bob
    carol = carol
    leads = leads
    Actors <- MCActors
    Groups = {leads}
    Members <- MCMembers
    Pools <- MCPools
    Policies <- MCPolicies
    Requesters = {alice, bob}
    Nobody = Nobody
    Never = Never
    Sweepers = {s1}
    Projections = {p1, p2}
    Batch = 2
    MaxVersion = 3
    MaxRead = 1
    MaxPruned = 1
SYMMETRY Symmetry
INVARIANTS
    NoticesTellTruth
    NoticesMadeOnce
PROPERTIES
    LateNeverReopens
CHECK_DEADLOCK FALSE
