SPECIFICATION Spec
CONSTANTS
    alice = alice
    bob = bob
    carol = carol
    leads = leads
    Actors <- MCActors
    Groups <- MCGroups
    Members <- MCMembers
    Pools <- MCPools
    Policies <- MCPolicies
    DueDates <- MCDueDates
    Nobody = Nobody
    Never = Never
    Sweepers = {}
    TaskIDs = {t1}
    Clients = {c1, c2}
    Requesters = {alice, bob}
    MaxVersion = 5
SYMMETRY Symmetry
INVARIANTS
    NoLostSave
    HolderFollowsStatus
    ExcludedNeverHolds
    RecordsTellTheStory
PROPERTIES
    ImplementsLifecycle
CHECK_DEADLOCK FALSE
