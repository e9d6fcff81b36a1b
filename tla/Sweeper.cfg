SPECIFICATION SweeperSpec
CONSTANTS
    alice = alice
    Actors = {alice}
    Groups = {}
    Members <- MCMembers
    Pools <- MCPools
    Policies <- CappedPolicies
    DueDates = {1}
    Nobody = Nobody
    Never = Never
    Sweepers = {s1, s2}
    Requesters = {alice}
    TaskIDs = {t1}
    Clients = {c1}
    MaxVersion = 4
    LeaseDuration = 2
    Batch = 1
    Delay = 1
    MaxClock = 4
SYMMETRY Symmetry
INVARIANTS
    SweepersKeptApart
    SweepsObeyPolicy
CHECK_DEADLOCK FALSE
