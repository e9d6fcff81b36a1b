SPECIFICATION InboxesSpec
CONSTANTS
    alice = alice
    bob = bob
    leads = leads
    Actors <- MCActors
    Groups <- MCGroups
    Members <- MCMembers
    Nobody = Nobody
    Never = Never
    Sweepers = {}
    TaskIDs = {1, 2, 3}
    Templates <- MCTemplates
    Readers = {alice, bob, Nobody}
    Supervisors = {bob}
    Requests <- MCRequests
    NULL = NULL
    Me = Me
    MaxChanges = 2
    DefaultQueryLimit = 1
    MaxQueryLimit = 2
    ann = ann
    ben = ben
    Recipients = {ann, ben}
    NoOne = NoOne
    Subjects = {1, 2}
    Kinds = {"offer", "taken"}
    Publishes <- MCPublishes
    CloseRequests <- MCCloseRequests
    ListQueries <- MCListQueries
    p1 = p1
    p2 = p2
    Publishers = {p1, p2}
    MaxPublishes = 2
    MaxCloses = 1
    MaxMarks = 1
    MaxClock = 2
INVARIANTS
    
    PagesExact
    ListingMatchesRules
    NoticesOnce
PROPERTIES
    WrittenAsInMemory
SYMMETRY PublisherSymmetry
CHECK_DEADLOCK FALSE
