SPECIFICATION StoresSpec
CONSTANTS
    TaskIDs = {t1}
    Pools = {p1, p2}
    Scopes = {s1, s2}
    MaxVersion = 2
    Recipients = {1, 2}
    RecipientOf <- MCRecipientOf
    Passes = {i1, i2}
    MaxPerRecipient = 1
    Batch = 1
    Aging = {1}
    Backends = {"postgres", "mysql", "sqlite"}
    Records <- MCRecords
    MaxRows = 2
SYMMETRY StoresSymmetry
INVARIANTS
    ScopesSeeOneVersion
    PassKeepsPromises
    RowsAreFaithful
PROPERTIES
    ImplementsPort
    LonePassKeepsBound
