SPECIFICATION HostsSpec
CONSTANTS
    TaskIDs = {t1}
    Requests = {p, q}
    Commands = {c}
    NoCommand = NoCommand
    MaxVersion = 3
    MaxAttempts = 2
    TypeNames = {"order", "form"}
    Specs <- MCSpecs
    Definers = {d1, d2}
    GoTypes <- MCGoTypes
    Documents <- MCDocuments
    Patches <- MCPatches
    PayloadIDs = {1}
    Depth = 3
    TablePrefixes = {"", "app_"}
    Tables <- MCTables
    Columns <- MCColumns
    IdentifierColumns <- MCIdentifierColumns
    Indexes <- MCIndexes
    IndexedColumns <- MCIndexedColumns
    References <- MCReferences
    Migrators = {m1, m2}
    Verifiers = {v1}
SYMMETRY HostsSymmetry
INVARIANTS
    
    DeliveredExactly
    ResentAppliesOnce
    AnswersTrue
    TypesHold
    
    
    
CHECK_DEADLOCK FALSE
