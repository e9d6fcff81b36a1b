SPECIFICATION EmailSpec
CONSTANTS
    NoticeCount = 2
    alice = alice
    d1 = d1
    d2 = d2
    NoOwner = NoOwner
    Recipients = {alice}
    RecipientOf <- MCRecipientOf
    Dispatchers = {d1, d2}
    BatchLimit <- MCBatchLimit
    ClaimLimit = 2
    MaxEmailAttempts = 2
    MaxTries = 2
    Changing <- MCChanging
    MaxEmailFaults <- MCMaxEmailFaults
INVARIANTS
    GuaranteeKept
PROPERTIES
    OutcomesAreFinal
CHECK_DEADLOCK FALSE
