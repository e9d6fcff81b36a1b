SPECIFICATION RelaySpec
CONSTANTS
    Events = {1, 2}
    Sinks <- MCSinks
    Relays = {r1, r2}
    Batch = 2
    MaxAttempts = 3
    Overrun = FALSE
    MaxFaults = 1
INVARIANTS
    OutboxTellsTakes
PROPERTIES
    
    EventuallySettled
CHECK_DEADLOCK FALSE
