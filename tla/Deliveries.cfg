SPECIFICATION DeliveriesSpec
CONSTANTS
    Events = {1}
    Sinks <- MCSinks
    Relays = {r1}
    Batch = 1
    MaxAttempts = 2
    Overrun = FALSE
    MaxFaults = 1
    Addresses <- MCAddresses
    Statuses <- MCStatuses
    MaxOutages = 1
    Orders = {1}
    Couriers = {c1, c2}
    Suppliers = {s1}
    Forms = {f1}
    Pages = {p1}
    MaxFailures = 1
SYMMETRY DeliveriesSymmetry
INVARIANTS
    
    JudgedRightly
    NoOrderStranded
    OrdersFollowDecisions
PROPERTIES
    PageNeverBehind
CHECK_DEADLOCK FALSE
