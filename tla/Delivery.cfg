SPECIFICATION FairSpec
CONSTANTS
    Items = {w1}
    People = {u1, u2}
    MaxAttempts = 2
    MaxClicks = 2
    MaxFaults = 3
INVARIANTS
    DeliveredOnFirstDecision
    AskedOnce
PROPERTIES
    ApprovalDelivers
    EveryMarkerIsAnnounced
CHECK_DEADLOCK FALSE
