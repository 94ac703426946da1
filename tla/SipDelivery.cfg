\* One message, the user and restarts.
CONSTANTS
    None = None
    MessageIDs = {m1}
    Expiry = 2
    ArriveBy = 0
    MaxTime = 3
    MaxDeletes = 1
    MaxRestarts = 1
SPECIFICATION DeliveryFairSpec
INVARIANTS MemoryDurable DeliveredWasAccepted
PROPERTIES DeliverySettles
CHECK_DEADLOCK FALSE
