\* Two callers and three links.
CONSTANTS
    Requests = {r1, r2}
    MaxLinks = 3
SPECIFICATION LinkFairSpec
INVARIANTS WaiterIsServed OkMeansExecuted
PROPERTIES RequestsReturn
CHECK_DEADLOCK FALSE
