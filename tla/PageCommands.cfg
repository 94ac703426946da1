\* A channel with room for two events, sockets that close, fetches that fail, a command that is repeated.
CONSTANTS
    QueueCap = 2
    Ordered = TRUE
    MaxVersion = 4
    MaxFetches = 3
    MaxFailures = 2
    MaxSends = 3
    Environments <- MCEnvironments
SPECIFICATION AllFairSpec
INVARIANTS  CommandOnce
PROPERTIES CatchesUp
CHECK_DEADLOCK FALSE
