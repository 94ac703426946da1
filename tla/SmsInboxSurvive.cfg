\* One phone whose inbox fits in the sync; its buffer overflows, the channel does not.
CONSTANTS
    Gateways = {g1}
    SyncLimit = 3
    BufferLimit = 1
    QueueCap = 20
    MaxSms = 3
    MaxFailures = 3
SPECIFICATION FairSpec
INVARIANTS  NoDuplicate
 
CHECK_DEADLOCK FALSE
