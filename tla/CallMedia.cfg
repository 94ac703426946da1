SPECIFICATION FairSpec
CONSTANTS
    Calls = {1, 2}
    None = None
    MaxTasks = 2
    MaxAsked = 2
    Environments <- MCEnvironments
    MaxReports = 1
INVARIANTS OneMediaOwner
PROPERTIES MediaEndsWithCall  RecorderStops SessionSettles LegEndsWithCall DialledCallEnds
CHECK_DEADLOCK FALSE
