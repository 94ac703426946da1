\* An SMS of one to three parts; reports may be lost, the server restarts.
CONSTANTS
    None = None
    MessageIDs = {m1}
    MaxParts = 3
    Lossy = TRUE
    MaxDeletes = 2
    MaxRestarts = 1
SPECIFICATION Spec
INVARIANTS SendSettles
PROPERTIES  DeletedStays
CHECK_DEADLOCK FALSE
