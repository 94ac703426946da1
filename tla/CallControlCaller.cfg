\* An AT modem that gets two calls, and no operation.
CONSTANTS
    None = None
    CallIDs = {c1, c2}
    Gateways = {g1}
    Voicemail = FALSE
    Modems = {"at"}
    Faults = FALSE
    Recorder = FALSE
    LateNumbers = TRUE
    MaxCommands = 0
    MaxLegs = 2
    MaxRepeats = 0
    MaxQueue = 2
    MaxRestarts = 0
SYMMETRY Symmetry
SPECIFICATION Spec
INVARIANTS CallerShown
CHECK_DEADLOCK FALSE
