\* One phone or AT modem with web, SIP, voicemail and the recorder; commands may fail, the server restarts.
CONSTANTS
    None = None
    CallIDs = {c1, c2}
    Gateways = {g1}
    Voicemail = TRUE
    Modems = {"at", "android"}
    Faults = TRUE
    Recorder = TRUE
    LateNumbers = TRUE
    MaxCommands = 2
    MaxLegs = 1
    MaxRepeats = 1
    MaxQueue = 1
    MaxRestarts = 1
SYMMETRY Symmetry
SPECIFICATION Spec
INVARIANTS ClaimedBeforeAnswer
PROPERTIES TerminalIsFinal OneOwner
CHECK_DEADLOCK FALSE
