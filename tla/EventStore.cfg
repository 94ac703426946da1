\* Two calls, two messages, a rule, a recording, the settings and the device, with restarts anywhere.
CONSTANTS
    None = None
    CallIDs = {c1, c2}
    MessageIDs = {m1, m2}
    RuleIDs = {r1}
    RecordingIDs = {rec1}
    Numbers = {"n1"}
    CallStates = {"active", "ended"}
    Secrets = {"s1", "s2"}
    URLs = {}
    Modes = {"starting"}
    GatewayTypes = {"", "android"}
    Percents = {1}
    MaxEvents = 4
    MaxClock = 6
SYMMETRY Symmetry
SPECIFICATION Spec
INVARIANTS RowsProjected ActiveProjected ConversationsExact SecretPreserved
PROPERTIES DurableRecordsImplemented
