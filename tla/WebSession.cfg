SPECIFICATION FairSpec
CONSTANTS
    MaxPeers = 2
    MicCap = 2
    MaxHolds = 1
    Environments <- MCEnvironments
INVARIANTS HeldSilence OldPeerSilent
PROPERTIES AnswerSettles PeerHeard
CHECK_DEADLOCK FALSE
