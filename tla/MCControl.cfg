CONSTANTS
    MaxIds = 2
    Limit = 2
    MaxFrames = 2
    MaxVersion = 3
    MaxFaults = 1
    PeerFrames <- MCPeerFrames
SPECIFICATION Spec
INVARIANTS
    NeverFatal
    RequestsAreAnswered
PROPERTIES
    SubscriberStream
    QuitIsAnsweredFirst
    SubscriberConverges
    QuitCompletes
CHECK_DEADLOCK FALSE
