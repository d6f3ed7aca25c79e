SPECIFICATION Spec
CONSTANTS
    p1 = p1
    p2 = p2
    i1 = i1
    Peers = {p1}
    SlowPeers = {p1}
    Ingress = {i1}
    Commands <- SubscribeVideo
    Depths = {1}
    MaxVideo = 2
    MaxAudio = 1
    MaxCommands = 1
INVARIANTS
    StreamsFramed
