SPECIFICATION FairSpec
CONSTANTS
    p1 = p1
    p2 = p2
    i1 = i1
    Peers = {p1, p2}
    SlowPeers = {p2}
    Ingress = {i1}
    Commands <- MonitorMessages
    Depths = {0, 2}
    MaxVideo = 2
    MaxAudio = 1
    MaxCommands = 1
INVARIANTS
    TypeOK
    SubscribersServed
    StreamsExact
PROPERTIES
    QuietAfterClose
    WritersEnd
