SPECIFICATION FairSpec
CONSTANTS
    c1 = c1
    c2 = c2
    k1 = k1
    k2 = k2
    Clients = {c1, c2}
    Keys = {k1, k2}
    NoOwner = NoOwner
    Acceptor = Acceptor
    Sink = Sink
    Uses <- UsesMixed
    Slow = {c2}
    MaxRequests = 2
    MaxStarts = 1
INVARIANTS
    TypeOK
    BroadcastsConverge
PROPERTIES
    RegistryImplemented
    StopTerminates
