SPECIFICATION Spec
CONSTANTS
    c1 = c1
    c2 = c2
    k1 = k1
    k2 = k2
    Clients = {c1, c2}
    Keys = {k1}
    NoOwner = NoOwner
    Acceptor = Acceptor
    Sink = Sink
    Uses <- UsesAll
    Slow = {}
    MaxRequests = 1
    MaxStarts = 1
INVARIANTS
    ClientsAgree
